-------------------------- MODULE SequenceClockProof --------------------------
(***************************************************************************)
(* Theorems about the passes of a satellite and the clock that plays them, *)
(* for any sky, link model, speed and steps of the search.  The search     *)
(* halves intervals and looks for one pass after another: each recursion   *)
(* has a fixed point because an interval gets shorter, or the instant      *)
(* searched from later, and what it yields follows by taking a least       *)
(* counterexample.                                                         *)
(***************************************************************************)
EXTENDS SequenceClock, TLAPS, WellFoundedInduction

-----------------------------------------------------------------------------
(* Numbers *)

\* A non-empty set of numbers has a least element, and Min is it.
LEMMA LeastOf ==
  ASSUME NEW T \in SUBSET Nat, T # {}
  PROVE  Min(T) \in T /\ \A m \in T : Min(T) <= m
<1> DEFINE R == {mn \in Nat \X Nat : mn[1] < mn[2]}
<1>1. IsWellFoundedOn(R, Nat)
  <2>1. OpToRel(<, Nat) = R
    BY DEF OpToRel
  <2> QED
    BY <2>1, NatLessThanWellFounded, Zenon
<1> HIDE DEF R
<1>2. PICK n \in T : \A m \in T : ~(<<m, n>> \in R)
  BY <1>1, WFMin
<1>3. \A i, j \in Nat : <<i, j>> \in R <=> i < j
  BY DEF R
<1>4. n \in Nat /\ \A m \in T : m \in Nat
  OBVIOUS
<1>5. \A m \in T : ~(m < n)
  BY <1>2, <1>3, <1>4
<1>6. \A m \in T : n <= m
  BY <1>4, <1>5
<1> QED
  BY <1>6 DEF Min

\* One that has a bound has a greatest element, and Max is it.
LEMMA GreatestOf ==
  ASSUME NEW T \in SUBSET Int, T # {}, NEW bound \in Int, \A m \in T : m <= bound
  PROVE  Max(T) \in T /\ \A m \in T : m <= Max(T)
<1> DEFINE below == {n \in Nat : bound - n \in T}
<1>1. below # {}
  <2>1. PICK m \in T : TRUE
    OBVIOUS
  <2>2. bound - m \in Nat /\ bound - (bound - m) = m
    OBVIOUS
  <2> QED
    BY <2>1, <2>2
<1>2. Min(below) \in below /\ \A m \in below : Min(below) <= m
  BY <1>1, LeastOf
<1> DEFINE x == bound - Min(below)
<1>3. x \in T
  BY <1>2
<1>4. ASSUME NEW m \in T
      PROVE  x >= m
  <2>1. bound - m \in Nat /\ bound - (bound - m) = m
    OBVIOUS
  <2>2. Min(below) \in Nat /\ Min(below) <= bound - m
    BY <1>2, <2>1
  <2> QED
    BY <2>2
<1> HIDE DEF x
<1>5. \E y \in T : \A m \in T : y >= m
  BY <1>3, <1>4
<1>6. Max(T) \in T /\ \A m \in T : Max(T) >= m
  BY <1>5 DEF Max
<1> QED
  BY <1>6

-----------------------------------------------------------------------------
(* Halving an interval *)

Square(from, to) == (from .. to) \X (from .. to)

\* One step of the halving, if narrow is right about shorter intervals.
Halve(sky, narrow, p) ==
  IF p[2] - p[1] <= Fine THEN [before |-> p[1], after |-> p[2]]
  ELSE LET mid == p[1] + (p[2] - p[1]) \div 2 IN
       IF Up(sky, mid) = Up(sky, p[1]) THEN narrow[<<mid, p[2]>>] ELSE narrow[<<p[1], mid>>]

\* The middle of an interval that is still too long is inside it.
LEMMA Middle ==
  ASSUME NEW from \in Int, NEW to \in Int, NEW p \in Square(from, to), p[2] - p[1] > Fine
  PROVE  LET mid == p[1] + (p[2] - p[1]) \div 2 IN
         /\ mid \in Int /\ p[1] < mid /\ mid < p[2]
         /\ <<mid, p[2]>> \in Square(from, to) /\ <<p[1], mid>> \in Square(from, to)
<1>1. p[1] \in from .. to /\ p[2] \in from .. to /\ p[1] \in Int /\ p[2] \in Int
  BY DEF Square
<1>2. Fine \in Nat \ {0}
  BY PredictionAssumption
<1> DEFINE half == (p[2] - p[1]) \div 2
<1>3. half \in Int /\ 0 < half /\ half < p[2] - p[1]
  BY <1>1, <1>2
<1> HIDE DEF half
<1>4. p[1] + half \in from .. to /\ p[1] < p[1] + half /\ p[1] + half < p[2]
  BY <1>1, <1>3
<1> QED
  BY <1>1, <1>4 DEF half, Square

\* The halving is well defined: its recursion has a fixed point.
LEMMA NarrowDefined ==
  ASSUME NEW sky, NEW from \in Int, NEW to \in Int
  PROVE  \E narrow : narrow = [p \in Square(from, to) |-> Halve(sky, narrow, p)]
<1> DEFINE S == Square(from, to)
           Good(g, n) == \A p \in S : p[2] - p[1] < n => g[p] = Halve(sky, g, p)
           Bad == {n \in Nat : ~ \E g : g = [p \in S |-> g[p]] /\ Good(g, n)}
<1>1. \A p \in S : p[1] \in Int /\ p[2] \in Int /\ p[1] \in from .. to /\ p[2] \in from .. to
  BY DEF Square
<1>2. ASSUME NEW n \in Nat, NEW g, g = [p \in S |-> g[p]], Good(g, n)
      PROVE  \E h : h = [p \in S |-> h[p]] /\ Good(h, n + 1)
  <2> DEFINE h == [p \in S |-> IF p[2] - p[1] < n THEN g[p] ELSE Halve(sky, g, p)]
  <2>1. h = [p \in S |-> h[p]]
    OBVIOUS
  <2>2. ASSUME NEW p \in S, p[2] - p[1] < n + 1
        PROVE  h[p] = Halve(sky, h, p)
    <3>1. h[p] = Halve(sky, g, p)
      <4>1. p[2] - p[1] < n => g[p] = Halve(sky, g, p)
        BY <1>2
      <4> QED
        BY <4>1
    <3>2. Halve(sky, g, p) = Halve(sky, h, p)
      <4>1. CASE p[2] - p[1] <= Fine
        BY <4>1 DEF Halve
      <4>2. CASE ~(p[2] - p[1] <= Fine)
        <5> DEFINE mid == p[1] + (p[2] - p[1]) \div 2
        <5>0. Fine \in Nat
          BY PredictionAssumption
        <5>1. /\ mid \in Int /\ p[1] < mid /\ mid < p[2]
              /\ <<mid, p[2]>> \in S /\ <<p[1], mid>> \in S
          BY <1>1, <4>2, <5>0, Middle
        <5>2. p[2] - mid < n /\ mid - p[1] < n
          BY <1>1, <2>2, <5>1
        <5>3. h[<<mid, p[2]>>] = g[<<mid, p[2]>>] /\ h[<<p[1], mid>>] = g[<<p[1], mid>>]
          BY <5>1, <5>2
        <5> HIDE DEF h
        <5> QED
          BY <4>2, <5>3 DEF Halve
      <4> QED
        BY <4>1, <4>2
    <3> QED
      BY <3>1, <3>2
  <2> HIDE DEF h
  <2> QED
    BY <2>1, <2>2
<1>3. Bad = {}
  <2> SUFFICES ASSUME Bad # {}
               PROVE  FALSE
    OBVIOUS
  <2> DEFINE n == Min(Bad)
  <2>1. n \in Bad /\ \A m \in Bad : n <= m
    BY LeastOf
  <2> HIDE DEF n
  <2>2. CASE n = 0
    <3> DEFINE g == [p \in S |-> IF p[2] - p[1] <= Fine THEN [before |-> p[1], after |-> p[2]]
                                 ELSE [before |-> 0, after |-> 0]]
    <3> DEFINE g0 == [p \in S |-> Halve(sky, g, p)]
    <3>1. \A p \in S : p[2] - p[1] < 0 => g0[p] = Halve(sky, g0, p)
      <4> SUFFICES ASSUME NEW p \in S, p[2] - p[1] < 0
                   PROVE  g0[p] = Halve(sky, g0, p)
        OBVIOUS
      <4>1. p[2] - p[1] <= Fine
        BY <1>1, PredictionAssumption
      <4> QED
        BY <4>1 DEF Halve
    <3>2. g0 = [p \in S |-> g0[p]]
      OBVIOUS
    <3> HIDE DEF g0
    <3> QED
      BY <2>1, <2>2, <3>1, <3>2
  <2>3. CASE n # 0
    <3>1. n - 1 \in Nat /\ n - 1 \notin Bad
      BY <2>1, <2>3
    <3>2. PICK g : g = [p \in S |-> g[p]] /\ Good(g, n - 1)
      BY <3>1
    <3>3. \E h : h = [p \in S |-> h[p]] /\ Good(h, n - 1 + 1)
      BY <1>2, <3>1, <3>2
    <3> QED
      BY <2>1, <3>3
  <2> QED
    BY <2>2, <2>3
<1>4. PICK n \in Nat : n > to - from
  <2>1. IF to - from < 0 THEN 0 > to - from ELSE to - from + 1 \in Nat /\ to - from + 1 > to - from
    OBVIOUS
  <2> QED
    BY <2>1
<1>5. PICK g : g = [p \in S |-> g[p]] /\ Good(g, n)
  BY <1>3
<1>6. \A p \in S : g[p] = Halve(sky, g, p)
  BY <1>1, <1>4, <1>5
<1>7. g = [p \in S |-> Halve(sky, g, p)]
  <2>1. [p \in S |-> g[p]] = [p \in S |-> Halve(sky, g, p)]
    BY <1>6
  <2> QED
    BY <1>5, <2>1
<1> QED
  BY <1>7

\* Of an interval whose ends differ in visibility, two instants of it remain, at
\* most Fine apart, that differ in the same way.
LEMMA NarrowFacts ==
  ASSUME NEW sky, NEW from \in Int, NEW to \in Int, from < to, Up(sky, from) # Up(sky, to)
  PROVE  LET r == Narrow(sky, from, to) IN
         /\ r.before \in from .. to /\ r.after \in from .. to
         /\ r.before < r.after /\ r.after <= r.before + Fine
         /\ Up(sky, r.before) = Up(sky, from) /\ Up(sky, r.after) = Up(sky, to)
<1> DEFINE S == Square(from, to)
<1>0. Fine \in Nat /\ Fine > 0
  BY PredictionAssumption
<1>1. PICK narrow : /\ narrow = [p \in S |-> Halve(sky, narrow, p)]
                    /\ Narrow(sky, from, to) = narrow[<<from, to>>]
  <2>1. PICK g : g = [p \in S |-> Halve(sky, g, p)]
    BY NarrowDefined
  <2> QED
    BY <2>1 DEF Narrow, Halve, Square
<1>2. \A p \in S : narrow[p] = Halve(sky, narrow, p)
  BY <1>1
<1> DEFINE Crosses(p) == p[1] < p[2] /\ Up(sky, p[1]) # Up(sky, p[2])
           Right(p) == LET r == narrow[p] IN
             /\ r.before \in p[1] .. p[2] /\ r.after \in p[1] .. p[2]
             /\ r.before < r.after /\ r.after <= r.before + Fine
             /\ Up(sky, r.before) = Up(sky, p[1]) /\ Up(sky, r.after) = Up(sky, p[2])
           Wrong == {n \in Nat : \E p \in S : Crosses(p) /\ n = p[2] - p[1] /\ ~Right(p)}
<1>3. \A p \in S : p[1] \in Int /\ p[2] \in Int
  BY DEF Square
<1>4. Wrong = {}
  <2> SUFFICES ASSUME Wrong # {}
               PROVE  FALSE
    OBVIOUS
  <2>1. PICK n \in Wrong : \A m \in Wrong : n <= m
    BY LeastOf
  <2>2. PICK p \in S : Crosses(p) /\ n = p[2] - p[1] /\ ~Right(p)
    BY <2>1
  <2>9. \A m \in Wrong : n <= m
    BY <2>1
  <2>3. CASE p[2] - p[1] <= Fine
    <3>1. narrow[p] = [before |-> p[1], after |-> p[2]]
      BY <1>2, <2>3 DEF Halve
    <3>2. narrow[p].before = p[1] /\ narrow[p].after = p[2]
      BY <3>1
    <3> QED
      BY <1>0, <1>3, <2>2, <2>3, <3>2
  <2>4. CASE ~(p[2] - p[1] <= Fine)
    <3> DEFINE mid == p[1] + (p[2] - p[1]) \div 2
    <3>0. p[2] - p[1] > Fine
      BY <1>0, <1>3, <2>4
    <3>1. /\ mid \in Int /\ p[1] < mid /\ mid < p[2]
          /\ <<mid, p[2]>> \in S /\ <<p[1], mid>> \in S
      BY <3>0, Middle, Zenon
    <3>2. narrow[p] = IF Up(sky, mid) = Up(sky, p[1]) THEN narrow[<<mid, p[2]>>]
                      ELSE narrow[<<p[1], mid>>]
      BY <1>2, <2>4 DEF Halve
    <3>3. \A q \in S : Crosses(q) /\ q[2] - q[1] < n => Right(q)
      <4> SUFFICES ASSUME NEW q \in S, Crosses(q), q[2] - q[1] < n, ~Right(q)
                   PROVE  FALSE
        OBVIOUS
      <4>1. q[2] - q[1] \in Nat
        BY <1>3
      <4>2. q[2] - q[1] \in Wrong
        BY <4>1
      <4>3. n <= q[2] - q[1]
        BY <2>9, <4>2
      <4>4. n \in Nat /\ q[2] - q[1] < n
        OBVIOUS
      <4> QED
        BY <4>1, <4>3, <4>4
    <3> HIDE DEF mid
    <3>4. Up(sky, mid) \in BOOLEAN /\ Up(sky, p[1]) \in BOOLEAN /\ Up(sky, p[2]) \in BOOLEAN
      BY DEF Up
    <3>5. CASE Up(sky, mid) = Up(sky, p[1])
      <4> DEFINE q == <<mid, p[2]>>
      <4>1. q \in S /\ Crosses(q) /\ q[2] - q[1] < n
        BY <1>3, <2>2, <3>1, <3>5
      <4>2. Right(q) /\ narrow[p] = narrow[q] /\ q[1] = mid /\ q[2] = p[2]
        BY <3>2, <3>3, <3>5, <4>1
      <4> HIDE DEF q
      <4> QED
        BY <1>3, <2>2, <3>1, <3>5, <4>2
    <3>6. CASE ~(Up(sky, mid) = Up(sky, p[1]))
      <4> DEFINE q == <<p[1], mid>>
      <4>1. q \in S /\ Crosses(q) /\ q[2] - q[1] < n
        BY <1>3, <2>2, <3>1, <3>6
      <4>2. Right(q) /\ narrow[p] = narrow[q] /\ q[1] = p[1] /\ q[2] = mid
        BY <3>2, <3>3, <3>6, <4>1
      <4>3. Up(sky, mid) = Up(sky, p[2])
        BY <2>2, <3>4, <3>6
      <4> HIDE DEF q
      <4> QED
        BY <1>3, <2>2, <3>1, <4>2, <4>3
    <3> QED
      BY <3>5, <3>6
  <2> QED
    BY <2>3, <2>4
<1> DEFINE whole == <<from, to>>
<1>5. whole \in S /\ whole[1] = from /\ whole[2] = to /\ Crosses(whole) /\ to - from \in Nat
  BY DEF Square
<1>6. Right(whole)
  BY <1>4, <1>5
<1> HIDE DEF whole
<1> QED
  BY <1>1, <1>5, <1>6 DEF whole

-----------------------------------------------------------------------------
(* The coarse grid *)

\* Division with remainder.
LEMMA Division ==
  ASSUME NEW n \in Int, NEW d \in Nat \ {0}
  PROVE  /\ n \div d \in Int
         /\ n % d \in 0 .. d - 1
         /\ n = d * (n \div d) + (n % d)
OBVIOUS

\* A multiple leaves no remainder.
LEMMA Multiple ==
  ASSUME NEW k \in Int, NEW d \in Nat \ {0}
  PROVE  (d * k) % d = 0
<1> DEFINE n == d * k
           q == n \div d
           r == n % d
<1>1. n \in Int /\ q \in Int /\ r \in 0 .. d - 1 /\ n = d * q + r
  <2>1. n \in Int
    OBVIOUS
  <2> QED
    BY <2>1, Division, Zenon
<1>2. d * (k - q) = r
  <2> HIDE DEF q, r
  <2>1. d * (k - q) = d * k - d * q
    BY <1>1
  <2> QED
    BY <1>1, <2>1
<1> HIDE DEF q, r
<1>3. ~(k - q >= 1)
  <2> SUFFICES ASSUME k - q >= 1
               PROVE  FALSE
    OBVIOUS
  <2>1. d * (k - q) >= d
    BY <1>1
  <2> QED
    BY <1>1, <1>2, <2>1
<1>4. ~(k - q <= -1)
  <2> SUFFICES ASSUME k - q <= -1
               PROVE  FALSE
    OBVIOUS
  <2>1. d * (k - q) <= -d
    BY <1>1
  <2> QED
    BY <1>1, <1>2, <2>1
<1>5. k - q = 0
  BY <1>1, <1>3, <1>4
<1>6. r = 0
  BY <1>1, <1>2, <1>5
<1> QED
  BY <1>6 DEF r

\* The instants looked at: the start and the grid.
Looks(start, end) == Grid(start, end) \cup {start}

\* The instant looked at before one of the grid is a coarse step earlier, and
\* there is none in between.
LEMMA GridSteps ==
  ASSUME NEW start \in Int, NEW end \in Int, NEW t \in Grid(start, end)
  PROVE  /\ t \in Int /\ start + Coarse <= t /\ t <= end
         /\ t - Coarse \in Looks(start, end)
         /\ \A u \in Looks(start, end) : u < t => u <= t - Coarse
<1>0. Coarse \in Nat \ {0}
  BY PredictionAssumption
<1>1. t \in Int /\ start + Coarse <= t /\ t <= end /\ (t - start) % Coarse = 0
  BY <1>0 DEF Grid
<1> DEFINE k == (t - start) \div Coarse
<1>2. k \in Int /\ t - start = Coarse * k
  <2>1. t - start \in Int
    BY <1>1
  <2>2. /\ k \in Int
        /\ t - start = Coarse * k + ((t - start) % Coarse)
    BY <1>0, <2>1, Division, Zenon
  <2> HIDE DEF k
  <2>3. Coarse * k \in Int
    BY <1>0, <2>2
  <2> QED
    BY <1>1, <2>2, <2>3
<1>3. t - Coarse \in Looks(start, end)
  <2>1. CASE t - Coarse < start + Coarse
    <3>1. Coarse * (k - 1) < Coarse /\ Coarse * (k - 1) >= 0
      BY <1>0, <1>1, <1>2, <2>1
    <3>2. k - 1 < 1 /\ k - 1 >= 0
      BY <1>0, <1>2, <3>1
    <3>3. k = 1
      BY <1>2, <3>2
    <3>4. t - Coarse = start
      BY <1>0, <1>1, <1>2, <3>3
    <3> QED
      BY <3>4 DEF Looks
  <2>2. CASE ~(t - Coarse < start + Coarse)
    <3>1. t - Coarse - start = Coarse * (k - 1)
      BY <1>0, <1>1, <1>2
    <3>2. (t - Coarse - start) % Coarse = 0
      BY <1>0, <1>2, <3>1, Multiple
    <3>3. t - Coarse \in start + Coarse .. end
      BY <1>0, <1>1, <2>2
    <3> QED
      BY <3>2, <3>3 DEF Looks, Grid
  <2> QED
    BY <2>1, <2>2
<1>4. ASSUME NEW u \in Looks(start, end), u < t
      PROVE  u <= t - Coarse
  <2>1. CASE u = start
    BY <1>0, <1>1, <2>1
  <2>2. CASE u \in Grid(start, end)
    <3> DEFINE j == (u - start) \div Coarse
    <3>1. u \in Int /\ (u - start) % Coarse = 0
      BY <1>0, <2>2 DEF Grid
    <3>2. j \in Int /\ u - start = Coarse * j
      BY <1>0, <3>1, Division
    <3> HIDE DEF j, k
    <3>3. Coarse * (k - j) > 0
      BY <1>0, <1>1, <1>2, <1>4, <3>1, <3>2
    <3>4. k - j >= 1
      BY <1>0, <1>2, <3>2, <3>3
    <3>5. Coarse * (k - j) >= Coarse
      BY <1>0, <1>2, <3>2, <3>4
    <3> QED
      BY <1>0, <1>1, <1>2, <3>1, <3>2, <3>5
  <2> QED
    BY <2>1, <2>2 DEF Looks
<1> QED
  BY <1>1, <1>3, <1>4

\* Every coarse step has an instant that is looked at.
LEMMA GridDense ==
  ASSUME NEW start \in Int, NEW end \in Int, NEW x \in start .. end
  PROVE  \E u \in Looks(start, end) : u \in Int /\ start <= u /\ u <= x /\ x < u + Coarse
<1>0. Coarse \in Nat \ {0}
  BY PredictionAssumption
<1> DEFINE k == (x - start) \div Coarse
           u == start + Coarse * k
<1>1. k \in Int /\ x - start = Coarse * k + ((x - start) % Coarse) /\ (x - start) % Coarse \in 0 .. Coarse - 1
  <2>1. x - start \in Int
    OBVIOUS
  <2> QED
    BY <1>0, <2>1, Division, Zenon
<1>2. u \in Int /\ u <= x /\ x < u + Coarse
  BY <1>0, <1>1
<1>3. k >= 0
  <2> SUFFICES ASSUME k <= -1
               PROVE  FALSE
    BY <1>1
  <2>1. Coarse * k <= -Coarse
    BY <1>0, <1>1
  <2> QED
    BY <1>0, <1>1, <2>1
<1>4. CASE k = 0
  <2>1. u = start
    BY <1>0, <1>4
  <2> QED
    BY <1>2, <2>1 DEF Looks
<1>5. CASE k # 0
  <2>1. k >= 1
    BY <1>1, <1>3, <1>5
  <2>2. Coarse * k >= Coarse
    BY <1>0, <1>1, <2>1
  <2>3. (u - start) % Coarse = 0
    <3>1. u - start = Coarse * k
      BY <1>0, <1>1
    <3> HIDE DEF u
    <3> QED
      BY <1>0, <1>1, <3>1, Multiple
  <2>4. u \in start + Coarse .. end
    BY <1>0, <1>2, <2>2
  <2>5. u \in Looks(start, end)
    BY <2>3, <2>4 DEF Looks, Grid
  <2> QED
    BY <1>0, <1>2, <2>4, <2>5
<1> QED
  BY <1>4, <1>5

\* What holds of the start and of no instant of the grid ends at one of them:
\* the first one at which it does not.
LEMMA FirstChange ==
  ASSUME NEW start \in Nat, NEW end \in Int, NEW x \in Looks(start, end),
         NEW T, T \subseteq Grid(start, end), start \notin T, x \in T
  PROVE  \E t \in T : t - Coarse \in Looks(start, end) \ T /\ t <= x
<1>0. Coarse \in Nat \ {0}
  BY PredictionAssumption
<1>1. T \in SUBSET Nat
  BY <1>0 DEF Grid
<1> DEFINE t == Min(T)
<1>2. t \in T /\ \A u \in T : t <= u
  BY <1>1, LeastOf
<1> HIDE DEF t
<1>3. t \in Int /\ t - Coarse \in Looks(start, end)
  BY <1>2, GridSteps
<1>4. t - Coarse \notin T
  BY <1>0, <1>2, <1>3
<1> QED
  BY <1>2, <1>3, <1>4

\* A coarse step after an instant looked at there is another, up to the end.
LEMMA GridNext ==
  ASSUME NEW start \in Int, NEW end \in Int, NEW u \in Looks(start, end), u + Coarse <= end
  PROVE  u + Coarse \in Grid(start, end)
<1>0. Coarse \in Nat \ {0}
  BY PredictionAssumption
<1>1. CASE u = start
  <2>1. (u + Coarse - start) % Coarse = 0
    <3>1. u + Coarse - start = Coarse * 1
      BY <1>0, <1>1
    <3> QED
      BY <1>0, <3>1, Multiple
  <2> QED
    BY <1>0, <1>1, <2>1 DEF Grid
<1>2. CASE u \in Grid(start, end)
  <2> DEFINE k == (u - start) \div Coarse
  <2>1. u \in Int /\ u - start \in Int /\ (u - start) % Coarse = 0 /\ start + Coarse <= u
    BY <1>0, <1>2 DEF Grid
  <2>2. k \in Int /\ u - start = Coarse * k + ((u - start) % Coarse)
    BY <1>0, <2>1, Division, Zenon
  <2> HIDE DEF k
  <2>3. u + Coarse - start = Coarse * (k + 1)
    BY <1>0, <2>1, <2>2
  <2>4. (u + Coarse - start) % Coarse = 0
    BY <1>0, <2>2, <2>3, Multiple
  <2> QED
    BY <1>0, <2>1, <2>4 DEF Grid
<1> QED
  BY <1>1, <1>2 DEF Looks

-----------------------------------------------------------------------------
(* The rise and the set of a pass *)

\* The set of a pass under way is where it ceases to be visible, or the end of
\* the search, and never after an outage of a coarse step.
LEMMA FindSetFacts ==
  ASSUME NEW sky, NEW rise \in Nat, NEW end \in Nat, rise <= end, Up(sky, rise)
  PROVE  LET set == FindSet(sky, rise, end) IN
         /\ set \in rise .. end
         /\ set # end => /\ Up(sky, set)
                         /\ \E d \in 1 .. Fine : set + d <= end /\ ~Up(sky, set + d)
         /\ \A w \in Int : /\ rise < w /\ w + Coarse - 1 <= end
                           /\ \A t \in w .. w + Coarse - 1 : ~Up(sky, t)
                           => set < w
<1>0. Coarse \in Nat \ {0} /\ Fine \in Nat \ {0}
  BY PredictionAssumption
<1> DEFINE G == Grid(rise, end)
           L == Looks(rise, end)
           down == {t \in G : ~Up(sky, t)}
           sets == {t \in G : Up(sky, t - Coarse) /\ ~Up(sky, t)}
           set == FindSet(sky, rise, end)
<1>1. ASSUME NEW x \in L, ~Up(sky, x)
      PROVE  \E t \in sets : t <= x
  <2>1. x \in down /\ rise \notin down /\ down \subseteq G
    BY <1>1 DEF Looks
  <2> HIDE DEF down
  <2>2. PICK t \in down : t - Coarse \in L \ down /\ t <= x
    BY <2>1, FirstChange
  <2>3. t \in sets
    BY <2>2 DEF down, Looks
  <2> QED
    BY <2>2, <2>3
<1>2. ASSUME NEW w \in Int, rise < w, w + Coarse - 1 <= end, \A t \in w .. w + Coarse - 1 : ~Up(sky, t)
      PROVE  \E t \in sets : t <= w + Coarse - 1
  <2>1. w + Coarse - 1 \in rise .. end
    BY <1>0, <1>2
  <2>2. PICK u \in L : u \in Int /\ rise <= u /\ u <= w + Coarse - 1 /\ w + Coarse - 1 < u + Coarse
    BY <2>1, GridDense
  <2>3. ~Up(sky, u)
    BY <1>0, <1>2, <2>2
  <2>4. \A t \in sets : t \in Int
    BY <1>0 DEF Grid
  <2>5. PICK t \in sets : t <= u
    BY <1>1, <2>2, <2>3
  <2> HIDE DEF sets
  <2> QED
    BY <1>0, <2>2, <2>4, <2>5
<1>3. CASE sets = {}
  <2>1. \A x \in L : Up(sky, x)
    BY <1>1, <1>3
  <2> DEFINE last == Max(G \cup {rise})
  <2>2. last \in L
    <3>1. L \in SUBSET Int /\ L # {} /\ \A m \in L : m <= end
      BY <1>0 DEF Looks, Grid
    <3>2. Max(L) \in L
      <4> HIDE DEF L
      <4> QED
        BY <3>1, GreatestOf
    <3> QED
      BY <3>2 DEF Looks
  <2>3. set = IF Up(sky, last) THEN end ELSE NoTime
    BY <1>3 DEF FindSet
  <2>4. set = end
    BY <2>1, <2>2, <2>3
  <2> HIDE DEF set, sets
  <2>5. end \in rise .. end
    OBVIOUS
  <2> QED
    BY <1>2, <1>3, <2>4, <2>5 DEF set
<1>4. CASE sets # {}
  <2> DEFINE first == Min(sets)
             r == Narrow(sky, first - Coarse, first)
  <2>1. sets \in SUBSET Nat
    BY <1>0 DEF Grid
  <2>2. first \in sets /\ \A t \in sets : first <= t
    BY <1>4, <2>1, LeastOf
  <2>3. set = r.before
    BY <1>4 DEF FindSet
  <2>4. /\ first \in Nat /\ rise + Coarse <= first /\ first <= end
        /\ Up(sky, first - Coarse) /\ ~Up(sky, first)
    BY <1>0, <2>2 DEF Grid
  <2> HIDE DEF first, sets, set
  <2>5. /\ r.before \in first - Coarse .. first /\ r.after \in first - Coarse .. first
        /\ r.before < r.after /\ r.after <= r.before + Fine
        /\ Up(sky, r.before) = Up(sky, first - Coarse) /\ Up(sky, r.after) = Up(sky, first)
    <3>1. first - Coarse < first /\ first - Coarse \in Int /\ Up(sky, first - Coarse) # Up(sky, first)
      BY <1>0, <2>4
    <3> QED
      BY <2>4, <3>1, NarrowFacts
  <2> DEFINE after == r.after
  <2>6. /\ set \in Int /\ after \in Int /\ first - Coarse <= set /\ set < after /\ after <= first
        /\ after <= set + Fine /\ Up(sky, set) /\ ~Up(sky, after)
    BY <1>0, <2>3, <2>4, <2>5
  <2> HIDE DEF after
  <2>7. set \in rise .. end
    BY <1>0, <2>4, <2>6
  <2>8. \E d \in 1 .. Fine : set + d <= end /\ ~Up(sky, set + d)
    <3>1. after - set \in 1 .. Fine /\ set + (after - set) = after /\ after <= end
      BY <1>0, <2>4, <2>6
    <3> QED
      BY <2>6, <3>1
  <2>9. ASSUME NEW w \in Int, rise < w, w + Coarse - 1 <= end, \A t \in w .. w + Coarse - 1 : ~Up(sky, t)
        PROVE  set < w
    <3>1. PICK t \in sets : t <= w + Coarse - 1
      BY <1>2, <2>9
    <3>2. t \in Int /\ first <= t
      BY <2>1, <2>2, <3>1
    <3>3. set <= w + Coarse - 1 /\ set \notin w .. w + Coarse - 1
      BY <1>0, <2>4, <2>6, <2>9, <3>1, <3>2
    <3> QED
      BY <1>0, <2>6, <3>3
  <2> QED
    BY <2>6, <2>7, <2>8, <2>9 DEF set
<1> QED
  BY <1>3, <1>4

\* A rise is where a pass becomes visible; one that follows an outage of a coarse
\* step, and lasts for one, is found, unless an earlier one is.
LEMMA FindRiseFacts ==
  ASSUME NEW sky, NEW start \in Nat, NEW end \in Nat
  PROVE  LET rise == FindRise(sky, start, end) IN
         /\ rise # NoTime =>
              /\ rise \in start + 1 .. end /\ Up(sky, rise)
              /\ \E d \in 1 .. Fine : ~Up(sky, rise - d)
         /\ \A a \in Int : /\ start < a /\ a + Coarse <= end
                           /\ \A t \in a - Coarse .. a - 1 : ~Up(sky, t)
                           /\ \A t \in a .. a + Coarse : Up(sky, t)
                           => /\ rise # NoTime
                              /\ rise \in a .. a + Fine - 1 \/ rise < a - Coarse
<1>0. /\ Coarse \in Nat \ {0} /\ Fine \in Nat \ {0} /\ NoTime \notin Int
      /\ start \in Int /\ end \in Int
  BY PredictionAssumption
<1> DEFINE G == Grid(start, end)
           rises == {t \in G : ~Up(sky, t - Coarse) /\ Up(sky, t)}
           first == Min(rises)
           r == Narrow(sky, first - Coarse, first)
           rise == FindRise(sky, start, end)
           before == r.before
<1>1. rises \in SUBSET Nat
  BY <1>0 DEF Grid
<1>2. CASE rises = {}
  <2>1. rise = NoTime
    BY <1>2 DEF FindRise
  <2>2. ASSUME NEW a \in Int, start < a, a + Coarse <= end,
               \A t \in a - Coarse .. a - 1 : ~Up(sky, t),
               \A t \in a .. a + Coarse : Up(sky, t)
        PROVE  FALSE
    <3>1. PICK u \in Looks(start, end) : u \in Int /\ u <= a - 1 /\ a - 1 < u + Coarse
      <4>1. a - 1 \in start .. end
        BY <1>0, <2>2
      <4> QED
        BY <4>1, GridDense
    <3>2. u + Coarse \in G
      BY <1>0, <2>2, <3>1, GridNext
    <3>3. ~Up(sky, u + Coarse - Coarse) /\ Up(sky, u + Coarse)
      <4>1. u + Coarse - Coarse = u /\ u \in a - Coarse .. a - 1 /\ u + Coarse \in a .. a + Coarse
        BY <1>0, <3>1
      <4> QED
        BY <2>2, <4>1
    <3>4. u + Coarse \in rises
      BY <1>0, <3>1, <3>2, <3>3 DEF Up
    <3> QED
      BY <1>2, <3>4
  <2> HIDE DEF rise
  <2> QED
    BY <2>1, <2>2 DEF rise
<1>3. CASE rises # {}
  <2>1. first \in rises /\ \A t \in rises : first <= t
    BY <1>1, <1>3, LeastOf
  <2>2. rise = r.after
    BY <1>3 DEF FindRise
  <2>3. /\ first \in G /\ first \in Nat /\ start + Coarse <= first /\ first <= end
        /\ ~Up(sky, first - Coarse) /\ Up(sky, first)
    BY <1>0, <2>1 DEF Grid
  <2> HIDE DEF first, rise
  <2>4. /\ r.before \in first - Coarse .. first /\ r.after \in first - Coarse .. first
        /\ r.before < r.after /\ r.after <= r.before + Fine
        /\ Up(sky, r.before) = Up(sky, first - Coarse) /\ Up(sky, r.after) = Up(sky, first)
    <3>1. first - Coarse < first /\ first - Coarse \in Int /\ Up(sky, first - Coarse) # Up(sky, first)
      BY <1>0, <2>3 DEF Up
    <3> QED
      BY <2>3, <3>1, NarrowFacts DEF Up
  <2>5. /\ rise \in Int /\ before \in Int /\ first - Coarse <= before /\ before < rise /\ rise <= first
        /\ rise <= before + Fine /\ ~Up(sky, before) /\ Up(sky, rise)
    BY <1>0, <2>2, <2>3, <2>4 DEF Up
  <2> HIDE DEF before
  <2>6. rise \in start + 1 .. end /\ rise # NoTime
    BY <1>0, <2>3, <2>5
  <2>7. \E d \in 1 .. Fine : ~Up(sky, rise - d)
    <3>1. rise - before \in 1 .. Fine /\ rise - (rise - before) = before
      BY <1>0, <2>5
    <3> QED
      BY <2>5, <3>1
  <2>8. ASSUME NEW a \in Int, start < a, a + Coarse <= end,
               \A t \in a - Coarse .. a - 1 : ~Up(sky, t),
               \A t \in a .. a + Coarse : Up(sky, t)
        PROVE  rise \in a .. a + Fine - 1 \/ rise < a - Coarse
    <3>1. PICK u \in Looks(start, end) : u \in Int /\ u <= a - 1 /\ a - 1 < u + Coarse
      <4>1. a - 1 \in start .. end
        BY <1>0, <2>8
      <4> QED
        BY <4>1, GridDense
    <3>2. u + Coarse \in G
      BY <1>0, <2>8, <3>1, GridNext
    <3>3. ~Up(sky, u + Coarse - Coarse) /\ Up(sky, u + Coarse)
      <4>1. u + Coarse - Coarse = u /\ u \in a - Coarse .. a - 1 /\ u + Coarse \in a .. a + Coarse
        BY <1>0, <3>1
      <4> QED
        BY <2>8, <4>1
    <3>4. u + Coarse \in rises
      BY <1>0, <3>1, <3>2, <3>3 DEF Up
    <3>5. first <= u + Coarse
      BY <2>1, <3>4
    <3> HIDE DEF rises
    <3>6. CASE first = u + Coarse
      <4>1. before \in u .. u + Coarse /\ rise \in u .. u + Coarse
        BY <1>0, <2>5, <3>1, <3>6
      <4>2. rise >= a
        BY <1>0, <2>5, <2>8, <3>1, <4>1
      <4>3. before < a
        BY <1>0, <2>5, <2>8, <3>1, <4>1
      <4> QED
        BY <1>0, <2>5, <4>2, <4>3
    <3>7. CASE first # u + Coarse
      <4>1. first < u + Coarse /\ first \in Looks(start, end)
        BY <1>0, <2>3, <3>1, <3>5, <3>7 DEF Looks
      <4>2. first <= u + Coarse - Coarse
        BY <1>0, <3>1, <3>2, <4>1, GridSteps
      <4>3. first <= a - 1 /\ first \notin a - Coarse .. a - 1
        BY <1>0, <2>3, <2>8, <3>1, <4>2
      <4> QED
        BY <1>0, <2>3, <2>5, <4>3
    <3> QED
      BY <3>6, <3>7
  <2> QED
    BY <2>5, <2>6, <2>7, <2>8 DEF rise
<1> QED
  BY <1>2, <1>3

\* The next rise and set after an instant before an isolated appearance are its
\* own, or come so early that the search goes on before it.
LEMMA SearchMeets ==
  ASSUME NEW sky, NEW start \in Nat, NEW end \in Nat, NEW a \in Int, NEW b \in Int,
         start < a, b + Coarse <= end, b - a >= Coarse, Isolated(sky, a, b)
  PROVE  LET rise == FindRise(sky, start, end)
             set == FindSet(sky, rise, end)
         IN /\ rise # NoTime
            /\ \/ rise \in a .. a + Fine - 1 /\ set \in b + 1 - Fine .. b /\ LongEnough(rise, set)
               \/ rise < a /\ set + Coarse < a
<1> DEFINE rise == FindRise(sky, start, end)
           set == FindSet(sky, rise, end)
<1>0. /\ Coarse \in Nat \ {0} /\ Fine \in Nat \ {0} /\ MinPass \in Nat \ {0}
      /\ MinPass + 2 * Fine <= Coarse
  BY PredictionAssumption
<1>1. /\ \A t \in a .. b : Up(sky, t)
      /\ \A t \in a - Coarse .. a - 1 : ~Up(sky, t)
      /\ \A t \in b + 1 .. b + Coarse : ~Up(sky, t)
  BY DEF Isolated
<1>2. rise # NoTime /\ (rise \in a .. a + Fine - 1 \/ rise < a - Coarse)
  <2>1. a + Coarse <= end /\ \A t \in a .. a + Coarse : Up(sky, t)
    BY <1>0, <1>1
  <2> QED
    BY <1>1, <2>1, FindRiseFacts
<1>3. rise \in Nat /\ rise <= end /\ Up(sky, rise)
  <2>1. rise \in start + 1 .. end /\ Up(sky, rise)
    BY <1>2, FindRiseFacts
  <2> HIDE DEF rise
  <2> QED
    BY <2>1
<1> HIDE DEF rise
<1>4. /\ set \in rise .. end
      /\ set # end => \E d \in 1 .. Fine : ~Up(sky, set + d)
      /\ \A w \in Int : /\ rise < w /\ w + Coarse - 1 <= end
                        /\ \A t \in w .. w + Coarse - 1 : ~Up(sky, t)
                        => set < w
  BY <1>3, FindSetFacts
<1> HIDE DEF set
<1>5. CASE rise \in a .. a + Fine - 1
  <2>1. rise < b + 1 /\ b + 1 \in Int /\ b + 1 + Coarse - 1 = b + Coarse
    BY <1>0, <1>5
  <2>2. set < b + 1
    <3>1. b + 1 + Coarse - 1 <= end /\ \A t \in b + 1 .. b + 1 + Coarse - 1 : ~Up(sky, t)
      BY <1>1, <2>1
    <3> QED
      BY <1>4, <2>1, <3>1
  <2>3. set \in Int /\ a <= set /\ set # end
    BY <1>0, <1>3, <1>4, <1>5, <2>2
  <2>4. PICK d \in 1 .. Fine : ~Up(sky, set + d)
    BY <1>4, <2>3
  <2>5. set + d \notin a .. b
    BY <1>1, <2>4
  <2>6. set \in b + 1 - Fine .. b
    BY <1>0, <2>2, <2>3, <2>5
  <2>7. LongEnough(rise, set)
    BY <1>0, <1>5, <2>6 DEF LongEnough
  <2> QED
    BY <1>2, <1>5, <2>6, <2>7 DEF rise, set
<1>6. CASE rise < a - Coarse
  <2>1. set < a - Coarse
    <3>1. a - Coarse \in Int /\ a - Coarse + Coarse - 1 = a - 1 /\ a - 1 <= end
      BY <1>0
    <3>2. \A t \in a - Coarse .. a - Coarse + Coarse - 1 : ~Up(sky, t)
      BY <1>1, <3>1
    <3> QED
      BY <1>4, <1>6, <3>1, <3>2
  <2>2. rise < a /\ set + Coarse < a
    BY <1>0, <1>3, <1>4, <1>6, <2>1
  <2> QED
    BY <1>2, <2>2 DEF rise, set
<1> QED
  BY <1>2, <1>5, <1>6

-----------------------------------------------------------------------------
(* The main loop of the search *)

Searched(from, end, n) == (from .. end + Coarse) \X (0 .. n)

\* One round of the loop, if search is right about later instants.
Round(sky, end, search, p) ==
  LET rise == FindRise(sky, p[1], end)
      set == FindSet(sky, rise, end)
  IN IF p[1] >= end \/ p[2] = 0 \/ rise = NoTime \/ set = NoTime THEN <<>>
     ELSE IF LongEnough(rise, set)
     THEN <<PassOf(sky, rise, set)>> \o search[<<set + Coarse, p[2] - 1>>]
     ELSE search[<<set + Coarse, p[2]>>]

\* The instant searched from, and how many passes are wanted.
LEMMA SearchedFrom ==
  ASSUME NEW from \in Nat, NEW end \in Nat, NEW n \in Nat, NEW p \in Searched(from, end, n)
  PROVE  p[1] \in Nat /\ from <= p[1] /\ p[1] <= end + Coarse /\ p[2] \in 0 .. n
BY PredictionAssumption DEF Searched

\* A rise has a set, and the search goes on later.
LEMMA SearchAdvances ==
  ASSUME NEW sky, NEW from \in Nat, NEW end \in Nat, NEW n \in Nat,
         NEW p \in Searched(from, end, n), FindRise(sky, p[1], end) # NoTime
  PROVE  LET rise == FindRise(sky, p[1], end)
             set == FindSet(sky, rise, end)
         IN /\ rise \in p[1] + 1 .. end /\ Up(sky, rise) /\ \E d \in 1 .. Fine : ~Up(sky, rise - d)
            /\ set \in rise .. end /\ set # NoTime
            /\ set # end => Up(sky, set) /\ \E d \in 1 .. Fine : ~Up(sky, set + d)
            /\ p[1] < set + Coarse
            /\ <<set + Coarse, p[2]>> \in Searched(from, end, n)
            /\ p[2] # 0 => <<set + Coarse, p[2] - 1>> \in Searched(from, end, n)
<1> DEFINE t == p[1]
           rise == FindRise(sky, t, end)
           set == FindSet(sky, rise, end)
<1>0. Coarse \in Nat \ {0} /\ NoTime \notin Int
  BY PredictionAssumption
<1>1. t \in Nat /\ from <= t /\ t <= end + Coarse /\ p[2] \in 0 .. n
  BY SearchedFrom
<1> HIDE DEF t
<1>2. rise \in t + 1 .. end /\ Up(sky, rise) /\ \E d \in 1 .. Fine : ~Up(sky, rise - d)
  BY <1>1, FindRiseFacts DEF t
<1> HIDE DEF rise
<1>3. rise \in Nat /\ rise <= end /\ Up(sky, rise)
  BY <1>1, <1>2
<1>4. /\ set \in rise .. end
      /\ set # end => Up(sky, set) /\ \E d \in 1 .. Fine : ~Up(sky, set + d)
  BY <1>3, FindSetFacts
<1> HIDE DEF set
<1>5. set # NoTime /\ t < set + Coarse
  BY <1>0, <1>1, <1>2, <1>4
<1>6. set + Coarse \in from .. end + Coarse
  BY <1>0, <1>1, <1>2, <1>4
<1>7. /\ <<set + Coarse, p[2]>> \in Searched(from, end, n)
      /\ p[2] # 0 => <<set + Coarse, p[2] - 1>> \in Searched(from, end, n)
  BY <1>1, <1>6 DEF Searched
<1> QED
  BY <1>2, <1>4, <1>5, <1>7 DEF t, rise, set

\* A round depends on what the search yields from later instants only.
LEMMA RoundLooksAhead ==
  ASSUME NEW sky, NEW from \in Nat, NEW end \in Nat, NEW n \in Nat,
         NEW p \in Searched(from, end, n), NEW g, NEW h,
         \A q \in Searched(from, end, n) : p[1] < q[1] => g[q] = h[q]
  PROVE  Round(sky, end, g, p) = Round(sky, end, h, p)
<1> DEFINE rise == FindRise(sky, p[1], end)
           set == FindSet(sky, rise, end)
<1>1. CASE p[1] >= end \/ p[2] = 0 \/ rise = NoTime \/ set = NoTime
  <2> HIDE DEF set
  <2> QED
    BY <1>1 DEF Round, set
<1>2. CASE ~(p[1] >= end \/ p[2] = 0 \/ rise = NoTime \/ set = NoTime)
  <2> DEFINE q == <<set + Coarse, p[2]>>
             r == <<set + Coarse, p[2] - 1>>
  <2>1. p[1] < q[1] /\ q \in Searched(from, end, n) /\ p[1] < r[1] /\ r \in Searched(from, end, n)
    BY <1>2, SearchAdvances
  <2> HIDE DEF q, r
  <2>2. g[q] = h[q] /\ g[r] = h[r]
    BY <2>1
  <2> QED
    BY <1>2, <2>2, Zenon DEF Round, q, r
<1> QED
  BY <1>1, <1>2

IsSearch(sky, from, end, n, search) ==
  search = [p \in Searched(from, end, n) |-> Round(sky, end, search, p)]

\* The loop is well defined: its recursion has a fixed point.
LEMMA SearchDefined ==
  ASSUME NEW sky, NEW from \in Nat, NEW end \in Nat, NEW n \in Nat
  PROVE  \E search : IsSearch(sky, from, end, n, search)
<1> DEFINE S == Searched(from, end, n)
           Left(p) == end + Coarse - p[1]
           Good(g, m) == \A p \in S : Left(p) < m => g[p] = Round(sky, end, g, p)
           Bad == {m \in Nat : ~ \E g : g = [p \in S |-> g[p]] /\ Good(g, m)}
<1>0. Coarse \in Nat \ {0}
  BY PredictionAssumption
<1>1. \A p \in S : p[1] \in Nat /\ Left(p) \in Nat
  BY <1>0, SearchedFrom
<1> HIDE DEF S
<1>2. ASSUME NEW m \in Nat, NEW g, g = [p \in S |-> g[p]], Good(g, m)
      PROVE  \E h : h = [p \in S |-> h[p]] /\ Good(h, m + 1)
  <2> DEFINE h == [p \in S |-> IF Left(p) < m THEN g[p] ELSE Round(sky, end, g, p)]
  <2>1. h = [p \in S |-> h[p]]
    OBVIOUS
  <2>2. ASSUME NEW p \in S, Left(p) < m + 1
        PROVE  h[p] = Round(sky, end, h, p)
    <3>1. h[p] = Round(sky, end, g, p)
      <4>1. Left(p) < m => g[p] = Round(sky, end, g, p)
        BY <1>2
      <4> QED
        BY <4>1
    <3>2. \A q \in S : p[1] < q[1] => g[q] = h[q]
      <4> SUFFICES ASSUME NEW q \in S, p[1] < q[1]
                   PROVE  g[q] = h[q]
        OBVIOUS
      <4>1. Left(q) < m
        BY <1>0, <1>1, <2>2
      <4> HIDE DEF Left
      <4> QED
        BY <4>1
    <3> HIDE DEF h
    <3>3. Round(sky, end, g, p) = Round(sky, end, h, p)
      BY <3>2, RoundLooksAhead DEF S
    <3> QED
      BY <3>1, <3>3
  <2> HIDE DEF h
  <2> QED
    BY <2>1, <2>2
<1>3. Bad = {}
  <2> SUFFICES ASSUME Bad # {}
               PROVE  FALSE
    OBVIOUS
  <2>1. PICK m \in Bad : \A k \in Bad : m <= k
    BY LeastOf
  <2>2. CASE m = 0
    <3> DEFINE g == [p \in S |-> <<>>]
    <3>1. g = [p \in S |-> g[p]] /\ Good(g, 0)
      BY <1>1
    <3> HIDE DEF g
    <3> QED
      BY <2>1, <2>2, <3>1
  <2>3. CASE m # 0
    <3>1. m - 1 \in Nat /\ m - 1 \notin Bad
      BY <2>1, <2>3
    <3>2. PICK g : g = [p \in S |-> g[p]] /\ Good(g, m - 1)
      BY <3>1
    <3>3. \E h : h = [p \in S |-> h[p]] /\ Good(h, m - 1 + 1)
      BY <1>2, <3>1, <3>2
    <3> QED
      BY <2>1, <3>3
  <2> QED
    BY <2>2, <2>3
<1> DEFINE m == end + Coarse + 1
<1>4. m \in Nat
  BY <1>0
<1>5. PICK g : g = [p \in S |-> g[p]] /\ Good(g, m)
  BY <1>3, <1>4
<1>6. \A p \in S : g[p] = Round(sky, end, g, p)
  BY <1>0, <1>1, <1>5
<1>7. g = [p \in S |-> Round(sky, end, g, p)]
  <2>1. [p \in S |-> g[p]] = [p \in S |-> Round(sky, end, g, p)]
    BY <1>6
  <2> QED
    BY <1>5, <2>1
<1> QED
  BY <1>7 DEF S, IsSearch

\* A pass found after instant t, and what a sequence of them is.
Found(sky) == {PassOf(sky, r, s) : r \in Nat, s \in Nat}

FoundAfter(sky, t, end, p) ==
  /\ p = PassOf(sky, p.rise, p.set)
  /\ p.rise \in t + 1 .. end /\ p.set \in p.rise .. end
  /\ LongEnough(p.rise, p.set)
  /\ Up(sky, p.rise)
  /\ p.rise # 0 => \E d \in 1 .. Fine : ~Up(sky, p.rise - d)
  /\ p.set # end => Up(sky, p.set) /\ \E d \in 1 .. Fine : ~Up(sky, p.set + d)

\* An appearance after instant t that the search must meet.
Appears(sky, t, end, a, b) ==
  /\ t < a /\ Coarse <= a /\ b + Coarse <= end
  /\ b - a >= Coarse /\ Isolated(sky, a, b)

Matches(p, a, b) == p.rise \in a .. a + Fine - 1 /\ p.set \in b + 1 - Fine .. b

\* What the loop yields, searching from t for n passes.
Yields(sky, t, end, n, s) ==
  /\ s \in Seq(Found(sky)) /\ Len(s) <= n
  /\ \A i \in DOMAIN s :
       /\ FoundAfter(sky, t, end, s[i])
       /\ i > 1 => s[i].rise - s[i - 1].set > Coarse
  /\ \A a \in Int, b \in Int :
       Appears(sky, t, end, a, b)
         => \/ \E i \in DOMAIN s : Matches(s[i], a, b)
            \/ Len(s) = n /\ \A i \in DOMAIN s : s[i].rise < a

\* A longer search, from earlier, finds no less.
LEMMA YieldsFromEarlier ==
  ASSUME NEW sky, NEW t \in Int, NEW u \in Nat, NEW end \in Nat, NEW n \in Nat, NEW s, t <= u,
         Yields(sky, u, end, n, s),
         \A a \in Int, b \in Int : Appears(sky, t, end, a, b) => u < a
  PROVE  Yields(sky, t, end, n, s)
<1>1. \A i \in DOMAIN s : FoundAfter(sky, t, end, s[i])
  BY DEF Yields, FoundAfter
<1> QED
  BY <1>1, Zenon DEF Yields, Appears

\* A pass, and then what is found a coarse step after it.
LEMMA YieldsOneMore ==
  ASSUME NEW sky, NEW t \in Int, NEW end \in Nat, NEW n \in Nat \ {0}, NEW s, -1 <= t,
         NEW rise \in t + 1 .. end, NEW set \in rise .. end,
         FoundAfter(sky, t, end, PassOf(sky, rise, set)),
         Yields(sky, set + Coarse, end, n - 1, s),
         \A a \in Int, b \in Int :
           Appears(sky, t, end, a, b)
             => \/ Matches(PassOf(sky, rise, set), a, b)
                \/ rise < a /\ set + Coarse < a
  PROVE  Yields(sky, t, end, n, <<PassOf(sky, rise, set)>> \o s)
<1> DEFINE pass == PassOf(sky, rise, set)
           l == <<pass>> \o s
<1>0. Coarse \in Nat \ {0}
  BY PredictionAssumption
<1>1. rise \in Nat /\ set \in Nat /\ pass \in Found(sky) /\ pass.rise = rise /\ pass.set = set
  BY DEF Found, PassOf
<1>2. s \in Seq(Found(sky)) /\ Len(s) \in Nat /\ Len(s) <= n - 1 /\ DOMAIN s = 1 .. Len(s)
  BY DEF Yields
<1> HIDE DEF pass
<1>3. /\ l \in Seq(Found(sky)) /\ Len(l) = Len(s) + 1 /\ DOMAIN l = 1 .. Len(s) + 1
      /\ l[1] = pass
      /\ \A i \in DOMAIN s : i + 1 \in DOMAIN l /\ l[i + 1] = s[i]
      /\ \A i \in DOMAIN l : i # 1 => i - 1 \in DOMAIN s /\ l[i] = s[i - 1]
  <2>1. <<pass>> \in Seq(Found(sky)) /\ Len(<<pass>>) = 1 /\ <<pass>>[1] = pass
    BY <1>1
  <2>2. l \in Seq(Found(sky)) /\ Len(l) = Len(s) + 1
    BY <1>2, <2>1
  <2>3. DOMAIN l = 1 .. Len(s) + 1
    BY <2>2
  <2>4. ASSUME NEW i \in DOMAIN l
        PROVE  l[i] = IF i = 1 THEN pass ELSE s[i - 1]
    BY <1>2, <2>1, <2>3
  <2> HIDE DEF l
  <2>5. 1 \in DOMAIN l /\ l[1] = pass
    BY <1>2, <2>3, <2>4
  <2>6. ASSUME NEW i \in DOMAIN s
        PROVE  i + 1 \in DOMAIN l /\ l[i + 1] = s[i]
    <3>1. i \in Int /\ i + 1 \in DOMAIN l /\ i + 1 # 1 /\ i + 1 - 1 = i
      BY <1>2, <2>3
    <3>2. l[i + 1] = s[i + 1 - 1]
      BY <2>4, <3>1
    <3> QED
      BY <3>1, <3>2
  <2>7. ASSUME NEW i \in DOMAIN l, i # 1
        PROVE  i - 1 \in DOMAIN s /\ l[i] = s[i - 1]
    BY <1>2, <2>3, <2>4, <2>7
  <2> QED
    BY <2>2, <2>3, <2>5, <2>6, <2>7
<1> HIDE DEF l
<1>4. ASSUME NEW i \in DOMAIN l
      PROVE  /\ FoundAfter(sky, t, end, l[i])
             /\ i > 1 => l[i].rise - l[i - 1].set > Coarse
  <2>1. CASE i = 1
    BY <1>3, <2>1 DEF pass
  <2>2. CASE i # 1
    <3>1. i \in Nat /\ i - 1 \in DOMAIN s /\ l[i] = s[i - 1] /\ FoundAfter(sky, set + Coarse, end, s[i - 1])
      BY <1>2, <1>3, <2>2 DEF Yields
    <3>2. FoundAfter(sky, t, end, l[i])
      BY <1>0, <1>1, <3>1 DEF FoundAfter
    <3>3. CASE i = 2
      <4>1. l[i - 1] = pass /\ l[i].rise > set + Coarse /\ l[i].rise \in Int
        BY <1>0, <1>1, <1>3, <3>1, <3>3 DEF FoundAfter
      <4> QED
        BY <1>0, <1>1, <3>2, <4>1
    <3>4. CASE i # 2
      <4>1. i - 1 > 1 /\ i - 1 \in DOMAIN l /\ i - 1 # 1
        BY <1>2, <1>3, <2>2, <3>1, <3>4
      <4>2. l[i - 1] = s[i - 1 - 1]
        BY <1>3, <4>1
      <4>3. s[i - 1].rise - s[i - 1 - 1].set > Coarse
        BY <3>1, <4>1 DEF Yields
      <4> QED
        BY <3>1, <3>2, <4>2, <4>3
    <3> QED
      BY <3>2, <3>3, <3>4
  <2> QED
    BY <2>1, <2>2
<1>5. ASSUME NEW a \in Int, NEW b \in Int,
             Appears(sky, t, end, a, b)
      PROVE  \/ \E i \in DOMAIN l : Matches(l[i], a, b)
             \/ Len(l) = n /\ \A i \in DOMAIN l : l[i].rise < a
  <2>1. CASE Matches(pass, a, b)
    <3>1. 1 \in DOMAIN l
      BY <1>2, <1>3
    <3> QED
      BY <1>3, <2>1, <3>1
  <2>2. CASE rise < a /\ set + Coarse < a
    <3>1. \/ \E i \in DOMAIN s : Matches(s[i], a, b)
          \/ Len(s) = n - 1 /\ \A i \in DOMAIN s : s[i].rise < a
      <4>1. Appears(sky, set + Coarse, end, a, b)
        BY <1>5, <2>2 DEF Appears
      <4> QED
        BY <4>1 DEF Yields
    <3>2. CASE \E i \in DOMAIN s : Matches(s[i], a, b)
      <4>1. PICK i \in DOMAIN s : Matches(s[i], a, b)
        BY <3>2
      <4>2. i + 1 \in DOMAIN l /\ l[i + 1] = s[i]
        BY <1>3
      <4> QED
        BY <4>1, <4>2
    <3>3. CASE Len(s) = n - 1 /\ \A i \in DOMAIN s : s[i].rise < a
      <4>1. Len(l) = n
        BY <1>2, <1>3, <3>3
      <4>2. \A i \in DOMAIN l : l[i].rise < a
        BY <1>1, <1>3, <2>2, <3>3
      <4> QED
        BY <4>1, <4>2
    <3> QED
      BY <3>1, <3>2, <3>3
  <2> QED
    BY <1>5, <2>1, <2>2 DEF pass
<1>6. Len(l) <= n
  BY <1>2, <1>3
<1> QED
  BY <1>3, <1>4, <1>5, <1>6, Zenon DEF Yields, l, pass

\* The loop yields what it should, wherever it starts.
LEMMA SearchYields ==
  ASSUME NEW sky, NEW from \in Nat, NEW end \in Nat, NEW n \in Nat, from <= end + Coarse
  PROVE  Yields(sky, from, end, n, PassesFrom(sky, from, end, n))
<1> DEFINE S == Searched(from, end, n)
<1>0. Coarse \in Nat \ {0}
  BY PredictionAssumption
<1>1. PICK search : /\ search = [p \in S |-> Round(sky, end, search, p)]
                    /\ PassesFrom(sky, from, end, n) = search[<<from, n>>]
  <2>1. PICK g : IsSearch(sky, from, end, n, g)
    BY SearchDefined
  <2> QED
    BY <2>1 DEF IsSearch, PassesFrom, Round, Searched
<1>2. \A p \in S : search[p] = Round(sky, end, search, p)
  BY <1>1
<1> DEFINE Right(p) == Yields(sky, p[1], end, p[2], search[p])
           Wrong == {m \in Nat : \E p \in S : m = end + Coarse - p[1] /\ ~Right(p)}
<1>3. \A p \in S : p[1] \in Nat /\ end + Coarse - p[1] \in Nat /\ p[2] \in Nat
  BY <1>0, SearchedFrom
<1> HIDE DEF S
<1>4. ASSUME NEW p \in S, \A q \in S : p[1] < q[1] => Right(q)
      PROVE  Right(p)
  <2> DEFINE t == p[1]
             k == p[2]
             rise == FindRise(sky, t, end)
             set == FindSet(sky, rise, end)
  <2>0. t \in Nat /\ k \in Nat
    BY <1>3
  <2>1. CASE t >= end \/ k = 0 \/ rise = NoTime
    <3>1. search[p] = <<>>
      BY <1>2, <2>1 DEF Round
    <3>2. /\ search[p] \in Seq(Found(sky)) /\ Len(search[p]) = 0 /\ DOMAIN search[p] = {}
      BY <3>1
    <3>3. ASSUME NEW a \in Int, NEW b \in Int, Appears(sky, t, end, a, b)
          PROVE  k = 0
      <4>1. t < end
        BY <1>0, <2>0, <3>3 DEF Appears
      <4>2. rise # NoTime
        BY <2>0, <3>3, SearchMeets DEF Appears
      <4> QED
        BY <2>0, <2>1, <4>1, <4>2
    <3> HIDE DEF t, k
    <3> QED
      BY <2>0, <3>2, <3>3 DEF Yields, t, k
  <2>2. CASE t < end /\ k # 0 /\ rise # NoTime
    <3>1. /\ rise \in t + 1 .. end /\ Up(sky, rise) /\ \E d \in 1 .. Fine : ~Up(sky, rise - d)
          /\ set \in rise .. end /\ set # NoTime
          /\ set # end => Up(sky, set) /\ \E d \in 1 .. Fine : ~Up(sky, set + d)
          /\ t < set + Coarse
          /\ <<set + Coarse, k>> \in S
          /\ <<set + Coarse, k - 1>> \in S
      BY <2>2, SearchAdvances DEF S
    <3>2. ASSUME NEW a \in Int, NEW b \in Int, Appears(sky, t, end, a, b)
          PROVE  \/ /\ rise \in a .. a + Fine - 1 /\ set \in b + 1 - Fine .. b
                    /\ LongEnough(rise, set)
                 \/ rise < a /\ set + Coarse < a
      BY <2>0, <3>2, SearchMeets DEF Appears
    <3>3. search[p] = IF LongEnough(rise, set)
                      THEN <<PassOf(sky, rise, set)>> \o search[<<set + Coarse, k - 1>>]
                      ELSE search[<<set + Coarse, k>>]
      <4>1. ~(t >= end)
        BY <2>0, <2>2
      <4> QED
        BY <1>2, <2>2, <3>1, <4>1, Zenon DEF Round
    <3> DEFINE q == <<set + Coarse, k - 1>>
               r == <<set + Coarse, k>>
    <3>4. Right(q) /\ Right(r)
      <4>1. t < q[1] /\ q \in S /\ t < r[1] /\ r \in S
        BY <3>1
      <4> HIDE DEF q, r, t, Right
      <4> QED
        BY <1>4, <4>1 DEF t
    <3>5. /\ Yields(sky, set + Coarse, end, k - 1, search[q])
          /\ Yields(sky, set + Coarse, end, k, search[r])
      BY <3>4
    <3> HIDE DEF q, r, rise, set
    <3>6. CASE LongEnough(rise, set)
      <4>1. search[p] = <<PassOf(sky, rise, set)>> \o search[q]
        BY <3>3, <3>6 DEF q
      <4>2. PassOf(sky, rise, set).rise = rise /\ PassOf(sky, rise, set).set = set
        BY DEF PassOf
      <4>3. FoundAfter(sky, t, end, PassOf(sky, rise, set))
        BY <3>1, <3>6, <4>2 DEF FoundAfter
      <4>4. \A a \in Int, b \in Int :
              Appears(sky, t, end, a, b)
                => \/ Matches(PassOf(sky, rise, set), a, b)
                   \/ rise < a /\ set + Coarse < a
        BY <3>2, <4>2 DEF Matches
      <4>5. k \in Nat \ {0} /\ rise \in t + 1 .. end /\ set \in rise .. end
        BY <2>0, <2>2, <3>1
      <4> HIDE DEF t, k
      <4>6. Yields(sky, t, end, k, <<PassOf(sky, rise, set)>> \o search[q])
        BY <2>0, <3>5, <4>3, <4>4, <4>5, YieldsOneMore
      <4> QED
        BY <4>1, <4>6 DEF t, k
    <3>7. CASE ~LongEnough(rise, set)
      <4>1. search[p] = search[r]
        BY <3>3, <3>7 DEF r
      <4>2. \A a \in Int, b \in Int :
              Appears(sky, t, end, a, b) => set + Coarse < a
        BY <3>2, <3>7
      <4>3. set + Coarse \in Nat /\ t <= set + Coarse
        BY <1>0, <2>0, <3>1
      <4> HIDE DEF t, k
      <4>4. Yields(sky, t, end, k, search[r])
        BY <2>0, <3>5, <4>2, <4>3, YieldsFromEarlier
      <4> QED
        BY <4>1, <4>4 DEF t, k
    <3> QED
      BY <3>6, <3>7
  <2> QED
    BY <2>0, <2>1, <2>2
<1> HIDE DEF Right
<1>5. Wrong = {}
  <2> SUFFICES ASSUME Wrong # {}
               PROVE  FALSE
    OBVIOUS
  <2>1. PICK m \in Wrong : \A j \in Wrong : m <= j
    BY LeastOf
  <2>2. PICK p \in S : m = end + Coarse - p[1] /\ ~Right(p)
    BY <2>1
  <2>3. PICK q \in S : p[1] < q[1] /\ ~Right(q)
    BY <1>4, <2>2
  <2>4. end + Coarse - q[1] \in Wrong
    BY <1>3, <2>3
  <2>5. m <= end + Coarse - q[1]
    BY <2>1, <2>4
  <2> HIDE DEF Wrong
  <2> QED
    BY <1>0, <1>3, <2>2, <2>3, <2>5
<1>6. <<from, n>> \in S
  BY <1>0 DEF S, Searched
<1>7. Right(<<from, n>>)
  BY <1>3, <1>5, <1>6
<1> QED
  BY <1>1, <1>7 DEF Right

\* The whole search, from instant 0: a pass under way begins there.
LEMMA PredictYields ==
  ASSUME NEW sky
  PROVE  Yields(sky, -1, MaxSearch, Count, PredictPasses(sky, 0))
<1> DEFINE end == 0 + MaxSearch
           set == FindSet(sky, 0, end)
<1>0. /\ Coarse \in Nat \ {0} /\ Count \in Nat \ {0} /\ MaxSearch \in Nat \ {0} /\ end = MaxSearch
      /\ end \in Nat /\ NoTime \notin Int
  BY PredictionAssumption
<1> HIDE DEF end
<1>1. CASE ~Up(sky, 0)
  <2>1. PredictPasses(sky, 0) = PassesFrom(sky, 0, end, Count)
    BY <1>1 DEF PredictPasses, end
  <2>2. Yields(sky, 0, end, Count, PredictPasses(sky, 0))
    BY <1>0, <2>1, SearchYields
  <2>3. \A a \in Int, b \in Int : Appears(sky, -1, end, a, b) => 0 < a
    BY <1>0 DEF Appears
  <2> QED
    BY <1>0, <2>2, <2>3, YieldsFromEarlier
<1>2. CASE Up(sky, 0)
  <2>1. /\ set \in 0 .. end
        /\ set # end => Up(sky, set) /\ \E d \in 1 .. Fine : ~Up(sky, set + d)
        /\ \A w \in Int : /\ 0 < w /\ w + Coarse - 1 <= end
                          /\ \A t \in w .. w + Coarse - 1 : ~Up(sky, t)
                          => set < w
    BY <1>0, <1>2, FindSetFacts
  <2>2. PredictPasses(sky, 0)
          = IF LongEnough(0, set)
            THEN <<PassOf(sky, 0, set)>> \o PassesFrom(sky, set + Coarse, end, Count - 1)
            ELSE PassesFrom(sky, set + Coarse, end, Count)
    <3>1. set # NoTime
      BY <1>0, <2>1
    <3> QED
      BY <1>2, <3>1 DEF PredictPasses, end
  <2> HIDE DEF set
  <2>3. set + Coarse \in Nat /\ set + Coarse <= end + Coarse
    BY <1>0, <2>1
  <2>4. ASSUME NEW a \in Int, NEW b \in Int, Appears(sky, -1, end, a, b)
        PROVE  0 < a /\ set + Coarse < a
    <3>1. /\ Coarse <= a /\ a <= end
          /\ \A t \in a - Coarse .. a - 1 : ~Up(sky, t)
      BY <1>0, <2>4 DEF Appears, Isolated
    <3>2. 0 \notin a - Coarse .. a - 1
      BY <1>2, <3>1
    <3>3. a - Coarse \in Int /\ 0 < a - Coarse /\ a - Coarse + Coarse - 1 = a - 1
      BY <1>0, <3>1, <3>2
    <3>4. set < a - Coarse
      BY <1>0, <2>1, <3>1, <3>3
    <3> QED
      BY <1>0, <2>1, <3>3, <3>4
  <2>5. CASE LongEnough(0, set)
    <3>1. PassOf(sky, 0, set).rise = 0 /\ PassOf(sky, 0, set).set = set
      BY DEF PassOf
    <3>2. FoundAfter(sky, -1, end, PassOf(sky, 0, set))
      BY <1>0, <1>2, <2>1, <2>5, <3>1 DEF FoundAfter
    <3>3. Yields(sky, set + Coarse, end, Count - 1, PassesFrom(sky, set + Coarse, end, Count - 1))
      <4>1. Count - 1 \in Nat
        BY <1>0
      <4> QED
        BY <1>0, <2>3, <4>1, SearchYields
    <3> DEFINE rise == 0
    <3>4. rise \in -1 + 1 .. end /\ set \in rise .. end
      BY <1>0, <2>1
    <3>5. Yields(sky, -1, end, Count, <<PassOf(sky, 0, set)>> \o PassesFrom(sky, set + Coarse, end, Count - 1))
      BY <1>0, <2>4, <3>2, <3>3, <3>4, YieldsOneMore
    <3> QED
      BY <1>0, <2>2, <2>5, <3>5
  <2>6. CASE ~LongEnough(0, set)
    <3>1. Yields(sky, set + Coarse, end, Count, PassesFrom(sky, set + Coarse, end, Count))
      BY <1>0, <2>3, SearchYields
    <3>2. \A a \in Int, b \in Int : Appears(sky, -1, end, a, b) => set + Coarse < a
      BY <2>4
    <3>3. Yields(sky, -1, end, Count, PassesFrom(sky, set + Coarse, end, Count))
      BY <1>0, <2>3, <3>1, <3>2, YieldsFromEarlier
    <3> QED
      BY <1>0, <2>2, <2>6, <3>3
  <2> QED
    BY <2>5, <2>6
<1> QED
  BY <1>1, <1>2

\* The passes predicted over any sky are true to it, and none that is isolated and
\* lasts a coarse step is missed (predict.go: PredictPasses).
THEOREM PredictionIsTrue ==
  ASSUME NEW sky
  PROVE  PredictionTrue(sky, PredictPasses(sky, 0))
<1> DEFINE s == PredictPasses(sky, 0)
<1>0. /\ Coarse \in Nat \ {0} /\ Count \in Nat \ {0} /\ MaxSearch \in Nat \ {0}
  BY PredictionAssumption
<1>1. Yields(sky, -1, MaxSearch, Count, s)
  BY PredictYields
<1> HIDE DEF s
<1>2. ASSUME NEW i \in DOMAIN s
      PROVE  PassTrue(sky, s[i])
  <2>1. FoundAfter(sky, -1, MaxSearch, s[i])
    BY <1>1 DEF Yields
  <2> QED
    BY <1>0, <2>1 DEF FoundAfter, PassTrue
<1>3. ASSUME NEW a \in Coarse .. MaxSearch, NEW b \in Coarse .. MaxSearch - Coarse,
             b - a >= Coarse, Isolated(sky, a, b)
      PROVE  \/ \E i \in DOMAIN s : Matches(s[i], a, b)
             \/ Len(s) = Count /\ s[Count].rise < a
  <2>1. a \in Int /\ b \in Int /\ Appears(sky, -1, MaxSearch, a, b)
    BY <1>0, <1>3 DEF Appears
  <2>2. \/ \E i \in DOMAIN s : Matches(s[i], a, b)
        \/ Len(s) = Count /\ \A i \in DOMAIN s : s[i].rise < a
    BY <1>1, <2>1 DEF Yields
  <2>3. Len(s) = Count => Count \in DOMAIN s
    BY <1>0, <1>1 DEF Yields
  <2> QED
    BY <2>2, <2>3
<1>4. Len(s) <= Count /\ \A i \in DOMAIN s : i > 1 => s[i].rise - s[i - 1].set > Coarse
  BY <1>1 DEF Yields
<1> QED
  BY <1>2, <1>3, <1>4, Zenon DEF PredictionTrue, Matches, s

-----------------------------------------------------------------------------
(* Samples and peak of a pass *)

\* A function on 1 .. n is a sequence of length n.
LEMMA FunctionIsSeq ==
  ASSUME NEW n \in Nat, NEW f, f = [i \in 1 .. n |-> f[i]]
  PROVE  f \in Seq({f[i] : i \in 1 .. n}) /\ Len(f) = n /\ DOMAIN f = 1 .. n
<1>1. [i \in 1 .. n |-> f[i]] \in Seq({f[i] : i \in 1 .. n})
  OBVIOUS
<1>2. f \in Seq({f[i] : i \in 1 .. n}) /\ DOMAIN f = 1 .. n
  BY <1>1
<1> QED
  BY <1>2

\* A pass is sampled from its rise to its set, in order.
LEMMA SamplesFacts ==
  ASSUME NEW sky, NEW rise \in Nat, NEW set \in Nat, rise < set
  PROVE  LET s == Samples(sky, rise, set) IN
         /\ Len(s) \in Nat /\ Len(s) >= 2 /\ DOMAIN s = 1 .. Len(s)
         /\ s[1].t = rise /\ s[Len(s)].t = set
         /\ \A k \in DOMAIN s : s[k].t \in rise .. set /\ s[k].elev = sky[s[k].t]
         /\ \A k \in DOMAIN s : k > 1 => s[k - 1].t < s[k].t
<1>0. SampleInterval \in Nat \ {0}
  BY PredictionAssumption
<1> DEFINE d == SampleInterval
           q == (set - rise) \div d
           n == q + 1
           at(k) == rise + (k - 1) * d
           regular == [k \in 1 .. n |->
                         LET t == rise + (k - 1) * d IN [t |-> t, elev |-> sky[t]]]
           s == Samples(sky, rise, set)
<1>1. /\ q \in Int /\ set - rise - d * q \in 0 .. d - 1
  <2>1. set - rise \in Int
    OBVIOUS
  <2>2. q \in Int /\ (set - rise) % d \in 0 .. d - 1 /\ set - rise = d * q + ((set - rise) % d)
    BY <1>0, <2>1, Division, Zenon
  <2> HIDE DEF q
  <2>3. d * q \in Int
    BY <1>0, <2>2
  <2> QED
    BY <1>0, <2>2, <2>3
<1>2. q >= 0
  <2> HIDE DEF q
  <2> SUFFICES ASSUME q <= -1
               PROVE  FALSE
    BY <1>1
  <2>1. d * q <= -d
    BY <1>0, <1>1
  <2> QED
    BY <1>0, <1>1, <2>1
<1> HIDE DEF q
<1>3. n \in Nat /\ n >= 1 /\ at(n) = rise + d * q /\ at(n) <= set
  BY <1>0, <1>1, <1>2
<1>4. ASSUME NEW k \in 1 .. n
      PROVE  at(k) \in Nat /\ rise <= at(k) /\ at(k) <= at(n)
  <2>1. 0 <= (k - 1) * d /\ (k - 1) * d \in Int
    BY <1>0
  <2>2. (k - 1) * d <= (n - 1) * d
    <3>1. 0 <= (n - k) * d
      BY <1>0, <1>3
    <3> QED
      BY <1>0, <1>3, <3>1
  <2> QED
    BY <1>0, <1>3, <2>1, <2>2
<1>5. ASSUME NEW k \in 1 .. n, k > 1
      PROVE  at(k - 1) < at(k)
  <2>1. (k - 1) * d = (k - 1 - 1) * d + d
    BY <1>0
  <2>2. (k - 1 - 1) * d \in Int
    BY <1>0
  <2> QED
    BY <1>0, <2>1, <2>2
<1>6. \A k \in 1 .. n : regular[k].t = at(k) /\ regular[k].elev = sky[at(k)]
  OBVIOUS
<1>7. regular \in Seq({regular[i] : i \in 1 .. n}) /\ Len(regular) = n /\ DOMAIN regular = 1 .. n
  <2>1. regular = [k \in 1 .. n |-> regular[k]]
    OBVIOUS
  <2> HIDE DEF regular, n
  <2> QED
    BY <1>3, <2>1, FunctionIsSeq
<1>8. s = IF regular[n].t < set THEN Append(regular, [t |-> set, elev |-> sky[set]]) ELSE regular
  BY Zenon DEF Samples, q
<1>9. at(1) = rise
  BY <1>0
<1> HIDE DEF regular, at, n, s
<1>10. CASE at(n) < set
  <2> DEFINE end == [t |-> set, elev |-> sky[set]]
  <2>1. end.t = set /\ end.elev = sky[set]
    OBVIOUS
  <2>2. s = Append(regular, end)
    BY <1>3, <1>6, <1>8, <1>10
  <2> HIDE DEF end
  <2>3. /\ Len(s) = n + 1 /\ DOMAIN s = 1 .. n + 1 /\ s[n + 1] = end
        /\ \A k \in 1 .. n : s[k] = regular[k]
    BY <1>3, <1>7, <2>2
  <2>4. ASSUME NEW k \in 1 .. n + 1
        PROVE  /\ s[k].t = (IF k = n + 1 THEN set ELSE at(k))
               /\ s[k].elev = sky[s[k].t]
    <3>1. CASE k = n + 1
      BY <2>1, <2>3, <3>1
    <3>2. CASE k # n + 1
      <4>1. k \in 1 .. n
        BY <1>3, <3>2
      <4> QED
        BY <1>6, <2>3, <3>2, <4>1
    <3> QED
      BY <3>1, <3>2
  <2>5. ASSUME NEW k \in 1 .. n + 1
        PROVE  /\ s[k].t \in rise .. set
               /\ k > 1 => s[k - 1].t < s[k].t
    <3>1. CASE k = n + 1
      <4>1. k - 1 = n /\ n \in 1 .. n + 1 /\ n # n + 1 /\ n \in 1 .. n
        BY <1>3, <3>1
      <4> QED
        BY <1>3, <1>4, <1>10, <2>4, <3>1, <4>1
    <3>2. CASE k # n + 1
      <4>1. k \in 1 .. n /\ k > 1 => k - 1 \in 1 .. n + 1 /\ k - 1 # n + 1
        BY <1>3, <3>2
      <4> QED
        BY <1>3, <1>4, <1>5, <2>4, <3>2, <4>1
    <3> QED
      BY <3>1, <3>2
  <2>6. s[1].t = rise /\ s[Len(s)].t = set
    BY <1>3, <1>9, <2>3, <2>4
  <2> QED
    BY <1>3, <2>3, <2>4, <2>5, <2>6 DEF s
<1>11. CASE ~(at(n) < set)
  <2>1. s = regular /\ at(n) = set
    BY <1>3, <1>4, <1>6, <1>8, <1>11
  <2>2. n # 1
    BY <1>9, <2>1
  <2>3. \A k \in 1 .. n : s[k].t = at(k) /\ s[k].elev = sky[s[k].t] /\ s[k].t \in rise .. set
    BY <1>3, <1>4, <1>6, <2>1
  <2>4. \A k \in 1 .. n : k > 1 => s[k - 1].t < s[k].t
    BY <1>3, <1>5, <2>3
  <2> QED
    BY <1>3, <1>7, <1>9, <2>1, <2>2, <2>3, <2>4 DEF s
<1> QED
  BY <1>10, <1>11

\* Finitely many elevations have a bound.
LEMMA ElevationsBounded ==
  ASSUME NEW sky, NEW rise \in Nat, NEW set \in Nat, \A t \in rise .. set : sky[t] \in Int
  PROVE  \E bound \in Nat : \A t \in rise .. set : sky[t] <= bound
<1> DEFINE Bounded(m) == \E bound \in Nat : \A t \in rise .. set : t < rise + m => sky[t] <= bound
           Bad == {m \in Nat : ~Bounded(m)}
<1>1. Bounded(0)
  <2>1. \A t \in rise .. set : t < rise + 0 => sky[t] <= 0
    OBVIOUS
  <2> QED
    BY <2>1
<1>2. ASSUME NEW m \in Nat, Bounded(m)
      PROVE  Bounded(m + 1)
  <2>1. PICK bound \in Nat : \A t \in rise .. set : t < rise + m => sky[t] <= bound
    BY <1>2
  <2>2. PICK more \in Nat : more >= bound /\ (rise + m \in rise .. set => sky[rise + m] <= more)
    <3>1. CASE rise + m \in rise .. set /\ sky[rise + m] > bound
      <4>1. sky[rise + m] \in Nat
        BY <3>1
      <4> QED
        BY <3>1, <4>1
    <3>2. CASE ~(rise + m \in rise .. set /\ sky[rise + m] > bound)
      BY <3>2
    <3> QED
      BY <3>1, <3>2
  <2>3. ASSUME NEW t \in rise .. set, t < rise + (m + 1)
        PROVE  sky[t] <= more
    <3>1. CASE t = rise + m
      BY <2>2, <3>1
    <3>2. CASE t # rise + m
      <4>1. sky[t] <= bound
        BY <2>1, <2>3, <3>2
      <4> QED
        BY <2>2, <4>1
    <3> QED
      BY <3>1, <3>2
  <2> QED
    BY <2>3
<1> HIDE DEF Bounded
<1>3. Bad = {}
  <2> SUFFICES ASSUME Bad # {}
               PROVE  FALSE
    OBVIOUS
  <2>1. PICK m \in Bad : \A k \in Bad : m <= k
    BY LeastOf
  <2>2. m # 0
    BY <1>1, <2>1
  <2>3. m - 1 \in Nat /\ m - 1 \notin Bad /\ m - 1 + 1 = m
    BY <2>1, <2>2
  <2> QED
    BY <1>2, <2>1, <2>3
<1>4. Bounded(set + 1)
  BY <1>3
<1>5. PICK bound \in Nat : \A t \in rise .. set : t < rise + (set + 1) => sky[t] <= bound
  BY <1>4 DEF Bounded
<1>6. \A t \in rise .. set : sky[t] <= bound
  BY <1>5
<1> QED
  BY <1>6

\* The peak of a pass is reached in it.
LEMMA PeakReached ==
  ASSUME NEW sky, NEW rise \in Nat, NEW set \in Nat, rise <= set,
         \A t \in rise .. set : sky[t] \in Int, Up(sky, rise)
  PROVE  \E u \in rise .. set : sky[u] = MaxElev(sky, rise, set) /\ Up(sky, u)
<1>0. SampleInterval \in Nat \ {0} /\ MinElev \in Nat
  BY PredictionAssumption
<1> DEFINE at == {u \in rise .. set : (u - rise) % SampleInterval = 0}
           T == {0} \cup {sky[t] : t \in at}
           max == Max(T)
<1>1. PICK bound \in Nat : \A t \in rise .. set : sky[t] <= bound
  BY ElevationsBounded
<1>2. T \in SUBSET Int /\ T # {} /\ \A m \in T : m <= bound
  BY <1>1
<1>3. rise \in at
  <2>1. SampleInterval * 0 = 0 /\ rise - rise = SampleInterval * 0
    BY <1>0
  <2>2. (rise - rise) % SampleInterval = 0
    BY <1>0, <2>1, Multiple
  <2> QED
    BY <2>2
<1>4. max \in T /\ \A m \in T : m <= max
  <2> HIDE DEF T
  <2> QED
    BY <1>1, <1>2, GreatestOf
<1>5. sky[rise] \in T /\ sky[rise] <= max /\ max \in Int
  BY <1>2, <1>3, <1>4
<1>6. sky[rise] \in Int /\ sky[rise] >= MinElev
  BY DEF Up
<1>7. PICK u \in at : sky[u] = max
  <2>1. CASE max \in {sky[t] : t \in at}
    BY <2>1
  <2>2. CASE max = 0
    <3> HIDE DEF max, at
    <3>1. sky[rise] = max
      BY <1>0, <1>5, <1>6, <2>2
    <3> QED
      BY <1>3, <3>1
  <2> QED
    BY <1>4, <2>1, <2>2
<1>8. sky[u] >= MinElev /\ u \in rise .. set
  BY <1>0, <1>5, <1>6, <1>7
<1> QED
  BY <1>7, <1>8 DEF Up, MaxElev

-----------------------------------------------------------------------------
(* Impairments of a pass *)

\* A quotient lies between the bounds of what is divided.
LEMMA QuotientBetween ==
  ASSUME NEW n \in Int, NEW d \in Nat \ {0}, NEW l \in Int, NEW h \in Int, d * l <= n, n <= d * h
  PROVE  n \div d \in l .. h
<1> DEFINE q == n \div d
           r == n % d
<1>1. q \in Int /\ r \in 0 .. d - 1 /\ n = d * q + r
  BY Division
<1> HIDE DEF q, r
<1>2. ~(q <= l - 1)
  <2> SUFFICES ASSUME q <= l - 1
               PROVE  FALSE
    OBVIOUS
  <2>1. d * (l - 1 - q) >= 0
    BY <1>1
  <2>2. d * (l - 1 - q) = d * l - d - d * q
    BY <1>1
  <2> QED
    BY <1>1, <2>1, <2>2
<1>3. ~(q >= h + 1)
  <2> SUFFICES ASSUME q >= h + 1
               PROVE  FALSE
    OBVIOUS
  <2>1. d * (q - (h + 1)) >= 0
    BY <1>1
  <2>2. d * (q - (h + 1)) = d * q - d * h - d
    BY <1>1
  <2> QED
    BY <1>1, <2>1, <2>2
<1> QED
  BY <1>1, <1>2, <1>3 DEF q

\* Interpolating stays between the values of the two ends.
LEMMA InterpolationBetween ==
  ASSUME NEW x \in Nat, NEW d \in Nat \ {0}, x <= d, NEW v \in Int, NEW w \in Int
  PROVE  LET y == v + (x * (w - v)) \div d IN
         /\ y \in Int
         /\ \A b \in Int : v >= b /\ w >= b => y >= b
         /\ \A b \in Int : v <= b /\ w <= b => y <= b
<1> DEFINE n == x * (w - v)
<1>1. n \in Int
  OBVIOUS
<1>2. CASE w >= v
  <2>1. (d - x) * (w - v) >= 0 /\ x * (w - v) >= 0
    BY <1>2
  <2>2. (d - x) * (w - v) = d * (w - v) - n
    OBVIOUS
  <2>3. d * 0 <= n /\ n <= d * (w - v)
    BY <1>1, <2>1, <2>2
  <2> HIDE DEF n
  <2>4. n \div d \in 0 .. w - v
    BY <1>1, <2>3, QuotientBetween
  <2> QED
    BY <2>4 DEF n
<1>3. CASE w < v
  <2>1. (d - x) * (v - w) >= 0 /\ x * (v - w) >= 0
    BY <1>3
  <2>2. (d - x) * (v - w) = n - d * (w - v) /\ x * (v - w) = -n
    OBVIOUS
  <2>3. d * (w - v) <= n /\ n <= d * 0
    BY <1>1, <2>1, <2>2
  <2> HIDE DEF n
  <2>4. n \div d \in w - v .. 0
    BY <1>1, <2>3, QuotientBetween
  <2> QED
    BY <1>3, <2>4 DEF n
<1> QED
  BY <1>2, <1>3

\* A curve of a link model yields a number for every elevation, within the
\* bounds of its values.
LEMMA InterpolateFacts ==
  ASSUME NEW points \in Seq(ModelPoint), points # <<>>, NEW elev \in Int
  PROVE  /\ Interpolate(points, elev) \in Int
         /\ \A b \in Int : (\A k \in DOMAIN points : points[k].value >= b) => Interpolate(points, elev) >= b
         /\ \A b \in Int : (\A k \in DOMAIN points : points[k].value <= b) => Interpolate(points, elev) <= b
<1> DEFINE n == Len(points)
           y == Interpolate(points, elev)
<1>1. n \in Nat /\ n >= 1 /\ DOMAIN points = 1 .. n
  OBVIOUS
<1>2. \A k \in 1 .. n : points[k].elev \in Int /\ points[k].value \in Int
  <2>1. \A k \in 1 .. n : points[k] \in ModelPoint
    BY <1>1
  <2> QED
    BY <2>1 DEF ModelPoint
<1>3. CASE elev <= points[1].elev
  <2>1. y = points[1].value
    BY <1>3 DEF Interpolate
  <2> QED
    BY <1>1, <1>2, <2>1
<1>4. CASE ~(elev <= points[1].elev) /\ elev >= points[n].elev
  <2>1. y = points[n].value
    BY <1>4 DEF Interpolate
  <2> QED
    BY <1>1, <1>2, <2>1
<1>5. CASE ~(elev <= points[1].elev) /\ ~(elev >= points[n].elev)
  <2> DEFINE T == {k \in 2 .. n : elev <= points[k].elev}
             i == Min(T)
  <2>1. n \in T /\ T \in SUBSET Nat
    <3>1. n # 1
      BY <1>2, <1>5
    <3> QED
      BY <1>1, <1>2, <1>5, <3>1
  <2>2. i \in T /\ \A k \in T : i <= k
    BY <2>1, LeastOf
  <2> DEFINE lo == points[i - 1]
             hi == points[i]
  <2>3. y = lo.value + ((elev - lo.elev) * (hi.value - lo.value)) \div (hi.elev - lo.elev)
    BY <1>5 DEF Interpolate
  <2> HIDE DEF i, y
  <2>4. i \in 2 .. n /\ i \in 1 .. n /\ i - 1 \in 1 .. n
    BY <1>1, <2>2
  <2>5. lo.elev < elev
    <3>1. CASE i = 2
      BY <1>2, <1>5, <2>4, <3>1
    <3>2. CASE i # 2
      <4>1. i - 1 \in 2 .. n /\ i - 1 \notin T
        BY <1>1, <2>2, <2>4, <3>2
      <4> QED
        BY <1>2, <2>4, <4>1
    <3> QED
      BY <3>1, <3>2
  <2> DEFINE x == elev - lo.elev
             d == hi.elev - lo.elev
             v == lo.value
             w == hi.value
  <2>6. x \in Nat /\ d \in Nat \ {0} /\ x <= d /\ v \in Int /\ w \in Int
    <3>1. elev <= hi.elev
      BY <2>2
    <3>2. lo.elev \in Int /\ hi.elev \in Int /\ v \in Int /\ w \in Int
      BY <1>2, <2>4
    <3>3. \A p, q, r \in Int : p < q /\ q <= r => q - p \in Nat /\ r - p \in Nat \ {0} /\ q - p <= r - p
      OBVIOUS
    <3> HIDE DEF lo, hi
    <3> QED
      BY <2>5, <3>1, <3>2, <3>3, Zenon
  <2>7. y = v + (x * (w - v)) \div d
    BY <2>3
  <2> HIDE DEF x, d
  <2>8. /\ y \in Int
        /\ \A b \in Int : v >= b /\ w >= b => y >= b
        /\ \A b \in Int : v <= b /\ w <= b => y <= b
    BY <2>6, <2>7, InterpolationBetween
  <2> QED
    BY <1>1, <2>4, <2>8 DEF y
<1> QED
  BY <1>3, <1>4, <1>5

\* The profile of a pass is one that Validate accepts, if the model is sound and
\* the lookahead fits in the gap.
LEMMA ProfileValid ==
  ASSUME NEW sky \in [0 .. MaxSearch -> Int], NEW rise \in Nat, NEW set \in Nat,
         set <= MaxSearch, rise < set,
         NEW model \in Models, ValidModel(model), NEW gap \in Nat, LookaheadSec <= gap
  PROVE  LET pass == PassOf(sky, rise, set)
             p == ProfileOf(pass, model, LookaheadSec, gap)
         IN /\ Len(pass.samples) >= 2
            /\ p \in Profile
            /\ Sound(model) => Valid(p)
<1> DEFINE pass == PassOf(sky, rise, set)
           s == pass.samples
           n == Len(s)
           p == ProfileOf(pass, model, LookaheadSec, gap)
<1>0. LookaheadSec \in Nat \ {0} /\ MaxSearch \in Nat
  BY ClockAssumption, PredictionAssumption
<1>1. pass.rise = rise /\ pass.set = set /\ s = Samples(sky, rise, set)
  BY DEF PassOf
<1>2. /\ n \in Nat /\ n >= 2 /\ DOMAIN s = 1 .. n
      /\ s[1].t = rise /\ s[n].t = set
      /\ \A k \in 1 .. n : s[k].t \in rise .. set /\ s[k].elev = sky[s[k].t]
      /\ \A k \in 1 .. n : k > 1 => s[k - 1].t < s[k].t
  <2> DEFINE r == Samples(sky, rise, set)
  <2>1. /\ Len(r) \in Nat /\ Len(r) >= 2 /\ DOMAIN r = 1 .. Len(r)
        /\ r[1].t = rise /\ r[Len(r)].t = set
        /\ \A k \in DOMAIN r : r[k].t \in rise .. set /\ r[k].elev = sky[r[k].t]
        /\ \A k \in DOMAIN r : k > 1 => r[k - 1].t < r[k].t
    BY SamplesFacts
  <2>2. s = r
    BY <1>1
  <2> HIDE DEF r, s
  <2> QED
    BY <2>1, <2>2
<1> HIDE DEF pass
<1>3. \A k \in 1 .. n : s[k].t \in Int /\ s[k].elev \in Int
  <2>1. \A t \in rise .. set : t \in Int /\ t \in 0 .. MaxSearch
    BY <1>0
  <2> QED
    BY <1>2, <2>1
<1>4. ASSUME NEW c \in Impairments
      PROVE  model[c] \in Seq(ModelPoint) /\ model[c] # <<>>
  BY DEF Models, ValidModel
<1>5. /\ p.mode = "periodic" /\ p.window = set - rise /\ p.period = set - rise + gap
      /\ p.lookahead = LookaheadSec /\ p.blockages = <<>>
      /\ p = [mode |-> p.mode, window |-> p.window, period |-> p.period,
              lookahead |-> p.lookahead, blockages |-> p.blockages, curves |-> p.curves]
      /\ p.curves = [c \in Impairments |-> p.curves[c]]
  BY <1>0, <1>1 DEF ProfileOf
<1>6. ASSUME NEW c \in Impairments
      PROVE  p.curves[c] = [k \in 1 .. n |-> [offset |-> s[k].t - rise,
                                              value |-> Interpolate(model[c], s[k].elev)]]
  BY <1>1, <1>2 DEF ProfileOf
<1> HIDE DEF p, s, n
<1>7. ASSUME NEW c \in Impairments
      PROVE  /\ p.curves[c] \in Seq(Point)
             /\ Len(p.curves[c]) = n /\ DOMAIN p.curves[c] = 1 .. n
             /\ \A k \in 1 .. n : /\ p.curves[c][k].offset = s[k].t - rise
                                  /\ p.curves[c][k].value = Interpolate(model[c], s[k].elev)
  <2>1. \A k \in 1 .. n : [offset |-> s[k].t - rise, value |-> Interpolate(model[c], s[k].elev)] \in Point
    <3> SUFFICES ASSUME NEW k \in 1 .. n
                 PROVE  [offset |-> s[k].t - rise, value |-> Interpolate(model[c], s[k].elev)] \in Point
      OBVIOUS
    <3>1. Interpolate(model[c], s[k].elev) \in Int
      BY <1>3, <1>4, InterpolateFacts
    <3> QED
      BY <1>3, <3>1 DEF Point
  <2> DEFINE f == p.curves[c]
  <2>2. f = [k \in 1 .. n |-> f[k]] /\ \A k \in 1 .. n : f[k] \in Point
    BY <1>6, <2>1
  <2>3. ASSUME NEW k \in 1 .. n
        PROVE  f[k].offset = s[k].t - rise /\ f[k].value = Interpolate(model[c], s[k].elev)
    <3>1. f[k] = [offset |-> s[k].t - rise, value |-> Interpolate(model[c], s[k].elev)]
      BY <1>6
    <3> HIDE DEF f
    <3> QED
      BY <3>1
  <2> HIDE DEF f
  <2>4. DOMAIN f = 1 .. n /\ Len(f) = n
    BY <1>2, <2>2, FunctionIsSeq
  <2>5. f \in Seq(Point)
    BY <1>2, <2>2
  <2> QED
    BY <2>3, <2>4, <2>5 DEF f
<1>8. p \in Profile
  <2>1. p.curves \in [Impairments -> Seq(Point)]
    BY <1>5, <1>7
  <2>2. p.blockages \in Seq(Blockage)
    BY <1>5
  <2> QED
    <3>1. [mode |-> p.mode, window |-> p.window, period |-> p.period,
           lookahead |-> p.lookahead, blockages |-> p.blockages, curves |-> p.curves] \in Profile
      <4>1. p.mode \in Mode /\ p.window \in Int /\ p.period \in Int /\ p.lookahead \in Int
        <5>1. p.mode \in Mode
          BY <1>5 DEF Mode
        <5>2. p.window \in Int /\ p.period \in Int /\ p.lookahead \in Int
          <6>1. set - rise \in Int /\ set - rise + gap \in Int /\ LookaheadSec \in Int
            BY <1>0
          <6> QED
            BY <1>5, <6>1, Zenon
        <5> QED
          BY <5>1, <5>2
      <4> QED
        BY <2>1, <2>2, <4>1 DEF Profile
    <3> QED
      BY <1>5, <3>1
<1>9. ASSUME Sound(model)
      PROVE  Valid(p)
  <2>1. ValidSchedule(p)
    BY <1>0, <1>5 DEF ValidSchedule, Periodic
  <2>2. ValidBlockages(p)
    BY <1>5 DEF ValidBlockages
  <2>3. ASSUME NEW c \in Impairments
        PROVE  ValidCurve(p.curves[c], CurveRange(p), c = "loss")
    <3>1. CurveRange(p) = set - rise
      BY <1>5 DEF CurveRange, Periodic
    <3>2. ASSUME NEW k \in 1 .. n
          PROVE  /\ p.curves[c][k].value >= 0
                 /\ c = "loss" => p.curves[c][k].value <= 100
                 /\ p.curves[c][k].offset <= set - rise
                 /\ k > 1 => p.curves[c][k].offset > p.curves[c][k - 1].offset
      <4> DEFINE points == model[c]
      <4>0. points \in Seq(ModelPoint) /\ points # <<>>
        BY <1>4
      <4>1. /\ \A i \in DOMAIN points : points[i].value >= 0
            /\ c = "loss" => \A i \in DOMAIN points : points[i].value <= 100
        BY <1>9 DEF Sound
      <4>2. s[k].elev \in Int
        BY <1>3
      <4> HIDE DEF points
      <4>3. Interpolate(points, s[k].elev) >= 0
        <5>1. \A e \in Int : Interpolate(points, e) >= 0
          BY <4>0, <4>1, InterpolateFacts
        <5> QED
          BY <4>2, <5>1
      <4>4. c = "loss" => Interpolate(points, s[k].elev) <= 100
        <5>1. c = "loss" => \A e \in Int : Interpolate(points, e) <= 100
          BY <4>0, <4>1, InterpolateFacts
        <5> QED
          BY <4>2, <5>1
      <4>5. p.curves[c][k].offset <= set - rise
        BY <1>2, <1>3, <1>7
      <4>6. k > 1 => p.curves[c][k].offset > p.curves[c][k - 1].offset
        <5> SUFFICES ASSUME k > 1
                     PROVE  p.curves[c][k].offset > p.curves[c][k - 1].offset
          OBVIOUS
        <5>1. k - 1 \in 1 .. n /\ s[k - 1].t < s[k].t
          BY <1>2
        <5>2. s[k - 1].t \in Int /\ s[k].t \in Int
          BY <1>3, <5>1
        <5>3. p.curves[c][k].offset = s[k].t - rise /\ p.curves[c][k - 1].offset = s[k - 1].t - rise
          BY <1>7, <5>1
        <5> QED
          BY <1>2, <5>1, <5>2, <5>3
      <4> QED
        BY <1>7, <4>3, <4>4, <4>5, <4>6 DEF points
    <3>3. p.curves[c] # <<>> /\ p.curves[c][1].offset = 0 /\ p.curves[c][n].offset = set - rise
      BY <1>2, <1>3, <1>7
    <3> QED
      BY <1>7, <3>1, <3>2, <3>3 DEF ValidCurve
  <2> QED
    BY <2>1, <2>2, <2>3 DEF Valid
<1> QED
  BY <1>2, <1>8, <1>9 DEF p, s, n, pass

-----------------------------------------------------------------------------
(* The sequence of passes *)

\* What increases from one to the next increases over any distance.
LEMMA Increasing ==
  ASSUME NEW n \in Nat, NEW f, \A i \in 1 .. n : f[i] \in Int,
         \A i \in 1 .. n : i > 1 => f[i - 1] < f[i]
  PROVE  \A i, j \in 1 .. n : i < j => f[i] < f[j]
<1> DEFINE Bad == {d \in Nat : \E i \in 1 .. n : i + d \in 1 .. n /\ d > 0 /\ ~(f[i] < f[i + d])}
<1>1. Bad = {}
  <2> SUFFICES ASSUME Bad # {}
               PROVE  FALSE
    OBVIOUS
  <2>1. PICK d \in Bad : \A e \in Bad : d <= e
    BY LeastOf
  <2>2. PICK i \in 1 .. n : i + d \in 1 .. n /\ d > 0 /\ ~(f[i] < f[i + d])
    BY <2>1
  <2>3. d \in Nat
    BY <2>1
  <2>4. f[i + d - 1] < f[i + d]
    BY <2>2, <2>3
  <2>5. CASE d = 1
    <3>1. i + d - 1 = i
      BY <2>3, <2>5
    <3> QED
      BY <2>2, <2>4, <3>1
  <2>6. CASE d # 1
    <3>1. d - 1 \in Nat /\ d - 1 > 0 /\ i + (d - 1) \in 1 .. n /\ i + (d - 1) = i + d - 1
      BY <2>2, <2>3, <2>6
    <3>2. d - 1 \notin Bad
      <4> HIDE DEF Bad
      <4> QED
        BY <2>1, <2>3
    <3>3. f[i] < f[i + (d - 1)]
      BY <3>1, <3>2
    <3>4. f[i] \in Int /\ f[i + d] \in Int /\ f[i + d - 1] \in Int
      BY <2>2, <3>1
    <3> QED
      BY <2>2, <2>4, <3>1, <3>3, <3>4
  <2> QED
    BY <2>5, <2>6
<1>2. SUFFICES ASSUME NEW i \in 1 .. n, NEW j \in 1 .. n, i < j, ~(f[i] < f[j])
               PROVE  FALSE
  OBVIOUS
<1>3. j - i \in Nat /\ i + (j - i) = j /\ j - i > 0
  BY <1>2
<1>4. j - i \in Bad
  BY <1>2, <1>3
<1> QED
  BY <1>1, <1>4

\* During a pass, it is the one under way.
LEMMA PassUnderWay ==
  ASSUME NEW own, Orderly(own), NEW i \in DOMAIN own, NEW t \in Int, During(own[i].pass, t)
  PROVE  InPass(own, t) /\ Pending(own, t) # {} /\ Min(Pending(own, t)) = i
<1>1. Len(own) \in Nat /\ DOMAIN own = 1 .. Len(own) /\ i \in Pending(own, t)
  BY DEF Orderly, Pending, During
<1>2. Pending(own, t) \in SUBSET Nat
  BY <1>1 DEF Pending
<1> DEFINE j == Min(Pending(own, t))
<1>3. j \in Pending(own, t) /\ j <= i
  BY <1>1, <1>2, LeastOf
<1> HIDE DEF j
<1>4. j \in DOMAIN own /\ t < own[j].pass.set
  BY <1>3 DEF Pending
<1>5. ~(j < i)
  <2>1. own[i].pass.rise <= t /\ own[i].pass.rise \in Int /\ own[j].pass.set \in Int
    BY <1>4 DEF During, Orderly
  <2>2. j < i => own[j].pass.set < own[i].pass.rise
    BY <1>4 DEF Orderly
  <2> QED
    BY <1>4, <2>1, <2>2
<1>6. j = i
  BY <1>1, <1>3, <1>4, <1>5
<1> QED
  BY <1>1, <1>6 DEF InPass, j

\* At an instant a curve has a point for, its value is the point's.
LEMMA CurveAtPoint ==
  ASSUME NEW points, NEW n \in Nat, Len(points) = n,
         \A k \in 1 .. n : points[k].offset \in Int /\ points[k].value \in Int,
         \A k \in 1 .. n : k > 1 => points[k - 1].offset < points[k].offset,
         NEW k \in 1 .. n - 1
  PROVE  EvaluateCurve(points, points[k].offset) = points[k].value
<1> DEFINE f == [j \in 1 .. n |-> points[j].offset]
           offset == points[k].offset
           i == CHOOSE j \in 1 .. Len(points) - 1 :
                  points[j].offset <= offset /\ offset < points[j + 1].offset
<1>1. \A j, l \in 1 .. n : j < l => points[j].offset < points[l].offset
  <2>1. /\ \A j \in 1 .. n : f[j] \in Int
        /\ \A j \in 1 .. n : j > 1 => f[j - 1] < f[j]
    OBVIOUS
  <2>2. \A j \in 1 .. n : f[j] = points[j].offset
    OBVIOUS
  <2> HIDE DEF f
  <2>3. \A j, l \in 1 .. n : j < l => f[j] < f[l]
    BY <2>1, Increasing
  <2> QED
    BY <2>2, <2>3
<1>2. k \in 1 .. n /\ k + 1 \in 1 .. n /\ n \in 1 .. n /\ k < n /\ k < k + 1
  OBVIOUS
<1>3. ~(offset >= points[n].offset)
  BY <1>1, <1>2
<1>4. /\ i \in 1 .. n - 1 /\ points[i].offset <= offset /\ offset < points[i + 1].offset
  <2>1. k \in 1 .. Len(points) - 1 /\ points[k].offset <= offset /\ offset < points[k + 1].offset
    BY <1>1, <1>2
  <2> HIDE DEF offset
  <2> QED
    BY <2>1
<1>5. EvaluateCurve(points, offset)
        = points[i].value + ((offset - points[i].offset) * (points[i + 1].value - points[i].value))
                              \div (points[i + 1].offset - points[i].offset)
  BY <1>3 DEF EvaluateCurve
<1> HIDE DEF i
<1>6. i = k
  <2>1. i \in 1 .. n /\ i + 1 \in 1 .. n
    BY <1>4
  <2>2. ~(k < i)
    BY <1>1, <1>2, <1>4, <2>1
  <2>3. ~(i < k)
    <3>1. i < k => i + 1 = k \/ i + 1 < k
      BY <2>1
    <3>2. i + 1 < k => points[i + 1].offset < offset
      BY <1>1, <1>2, <2>1
    <3> QED
      BY <1>2, <1>4, <2>1, <3>1, <3>2
  <2> QED
    BY <1>2, <2>1, <2>2, <2>3
<1> DEFINE d == points[k + 1].offset - offset
           w == points[k + 1].value - points[k].value
<1>7. d \in Nat \ {0} /\ w \in Int /\ (offset - offset) * w = 0
  <2>1. offset \in Int /\ points[k + 1].offset \in Int /\ offset < points[k + 1].offset
    BY <1>1, <1>2
  <2>2. w \in Int
    BY <1>2
  <2> HIDE DEF offset, w
  <2>3. offset - offset = 0 /\ 0 * w = 0
    BY <2>1, <2>2
  <2> QED
    BY <2>1, <2>2, <2>3
<1>8. EvaluateCurve(points, offset) = points[k].value + ((offset - offset) * w) \div d
  BY <1>5, <1>6
<1> HIDE DEF d, w
<1>9. 0 \div d = 0
  <2>1. d * 0 <= 0 /\ 0 <= d * 0
    BY <1>7
  <2> QED
    BY <1>7, <2>1, QuotientBetween
<1>10. points[k].value \in Int
  BY <1>2
<1> QED
  BY <1>7, <1>8, <1>9, <1>10

\* Seconds into its window, the profile of a pass is in coverage.
LEMMA PositionInPass ==
  ASSUME NEW p, p.mode = "periodic", p.blockages = <<>>,
         p.period \in Nat, p.window \in Nat, p.window <= p.period,
         NEW x \in Nat, x < p.window
  PROVE  /\ Later(p, 0, x) = x
         /\ Coverage(p, x).inCoverage /\ Coverage(p, x).elapsed = x
<1>1. Later(p, 0, x) = x
  <2> DEFINE m == p.period
             q == x \div m
             r == x % m
  <2>1. m \in Nat \ {0} /\ x < m /\ 0 + x = x /\ x \in Int
    OBVIOUS
  <2> HIDE DEF m
  <2>2. q \in Int /\ r \in 0 .. m - 1 /\ x = m * q + r
    BY <2>1, Division
  <2> HIDE DEF q, r
  <2>3. ~(q >= 1)
    <3> SUFFICES ASSUME q >= 1
                 PROVE  FALSE
      OBVIOUS
    <3>1. m * (q - 1) >= 0 /\ m * (q - 1) = m * q - m
      BY <2>1, <2>2
    <3> QED
      BY <2>1, <2>2, <3>1
  <2>4. ~(q <= -1)
    <3> SUFFICES ASSUME q <= -1
                 PROVE  FALSE
      OBVIOUS
    <3>1. m * (-1 - q) >= 0 /\ m * (-1 - q) = -m - m * q /\ m * q \in Int
      BY <2>1, <2>2
    <3>2. m * q <= -m
      BY <2>1, <3>1
    <3> QED
      BY <2>1, <2>2, <3>1, <3>2
  <2>5. q = 0
    BY <2>2, <2>3, <2>4
  <2>6. r = x
    BY <2>1, <2>2, <2>5
  <2> QED
    BY <2>1, <2>6 DEF Later, m, r
<1>2. ActiveBlockages(p, x) = {}
  BY DEF ActiveBlockages
<1> QED
  BY <1>1, <1>2 DEF Coverage, ScheduledCoverage, Periodic

\* An entry of an evaluator, with the rise and set of its pass and the gap after.
Entry(e, sky, rise, set, model, gap) ==
  /\ rise \in Nat /\ set \in Nat /\ set <= MaxSearch /\ rise < set
  /\ gap \in Nat /\ LookaheadSec <= gap
  /\ e.pass = PassOf(sky, rise, set)
  /\ e.profile = ProfileOf(PassOf(sky, rise, set), model, LookaheadSec, gap)

LinkTrue(own, pass, model) ==
  \A k \in 1 .. Len(pass.samples) - 1 :
    LinkAt(own, pass.samples[k].t)
      = [c \in Impairments |-> Interpolate(model[c], pass.samples[k].elev)]

\* At a sampled instant of a pass, but for the last, the link is the model's value
\* of the elevation.
LEMMA LinkAtSample ==
  ASSUME NEW own, Orderly(own), NEW i \in DOMAIN own,
         NEW sky \in [0 .. MaxSearch -> Int], NEW rise, NEW set,
         NEW model \in Models, ValidModel(model), NEW gap,
         Entry(own[i], sky, rise, set, model, gap)
  PROVE  LinkTrue(own, own[i].pass, model)
<1> SUFFICES ASSUME NEW k \in 1 .. Len(own[i].pass.samples) - 1
             PROVE  LinkAt(own, own[i].pass.samples[k].t)
                      = [c \in Impairments |-> Interpolate(model[c], own[i].pass.samples[k].elev)]
  BY Zenon DEF LinkTrue
<1> rise \in Nat
  BY DEF Entry
<1> set \in Nat
  BY DEF Entry
<1> rise < set
  BY DEF Entry
<1> set <= MaxSearch
  BY DEF Entry
<1> gap \in Nat /\ LookaheadSec <= gap
  BY DEF Entry
<1> own[i].pass = PassOf(sky, rise, set)
  BY DEF Entry
<1> own[i].profile = ProfileOf(PassOf(sky, rise, set), model, LookaheadSec, gap)
  BY DEF Entry
<1> DEFINE pass == own[i].pass
           p == own[i].profile
           s == pass.samples
           n == Len(s)
           t == s[k].t
<1>0. LookaheadSec \in Nat \ {0} /\ MaxSearch \in Nat
  BY ClockAssumption, PredictionAssumption
<1>1. pass.rise = rise /\ pass.set = set /\ s = Samples(sky, rise, set)
  BY DEF PassOf
<1>2. /\ n \in Nat /\ n >= 2 /\ DOMAIN s = 1 .. n
      /\ s[1].t = rise /\ s[n].t = set
      /\ \A j \in 1 .. n : s[j].t \in rise .. set /\ s[j].elev = sky[s[j].t]
      /\ \A j \in 1 .. n : j > 1 => s[j - 1].t < s[j].t
  <2> DEFINE r == Samples(sky, rise, set)
  <2>1. /\ Len(r) \in Nat /\ Len(r) >= 2 /\ DOMAIN r = 1 .. Len(r)
        /\ r[1].t = rise /\ r[Len(r)].t = set
        /\ \A j \in DOMAIN r : r[j].t \in rise .. set /\ r[j].elev = sky[r[j].t]
        /\ \A j \in DOMAIN r : j > 1 => r[j - 1].t < r[j].t
    BY SamplesFacts
  <2>2. s = r
    BY <1>1
  <2> HIDE DEF r, s
  <2> QED
    BY <2>1, <2>2
<1>3. /\ p.mode = "periodic" /\ p.window = set - rise /\ p.period = set - rise + gap
      /\ p.blockages = <<>>
      /\ \A c \in Impairments :
           p.curves[c] = [j \in DOMAIN s |-> [offset |-> s[j].t - rise,
                                              value |-> Interpolate(model[c], s[j].elev)]]
  BY <1>1 DEF ProfileOf
<1>4. t \in Int /\ rise <= t /\ t < set
  <2> DEFINE f == [j \in 1 .. n |-> s[j].t]
  <2> HIDE DEF s, n
  <2>1. /\ \A j \in 1 .. n : f[j] \in Int
        /\ \A j \in 1 .. n : j > 1 => f[j - 1] < f[j]
        /\ \A j \in 1 .. n : f[j] = s[j].t
    BY <1>2
  <2> HIDE DEF f
  <2>2. \A j, l \in 1 .. n : j < l => f[j] < f[l]
    BY <1>2, <2>1, Increasing
  <2>3. k \in 1 .. n /\ n \in 1 .. n /\ k < n
    BY <1>2 DEF n, s
  <2> QED
    BY <1>2, <2>1, <2>2, <2>3
<1> HIDE DEF t
<1>5. InPass(own, t) /\ Min(Pending(own, t)) = i
  <2>1. During(pass, t)
    BY <1>1, <1>4 DEF During
  <2> QED
    BY <1>4, <2>1, PassUnderWay
<1>6. LinkAt(own, t) = LinkState(p, Later(p, 0, t - rise))
  BY <1>1, <1>5 DEF LinkAt
<1> HIDE DEF p
<1>7. /\ Later(p, 0, t - rise) = t - rise
      /\ Coverage(p, t - rise).inCoverage /\ Coverage(p, t - rise).elapsed = t - rise
  <2>1. t - rise \in Nat /\ t - rise < p.window /\ p.period \in Nat /\ p.window <= p.period /\ p.window \in Nat
    BY <1>3, <1>4
  <2> QED
    BY <1>3, <2>1, PositionInPass, Zenon
<1>8. ASSUME NEW c \in Impairments
      PROVE  EvaluateCurve(p.curves[c], t - rise) = Interpolate(model[c], s[k].elev)
  <2> HIDE DEF s, n
  <2> DEFINE f == p.curves[c]
  <2>1. f = [j \in 1 .. n |-> [offset |-> s[j].t - rise, value |-> Interpolate(model[c], s[j].elev)]]
    BY <1>2, <1>3
  <2>2. ASSUME NEW j \in 1 .. n
        PROVE  /\ f[j].offset = s[j].t - rise /\ f[j].value = Interpolate(model[c], s[j].elev)
               /\ f[j].offset \in Int /\ f[j].value \in Int
    <3>1. f[j] = [offset |-> s[j].t - rise, value |-> Interpolate(model[c], s[j].elev)]
      BY <2>1
    <3>2. s[j].t \in Int /\ s[j].t \in 0 .. MaxSearch
      <4>1. \A x \in rise .. set : x \in Int /\ x \in 0 .. MaxSearch
        BY <1>0
      <4>2. s[j].t \in rise .. set
        BY <1>2, Zenon
      <4> QED
        BY <4>1, <4>2, Zenon
    <3>3. s[j].elev \in Int
      BY <1>2, <3>2
    <3>4. Interpolate(model[c], s[j].elev) \in Int
      <4>1. model[c] \in Seq(ModelPoint) /\ model[c] # <<>>
        BY DEF Models, ValidModel
      <4> QED
        BY <3>3, <4>1, InterpolateFacts
    <3> HIDE DEF f
    <3> QED
      BY <3>1, <3>2, <3>4
  <2>3. f = [j \in 1 .. n |-> f[j]]
    BY <2>1
  <2> HIDE DEF f
  <2>4. Len(f) = n
    BY <1>2, <2>3, FunctionIsSeq
  <2>5. ASSUME NEW j \in 1 .. n, j > 1
        PROVE  f[j - 1].offset < f[j].offset
    <3>1. j - 1 \in 1 .. n /\ s[j - 1].t < s[j].t /\ s[j - 1].t \in Int /\ s[j].t \in Int
      BY <1>2, <2>5
    <3>2. f[j - 1].offset = s[j - 1].t - rise /\ f[j].offset = s[j].t - rise
      BY <2>2, <3>1
    <3> QED
      BY <1>2, <3>1, <3>2
  <2>6. k \in 1 .. n - 1 /\ k \in 1 .. n
    BY <1>2 DEF n, s
  <2>7. EvaluateCurve(f, f[k].offset) = f[k].value
    BY <1>2, <2>2, <2>4, <2>5, <2>6, CurveAtPoint
  <2> QED
    BY <2>2, <2>6, <2>7 DEF f, t
<1>9. LinkState(p, t - rise) = [c \in Impairments |-> Interpolate(model[c], s[k].elev)]
  BY <1>7, <1>8 DEF LinkState
<1> QED
  BY <1>6, <1>7, <1>9 DEF t

\* What is known of each entry of an evaluator made for a sky.
EntryOf(e, sky, model, gap) ==
  /\ e.pass = PassOf(sky, e.pass.rise, e.pass.set)
  /\ e.pass.rise \in Nat /\ e.pass.set \in Nat /\ e.pass.set <= MaxSearch
  /\ LongEnough(e.pass.rise, e.pass.set) /\ e.pass.rise < e.pass.set
  /\ Up(sky, e.pass.rise)
  /\ gap \in Nat /\ LookaheadSec <= gap
  /\ e.profile = GenerateProfile(e.pass, model, LookaheadSec, gap)

\* An evaluator has the passes of the search, and they are a lead apart.
LEMMA EntriesFacts ==
  ASSUME NEW sky, NEW model
  PROVE  LET passes == PredictPasses(sky, 0)
             own == EntriesOf(passes, model)
         IN /\ Len(own) \in Nat /\ DOMAIN own = 1 .. Len(own) /\ DOMAIN own = DOMAIN passes
            /\ Len(own) = 0 => own = <<>>
            /\ passes = [i \in DOMAIN own |-> own[i].pass]
            /\ \A i \in DOMAIN own : EntryOf(own[i], sky, model, GapAfter(passes, i))
            /\ \A i \in DOMAIN own : i > 1 => own[i].pass.rise - own[i - 1].pass.set > Coarse
<1> DEFINE s == PredictPasses(sky, 0)
           n == Len(s)
           own == EntriesOf(s, model)
<1>0. /\ Coarse \in Nat \ {0} /\ MaxSearch \in Nat /\ MinPass \in Nat \ {0}
      /\ LookaheadSec \in Nat \ {0} /\ LookaheadSec <= Coarse
  BY PredictionAssumption, ClockAssumption
<1>1. Yields(sky, -1, MaxSearch, Count, s)
  BY PredictYields
<1> HIDE DEF s
<1>2. /\ n \in Nat /\ DOMAIN s = 1 .. n /\ s = [i \in 1 .. n |-> s[i]]
  BY <1>1 DEF Yields
<1>3. own = [i \in 1 .. n |-> [pass |-> s[i], profile |-> GenerateProfile(s[i], model, LookaheadSec, GapAfter(s, i))]]
  BY <1>2 DEF EntriesOf
<1>4. \A i \in 1 .. n : /\ own[i].pass = s[i]
                        /\ own[i].profile = GenerateProfile(s[i], model, LookaheadSec, GapAfter(s, i))
  BY <1>3
<1>5. own = [i \in 1 .. n |-> own[i]]
  BY <1>3
<1> HIDE DEF own
<1>6. Len(own) = n /\ DOMAIN own = 1 .. n
  <2> HIDE DEF n
  <2> QED
    BY <1>2, <1>5, FunctionIsSeq
<1>7. \A i \in 1 .. n : /\ FoundAfter(sky, -1, MaxSearch, s[i])
                        /\ i > 1 => s[i].rise - s[i - 1].set > Coarse
  BY <1>1, <1>2 DEF Yields
<1> HIDE DEF n
<1>8. ASSUME NEW i \in 1 .. n
      PROVE  /\ s[i] = PassOf(sky, s[i].rise, s[i].set)
             /\ s[i].rise \in Nat /\ s[i].set \in Nat /\ s[i].set <= MaxSearch
             /\ LongEnough(s[i].rise, s[i].set) /\ s[i].rise < s[i].set
             /\ Up(sky, s[i].rise)
  <2>1. FoundAfter(sky, -1, MaxSearch, s[i])
    BY <1>7
  <2>2. s[i].rise \in Nat /\ s[i].set \in Nat /\ s[i].set <= MaxSearch
    BY <1>0, <2>1 DEF FoundAfter
  <2>3. LongEnough(s[i].rise, s[i].set) /\ s[i].rise < s[i].set
    BY <1>0, <2>1, <2>2 DEF FoundAfter, LongEnough
  <2> QED
    BY <2>1, <2>2, <2>3 DEF FoundAfter
<1>9. ASSUME NEW i \in 1 .. n
      PROVE  GapAfter(s, i) \in Nat /\ LookaheadSec <= GapAfter(s, i)
  <2>1. CASE i < n
    <3>1. i + 1 \in 1 .. n /\ i + 1 > 1 /\ i + 1 - 1 = i
      BY <1>2, <2>1
    <3>2. s[i + 1].rise - s[i].set > Coarse
      BY <1>7, <3>1
    <3>3. GapAfter(s, i) = s[i + 1].rise - s[i].set
      BY <2>1 DEF GapAfter, n
    <3>4. s[i + 1].rise \in Nat /\ s[i].set \in Nat
      BY <1>8, <3>1
    <3> QED
      BY <1>0, <3>2, <3>3, <3>4
  <2>2. CASE ~(i < n)
    <3>1. GapAfter(s, i) = 2 * LookaheadSec
      BY <2>2 DEF GapAfter, n
    <3> QED
      BY <1>0, <3>1
  <2> QED
    BY <2>1, <2>2
<1>10. ASSUME NEW i \in 1 .. n
       PROVE  EntryOf(own[i], sky, model, GapAfter(s, i))
  BY <1>4, <1>8, <1>9, Zenon DEF EntryOf
<1>11. n = 0 => own = <<>>
  BY <1>5
<1>12. s = [i \in 1 .. n |-> own[i].pass]
  BY <1>2, <1>4
<1>13. \A i \in 1 .. n : i > 1 => own[i].pass.rise - own[i - 1].pass.set > Coarse
  <2> SUFFICES ASSUME NEW i \in 1 .. n, i > 1
               PROVE  own[i].pass.rise - own[i - 1].pass.set > Coarse
    OBVIOUS
  <2>1. i - 1 \in 1 .. n
    BY <1>2
  <2> QED
    BY <1>4, <1>7, <2>1
<1> QED
  BY <1>2, <1>6, <1>10, <1>11, <1>12, <1>13 DEF own, s, n

\* The passes of an evaluator come one after the other.
LEMMA EntriesOrderly ==
  ASSUME NEW sky, NEW model
  PROVE  Orderly(EntriesOf(PredictPasses(sky, 0), model))
<1> DEFINE s == PredictPasses(sky, 0)
           own == EntriesOf(s, model)
           n == Len(own)
           f == [i \in 1 .. n |-> own[i].pass.rise]
<1>0. Coarse \in Nat \ {0} /\ MinPass \in Nat
  BY PredictionAssumption
<1>1. /\ n \in Nat /\ DOMAIN own = 1 .. n
      /\ \A i \in 1 .. n : EntryOf(own[i], sky, model, GapAfter(s, i))
      /\ \A i \in 1 .. n : i > 1 => own[i].pass.rise - own[i - 1].pass.set > Coarse
  <2>1. /\ Len(own) \in Nat /\ DOMAIN own = 1 .. Len(own) /\ DOMAIN own = DOMAIN s
        /\ \A i \in DOMAIN own : EntryOf(own[i], sky, model, GapAfter(s, i))
        /\ \A i \in DOMAIN own : i > 1 => own[i].pass.rise - own[i - 1].pass.set > Coarse
    BY EntriesFacts
  <2> HIDE DEF own, s
  <2> QED
    BY <2>1
<1> HIDE DEF own, s
<1>2. \A i \in 1 .. n : /\ own[i].pass.rise \in Nat /\ own[i].pass.set \in Nat
                        /\ own[i].pass.rise < own[i].pass.set
                        /\ own[i].pass.set - own[i].pass.rise >= MinPass
  BY <1>0, <1>1 DEF EntryOf, LongEnough
<1> HIDE DEF n
<1>3. ASSUME NEW i \in 1 .. n, i > 1
      PROVE  i - 1 \in 1 .. n /\ own[i - 1].pass.set < own[i].pass.rise
  <2>1. i - 1 \in 1 .. n
    BY <1>1, <1>3
  <2> QED
    BY <1>0, <1>1, <1>2, <1>3, <2>1
<1>4. \A i \in 1 .. n : f[i] = own[i].pass.rise
  OBVIOUS
<1>5. \A i \in 1 .. n : f[i] \in Int
  BY <1>2
<1>6. \A i \in 1 .. n : i > 1 => f[i - 1] < f[i]
  <2> SUFFICES ASSUME NEW i \in 1 .. n, i > 1
               PROVE  f[i - 1] < f[i]
    OBVIOUS
  <2>1. i - 1 \in 1 .. n /\ own[i - 1].pass.set < own[i].pass.rise
    BY <1>3
  <2>2. f[i - 1] = own[i - 1].pass.rise /\ f[i] = own[i].pass.rise
    BY <1>4, <2>1
  <2> HIDE DEF f
  <2> QED
    BY <1>2, <2>1, <2>2
<1> HIDE DEF f
<1>7. \A i, j \in 1 .. n : i < j => f[i] < f[j]
  BY <1>1, <1>5, <1>6, Increasing
<1>8. ASSUME NEW i \in 1 .. n, NEW j \in 1 .. n, i < j
      PROVE  own[i].pass.set < own[j].pass.rise
  <2>1. i + 1 \in 1 .. n /\ i + 1 > 1 /\ i + 1 - 1 = i /\ (i + 1 = j \/ i + 1 < j)
    BY <1>1, <1>8
  <2>2. own[i].pass.set < own[i + 1].pass.rise
    BY <1>3, <2>1
  <2>3. i + 1 < j => own[i + 1].pass.rise < own[j].pass.rise
    BY <1>4, <1>7, <2>1
  <2> QED
    BY <1>2, <2>1, <2>2, <2>3
<1>9. Orderly(own)
  BY <1>1, <1>2, <1>8 DEF Orderly, n
<1> QED
  BY <1>9 DEF own, s

\* An evaluator tells the truth of the sky it was made for (NewSequenceEvaluator,
\* stateAt, LookaheadAt), for every sky and every link model that loads.
THEOREM EntriesAreTrue ==
  ASSUME NEW sky \in [0 .. MaxSearch -> Int], NEW model \in Models, ValidModel(model)
  PROVE  EntriesTrue(EntriesOf(PredictPasses(sky, 0), model), sky, model)
<1> DEFINE s == PredictPasses(sky, 0)
           own == EntriesOf(s, model)
           n == Len(own)
<1>0. MaxSearch \in Nat
  BY PredictionAssumption
<1>1. /\ n \in Nat /\ DOMAIN own = 1 .. n
      /\ n = 0 => own = <<>>
      /\ s = [i \in DOMAIN own |-> own[i].pass]
      /\ \A i \in 1 .. n : EntryOf(own[i], sky, model, GapAfter(s, i))
  <2>1. /\ Len(own) \in Nat /\ DOMAIN own = 1 .. Len(own) /\ DOMAIN own = DOMAIN s
        /\ Len(own) = 0 => own = <<>>
        /\ s = [i \in DOMAIN own |-> own[i].pass]
        /\ \A i \in DOMAIN own : EntryOf(own[i], sky, model, GapAfter(s, i))
    BY EntriesFacts
  <2> HIDE DEF own, s
  <2> QED
    BY <2>1
<1>2. Orderly(own)
  BY EntriesOrderly
<1>3. PredictionTrue(sky, s)
  BY PredictionIsTrue
<1> HIDE DEF own, s
<1>4. ASSUME NEW i \in 1 .. n
      PROVE  LET pass == own[i].pass
                 p == ProfileOf(pass, model, LookaheadSec, GapAfter(s, i))
             IN /\ own[i].profile = (IF Valid(p) THEN p ELSE NoProfile)
                /\ p # NoProfile
                /\ Sound(model) => Valid(p)
  <2> DEFINE pass == own[i].pass
             gap == GapAfter(s, i)
             p == ProfileOf(pass, model, LookaheadSec, gap)
  <2>1. /\ pass = PassOf(sky, pass.rise, pass.set)
        /\ pass.rise \in Nat /\ pass.set \in Nat /\ pass.set <= MaxSearch /\ pass.rise < pass.set
        /\ gap \in Nat /\ LookaheadSec <= gap
        /\ own[i].profile = GenerateProfile(pass, model, LookaheadSec, gap)
    BY <1>1 DEF EntryOf
  <2> HIDE DEF pass, gap
  <2>2. /\ Len(pass.samples) >= 2
        /\ p \in Profile
        /\ Sound(model) => Valid(p)
    <3> DEFINE rise == pass.rise
               set == pass.set
               q == PassOf(sky, rise, set)
    <3>1. rise \in Nat /\ set \in Nat /\ set <= MaxSearch /\ rise < set /\ pass = q
      BY <2>1
    <3> HIDE DEF rise, set
    <3>2. /\ Len(q.samples) >= 2
          /\ ProfileOf(q, model, LookaheadSec, gap) \in Profile
          /\ Sound(model) => Valid(ProfileOf(q, model, LookaheadSec, gap))
      BY <2>1, <3>1, ProfileValid
    <3> HIDE DEF q
    <3> QED
      BY <3>1, <3>2
  <2>3. own[i].profile = IF Len(pass.samples) < 2 \/ ~Valid(p) THEN NoProfile ELSE p
    BY <2>1 DEF GenerateProfile
  <2>4. ~(Len(pass.samples) < 2)
    <3>1. pass.samples = Samples(sky, pass.rise, pass.set)
      BY <2>1 DEF PassOf
    <3>2. Len(Samples(sky, pass.rise, pass.set)) \in Nat
      BY <2>1, SamplesFacts
    <3> QED
      BY <2>2, <3>1, <3>2
  <2>5. p # NoProfile
    BY <2>2, LinkModelAssumption
  <2> HIDE DEF p
  <2>6. own[i].profile = (IF Valid(p) THEN p ELSE NoProfile)
    BY <2>3, <2>4
  <2> QED
    BY <2>2, <2>5, <2>6 DEF p, pass, gap
<1>5. Sound(model) => own = <<>> \/ Builds(own)
  <2> SUFFICES ASSUME Sound(model), own # <<>>
               PROVE  \A i \in DOMAIN own : own[i].profile # NoProfile
    BY DEF Builds
  <2> QED
    BY <1>1, <1>4
<1>6. ASSUME Builds(own), NEW i \in DOMAIN s
      PROVE  LinkTrue(own, s[i], model)
  <2>1. i \in DOMAIN own /\ i \in 1 .. n /\ s[i] = own[i].pass
    BY <1>1
  <2> DEFINE pass == own[i].pass
             rise == pass.rise
             set == pass.set
             gap == GapAfter(s, i)
  <2>2. /\ pass = PassOf(sky, rise, set)
        /\ rise \in Nat /\ set \in Nat /\ set <= MaxSearch /\ rise < set
        /\ gap \in Nat /\ LookaheadSec <= gap
    BY <1>1, <2>1 DEF EntryOf
  <2>3. own[i].profile = ProfileOf(pass, model, LookaheadSec, gap)
    <3>1. own[i].profile # NoProfile
      BY <1>6, <2>1 DEF Builds
    <3> QED
      BY <1>4, <2>1, <3>1
  <2> HIDE DEF rise, set, gap
  <2>4. Entry(own[i], sky, rise, set, model, gap)
    BY <2>2, <2>3 DEF Entry
  <2>5. LinkTrue(own, own[i].pass, model)
    BY <1>2, <2>1, <2>4, LinkAtSample, Zenon
  <2> QED
    BY <2>1, <2>5
<1>7. ASSUME NEW t \in DOMAIN sky, PredictedPass(own, t) # NoTime
      PROVE  LET next == PredictedPass(own, t) IN
             \E u \in next.open .. next.close : sky[u] = next.maxElev /\ Up(sky, u)
  <2> DEFINE i == Min(Pending(own, t))
             pass == own[i].pass
             next == PredictedPass(own, t)
  <2>1. Pending(own, t) # {}
    BY <1>7 DEF PredictedPass
  <2>2. next = [open |-> pass.rise, close |-> pass.set, maxElev |-> pass.maxElev]
    BY <2>1 DEF PredictedPass
  <2>3. i \in DOMAIN own /\ i \in 1 .. n
    <3>1. Pending(own, t) \in SUBSET Nat /\ Pending(own, t) \subseteq DOMAIN own
      BY <1>1 DEF Pending
    <3>2. i \in Pending(own, t)
      BY <2>1, <3>1, LeastOf
    <3> HIDE DEF i
    <3> QED
      BY <1>1, <3>1, <3>2
  <2> HIDE DEF i, next
  <2>4. /\ pass = PassOf(sky, pass.rise, pass.set)
        /\ pass.rise \in Nat /\ pass.set \in Nat /\ pass.set <= MaxSearch /\ pass.rise < pass.set
        /\ Up(sky, pass.rise)
    BY <1>1, <2>3 DEF EntryOf
  <2> HIDE DEF pass
  <2> DEFINE rise == pass.rise
             set == pass.set
  <2>5. pass.maxElev = MaxElev(sky, rise, set)
    BY <2>4 DEF PassOf
  <2>6. rise \in Nat /\ set \in Nat /\ rise <= set /\ Up(sky, rise)
    BY <2>4
  <2>7. \A u \in rise .. set : sky[u] \in Int
    BY <1>0, <2>4
  <2> HIDE DEF rise, set
  <2>8. PICK u \in rise .. set : sky[u] = MaxElev(sky, rise, set) /\ Up(sky, u)
    BY <2>6, <2>7, PeakReached
  <2>9. next.open = rise /\ next.close = set /\ next.maxElev = pass.maxElev
    BY <2>2 DEF rise, set
  <2> QED
    BY <2>5, <2>8, <2>9 DEF next
<1> DEFINE passes == [i \in DOMAIN own |-> own[i].pass]
<1>8. passes = s
  BY <1>1
<1> HIDE DEF passes
<1>9. EntriesTrue(own, sky, model)
  <2>1. PredictionTrue(sky, passes)
    BY <1>3, <1>8
  <2>2. Builds(own) => \A i \in DOMAIN passes : LinkTrue(own, passes[i], model)
    BY <1>6, <1>8
  <2> QED
    BY <1>2, <1>5, <1>7, <2>1, <2>2, Zenon DEF EntriesTrue, LinkTrue, passes
<1> QED
  BY <1>9 DEF own, s

-----------------------------------------------------------------------------
(* The link in a pass *)

\* A curve that Validate accepts has a natural value at every offset.
LEMMA CurveIsNatural ==
  ASSUME NEW points \in Seq(Point), NEW maxOffset \in Nat, NEW isPercent,
         ValidCurve(points, maxOffset, isPercent), NEW offset \in Nat
  PROVE  EvaluateCurve(points, offset) \in Nat
<1> DEFINE n == Len(points)
<1>1. n \in Nat /\ n >= 1 /\ DOMAIN points = 1 .. n
  BY DEF ValidCurve
<1>2. \A k \in 1 .. n : points[k].offset \in Int /\ points[k].value \in Nat
  <2>1. \A k \in 1 .. n : points[k] \in Point
    BY <1>1
  <2>2. \A k \in 1 .. n : points[k].value >= 0
    BY <1>1 DEF ValidCurve
  <2>3. \A k \in 1 .. n : points[k].offset \in Int /\ points[k].value \in Int
    BY <2>1, Zenon DEF Point
  <2> HIDE DEF n
  <2> QED
    BY <2>2, <2>3
<1>3. CASE offset >= points[n].offset
  <2>1. EvaluateCurve(points, offset) = points[n].value
    BY <1>3, Zenon DEF EvaluateCurve
  <2> QED
    BY <1>1, <1>2, <2>1
<1>4. CASE ~(offset >= points[n].offset)
  <2> DEFINE T == {k \in 1 .. n : offset < points[k].offset}
             Segment(k) == points[k].offset <= offset /\ offset < points[k + 1].offset
             i == CHOOSE k \in 1 .. n - 1 : Segment(k)
  <2>1. n \in T /\ T \in SUBSET Nat
    BY <1>1, <1>2, <1>4
  <2>2. PICK k \in T : \A m \in T : k <= m
    BY <2>1, LeastOf
  <2>3. k # 1
    BY <2>2, <1>1 DEF ValidCurve
  <2>4. k - 1 \in 1 .. n - 1 /\ k - 1 \notin T
    BY <1>1, <2>2, <2>3
  <2>5. Segment(k - 1)
    BY <1>1, <1>2, <2>2, <2>4
  <2>6. i \in 1 .. n - 1 /\ Segment(i)
    BY <2>4, <2>5
  <2>7. EvaluateCurve(points, offset)
          = points[i].value + ((offset - points[i].offset) * (points[i + 1].value - points[i].value))
                                \div (points[i + 1].offset - points[i].offset)
    BY <1>4, Zenon DEF EvaluateCurve
  <2> HIDE DEF i
  <2>8. i \in 1 .. n /\ i + 1 \in 1 .. n
    BY <1>1, <2>6
  <2> DEFINE x == offset - points[i].offset
             d == points[i + 1].offset - points[i].offset
             v == points[i].value
             w == points[i + 1].value
             y == v + (x * (w - v)) \div d
  <2>9. x \in Nat /\ d \in Nat \ {0} /\ x <= d /\ v \in Nat /\ w \in Nat
    <3>1. /\ points[i].offset \in Int /\ v \in Nat
          /\ points[i + 1].offset \in Int /\ w \in Nat
      BY <1>2, <2>8
    <3>2. \A a, b \in Int : a <= offset /\ offset < b
            => offset - a \in Nat /\ b - a \in Nat \ {0} /\ offset - a <= b - a
      OBVIOUS
    <3> QED
      BY <2>6, <3>1, <3>2, Zenon
  <2>10. EvaluateCurve(points, offset) = y
    BY <2>7
  <2> HIDE DEF x, d, v, w
  <2>11. y \in Int /\ \A b \in Int : v >= b /\ w >= b => y >= b
    BY <2>9, InterpolationBetween
  <2>12. y >= 0
    BY <2>9, <2>11
  <2> QED
    BY <2>10, <2>11, <2>12
<1> QED
  BY <1>3, <1>4

\* While a pass is under way, the link of a sequence that builds has every
\* impairment: no subscriber is offered NaN.
LEMMA LinkInPass ==
  ASSUME NEW sky \in [0 .. MaxSearch -> Int], NEW model \in Models, ValidModel(model),
         NEW own, own = EntriesOf(PredictPasses(sky, 0), model), Builds(own),
         NEW t \in Int, InPass(own, t)
  PROVE  LinkAt(own, t) \in LinkStates
<1> DEFINE s == PredictPasses(sky, 0)
<1>0. LookaheadSec \in Nat \ {0} /\ MaxSearch \in Nat
  BY ClockAssumption, PredictionAssumption
<1>1. PICK i \in DOMAIN own : During(own[i].pass, t)
  BY DEF InPass
<1>2. Orderly(own)
  BY EntriesOrderly
<1>3. Min(Pending(own, t)) = i
  BY <1>1, <1>2, PassUnderWay
<1>4. EntryOf(own[i], sky, model, GapAfter(s, i))
  <2>1. \A j \in DOMAIN EntriesOf(s, model) : EntryOf(EntriesOf(s, model)[j], sky, model, GapAfter(s, j))
    BY EntriesFacts
  <2> HIDE DEF s
  <2> QED
    BY <2>1 DEF s
<1> DEFINE pass == own[i].pass
           p == own[i].profile
           gap == GapAfter(s, i)
           rise == pass.rise
           set == pass.set
           q == ProfileOf(pass, model, LookaheadSec, gap)
<1>5. /\ pass = PassOf(sky, rise, set)
      /\ rise \in Nat /\ set \in Nat /\ set <= MaxSearch /\ rise < set
      /\ gap \in Nat /\ LookaheadSec <= gap
      /\ p = GenerateProfile(pass, model, LookaheadSec, gap)
  BY <1>4 DEF EntryOf
<1>6. p = q /\ Valid(q)
  <2>1. p # NoProfile
    BY DEF Builds
  <2> HIDE DEF p, gap
  <2> QED
    BY <1>5, <2>1 DEF GenerateProfile
<1>7. LinkAt(own, t) = LinkState(p, Later(p, 0, t - rise))
  BY <1>3 DEF LinkAt
<1>8. rise <= t /\ t < set
  BY <1>1 DEF During
<1>9. q \in Profile
  <2> HIDE DEF rise, set, gap, pass, s
  <2>1. ProfileOf(PassOf(sky, rise, set), model, LookaheadSec, gap) \in Profile
    BY <1>5, ProfileValid
  <2> QED
    BY <1>5, <2>1
<1>10. q.mode = "periodic" /\ q.window = set - rise /\ q.period = set - rise + gap /\ q.blockages = <<>>
  BY DEF ProfileOf
<1> HIDE DEF p, q, pass, rise, set, gap, s
<1> DEFINE x == t - rise
<1>11. x \in Nat /\ x < q.window /\ q.window \in Nat /\ q.period \in Nat /\ q.window <= q.period
  BY <1>5, <1>8, <1>10
<1>12. Later(q, 0, x) = x /\ Coverage(q, x).inCoverage /\ Coverage(q, x).elapsed = x
  BY <1>10, <1>11, PositionInPass, Zenon
<1> HIDE DEF x
<1>13. ASSUME NEW c \in Impairments
       PROVE  EvaluateCurve(q.curves[c], x) \in Nat
  <2>1. q.curves[c] \in Seq(Point)
    BY <1>9 DEF Profile
  <2>2. CurveRange(q) \in Nat
    BY <1>11 DEF CurveRange
  <2>3. ValidCurve(q.curves[c], CurveRange(q), c = "loss")
    BY <1>6 DEF Valid
  <2> QED
    BY <1>11, <2>1, <2>2, <2>3, CurveIsNatural
<1>14. LinkState(q, x) \in LinkStates
  BY <1>12, <1>13 DEF LinkState, LinkStates
<1> QED
  BY <1>6, <1>7, <1>12, <1>14 DEF x

-----------------------------------------------------------------------------
(* The coverage at an instant *)

\* The pass under way at instant t, or the next one.
IsPending(own, t, i) ==
  /\ i \in DOMAIN own /\ t < own[i].pass.set
  /\ \A j \in DOMAIN own : j < i => own[j].pass.set <= t

\* The least of the pending passes is that pass.
LEMMA PendingFacts ==
  ASSUME NEW own, Orderly(own), NEW t \in Int, Pending(own, t) # {}
  PROVE  IsPending(own, t, Min(Pending(own, t)))
<1> DEFINE i == Min(Pending(own, t))
<1>1. Pending(own, t) \in SUBSET Nat /\ DOMAIN own \in SUBSET Nat
  BY DEF Pending, Orderly
<1>2. i \in Pending(own, t) /\ \A j \in Pending(own, t) : i <= j
  BY <1>1, LeastOf
<1> HIDE DEF i
<1>3. i \in DOMAIN own /\ t < own[i].pass.set
  BY <1>2 DEF Pending
<1>4. ASSUME NEW j \in DOMAIN own, j < i
      PROVE  own[j].pass.set <= t
  <2>1. j \notin Pending(own, t)
    BY <1>1, <1>2, <1>3, <1>4
  <2>2. own[j].pass.set \in Int
    BY DEF Orderly
  <2> QED
    BY <2>1, <2>2 DEF Pending
<1> QED
  BY <1>3, <1>4 DEF IsPending, i

\* No other pass is under way then.
LEMMA PendingInPass ==
  ASSUME NEW own, Orderly(own), NEW t \in Int, NEW i, IsPending(own, t, i)
  PROVE  InPass(own, t) <=> own[i].pass.rise <= t
<1>1. i \in DOMAIN own /\ t < own[i].pass.set
  BY DEF IsPending
<1>2. own[i].pass.rise <= t => InPass(own, t)
  BY <1>1 DEF InPass, During
<1>3. ASSUME InPass(own, t)
      PROVE  own[i].pass.rise <= t
  <2>1. PICK j \in DOMAIN own : own[j].pass.rise <= t /\ t < own[j].pass.set
    BY <1>3 DEF InPass, During
  <2>2. i \in Nat /\ j \in Nat
    BY <1>1 DEF Orderly
  <2>3. /\ own[i].pass.set \in Int /\ own[j].pass.rise \in Int /\ own[j].pass.set \in Int
    BY <1>1 DEF Orderly
  <2>4. ~(j < i)
    BY <2>1, <2>3 DEF IsPending
  <2>5. i < j => own[i].pass.set < own[j].pass.rise
    BY <1>1, Zenon DEF Orderly
  <2>6. ~(i < j)
    BY <1>1, <2>1, <2>3, <2>5
  <2> QED
    BY <2>1, <2>2, <2>4, <2>6
<1> QED
  BY <1>2, <1>3

\* The coverage at an instant: the pass under way or the next, or none for ever.
LEMMA CoverageFacts ==
  ASSUME NEW own, Orderly(own), NEW startAt, NEW t \in Int
  PROVE  LET c == CoverageAt(own, startAt, t)
             i == Min(Pending(own, t))
         IN /\ c.inCoverage \in BOOLEAN
            /\ c.inCoverage <=> InPass(own, t)
            /\ c.until \in Int
            /\ Pending(own, t) = {} => c.until = Infinity /\ ~c.inCoverage
            /\ Pending(own, t) # {} =>
                 /\ c.inCoverage <=> own[i].pass.rise <= t
                 /\ c.until = IF own[i].pass.rise <= t THEN own[i].pass.set - t
                              ELSE own[i].pass.rise - t
<1> DEFINE c == CoverageAt(own, startAt, t)
           i == Min(Pending(own, t))
<1>1. CASE Pending(own, t) = {}
  <2>1. c.inCoverage = FALSE /\ c.until = Infinity
    BY <1>1 DEF CoverageAt, AfterLast
  <2>2. ~InPass(own, t)
    BY <1>1 DEF InPass, During, Pending
  <2>3. Infinity \in Int
    BY ClockAssumption
  <2> HIDE DEF c
  <2> QED
    BY <1>1, <2>1, <2>2, <2>3 DEF c
<1>2. CASE Pending(own, t) # {}
  <2>1. IsPending(own, t, i)
    BY <1>2, PendingFacts
  <2>2. c = IF own[i].pass.rise <= t
            THEN [inCoverage |-> TRUE, elapsed |-> t - own[i].pass.rise, until |-> own[i].pass.set - t,
                  inBlockage |-> FALSE]
            ELSE [inCoverage |-> FALSE, elapsed |-> GapElapsed(own, startAt, t, i),
                  until |-> own[i].pass.rise - t, inBlockage |-> FALSE]
    BY <1>2 DEF CoverageAt
  <2> HIDE DEF c, i
  <2>3. own[i].pass.rise \in Int /\ own[i].pass.set \in Int
    BY <2>1 DEF IsPending, Orderly
  <2>4. InPass(own, t) <=> own[i].pass.rise <= t
    BY <2>1, PendingInPass
  <2>5. CASE own[i].pass.rise <= t
    BY <1>2, <2>2, <2>3, <2>4, <2>5 DEF c, i
  <2>6. CASE ~(own[i].pass.rise <= t)
    BY <1>2, <2>2, <2>3, <2>4, <2>6 DEF c, i
  <2> QED
    BY <2>5, <2>6
<1> QED
  BY <1>1, <1>2
=============================================================================
