---------------------------- MODULE PassPrediction ----------------------------
(***************************************************************************)
(* The search for satellite passes (internal/tle/predict.go).  What the    *)
(* orbit model says is a function from instants to elevations, the sky of  *)
(* an observer.  The search steps over it on a coarse grid and narrows     *)
(* each crossing of the minimum elevation down by halving.                 *)
(***************************************************************************)
EXTENDS Integers, Sequences, FiniteSetsExt

CONSTANTS
  Coarse,          \* the coarse step
  Fine,            \* where halving stops
  MinPass,         \* shorter passes are skipped
  SampleInterval,  \* PredictConfig, defaults included
  MinElev,
  Count,
  MaxSearch,
  NoTime           \* nothing found

\* What lasts a coarse step is long enough, even when cut at both ends.
ASSUME PredictionAssumption ==
  /\ {Coarse, Fine, MinPass, SampleInterval, Count, MaxSearch} \subseteq Nat \ {0}
  /\ MinPass + 2 * Fine <= Coarse
  /\ MinElev \in Nat
  /\ NoTime \notin Int

Up(sky, t) == sky[t] >= MinElev

\* The two instants, at most Fine apart, between which visibility changes.
Narrow(sky, from, to) ==
  LET narrow[p \in (from .. to) \X (from .. to)] ==
        IF p[2] - p[1] <= Fine THEN [before |-> p[1], after |-> p[2]]
        ELSE LET mid == p[1] + (p[2] - p[1]) \div 2 IN
             IF Up(sky, mid) = Up(sky, p[1]) THEN narrow[<<mid, p[2]>>] ELSE narrow[<<p[1], mid>>]
  IN narrow[<<from, to>>]

Grid(start, end) == {t \in start + Coarse .. end : (t - start) % Coarse = 0}

FindRise(sky, start, end) ==
  LET rises == {t \in Grid(start, end) : ~Up(sky, t - Coarse) /\ Up(sky, t)}
      first == Min(rises)
  IN IF rises = {} THEN NoTime ELSE Narrow(sky, first - Coarse, first).after

\* A pass that outlasts the search sets when the search ends.
FindSet(sky, rise, end) ==
  LET sets == {t \in Grid(rise, end) : Up(sky, t - Coarse) /\ ~Up(sky, t)}
      first == Min(sets)
      last == Max(Grid(rise, end) \cup {rise})
  IN IF sets # {} THEN Narrow(sky, first - Coarse, first).before
     ELSE IF Up(sky, last) THEN end ELSE NoTime

\* A bug: a pass is sampled at regular instants only.
RegularSamples(sky, rise, set) ==
  [k \in 1 .. (set - rise) \div SampleInterval + 1 |->
     LET t == rise + (k - 1) * SampleInterval IN [t |-> t, elev |-> sky[t]]]

\* samplePass: regular samples, and one at the end of the pass.
Samples(sky, rise, set) ==
  LET n == (set - rise) \div SampleInterval + 1
      regular == [k \in 1 .. n |->
                    LET t == rise + (k - 1) * SampleInterval IN [t |-> t, elev |-> sky[t]]]
  IN IF regular[n].t < set THEN Append(regular, [t |-> set, elev |-> sky[set]]) ELSE regular

\* The peak is sought among the regular samples.
MaxElev(sky, rise, set) ==
  Max({0} \cup {sky[t] : t \in {u \in rise .. set : (u - rise) % SampleInterval = 0}})

PassOf(sky, rise, set) ==
  [rise |-> rise, set |-> set, maxElev |-> MaxElev(sky, rise, set),
   samples |-> Samples(sky, rise, set)]

LongEnough(rise, set) == set - rise >= MinPass

\* The passes the main loop finds from an instant on, n at most.
PassesFrom(sky, from, end, n) ==
  LET search[p \in (from .. end + Coarse) \X (0 .. n)] ==
        LET rise == FindRise(sky, p[1], end)
            set == FindSet(sky, rise, end)
        IN IF p[1] >= end \/ p[2] = 0 \/ rise = NoTime \/ set = NoTime THEN <<>>
           ELSE IF LongEnough(rise, set)
           THEN <<PassOf(sky, rise, set)>> \o search[<<set + Coarse, p[2] - 1>>]
           ELSE search[<<set + Coarse, p[2]>>]
  IN search[<<from, n>>]

\* A pass already under way begins with the search.
PredictPasses(sky, now) ==
  LET end == now + MaxSearch
      set == FindSet(sky, now, end)
  IN IF Up(sky, now) /\ set # NoTime
     THEN IF LongEnough(now, set)
          THEN <<PassOf(sky, now, set)>> \o PassesFrom(sky, set + Coarse, end, Count - 1)
          ELSE PassesFrom(sky, set + Coarse, end, Count)
     ELSE PassesFrom(sky, now, end, Count)

-----------------------------------------------------------------------------
(* What makes a prediction from instant 0 correct *)

\* Visible from a to b, and not for a coarse step before and after.
Isolated(sky, a, b) ==
  /\ \A t \in a .. b : Up(sky, t)
  /\ \A t \in (a - Coarse .. a - 1) \cup (b + 1 .. b + Coarse) : ~Up(sky, t)

\* A pass is one of the sky: it begins and ends on a crossing of the minimum
\* elevation, but for the precision of the halving, or where the search does.
PassTrue(sky, p) ==
  /\ 0 <= p.rise /\ p.set <= MaxSearch /\ LongEnough(p.rise, p.set)
  /\ Up(sky, p.rise)
  /\ p.rise > 0 => \E d \in 1 .. Fine : ~Up(sky, p.rise - d)
  /\ p.set < MaxSearch => Up(sky, p.set) /\ \E d \in 1 .. Fine : ~Up(sky, p.set + d)

\* The passes found are true and far apart, and an isolated one that lasts a
\* coarse step is among them, unless there were enough before it.
PredictionTrue(sky, passes) ==
  /\ Len(passes) <= Count
  /\ \A i \in DOMAIN passes :
       /\ PassTrue(sky, passes[i])
       /\ i > 1 => passes[i].rise - passes[i - 1].set > Coarse
  /\ \A a \in Coarse .. MaxSearch, b \in Coarse .. MaxSearch - Coarse :
       b - a >= Coarse /\ Isolated(sky, a, b)
         => \/ \E i \in DOMAIN passes : /\ passes[i].rise \in a .. a + Fine - 1
                                       /\ passes[i].set \in b + 1 - Fine .. b
            \/ Len(passes) = Count /\ passes[Count].rise < a
=============================================================================
