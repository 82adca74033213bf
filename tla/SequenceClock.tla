---------------------------- MODULE SequenceClock ----------------------------
(***************************************************************************)
(* The evaluator of a sequence of passes (internal/tle/sequence.go): a     *)
(* simulation clock that runs faster in the gaps than in the passes, and   *)
(* the coverage and link state at an instant of it.  Peers are evaluated   *)
(* at the clock of the primary observer (synced_eval.go).                  *)
(***************************************************************************)
EXTENDS LinkModel

CONSTANTS
  LookaheadSec,
  Infinity       \* seconds until a transition that never comes

ASSUME ClockAssumption ==
  /\ LookaheadSec \in 1 .. Coarse
  /\ Infinity \in Nat /\ Infinity > LookaheadSec

VARIABLES
  simTime,  \* the simulation clock of the primary's evaluator
  started   \* whether Advance was ever called

clockVars == <<simTime, started>>

-----------------------------------------------------------------------------
(* NewSequenceEvaluator: one profile per pass.  The gap after the last pass  *)
(* is made up.                                                               *)

GapAfter(passes, i) ==
  IF i < Len(passes) THEN passes[i + 1].rise - passes[i].set ELSE 2 * LookaheadSec

EntriesOf(passes, model) ==
  [i \in DOMAIN passes |->
     [pass |-> passes[i],
      profile |-> GenerateProfile(passes[i], model, LookaheadSec, GapAfter(passes, i))]]

Builds(entries) ==
  /\ entries # <<>>
  /\ \A i \in DOMAIN entries : entries[i].profile # NoProfile

-----------------------------------------------------------------------------
(* The clock *)

During(pass, t) == pass.rise <= t /\ t < pass.set

InPass(entries, t) == \E i \in DOMAIN entries : During(entries[i].pass, t)

Factor(entries, speed, t) == IF InPass(entries, t) THEN 1 ELSE speed

\* The passes that rise after t, up to u.
Crossed(entries, t, u) ==
  {i \in DOMAIN entries : t < entries[i].pass.rise /\ entries[i].pass.rise <= u}

\* A bug: the clock does not stop where the notice of a pass is due.
SnapToRise(entries, old, new) ==
  LET crossed == Crossed(entries, old, new) IN
  IF crossed = {} THEN new ELSE entries[Min(crossed)].pass.rise

\* An accelerated clock stops where the notice of the pass is due, or where it
\* rises if the notice was due before.
Snap(entries, old, new) ==
  LET crossed == Crossed(entries, old, new)
      rise == entries[Min(crossed)].pass.rise
  IN IF crossed = {} THEN new
     ELSE IF rise - LookaheadSec > old THEN rise - LookaheadSec ELSE rise

\* A bug: accelerated time goes on inside a pass that has begun.
AdvanceUnslowed(entries, speed, gap) ==
  /\ started' = TRUE
  /\ simTime' = IF started /\ gap > 0 THEN Snap(entries, simTime, simTime + gap * speed)
                ELSE simTime

\* Advance, gap seconds of wall clock after the call before.
Advance(entries, speed, gap) ==
  LET factor == Factor(entries, speed, simTime)
      new == simTime + gap * factor
  IN /\ started' = TRUE
     /\ simTime' = IF ~started \/ gap = 0 THEN simTime
                   ELSE IF factor > 1 THEN Snap(entries, simTime, new) ELSE new

-----------------------------------------------------------------------------
(* stateAt *)

\* The pass under way at t, or the next one.
Pending(entries, t) == {i \in DOMAIN entries : t < entries[i].pass.set}

\* gapElapsed: since the previous pass, or since the session's start.
GapElapsed(entries, startAt, t, next) ==
  IF next = 1 THEN t - startAt ELSE t - entries[next - 1].pass.set

\* Out of coverage for ever, since the last pass has set.
AfterLast(entries, t) ==
  [inCoverage |-> FALSE, elapsed |-> t - entries[Len(entries)].pass.set,
   until |-> Infinity, inBlockage |-> FALSE]

CoverageAt(entries, startAt, t) ==
  LET i == Min(Pending(entries, t))
      pass == entries[i].pass
  IN IF Pending(entries, t) = {} THEN AfterLast(entries, t)
     ELSE IF pass.rise <= t
     THEN [inCoverage |-> TRUE, elapsed |-> t - pass.rise, until |-> pass.set - t,
           inBlockage |-> FALSE]
     ELSE [inCoverage |-> FALSE, elapsed |-> GapElapsed(entries, startAt, t, i),
           until |-> pass.rise - t, inBlockage |-> FALSE]

\* The evaluator of a pass has the rise as its epoch.
LinkAt(entries, t) ==
  LET entry == entries[Min(Pending(entries, t))] IN
  IF InPass(entries, t)
  THEN LinkState(entry.profile, Later(entry.profile, 0, t - entry.pass.rise))
  ELSE NaN

\* LookaheadAt: the pass under way or the next one, or nothing.
PredictedPass(entries, t) ==
  IF Pending(entries, t) = {} THEN NoTime
  ELSE LET pass == entries[Min(Pending(entries, t))].pass
       IN [open |-> pass.rise, close |-> pass.set, maxElev |-> pass.maxElev]

-----------------------------------------------------------------------------
(* What makes a sequence correct *)

\* The passes of an evaluator last, and come one after the other.
Orderly(own) ==
  /\ Len(own) \in Nat /\ DOMAIN own = 1 .. Len(own)
  /\ \A i \in DOMAIN own :
       /\ own[i].pass.rise \in Int /\ own[i].pass.set \in Int
       /\ own[i].pass.set - own[i].pass.rise >= MinPass
  /\ \A i, j \in DOMAIN own : i < j => own[i].pass.set < own[j].pass.rise

\* Its passes are those of the sky; with a sound link model every pass has a
\* profile, so a sequence with a pass always builds; at every sampled instant of
\* a pass the link is the model's value of the elevation; and the peak predicted
\* for a pass is reached in it (NewSequenceEvaluator, stateAt, LookaheadAt).
EntriesTrue(own, sky, model) ==
  LET passes == [i \in DOMAIN own |-> own[i].pass] IN
  /\ Sound(model) => own = <<>> \/ Builds(own)
  /\ Orderly(own)
  /\ PredictionTrue(sky, passes)
  /\ Builds(own) => \A i \in DOMAIN passes : \A k \in 1 .. Len(passes[i].samples) - 1 :
       LinkAt(own, passes[i].samples[k].t)
         = [c \in Impairments |-> Interpolate(model[c], passes[i].samples[k].elev)]
  /\ \A t \in DOMAIN sky : PredictedPass(own, t) # NoTime =>
       LET next == PredictedPass(own, t) IN
       \E u \in next.open .. next.close : sky[u] = next.maxElev /\ Up(sky, u)
=============================================================================
