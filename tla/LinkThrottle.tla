----------------------------- MODULE LinkThrottle -----------------------------
(***************************************************************************)
(* The link-state throttle of the event bus (internal/kernel/eventbus), as *)
(* one device sees it: an update is published if it differs enough from    *)
(* the last one published, or if that one has become too old.              *)
(***************************************************************************)
EXTENDS Condition

CONSTANTS
  Interval,   \* seconds after which an unchanged state is published again
  Threshold,  \* DeltaThreshold, in percent
  Silent      \* nothing published yet: linkThrottleState.has is false

ASSUME ThrottleAssumption ==
  /\ Interval \in Nat \ {0}
  /\ Threshold \in Nat
  /\ Silent \notin LinkStates

VARIABLES
  lastVal,  \* the state last published, or Silent
  lastAge   \* seconds since then, up to Interval

throttleVars == <<lastVal, lastAge>>

ThrottleTypeOK ==
  /\ lastVal \in LinkStates \cup {Silent}
  /\ lastAge \in 0 .. Interval

ThrottleInit == lastVal = Silent /\ lastAge = 0

Abs(n) == IF n < 0 THEN -n ELSE n

\* relDelta exceeds the threshold.  A change from or to zero always does.
Differs(old, new) ==
  /\ old # new
  /\ \/ old = 0
     \/ new = 0
     \/ 100 * Abs(new - old) > Threshold * old

\* linkStateDelta exceeds the threshold.
Significant(a, b) == \E c \in Impairments : Differs(a[c], b[c])

HasNaN(state) == \E c \in Impairments : state[c] < 0

Aged(gap) == IF lastAge + gap < Interval THEN lastAge + gap ELSE Interval

ShouldPublish(state, gap) ==
  lastVal # Silent => Aged(gap) >= Interval \/ Significant(lastVal, state)

Passes(state, gap) == ~HasNaN(state) /\ ShouldPublish(state, gap)

\* A bug: what is remembered is the state last offered.
OfferRemembered(state, gap) ==
  lastVal' = state /\ lastAge' = (IF Passes(state, gap) THEN 0 ELSE Aged(gap))

\* PublishLinkStateEvent, gap seconds after the last event offered.
Offer(state, gap) ==
  IF Passes(state, gap)
  THEN lastVal' = state /\ lastAge' = 0
  ELSE lastVal' = lastVal /\ lastAge' = Aged(gap)

\* No event offered.
Idle(gap) == lastVal' = lastVal /\ lastAge' = Aged(gap)
=============================================================================
