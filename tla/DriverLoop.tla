------------------------------ MODULE DriverLoop ------------------------------
(***************************************************************************)
(* One tick of the driver loop (internal/kernel/driver/loop.go): it        *)
(* compares the coverage it has just evaluated with the coverage of the    *)
(* previous tick, and publishes an edge, a lookahead notice and a link     *)
(* state on the event bus, in that order.                                  *)
(***************************************************************************)
EXTENDS LinkThrottle

VARIABLES
  prevInCoverage, prevInCoverageSet,
  lookaheadOpenFired, lookaheadCloseFired,
  published   \* what the last tick published: an edge, a notice, a link state

loopVars == <<prevInCoverage, prevInCoverageSet, lookaheadOpenFired, lookaheadCloseFired,
              published, throttleVars>>

None == "none"
Edges == {"window_opened", "window_closed"}
Notices == {"window_opening", "window_closing"}

LoopTypeOK ==
  /\ prevInCoverage \in BOOLEAN
  /\ prevInCoverageSet \in BOOLEAN
  /\ lookaheadOpenFired \in BOOLEAN
  /\ lookaheadCloseFired \in BOOLEAN
  /\ published \in [edge : Edges \cup {None}, notice : Notices \cup {None},
                   link : LinkStates \cup {Silent}]
  /\ ThrottleTypeOK

LoopInit ==
  /\ prevInCoverage = FALSE
  /\ prevInCoverageSet = FALSE
  /\ lookaheadOpenFired = FALSE
  /\ lookaheadCloseFired = FALSE
  /\ published = [edge |-> None, notice |-> None, link |-> Silent]
  /\ ThrottleInit

\* The first tick tells subscribers where they stand.
Transition(cov) == ~prevInCoverageSet \/ cov.inCoverage # prevInCoverage

Edge(cov) ==
  IF ~Transition(cov) THEN None
  ELSE IF cov.inCoverage THEN "window_opened" ELSE "window_closed"

\* A bug: a transition resets nothing.
FiredBefore(flag, cov) == flag

\* What has been fired, once a transition has reset it.
Fired(flag, cov) == flag /\ ~(prevInCoverageSet /\ Transition(cov))

Imminent(cov, lookahead) == lookahead > 0 /\ cov.until <= lookahead

Closing(cov, lookahead) ==
  /\ cov.inCoverage
  /\ ~Fired(lookaheadCloseFired, cov)
  /\ Imminent(cov, lookahead)

Opening(cov, lookahead) ==
  /\ ~cov.inCoverage
  /\ ~Fired(lookaheadOpenFired, cov)
  /\ Imminent(cov, lookahead)

Notice(cov, lookahead) ==
  IF Closing(cov, lookahead) THEN "window_closing"
  ELSE IF Opening(cov, lookahead) THEN "window_opening" ELSE None

Tick(link, cov, lookahead, gap) ==
  /\ prevInCoverageSet' = TRUE
  /\ prevInCoverage' = cov.inCoverage
  /\ lookaheadCloseFired' = (Fired(lookaheadCloseFired, cov) \/ Closing(cov, lookahead))
  /\ lookaheadOpenFired' = (Fired(lookaheadOpenFired, cov) \/ Opening(cov, lookahead))
  /\ published' = [edge |-> Edge(cov), notice |-> Notice(cov, lookahead),
                   link |-> IF cov.inCoverage /\ Passes(link, gap) THEN link ELSE Silent]
  /\ IF cov.inCoverage THEN Offer(link, gap) ELSE Idle(gap)
=============================================================================
