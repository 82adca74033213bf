------------------------------- MODULE DualPath -------------------------------
(***************************************************************************)
(* The Dev Sandbox module with terrestrial fallback                        *)
(* (internal/module/devsandbox/module.go, dual-path mode).  Coverage and   *)
(* link-state events arrive on any number of goroutines, as the module     *)
(* contract allows (pkg/module/module.go).  A coverage edge is reconciled  *)
(* in steps under satMu: shape the satellite qdisc, switch the default     *)
(* route, commit the bearer, publish the handover.  A link-state event     *)
(* first records the state under mu and then, under satMu, shapes the      *)
(* qdisc.  The default route and the qdisc belong to the kernel and are    *)
(* reached through commands that may fail.                                 *)
(***************************************************************************)
EXTENDS PathManager

CONSTANTS
  CoverageCallers,  \* goroutines that call OnCoverageEvent
  LinkCallers,      \* goroutines that call OnLinkState
  NoCaller,         \* satMu is unlocked
  LinkStates,       \* impairment values a curve can produce
  FullLoss,         \* the qdisc setting of 100% loss
  NoState           \* hasState is false

ASSUME DualPathAssumption ==
  /\ CoverageCallers \cap LinkCallers = {}
  /\ NoCaller \notin CoverageCallers \cup LinkCallers
  /\ FullLoss \notin LinkStates
  /\ NoState \notin LinkStates

VARIABLES
  phase,       \* "starting", "running", or "aborted" when InitBearer failed
  satMu,       \* the caller holding satMu, or NoCaller
  path,        \* the path.Manager
  route,       \* the bearer the default route goes through
  qdisc,       \* what the satellite netem qdisc does: FullLoss or a link state
  inCoverage,  \* Module.inCoverage
  lastState,   \* Module.lastState, NoState while hasState is false
  pc,          \* where each caller is in its handler
  call,        \* each caller's event and the fields it has sampled
  handover,    \* the set holding the latest handover published, empty at first
  shaped,      \* the latest shaping command worked (history)
  switched     \* the latest reconcile was not given up at the route command (history)

vars == <<phase, satMu, path, route, qdisc, inCoverage, lastState, pc, call, handover,
          shaped, switched>>

Callers == CoverageCallers \cup LinkCallers

Calls == [inCoverage : BOOLEAN, inBlockage : BOOLEAN, state : LinkStates \cup {NoState}]

\* The steps of reconcileBearer and of OnLinkState, in order.
CoverageSteps == {"idle", "reconcile", "refresh", "shape", "route", "commit"}
LinkSteps == {"idle", "link_wait", "link_apply"}

\* Where a caller holds satMu.
UnderSatMu == {"refresh", "shape", "route", "commit", "link_apply"}

TypeOK ==
  /\ phase \in {"starting", "running", "aborted"}
  /\ satMu \in Callers \cup {NoCaller}
  /\ path \in Paths
  /\ route \in Bearers \cup {"none"}
  /\ qdisc \in LinkStates \cup {FullLoss}
  /\ inCoverage \in BOOLEAN
  /\ lastState \in LinkStates \cup {NoState}
  /\ pc \in [Callers -> CoverageSteps \cup LinkSteps]
  /\ call \in [Callers -> Calls]
  /\ handover \in SUBSET Handovers
  /\ shaped \in BOOLEAN
  /\ switched \in BOOLEAN

NoCall == [inCoverage |-> FALSE, inBlockage |-> FALSE, state |-> NoState]

\* netem.Setup has installed the curves' first values; no bearer is selected yet.
Init ==
  /\ phase = "starting"
  /\ satMu = NoCaller
  /\ path = NewManager
  /\ route = "none"
  /\ qdisc \in LinkStates
  /\ inCoverage = FALSE
  /\ lastState = NoState
  /\ pc = [c \in Callers |-> "idle"]
  /\ call = [c \in Callers |-> NoCall]
  /\ handover = {}
  /\ shaped = TRUE
  /\ switched = TRUE

-------------------------------------------------------------------------------
(* Commands *)

\* Shaper.Apply and Shaper.SetFullLoss: one `tc qdisc change`, whose error the
\* module ignores.
ShapeTo(q) ==
  \/ qdisc' = q /\ shaped' = TRUE
  \/ UNCHANGED qdisc /\ shaped' = FALSE

NoShaping == UNCHANGED <<qdisc, shaped>>

\* A caller leaves its handler and releases satMu if it holds it.
Return(c) ==
  /\ pc' = [pc EXCEPT ![c] = "idle"]
  /\ call' = [call EXCEPT ![c] = NoCall]
  /\ satMu' = NoCaller

Goto(c, step) == pc' = [pc EXCEPT ![c] = step]

-------------------------------------------------------------------------------
(* Start-up: InitBearer runs before the module is subscribed to the bus *)

InitBearer(covered) ==
  /\ phase = "starting"
  /\ path' = InitPath(covered)
  /\ IF path'.current = "terrestrial" THEN ShapeTo(FullLoss) ELSE NoShaping
  /\ \/ /\ route' = path'.current
        /\ inCoverage' = covered
        /\ phase' = "running"
     \/ /\ phase' = "aborted"
        /\ UNCHANGED <<route, inCoverage>>
  /\ UNCHANGED <<satMu, lastState, pc, call, handover, switched>>

-------------------------------------------------------------------------------
(* OnCoverageEvent: window_opened or window_closed of this sandbox's device *)

\* A closed event says whether the outage is a blockage; an opened one never is.
CoverageCall(c, covered, blocked) ==
  /\ phase = "running"
  /\ pc[c] = "idle"
  /\ call' = [call EXCEPT ![c] =
                [NoCall EXCEPT !.inCoverage = covered, !.inBlockage = blocked /\ ~covered]]
  /\ Goto(c, "reconcile")
  /\ UNCHANGED <<phase, satMu, path, route, qdisc, inCoverage, lastState, handover, shaped,
                 switched>>

\* Mutant: reconcileBearer without satMu.Lock().
ReconcileUnlocked(c) ==
  /\ pc[c] = "reconcile"
  /\ satMu' = c
  /\ inCoverage' = call[c].inCoverage
  /\ call' = [call EXCEPT ![c].state = lastState]
  /\ Goto(c, IF Desired(call[c].inCoverage) = path.current THEN "refresh" ELSE "shape")
  /\ UNCHANGED <<phase, path, route, qdisc, lastState, handover, shaped, switched>>

\* Lock satMu, record the coverage and sample the last link state under mu.
Reconcile(c) ==
  /\ pc[c] = "reconcile"
  /\ satMu = NoCaller
  /\ satMu' = c
  /\ inCoverage' = call[c].inCoverage
  /\ call' = [call EXCEPT ![c].state = lastState]
  /\ Goto(c, IF Desired(call[c].inCoverage) = path.current THEN "refresh" ELSE "shape")
  /\ UNCHANGED <<phase, path, route, qdisc, lastState, handover, shaped, switched>>

\* Mutant: the last link state is applied without asking hasState.
ShapeForUnchecked(want, state) ==
  IF want = "terrestrial" THEN ShapeTo(FullLoss) ELSE ShapeTo(state)

\* What a reconcile shapes the satellite qdisc to on its way to a bearer.
ShapeFor(want, state) ==
  IF want = "terrestrial" THEN ShapeTo(FullLoss)
  ELSE IF state # NoState THEN ShapeTo(state)
  ELSE NoShaping

\* The bearer already is the wanted one: refresh blockage memory and the qdisc.
Refresh(c) ==
  LET want == Desired(call[c].inCoverage) IN
  /\ pc[c] = "refresh"
  /\ path' = TransitionTo(path, want, call[c].inBlockage)
  /\ ShapeFor(want, call[c].state)
  /\ switched' = TRUE
  /\ Return(c)
  /\ UNCHANGED <<phase, route, inCoverage, lastState, handover>>

\* Mutant: the qdisc is only shaped when leaving satellite.
ShapeOnlyLoss(c) ==
  /\ pc[c] = "shape"
  /\ IF call[c].inCoverage THEN NoShaping ELSE ShapeTo(FullLoss)
  /\ Goto(c, "route")
  /\ UNCHANGED <<phase, satMu, path, route, inCoverage, lastState, call, handover, switched>>

Shape(c) ==
  /\ pc[c] = "shape"
  /\ ShapeFor(Desired(call[c].inCoverage), call[c].state)
  /\ Goto(c, "route")
  /\ UNCHANGED <<phase, satMu, path, route, inCoverage, lastState, call, handover, switched>>

SwitchRoute(c) ==
  /\ pc[c] = "route"
  /\ route' = Desired(call[c].inCoverage)
  /\ Goto(c, "commit")
  /\ UNCHANGED <<phase, satMu, path, qdisc, inCoverage, lastState, call, handover, shaped,
                 switched>>

\* Mutant: the error of the route command is ignored.
SwitchRouteErrorIgnored(c) ==
  /\ pc[c] = "route"
  /\ path' = TransitionTo(path, Desired(call[c].inCoverage), call[c].inBlockage)
  /\ switched' = TRUE
  /\ Return(c)
  /\ UNCHANGED <<phase, route, qdisc, inCoverage, lastState, handover, shaped>>

\* Mutant: a failed switch is tried again, from shaping, until it succeeds.
SwitchRouteRetries(c) ==
  /\ pc[c] = "route"
  /\ Goto(c, "shape")
  /\ UNCHANGED <<phase, satMu, path, route, qdisc, inCoverage, lastState, call, handover, shaped,
                 switched>>

\* The route command fails: the bearer is left as it was until the next edge.
SwitchRouteFails(c) ==
  /\ pc[c] = "route"
  /\ switched' = FALSE
  /\ Return(c)
  /\ UNCHANGED <<phase, path, route, qdisc, inCoverage, lastState, handover, shaped>>

\* Commit the bearer and publish the handover, both still under satMu.
Commit(c) ==
  LET want == Desired(call[c].inCoverage) IN
  /\ pc[c] = "commit"
  /\ path' = TransitionTo(path, want, call[c].inBlockage)
  /\ handover' = {HandoverOf(path, want, call[c].inBlockage)}
  /\ switched' = TRUE
  /\ Return(c)
  /\ UNCHANGED <<phase, route, qdisc, inCoverage, lastState, shaped>>

-------------------------------------------------------------------------------
(* OnLinkState *)

\* Under mu: record the state and read inCoverage.  Out of coverage it returns.
LinkCall(c, state) ==
  /\ phase = "running"
  /\ pc[c] = "idle"
  /\ lastState' = state
  /\ IF inCoverage
       THEN /\ call' = [call EXCEPT ![c] = [NoCall EXCEPT !.state = state]]
            /\ Goto(c, "link_wait")
       ELSE UNCHANGED <<call, pc>>
  /\ UNCHANGED <<phase, satMu, path, route, qdisc, inCoverage, handover, shaped, switched>>

\* Mutant: no re-check of the bearer once satMu is held.
LinkLockUnchecked(c) ==
  /\ pc[c] = "link_wait"
  /\ satMu = NoCaller
  /\ satMu' = c
  /\ Goto(c, "link_apply")
  /\ UNCHANGED <<phase, path, route, qdisc, inCoverage, lastState, call, handover, shaped,
                 switched>>

\* Lock satMu; a reconcile may have left satellite in the meantime.
LinkLock(c) ==
  /\ pc[c] = "link_wait"
  /\ satMu = NoCaller
  /\ IF path.current = "satellite"
       THEN /\ satMu' = c
            /\ Goto(c, "link_apply")
            /\ UNCHANGED call
       ELSE Return(c)
  /\ UNCHANGED <<phase, path, route, qdisc, inCoverage, lastState, handover, shaped, switched>>

LinkApply(c) ==
  /\ pc[c] = "link_apply"
  /\ ShapeTo(call[c].state)
  /\ Return(c)
  /\ UNCHANGED <<phase, path, route, inCoverage, lastState, handover, switched>>

-------------------------------------------------------------------------------

\* run exits when InitBearer returned an error.
Aborted == phase = "aborted" /\ UNCHANGED vars

CoverageStep(c) ==
  \/ Reconcile(c)
  \/ Refresh(c)
  \/ Shape(c)
  \/ SwitchRoute(c)
  \/ SwitchRouteFails(c)
  \/ Commit(c)

LinkStep(c) == LinkLock(c) \/ LinkApply(c)

Next ==
  \/ \E covered \in BOOLEAN : InitBearer(covered)
  \/ \E c \in CoverageCallers :
        \/ \E covered, blocked \in BOOLEAN : CoverageCall(c, covered, blocked)
        \/ CoverageStep(c)
  \/ \E c \in LinkCallers :
        \/ \E state \in LinkStates : LinkCall(c, state)
        \/ LinkStep(c)
  \/ Aborted

Spec == Init /\ [][Next]_vars

\* sync.Mutex hands a starving waiter the lock, and every command is cut off
\* by shaperTimeout: a call that has begun is never passed over for ever.
Fairness ==
  /\ \A c \in CoverageCallers : SF_vars(Reconcile(c)) /\ WF_vars(CoverageStep(c))
  /\ \A c \in LinkCallers : SF_vars(LinkLock(c)) /\ WF_vars(LinkStep(c))

FairSpec == Spec /\ Fairness

-------------------------------------------------------------------------------
(* The inductive invariant *)

\* Handlers run only while the sandbox does, and then a bearer is selected.
PhaseInv ==
  /\ phase = "starting" => path.current = "none"
  /\ phase # "running" => \A c \in Callers : pc[c] = "idle"
  /\ phase = "running" => path.current \in Bearers

\* satMu is held by the one caller inside its critical section.
LockInv ==
  /\ \A c \in Callers : pc[c] \in UnderSatMu <=> satMu = c
  /\ \A c \in CoverageCallers : pc[c] \in CoverageSteps
  /\ \A c \in LinkCallers :
        pc[c] \in LinkSteps /\ (pc[c] # "idle" => call[c].state \in LinkStates)

\* What the holder of satMu knows of the bearer and of the coverage.
HolderInv ==
  \A c \in Callers :
    /\ pc[c] \in {"refresh", "shape", "route", "commit"} => call[c].inCoverage = inCoverage
    /\ pc[c] = "refresh" => path.current = Desired(inCoverage)
    /\ pc[c] \in {"shape", "route", "commit"} => path.current # Desired(inCoverage)
    /\ pc[c] = "link_apply" => path.current = "satellite"

\* The route is the bearer's, or already the next bearer's until the commit.
RouteInv ==
  phase = "running" =>
    route = IF \E c \in Callers : pc[c] = "commit" THEN Desired(inCoverage) ELSE path.current

\* Out of coverage, everything is dropped once a reconcile has shaped.
ClosedInv ==
  ( /\ phase = "running" /\ ~inCoverage /\ shaped
    /\ \A c \in Callers : pc[c] \notin {"refresh", "shape"}
    /\ path.current = "terrestrial" \/ \E c \in Callers : pc[c] \in {"route", "commit"} )
  => qdisc = FullLoss

IInv == TypeOK /\ PhaseInv /\ LockInv /\ HolderInv /\ RouteInv

-------------------------------------------------------------------------------
(* Properties *)

Settled == phase = "running" /\ satMu = NoCaller

\* Whenever no reconcile is under way, traffic leaves by the bearer that
\* SelectedBearer reports: a failed route command leaves both as they were.
RouteMatchesBearer == Settled => route = path.current

\* Fail closed: on the terrestrial bearer and out of coverage the satellite
\* qdisc drops everything, whatever link states were waiting for satMu, unless
\* the command to close it failed.
FailClosed ==
  Settled /\ ~inCoverage /\ path.current = "terrestrial" /\ shaped => qdisc = FullLoss

\* The selected bearer is the one the latest reconciled coverage edge asked
\* for, unless its route command failed.
BearerTracksCoverage == Settled /\ switched => path.current = Desired(inCoverage)

\* No link state is lost and none is applied late: once all handlers have
\* returned, a covered satellite bearer carries the latest link state.  It
\* relies on link states coming from one goroutine, as the driver sends them.
LatestStateApplied ==
  ( /\ Settled
    /\ \A c \in Callers : pc[c] = "idle"
    /\ inCoverage
    /\ path.current = "satellite"
    /\ lastState # NoState
    /\ shaped )
  => qdisc = lastState

\* Shape before route: the route never moves to satellite while the qdisc
\* drops everything and a link state was there to apply, and never leaves
\* satellite before the qdisc drops everything.
ShapeBeforeRoute ==
  [][ /\ route = "terrestrial" /\ route' = "satellite" /\ shaped
         => qdisc # FullLoss \/ call[satMu].state = NoState
      /\ route = "satellite" /\ route' = "terrestrial" /\ shaped => qdisc = FullLoss ]_vars

\* The comment on Module and reconcileBearer: link-state applies cannot race
\* fail-closed full loss, so out of coverage the qdisc drops everything.
NoImpairmentsOutOfCoverage == Settled /\ ~inCoverage /\ shaped => qdisc = FullLoss

\* Every handler returns: nobody waits for satMu for ever.
CallsReturn == \A c \in Callers : pc[c] # "idle" ~> pc[c] = "idle"

\* Subscribers of handover events see an unbroken chain of switches.
Feed == INSTANCE HandoverFeed WITH announced <- path.current, latest <- handover

HandoverChain == Feed!FeedSpec
===============================================================================
