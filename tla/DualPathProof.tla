---------------------------- MODULE DualPathProof ----------------------------
(***************************************************************************)
(* Proofs about DualPath, for any number of goroutines and link states:    *)
(* type correctness, that the route and the bearer agree, that the         *)
(* satellite path fails closed, and that handover events form a chain.     *)
(***************************************************************************)
EXTENDS DualPath, TLAPS

-------------------------------------------------------------------------------
(* What the operators return *)

\* The Manager's methods keep the Manager within its type.
LEMMA ManagerType ==
  /\ NewManager \in Paths
  /\ \A b \in BOOLEAN : Desired(b) \in Bearers /\ InitPath(b) \in Paths
BY DEF NewManager, Paths, Desired, InitPath, Bearers

\* TransitionTo commits the wanted bearer, and its transition is a handover.
LEMMA TransitionType ==
  ASSUME NEW p \in Paths, NEW want \in Bearers, NEW b \in BOOLEAN
  PROVE  /\ TransitionTo(p, want, b) \in Paths
         /\ TransitionTo(p, want, b).current = want
         /\ p.current \in Bearers => HandoverOf(p, want, b) \in Handovers
<1>1. /\ TransitionTo(p, want, b) \in Paths
      /\ TransitionTo(p, want, b).current = want
  BY DEF Paths, TransitionTo, Bearers
<1>2. TransitionReason(want, b, p.leftBlocked) \in LossReasons \cup GainReasons
  BY DEF TransitionReason, LossReasons, GainReasons, Bearers
<1> QED
  BY <1>1, <1>2 DEF HandoverOf, Handovers

\* A caller's record of its call keeps its type when fields are set.
LEMMA CallType ==
  /\ NoCall \in Calls
  /\ NoCall.state = NoState
  /\ \A a, b \in BOOLEAN :
        LET r == [NoCall EXCEPT !.inCoverage = a, !.inBlockage = b]
        IN  r \in Calls /\ r.inCoverage = a /\ r.inBlockage = b
  /\ \A s \in LinkStates : [NoCall EXCEPT !.state = s] \in Calls
  /\ \A s \in LinkStates : [NoCall EXCEPT !.state = s].state = s
  /\ \A r \in Calls : r.inCoverage \in BOOLEAN /\ r.inBlockage \in BOOLEAN
  /\ \A r \in Calls : r.state \in LinkStates \cup {NoState}
  /\ \A r \in Calls, s \in LinkStates \cup {NoState} :
        LET q == [r EXCEPT !.state = s]
        IN  q \in Calls /\ q.inCoverage = r.inCoverage /\ q.inBlockage = r.inBlockage
BY DEF NoCall, Calls

\* Returning from a handler and moving within it keep the types.
LEMMA ReturnType ==
  ASSUME TypeOK, NEW c \in Callers, Return(c)
  PROVE  /\ pc' \in [Callers -> CoverageSteps \cup LinkSteps]
         /\ call' \in [Callers -> Calls]
         /\ satMu' \in Callers \cup {NoCaller}
BY CallType DEF TypeOK, Return, CoverageSteps

LEMMA GotoType ==
  ASSUME TypeOK, NEW c \in Callers, NEW s \in CoverageSteps \cup LinkSteps, Goto(c, s)
  PROVE  pc' \in [Callers -> CoverageSteps \cup LinkSteps]
BY DEF TypeOK, Goto

\* Shaping leaves the qdisc dropping everything or carrying a link state.
LEMMA ShapeType ==
  ASSUME TypeOK, NEW want \in Bearers, NEW s \in LinkStates \cup {NoState}, ShapeFor(want, s)
  PROVE  qdisc' \in LinkStates \cup {FullLoss} /\ shaped' \in BOOLEAN
BY DEF TypeOK, ShapeFor, ShapeTo, NoShaping

-------------------------------------------------------------------------------
(* The inductive invariant *)

LEMMA InitIInv == Init => IInv
<1> SUFFICES ASSUME Init PROVE IInv
  OBVIOUS
<1>1. TypeOK
  <2>1. "idle" \in CoverageSteps \cup LinkSteps
    BY DEF CoverageSteps
  <2> QED
    BY <2>1, ManagerType, CallType DEF Init, TypeOK
<1>2. \A c \in Callers : pc[c] = "idle"
  BY DEF Init
<1>3. PhaseInv
  BY <1>2 DEF Init, PhaseInv, NewManager
<1>4. LockInv
  BY <1>2, DualPathAssumption DEF Init, LockInv, UnderSatMu, CoverageSteps, LinkSteps, Callers
<1> QED
  BY <1>1, <1>2, <1>3, <1>4 DEF Init, IInv, HolderInv, RouteInv

\* Every step keeps the types.
LEMMA TypeStep == IInv /\ [Next]_vars => TypeOK'
<1> SUFFICES ASSUME TypeOK, PhaseInv, LockInv, [Next]_vars PROVE TypeOK'
  BY DEF IInv
<1>0. \A c \in CoverageCallers \cup LinkCallers : c \in Callers /\ call[c] \in Calls
  BY DEF TypeOK, Callers
<1>1. ASSUME NEW covered \in BOOLEAN, InitBearer(covered) PROVE TypeOK'
  BY <1>1, ManagerType DEF TypeOK, InitBearer, InitPath, ShapeTo, NoShaping
<1>2. ASSUME NEW c \in CoverageCallers, NEW covered \in BOOLEAN, NEW blocked \in BOOLEAN,
             CoverageCall(c, covered, blocked)
      PROVE TypeOK'
  <2>1. "reconcile" \in CoverageSteps
    BY DEF CoverageSteps
  <2>2. [NoCall EXCEPT !.inCoverage = covered, !.inBlockage = blocked /\ ~covered] \in Calls
    BY CallType
  <2> QED
    BY <1>0, <1>2, <2>1, <2>2, GotoType DEF TypeOK, CoverageCall
<1>3. ASSUME NEW c \in CoverageCallers, Reconcile(c) PROVE TypeOK'
  <2>1. {"refresh", "shape"} \subseteq CoverageSteps
    BY DEF CoverageSteps
  <2>2. [call[c] EXCEPT !.state = lastState] \in Calls
    BY <1>0, CallType DEF TypeOK
  <2>3. pc' \in [Callers -> CoverageSteps \cup LinkSteps]
    BY <1>0, <1>3, <2>1, GotoType DEF Reconcile
  <2> QED
    BY <1>0, <1>3, <2>2, <2>3, CallType DEF TypeOK, Reconcile
<1>4. ASSUME NEW c \in CoverageCallers, Refresh(c) PROVE TypeOK'
  <2>1. Desired(call[c].inCoverage) \in Bearers /\ call[c].inBlockage \in BOOLEAN
    BY <1>0, CallType, ManagerType
  <2>2. path' \in Paths
    BY <1>4, <2>1, TransitionType DEF Refresh, TypeOK
  <2>3. qdisc' \in LinkStates \cup {FullLoss} /\ shaped' \in BOOLEAN
    BY <1>0, <1>4, <2>1, CallType, ShapeType DEF Refresh
  <2> QED
    BY <1>0, <1>4, <2>2, <2>3, ReturnType DEF TypeOK, Refresh
<1>5. ASSUME NEW c \in CoverageCallers, Shape(c) PROVE TypeOK'
  <2>1. qdisc' \in LinkStates \cup {FullLoss} /\ shaped' \in BOOLEAN
    BY <1>0, <1>5, CallType, ManagerType, ShapeType DEF Shape
  <2>2. "route" \in CoverageSteps
    BY DEF CoverageSteps
  <2> QED
    BY <1>0, <1>5, <2>1, <2>2, GotoType DEF TypeOK, Shape
<1>6. ASSUME NEW c \in CoverageCallers, SwitchRoute(c) PROVE TypeOK'
  <2>1. Desired(call[c].inCoverage) \in Bearers
    BY <1>0, CallType, ManagerType
  <2>2. "commit" \in CoverageSteps
    BY DEF CoverageSteps
  <2> QED
    BY <1>0, <1>6, <2>1, <2>2, GotoType DEF TypeOK, SwitchRoute
<1>7. ASSUME NEW c \in CoverageCallers, SwitchRouteFails(c) PROVE TypeOK'
  BY <1>0, <1>7, ReturnType DEF TypeOK, SwitchRouteFails
<1>8. ASSUME NEW c \in CoverageCallers, Commit(c) PROVE TypeOK'
  <2>1. Desired(call[c].inCoverage) \in Bearers /\ call[c].inBlockage \in BOOLEAN
    BY <1>0, CallType, ManagerType
  <2>2. path.current \in Bearers
    BY <1>0, <1>8 DEF PhaseInv, Commit
  <2>3. path' \in Paths /\ handover' \in SUBSET Handovers
    BY <1>8, <2>1, <2>2, TransitionType DEF Commit, TypeOK
  <2> QED
    BY <1>0, <1>8, <2>3, ReturnType DEF TypeOK, Commit
<1>9. ASSUME NEW c \in LinkCallers, NEW state \in LinkStates, LinkCall(c, state)
      PROVE TypeOK'
  <2>1. "link_wait" \in LinkSteps
    BY DEF LinkSteps
  <2>2. [NoCall EXCEPT !.state = state] \in Calls
    BY CallType
  <2>3. /\ call' \in [Callers -> Calls]
        /\ pc' \in [Callers -> CoverageSteps \cup LinkSteps]
    BY <1>0, <1>9, <2>1, <2>2, GotoType DEF TypeOK, LinkCall
  <2> QED
    BY <1>9, <2>3 DEF TypeOK, LinkCall
<1>10. ASSUME NEW c \in LinkCallers, LinkLock(c) PROVE TypeOK'
  <2>1. "link_apply" \in LinkSteps
    BY DEF LinkSteps
  <2>2. /\ pc' \in [Callers -> CoverageSteps \cup LinkSteps]
        /\ call' \in [Callers -> Calls]
        /\ satMu' \in Callers \cup {NoCaller}
    BY <1>0, <1>10, <2>1, GotoType, ReturnType DEF TypeOK, LinkLock
  <2> QED
    BY <1>10, <2>2 DEF TypeOK, LinkLock
<1>11. ASSUME NEW c \in LinkCallers, LinkApply(c) PROVE TypeOK'
  <2>1. qdisc' \in LinkStates \cup {FullLoss} /\ shaped' \in BOOLEAN
    BY <1>0, <1>11 DEF TypeOK, LinkApply, ShapeTo, LockInv
  <2> QED
    BY <1>0, <1>11, <2>1, ReturnType DEF TypeOK, LinkApply
<1>12. CASE UNCHANGED vars
  BY <1>12 DEF vars, TypeOK
<1> QED
  BY <1>1, <1>2, <1>3, <1>4, <1>5, <1>6, <1>7, <1>8, <1>9, <1>10, <1>11, <1>12
  DEF Next, CoverageStep, LinkStep, Aborted

\* Every step keeps the control part: who holds satMu, what the holder knows,
\* and where the route goes.
LEMMA ControlStep ==
  IInv /\ [Next]_vars => PhaseInv' /\ LockInv' /\ HolderInv' /\ RouteInv'
<1> SUFFICES ASSUME IInv, [Next]_vars
             PROVE  PhaseInv' /\ LockInv' /\ HolderInv' /\ RouteInv'
  OBVIOUS
<1> USE DEF IInv, PhaseInv, LockInv, HolderInv, RouteInv
<1>0. /\ \A c \in CoverageCallers \cup LinkCallers :
            c \in Callers /\ c # NoCaller /\ call[c] \in Calls
      /\ \A c \in CoverageCallers : c \notin LinkCallers
      /\ \A c \in Callers : c \in CoverageCallers \/ c \in LinkCallers
      /\ pc \in [Callers -> CoverageSteps \cup LinkSteps]
      /\ call \in [Callers -> Calls]
  BY DualPathAssumption DEF TypeOK, Callers
<1>1. ASSUME NEW covered \in BOOLEAN, InitBearer(covered)
      PROVE PhaseInv' /\ LockInv' /\ HolderInv' /\ RouteInv'
  BY <1>0, <1>1, ManagerType DEF InitBearer, InitPath
<1>2. ASSUME NEW c \in CoverageCallers, NEW covered \in BOOLEAN, NEW blocked \in BOOLEAN,
             CoverageCall(c, covered, blocked)
      PROVE PhaseInv' /\ LockInv' /\ HolderInv' /\ RouteInv'
  BY <1>0, <1>2 DEF CoverageCall, Goto, UnderSatMu, CoverageSteps
<1>3. ASSUME NEW c \in CoverageCallers, Reconcile(c)
      PROVE PhaseInv' /\ LockInv' /\ HolderInv' /\ RouteInv'
  <2>1. /\ [call[c] EXCEPT !.state = lastState].inCoverage = call[c].inCoverage
        /\ [call[c] EXCEPT !.state = lastState] \in Calls
    BY <1>0, CallType DEF TypeOK
  <2>2. \A d \in Callers : pc[d] \notin UnderSatMu
    BY <1>0, <1>3 DEF Reconcile
  <2> QED
    BY <1>0, <1>3, <2>1, <2>2 DEF Reconcile, Goto, UnderSatMu, CoverageSteps
<1>4. ASSUME NEW c \in CoverageCallers, Refresh(c)
      PROVE PhaseInv' /\ LockInv' /\ HolderInv' /\ RouteInv'
  <2>1. path'.current = path.current
    BY <1>0, <1>4 DEF Refresh, TransitionTo, TypeOK, Paths
  <2> QED
    BY <1>0, <1>4, <2>1 DEF Refresh, Return, UnderSatMu, CoverageSteps
<1>5. ASSUME NEW c \in CoverageCallers, Shape(c)
      PROVE PhaseInv' /\ LockInv' /\ HolderInv' /\ RouteInv'
  BY <1>0, <1>5 DEF Shape, Goto, UnderSatMu, CoverageSteps
<1>6. ASSUME NEW c \in CoverageCallers, SwitchRoute(c)
      PROVE PhaseInv' /\ LockInv' /\ HolderInv' /\ RouteInv'
  BY <1>0, <1>6 DEF SwitchRoute, Goto, UnderSatMu, CoverageSteps
<1>7. ASSUME NEW c \in CoverageCallers, SwitchRouteFails(c)
      PROVE PhaseInv' /\ LockInv' /\ HolderInv' /\ RouteInv'
  BY <1>0, <1>7 DEF SwitchRouteFails, Return, UnderSatMu, CoverageSteps
<1>8. ASSUME NEW c \in CoverageCallers, Commit(c)
      PROVE PhaseInv' /\ LockInv' /\ HolderInv' /\ RouteInv'
  <2>1. path'.current = Desired(inCoverage) /\ path'.current \in Bearers
    <3>1. call[c].inCoverage = inCoverage /\ call[c].inBlockage \in BOOLEAN
      BY <1>0, <1>8, CallType DEF Commit
    <3>2. Desired(inCoverage) \in Bearers /\ path \in Paths
      BY ManagerType DEF TypeOK
    <3> QED
      BY <1>8, <3>1, <3>2, TransitionType DEF Commit
  <2> QED
    BY <1>0, <1>8, <2>1 DEF Commit, Return, UnderSatMu, CoverageSteps
<1>9. ASSUME NEW c \in LinkCallers, NEW state \in LinkStates, LinkCall(c, state)
      PROVE PhaseInv' /\ LockInv' /\ HolderInv' /\ RouteInv'
  <2>1. CASE ~inCoverage
    BY <1>9, <2>1 DEF LinkCall
  <2>2. CASE inCoverage
    <3>1. [NoCall EXCEPT !.state = state].state \in LinkStates
      BY CallType
    <3>2. /\ call' = [call EXCEPT ![c] = [NoCall EXCEPT !.state = state]]
          /\ pc' = [pc EXCEPT ![c] = "link_wait"]
          /\ pc[c] = "idle" /\ phase = "running"
          /\ UNCHANGED <<phase, satMu, path, route, inCoverage>>
      BY <1>9, <2>2 DEF LinkCall, Goto
    <3> QED
      BY <1>0, <3>1, <3>2 DEF UnderSatMu, LinkSteps
  <2> QED
    BY <2>1, <2>2 DEF TypeOK
<1>10. ASSUME NEW c \in LinkCallers, LinkLock(c)
       PROVE PhaseInv' /\ LockInv' /\ HolderInv' /\ RouteInv'
  BY <1>0, <1>10 DEF LinkLock, Goto, Return, UnderSatMu, LinkSteps
<1>11. ASSUME NEW c \in LinkCallers, LinkApply(c)
       PROVE PhaseInv' /\ LockInv' /\ HolderInv' /\ RouteInv'
  BY <1>0, <1>11 DEF LinkApply, Return, UnderSatMu, LinkSteps
<1>12. CASE UNCHANGED vars
  BY <1>12 DEF vars
<1> QED
  BY <1>1, <1>2, <1>3, <1>4, <1>5, <1>6, <1>7, <1>8, <1>9, <1>10, <1>11, <1>12
  DEF Next, CoverageStep, LinkStep, Aborted

LEMMA Invariant == Spec => []IInv
<1>1. IInv /\ [Next]_vars => IInv'
  BY TypeStep, ControlStep DEF IInv
<1> QED
  BY InitIInv, <1>1, PTL DEF Spec

-------------------------------------------------------------------------------
(* The theorems *)

\* Every field and every caller's position in its handler stays in its domain.
THEOREM TypeCorrect == Spec => []TypeOK
BY Invariant, PTL DEF IInv

\* The default route goes where SelectedBearer says, even after a route
\* command has failed, for any interleaving of the two handlers.
THEOREM RouteAgrees == Spec => []RouteMatchesBearer
<1>1. IInv => RouteMatchesBearer
  <2> SUFFICES ASSUME IInv, phase = "running", satMu = NoCaller
               PROVE  route = path.current
    BY DEF RouteMatchesBearer, Settled
  <2>1. \A c \in Callers : pc[c] # "commit"
    BY DualPathAssumption DEF IInv, LockInv, UnderSatMu, Callers
  <2> QED
    BY <2>1 DEF IInv, RouteInv
<1> QED
  BY Invariant, <1>1, PTL

\* The satellite path fails closed as long as the latest shaping command did
\* not fail, although earlier commands may have, route commands may fail and
\* link states may wait for satMu meanwhile.
THEOREM SatelliteFailsClosed == Spec => []FailClosed
<1>1. Init => ClosedInv
  BY DEF Init, ClosedInv
<1>2. IInv /\ ClosedInv /\ [Next]_vars => ClosedInv'
  <2> SUFFICES ASSUME IInv, ClosedInv, [Next]_vars PROVE ClosedInv'
    OBVIOUS
  <2> USE DEF ClosedInv
  <2>0. /\ \A c \in CoverageCallers \cup LinkCallers :
              c \in Callers /\ c # NoCaller /\ call[c] \in Calls
        /\ \A c \in CoverageCallers : c \notin LinkCallers
        /\ pc \in [Callers -> CoverageSteps \cup LinkSteps]
        /\ \A c \in Callers : pc[c] \in UnderSatMu <=> satMu = c
        /\ inCoverage \in BOOLEAN
    BY DualPathAssumption DEF TypeOK, Callers, IInv, LockInv
  <2>1. ASSUME NEW covered \in BOOLEAN, InitBearer(covered) PROVE ClosedInv'
    BY <2>1 DEF InitBearer, InitPath, Desired, ShapeTo, NoShaping, IInv, PhaseInv
  <2>2. ASSUME NEW c \in CoverageCallers, NEW covered \in BOOLEAN, NEW blocked \in BOOLEAN,
               CoverageCall(c, covered, blocked)
        PROVE ClosedInv'
    BY <2>0, <2>2 DEF CoverageCall, Goto
  <2>3. ASSUME NEW c \in CoverageCallers, Reconcile(c) PROVE ClosedInv'
    BY <2>0, <2>3 DEF Reconcile, Goto
  <2>4. ASSUME NEW c \in CoverageCallers, Refresh(c) PROVE ClosedInv'
    BY <2>0, <2>4 DEF Refresh, Return, ShapeFor, ShapeTo, NoShaping, Desired,
                       IInv, HolderInv
  <2>5. ASSUME NEW c \in CoverageCallers, Shape(c) PROVE ClosedInv'
    BY <2>0, <2>5 DEF Shape, Goto, ShapeFor, ShapeTo, NoShaping, Desired,
                       IInv, HolderInv
  <2>6. ASSUME NEW c \in CoverageCallers, SwitchRoute(c) PROVE ClosedInv'
    BY <2>0, <2>6 DEF SwitchRoute, Goto, UnderSatMu
  <2>7. ASSUME NEW c \in CoverageCallers, SwitchRouteFails(c) PROVE ClosedInv'
    BY <2>0, <2>7 DEF SwitchRouteFails, Return, UnderSatMu
  <2>8. ASSUME NEW c \in CoverageCallers, Commit(c) PROVE ClosedInv'
    BY <2>0, <2>8 DEF Commit, Return, UnderSatMu
  <2>9. ASSUME NEW c \in LinkCallers, NEW state \in LinkStates, LinkCall(c, state)
        PROVE ClosedInv'
    BY <2>0, <2>9 DEF LinkCall, Goto
  <2>10. ASSUME NEW c \in LinkCallers, LinkLock(c) PROVE ClosedInv'
    BY <2>0, <2>10 DEF LinkLock, Goto, Return, UnderSatMu
  <2>11. ASSUME NEW c \in LinkCallers, LinkApply(c) PROVE ClosedInv'
    BY <2>0, <2>11 DEF LinkApply, Return, UnderSatMu, IInv, HolderInv
  <2>12. CASE UNCHANGED vars
    BY <2>12 DEF vars
  <2> QED
    BY <2>1, <2>2, <2>3, <2>4, <2>5, <2>6, <2>7, <2>8, <2>9, <2>10, <2>11, <2>12
    DEF Next, CoverageStep, LinkStep, Aborted
<1>3. IInv /\ ClosedInv => FailClosed
  BY DualPathAssumption DEF IInv, LockInv, ClosedInv, FailClosed, Settled, UnderSatMu, Callers
<1> QED
  BY Invariant, <1>1, <1>2, <1>3, PTL DEF Spec

\* Handover events form an unbroken chain with reasons that fit their direction:
\* the module implements the abstract feed its subscribers are promised.
THEOREM FeedImplemented == Spec => HandoverChain
<1>1. Init => Feed!FeedInit
  BY DEF Init, NewManager, Feed!FeedInit
<1>2. IInv /\ [Next]_vars => [Feed!FeedNext]_(Feed!feedVars)
  <2> SUFFICES ASSUME IInv, [Next]_vars PROVE [Feed!FeedNext]_(Feed!feedVars)
    OBVIOUS
  <2> USE DEF Feed!feedVars
  <2>0. \A c \in CoverageCallers : c \in Callers /\ call[c] \in Calls
    BY DEF TypeOK, Callers, IInv
  <2>1. ASSUME NEW covered \in BOOLEAN, InitBearer(covered) PROVE Feed!Start
    BY <2>1 DEF InitBearer, InitPath, Desired, Feed!Start, Feed!Bearers, IInv, PhaseInv
  <2>2. ASSUME NEW c \in CoverageCallers, Refresh(c) PROVE UNCHANGED Feed!feedVars
    BY <2>0, <2>2 DEF Refresh, TransitionTo, IInv, HolderInv, TypeOK, Paths
  <2>3. ASSUME NEW c \in CoverageCallers, Commit(c)
        PROVE  \E to \in Feed!Bearers : Feed!Switch(to)
    <3> DEFINE to == Desired(call[c].inCoverage)
               reason == TransitionReason(to, call[c].inBlockage, path.leftBlocked)
    <3>1. to \in Bearers /\ call[c].inBlockage \in BOOLEAN /\ path \in Paths
      BY <2>0, CallType, ManagerType DEF IInv, TypeOK
    <3>2. path.current \in Bearers /\ path.current # to
      BY <2>0, <2>3 DEF Commit, IInv, PhaseInv, HolderInv
    <3>3. path'.current = to
      BY <2>3, <3>1, TransitionType DEF Commit
    <3>4. reason \in Feed!Reasons(to)
      BY <3>1 DEF TransitionReason, Feed!Reasons, Feed!LossReasons, Feed!GainReasons,
                  Bearers
    <3>5. handover' = {[from |-> path.current, to |-> to, reason |-> reason]}
      BY <2>3 DEF Commit, HandoverOf
    <3> QED
      BY <3>1, <3>2, <3>3, <3>4, <3>5 DEF Feed!Switch, Feed!Bearers, Bearers
  <2>4. ASSUME NEW c \in CoverageCallers,
               \/ \E covered, blocked \in BOOLEAN : CoverageCall(c, covered, blocked)
               \/ Reconcile(c) \/ Shape(c) \/ SwitchRoute(c) \/ SwitchRouteFails(c)
        PROVE  UNCHANGED Feed!feedVars
    <3>1. CASE \E covered, blocked \in BOOLEAN : CoverageCall(c, covered, blocked)
      BY <3>1 DEF CoverageCall
    <3>2. CASE Reconcile(c) \/ Shape(c)
      BY <3>2 DEF Reconcile, Shape
    <3>3. CASE SwitchRoute(c) \/ SwitchRouteFails(c)
      BY <3>3 DEF SwitchRoute, SwitchRouteFails
    <3> QED
      BY <2>4, <3>1, <3>2, <3>3
  <2>5. ASSUME NEW c \in LinkCallers,
               \/ \E state \in LinkStates : LinkCall(c, state)
               \/ LinkLock(c) \/ LinkApply(c)
        PROVE  UNCHANGED Feed!feedVars
    BY <2>5 DEF LinkCall, LinkLock, LinkApply
  <2>6. CASE UNCHANGED vars
    BY <2>6 DEF vars
  <2> QED
    BY <2>1, <2>2, <2>3, <2>4, <2>5, <2>6
    DEF Next, CoverageStep, LinkStep, Aborted, Feed!FeedNext
<1> QED
  BY Invariant, <1>1, <1>2, PTL DEF Spec, HandoverChain, Feed!FeedSpec

-------------------------------------------------------------------------------
(* Bearer, shaping and link states *)

\* The parts of IInv that the next proofs use at every step.
LEMMA Parties ==
  ASSUME IInv
  PROVE  /\ \A c \in CoverageCallers \cup LinkCallers :
               c \in Callers /\ c # NoCaller /\ call[c] \in Calls
         /\ \A c \in CoverageCallers : c \notin LinkCallers
         /\ \A c \in Callers : c \in CoverageCallers \/ c \in LinkCallers
         /\ pc \in [Callers -> CoverageSteps \cup LinkSteps]
         /\ call \in [Callers -> Calls]
         /\ \A c \in Callers : pc[c] \in UnderSatMu <=> satMu = c
         /\ inCoverage \in BOOLEAN
BY DualPathAssumption DEF TypeOK, Callers, IInv, LockInv

\* Unless its last switch was given up, the bearer is the one of the coverage,
\* or a reconcile is about to make it so.
TrackInv ==
  phase = "running" /\ switched /\ (\A c \in Callers : pc[c] \notin {"shape", "route", "commit"})
    => path.current = Desired(inCoverage)

\* The bearer that SelectedBearer reports is that of the last reconciled edge,
\* whatever goroutines deliver edges, unless its route command failed.
THEOREM BearerFollows == Spec => []BearerTracksCoverage
<1>1. Init => TrackInv
  BY DEF Init, TrackInv
<1>2. IInv /\ TrackInv /\ [Next]_vars => TrackInv'
  <2> SUFFICES ASSUME IInv, TrackInv, [Next]_vars PROVE TrackInv'
    OBVIOUS
  <2> USE Parties DEF TrackInv
  <2>1. ASSUME NEW covered \in BOOLEAN, InitBearer(covered) PROVE TrackInv'
    BY <2>1 DEF InitBearer, InitPath
  <2>2. ASSUME NEW c \in CoverageCallers, NEW covered \in BOOLEAN, NEW blocked \in BOOLEAN,
               CoverageCall(c, covered, blocked)
        PROVE TrackInv'
    BY <2>2 DEF CoverageCall, Goto
  <2>3. ASSUME NEW c \in CoverageCallers, Reconcile(c) PROVE TrackInv'
    BY <2>3 DEF Reconcile, Goto
  <2>4. ASSUME NEW c \in CoverageCallers, Refresh(c) PROVE TrackInv'
    <3>1. path'.current = path.current
      BY <2>4 DEF Refresh, TransitionTo, TypeOK, Paths, IInv, HolderInv
    <3> QED
      BY <2>4, <3>1 DEF Refresh, IInv, HolderInv
  <2>5. ASSUME NEW c \in CoverageCallers, Shape(c) \/ SwitchRoute(c) PROVE TrackInv'
    BY <2>5 DEF Shape, SwitchRoute, Goto
  <2>6. ASSUME NEW c \in CoverageCallers, SwitchRouteFails(c) PROVE TrackInv'
    BY <2>6 DEF SwitchRouteFails
  <2>7. ASSUME NEW c \in CoverageCallers, Commit(c) PROVE TrackInv'
    <3>1. call[c].inCoverage = inCoverage /\ call[c].inBlockage \in BOOLEAN
      BY <2>7, CallType DEF Commit, IInv, HolderInv
    <3>2. Desired(inCoverage) \in Bearers /\ path \in Paths
      BY ManagerType DEF TypeOK, IInv
    <3>3. path'.current = Desired(inCoverage) /\ inCoverage' = inCoverage
      BY <2>7, <3>1, <3>2, TransitionType DEF Commit
    <3> QED
      BY <3>3
  <2>8. ASSUME NEW c \in LinkCallers, NEW state \in LinkStates, LinkCall(c, state)
        PROVE TrackInv'
    BY <2>8 DEF LinkCall, Goto
  <2>9. ASSUME NEW c \in LinkCallers, LinkLock(c) \/ LinkApply(c) PROVE TrackInv'
    BY <2>9 DEF LinkLock, LinkApply, Goto, Return, UnderSatMu, IInv, LockInv, LinkSteps
  <2>10. CASE UNCHANGED vars
    BY <2>10 DEF vars
  <2> QED
    BY <2>1, <2>2, <2>3, <2>4, <2>5, <2>6, <2>7, <2>8, <2>9, <2>10
    DEF Next, CoverageStep, LinkStep, Aborted
<1>3. IInv /\ TrackInv => BearerTracksCoverage
  BY Parties DEF TrackInv, BearerTracksCoverage, Settled, UnderSatMu
<1> QED
  BY Invariant, <1>1, <1>2, <1>3, PTL DEF Spec

\* A reconcile about to switch the route has shaped the qdisc for it.
ShapedInv ==
  /\ phase = "starting" => route = "none"
  /\ \A c \in Callers : pc[c] = "route" /\ shaped =>
       IF inCoverage THEN call[c].state = NoState \/ qdisc # FullLoss ELSE qdisc = FullLoss

\* Traffic is never routed over a path that is not shaped for it: neither to the
\* satellite while it drops everything although a link state is known, nor
\* away from it before it drops everything.
THEOREM ShapingComesFirst == Spec => ShapeBeforeRoute
<1>1. Init => ShapedInv
  BY DEF Init, ShapedInv
<1>2. IInv /\ ShapedInv /\ [Next]_vars => ShapedInv'
  <2> SUFFICES ASSUME IInv, ShapedInv, [Next]_vars PROVE ShapedInv'
    OBVIOUS
  <2> USE Parties DEF ShapedInv
  <2>1. ASSUME NEW covered \in BOOLEAN, InitBearer(covered) PROVE ShapedInv'
    BY <2>1 DEF InitBearer, IInv, PhaseInv
  <2>2. ASSUME NEW c \in CoverageCallers, NEW covered \in BOOLEAN, NEW blocked \in BOOLEAN,
               CoverageCall(c, covered, blocked)
        PROVE ShapedInv'
    BY <2>2 DEF CoverageCall, Goto
  <2>3. ASSUME NEW c \in CoverageCallers, Reconcile(c) PROVE ShapedInv'
    BY <2>3 DEF Reconcile, Goto, UnderSatMu
  <2>4. ASSUME NEW c \in CoverageCallers, Refresh(c) PROVE ShapedInv'
    BY <2>4 DEF Refresh, Return, UnderSatMu
  <2>5. ASSUME NEW c \in CoverageCallers, Shape(c) PROVE ShapedInv'
    <3>1. call[c].inCoverage = inCoverage /\ call[c].state \in LinkStates \cup {NoState}
          /\ \A d \in Callers \ {c} : pc[d] # "route"
      BY <2>5, CallType DEF Shape, IInv, HolderInv, UnderSatMu
    <3>2. shaped' => IF inCoverage THEN call[c].state = NoState \/ qdisc' # FullLoss
                     ELSE qdisc' = FullLoss
      BY <2>5, <3>1, DualPathAssumption DEF Shape, ShapeFor, ShapeTo, Desired
    <3>3. /\ phase' = phase /\ route' = route /\ inCoverage' = inCoverage /\ call' = call
          /\ \A d \in Callers \ {c} : pc'[d] = pc[d]
      BY <2>5 DEF Shape, Goto
    <3>4. phase' = "starting" => route' = "none"
      BY <3>3
    <3>5. ASSUME NEW d \in Callers, pc'[d] = "route", shaped'
          PROVE  IF inCoverage' THEN call'[d].state = NoState \/ qdisc' # FullLoss
                 ELSE qdisc' = FullLoss
      <4>1. d = c
        BY <3>1, <3>3, <3>5
      <4> QED
        BY <3>2, <3>3, <3>5, <4>1
    <3> QED
      BY <3>4, <3>5
  <2>6. ASSUME NEW c \in CoverageCallers, SwitchRoute(c) PROVE ShapedInv'
    BY <2>6 DEF SwitchRoute, Goto, IInv, PhaseInv
  <2>7. ASSUME NEW c \in CoverageCallers, SwitchRouteFails(c) \/ Commit(c) PROVE ShapedInv'
    BY <2>7 DEF SwitchRouteFails, Commit, Return
  <2>8. ASSUME NEW c \in LinkCallers, NEW state \in LinkStates, LinkCall(c, state)
        PROVE ShapedInv'
    BY <2>8 DEF LinkCall, Goto
  <2>9. ASSUME NEW c \in LinkCallers, LinkLock(c) PROVE ShapedInv'
    BY <2>9 DEF LinkLock, Goto, Return
  <2>10. ASSUME NEW c \in LinkCallers, LinkApply(c) PROVE ShapedInv'
    BY <2>10 DEF LinkApply, Return, UnderSatMu
  <2>11. CASE UNCHANGED vars
    BY <2>11 DEF vars
  <2> QED
    BY <2>1, <2>2, <2>3, <2>4, <2>5, <2>6, <2>7, <2>8, <2>9, <2>10, <2>11
    DEF Next, CoverageStep, LinkStep, Aborted
<1> DEFINE Ordered ==
      /\ route = "terrestrial" /\ route' = "satellite" /\ shaped
           => qdisc # FullLoss \/ call[satMu].state = NoState
      /\ route = "satellite" /\ route' = "terrestrial" /\ shaped => qdisc = FullLoss
<1>3. IInv /\ ShapedInv /\ [Next]_vars => [Ordered]_vars
  <2> SUFFICES ASSUME IInv, ShapedInv, Next PROVE Ordered
    OBVIOUS
  <2>1. ASSUME NEW covered \in BOOLEAN, InitBearer(covered) PROVE Ordered
    <3>1. route = "none"
      BY <2>1 DEF InitBearer, ShapedInv
    <3> QED
      BY <3>1
  <2>2. ASSUME NEW c \in CoverageCallers, SwitchRoute(c) PROVE Ordered
    <3>1. c \in Callers /\ pc[c] = "route" /\ satMu = c /\ route' = Desired(inCoverage)
      BY <2>2, Parties DEF SwitchRoute, UnderSatMu, IInv, HolderInv
    <3> QED
      BY <3>1 DEF ShapedInv, Desired
  <2>3. ASSUME UNCHANGED route PROVE Ordered
    BY <2>3
  <2> QED
    BY <2>1, <2>2, <2>3 DEF Next, CoverageStep, LinkStep, Aborted, CoverageCall, Reconcile,
       Refresh, Shape, SwitchRouteFails, Commit, LinkCall, LinkLock, LinkApply, vars
<1> QED
  BY Invariant, <1>1, <1>2, <1>3, PTL DEF Spec, ShapeBeforeRoute

\* With one goroutine for link states, what it carries is the latest of them.
CarriedInv ==
  /\ phase = "starting" => lastState = NoState
  /\ \A l \in LinkCallers : pc[l] # "idle" => call[l].state = lastState

Carrying == \E l \in LinkCallers : pc[l] # "idle"

\* A covered satellite bearer has the latest link state, or it is on its way:
\* with the link goroutine, or with the reconcile that sampled it.
NewestInv ==
  /\ \A c \in Callers : pc[c] \in {"refresh", "shape"} /\ inCoverage =>
       call[c].state = lastState \/ Carrying
  /\ phase = "running" /\ inCoverage /\ lastState # NoState /\ shaped =>
       \/ qdisc = lastState
       \/ Carrying
       \/ \E c \in Callers : pc[c] \in {"refresh", "shape"}
       \/ /\ path.current = "terrestrial"
          /\ \A c \in Callers : pc[c] \notin {"route", "commit"}

LEMMA CarriedStep ==
  ASSUME IInv, CarriedInv, [Next]_vars, \A a, b \in LinkCallers : a = b
  PROVE  CarriedInv'
<1> USE Parties DEF CarriedInv
<1>1. ASSUME NEW covered \in BOOLEAN, InitBearer(covered) PROVE CarriedInv'
  BY <1>1 DEF InitBearer
<1>2. ASSUME NEW c \in CoverageCallers, pc'= [pc EXCEPT ![c] = pc'[c]],
             \A l \in Callers \ {c} : call'[l] = call[l], UNCHANGED <<phase, lastState>>
      PROVE CarriedInv'
  BY <1>2
<1>3. ASSUME NEW c \in CoverageCallers,
             \/ \E covered, blocked \in BOOLEAN : CoverageCall(c, covered, blocked)
             \/ CoverageStep(c)
      PROVE CarriedInv'
  BY <1>2, <1>3 DEF CoverageCall, CoverageStep, Reconcile, Refresh, Shape, SwitchRoute,
     SwitchRouteFails, Commit, Goto, Return
<1>4. ASSUME NEW c \in LinkCallers, NEW state \in LinkStates, LinkCall(c, state)
      PROVE CarriedInv'
  <2>1. [NoCall EXCEPT !.state = state].state = state
    BY CallType
  <2>2. phase = "running" /\ phase' = phase /\ lastState' = state /\ pc[c] = "idle"
        /\ (pc'[c] # "idle" => call'[c].state = state)
    BY <1>4, <2>1 DEF LinkCall, Goto
  <2> QED
    BY <2>2
<1>5. ASSUME NEW c \in LinkCallers, LinkLock(c) PROVE CarriedInv'
  BY <1>5 DEF LinkLock, Return, Goto
<1>6. ASSUME NEW c \in LinkCallers, LinkApply(c) PROVE CarriedInv'
  BY <1>6 DEF LinkApply, Return
<1>7. CASE UNCHANGED vars
  BY <1>7 DEF vars
<1> QED
  BY <1>1, <1>3, <1>4, <1>5, <1>6, <1>7 DEF Next, LinkStep, Aborted

LEMMA NewestStep ==
  ASSUME IInv, CarriedInv, NewestInv, [Next]_vars, \A a, b \in LinkCallers : a = b
  PROVE  NewestInv'
<1> USE Parties
<1>1. ASSUME NEW covered \in BOOLEAN, InitBearer(covered) PROVE NewestInv'
  <2>1. phase = "starting" /\ lastState' = NoState /\ \A c \in Callers : pc'[c] = "idle"
    BY <1>1 DEF InitBearer, CarriedInv, IInv, PhaseInv
  <2> QED
    BY <2>1 DEF NewestInv
<1>2. ASSUME NEW c \in CoverageCallers, NEW covered \in BOOLEAN, NEW blocked \in BOOLEAN,
             CoverageCall(c, covered, blocked)
      PROVE NewestInv'
  BY <1>2 DEF CoverageCall, Goto, NewestInv, Carrying
<1>3. ASSUME NEW c \in CoverageCallers, Reconcile(c) PROVE NewestInv'
  <2>1. /\ pc'[c] \in {"refresh", "shape"} /\ call'[c].state = lastState
        /\ lastState' = lastState
        /\ \A d \in Callers : pc[d] \notin UnderSatMu
        /\ \A d \in Callers \ {c} : pc'[d] = pc[d]
    BY <1>3 DEF Reconcile, Goto, Calls
  <2> QED
    BY <2>1 DEF NewestInv, UnderSatMu
<1>4. ASSUME NEW c \in CoverageCallers, Refresh(c) PROVE NewestInv'
  <2>1. /\ pc[c] = "refresh" /\ phase' = phase /\ inCoverage' = inCoverage
        /\ lastState' = lastState
        /\ \A d \in Callers \ {c} : pc'[d] = pc[d] /\ call'[d] = call[d]
        /\ pc'[c] = "idle"
    BY <1>4 DEF Refresh, Return
  <2>2. Carrying' <=> Carrying
    BY <2>1 DEF Carrying
  <2>3. ASSUME inCoverage, lastState # NoState, shaped'
        PROVE  qdisc' = lastState \/ Carrying
    <3>1. call[c].inCoverage /\ ShapeFor("satellite", call[c].state)
      BY <1>4, <2>3 DEF Refresh, IInv, HolderInv, Desired
    <3>2. call[c].state = lastState \/ Carrying
      BY <2>1, <2>3 DEF NewestInv
    <3> QED
      BY <2>3, <3>1, <3>2 DEF ShapeFor, ShapeTo
  <2>4. \A d \in Callers : pc'[d] \notin {"refresh", "shape"}
    BY <2>1 DEF UnderSatMu
  <2> QED
    BY <2>1, <2>2, <2>3, <2>4 DEF NewestInv
<1>5. ASSUME NEW c \in CoverageCallers, Shape(c) PROVE NewestInv'
  <2>1. /\ pc[c] = "shape" /\ phase' = phase /\ inCoverage' = inCoverage
        /\ lastState' = lastState
        /\ \A d \in Callers \ {c} : pc'[d] = pc[d]
        /\ pc'[c] = "route"
    BY <1>5 DEF Shape, Goto
  <2>2. Carrying' <=> Carrying
    BY <2>1 DEF Carrying
  <2>3. ASSUME inCoverage, lastState # NoState, shaped'
        PROVE  qdisc' = lastState \/ Carrying
    <3>1. call[c].inCoverage /\ ShapeFor("satellite", call[c].state)
      BY <1>5, <2>3 DEF Shape, IInv, HolderInv, Desired
    <3>2. call[c].state = lastState \/ Carrying
      BY <2>1, <2>3 DEF NewestInv
    <3> QED
      BY <2>3, <3>1, <3>2 DEF ShapeFor, ShapeTo
  <2>4. \A d \in Callers : pc'[d] \notin {"refresh", "shape"}
    BY <2>1 DEF UnderSatMu
  <2> QED
    BY <2>1, <2>2, <2>3, <2>4 DEF NewestInv
<1>6. ASSUME NEW c \in CoverageCallers, SwitchRoute(c) PROVE NewestInv'
  BY <1>6 DEF SwitchRoute, Goto, NewestInv, Carrying
<1>7. ASSUME NEW c \in CoverageCallers, SwitchRouteFails(c) PROVE NewestInv'
  <2>1. /\ pc[c] = "route" /\ inCoverage' = inCoverage /\ path' = path
        /\ phase' = phase
        /\ \A d \in Callers \ {c} : pc'[d] = pc[d] /\ pc'[d] \notin UnderSatMu
        /\ pc'[c] = "idle"
    BY <1>7 DEF SwitchRouteFails, Return, UnderSatMu
  <2>2. phase = "running" /\ inCoverage => path.current = "terrestrial"
    BY <2>1 DEF IInv, HolderInv, PhaseInv, Desired, Bearers
  <2> QED
    BY <2>1, <2>2 DEF NewestInv, UnderSatMu
<1>8. ASSUME NEW c \in CoverageCallers, Commit(c) PROVE NewestInv'
  <2>1. /\ pc[c] = "commit" /\ inCoverage' = inCoverage /\ phase' = phase
        /\ qdisc' = qdisc /\ shaped' = shaped /\ lastState' = lastState
        /\ \A d \in Callers \ {c} : pc'[d] = pc[d] /\ pc'[d] \notin UnderSatMu
        /\ pc'[c] = "idle"
    BY <1>8 DEF Commit, Return, UnderSatMu
  <2>2. Carrying' <=> Carrying
    BY <2>1 DEF Carrying
  <2>3. \A d \in Callers : pc[d] \notin {"refresh", "shape"}
    BY <2>1 DEF UnderSatMu
  <2> QED
    BY <2>1, <2>2, <2>3 DEF NewestInv, UnderSatMu
<1>9. ASSUME NEW c \in LinkCallers, NEW state \in LinkStates, LinkCall(c, state)
      PROVE NewestInv'
  <2>1. CASE ~inCoverage
    BY <1>9, <2>1 DEF LinkCall, NewestInv
  <2>2. CASE inCoverage
    <3>1. pc'[c] = "link_wait" /\ c \in LinkCallers
      BY <1>9, <2>2 DEF LinkCall, Goto
    <3>2. Carrying'
      BY <3>1 DEF Carrying
    <3> QED
      BY <3>2 DEF NewestInv
  <2> QED
    BY <2>1, <2>2
<1>10. ASSUME NEW c \in LinkCallers, LinkLock(c) PROVE NewestInv'
  <2>1. \A d \in Callers : pc[d] \notin UnderSatMu
    BY <1>10 DEF LinkLock
  <2>2. UNCHANGED <<phase, path, inCoverage, lastState, qdisc, shaped>>
        /\ \A d \in Callers \ {c} : pc'[d] = pc[d]
    BY <1>10 DEF LinkLock, Goto, Return
  <2>3. CASE path.current = "satellite"
    <3>1. pc'[c] = "link_apply"
      BY <1>10, <2>3 DEF LinkLock, Goto
    <3>2. Carrying'
      BY <3>1 DEF Carrying
    <3> QED
      BY <3>2 DEF NewestInv
  <2>4. CASE path.current # "satellite"
    <3>1. pc'[c] = "idle"
      BY <1>10, <2>4 DEF LinkLock, Return
    <3>2. phase = "running" => path.current = "terrestrial"
      BY <2>4 DEF IInv, PhaseInv, Bearers
    <3> QED
      BY <2>1, <2>2, <3>1, <3>2 DEF NewestInv, UnderSatMu
  <2> QED
    BY <2>3, <2>4
<1>11. ASSUME NEW c \in LinkCallers, LinkApply(c) PROVE NewestInv'
  <2>1. call[c].state = lastState /\ lastState' = lastState
        /\ (qdisc' = lastState \/ ~shaped')
    BY <1>11 DEF LinkApply, ShapeTo, CarriedInv
  <2>2. \A d \in Callers : pc'[d] \notin {"refresh", "shape"}
    BY <1>11 DEF LinkApply, Return, UnderSatMu
  <2> QED
    BY <2>1, <2>2 DEF NewestInv
<1>12. CASE UNCHANGED vars
  BY <1>12 DEF vars, NewestInv, Carrying
<1> QED
  BY <1>1, <1>2, <1>3, <1>4, <1>5, <1>6, <1>7, <1>8, <1>9, <1>10, <1>11, <1>12
  DEF Next, CoverageStep, LinkStep, Aborted

\* Whatever the edges do meanwhile, no link state of the one goroutine that
\* sends them is lost, and none is applied after a later one.
THEOREM NewestStateReaches ==
  ASSUME \A a, b \in LinkCallers : a = b
  PROVE  Spec => []LatestStateApplied
<1>1. Init => CarriedInv /\ NewestInv
  BY DEF Init, CarriedInv, NewestInv, Callers
<1>2. IInv /\ CarriedInv /\ NewestInv /\ [Next]_vars => CarriedInv' /\ NewestInv'
  BY CarriedStep, NewestStep
<1>3. IInv /\ NewestInv => LatestStateApplied
  BY Parties DEF NewestInv, Carrying, LatestStateApplied, Settled
<1> QED
  BY Invariant, <1>1, <1>2, <1>3, PTL DEF Spec
==============================================================================
