------------------------- MODULE SatelliteSessionProof -------------------------
(***************************************************************************)
(* A satellite session (tle_session.go), for every sky, link model, speed, *)
(* start and pace of the loops: its clock is disciplined, its evaluators   *)
(* tell the truth about the passes, its state keeps its types, and its     *)
(* recording holds every event once.                                       *)
(*                                                                         *)
(* SessionInv is what the clock relies on; TypeInv adds why the age of the *)
(* position is bounded; MemoryInv relates what the loop remembers to what  *)
(* each pass was told, which makes the events of a tick new to their pass. *)
(***************************************************************************)
EXTENDS SatelliteSession, SequenceClockProof, FiniteSetTheorems

-----------------------------------------------------------------------------
\* The earlier of two instants is one of them.
LEMMA EarlierOfTwo ==
  ASSUME NEW a, NEW b, a \in Nat, b \in Nat
  PROVE  Min({a, b}) \in Nat
<1>1. \E x \in {a, b} : \A y \in {a, b} : x <= y
  BY a <= b \/ b <= a
<1>2. Min({a, b}) \in {a, b}
  BY <1>1 DEF Min
<1> QED
  BY <1>2

-----------------------------------------------------------------------------
(* Advance *)

\* A pass takes time.
LEMMA PassLasts ==
  ASSUME NEW own, Orderly(own), NEW i \in DOMAIN own
  PROVE  /\ own[i].pass.rise \in Int /\ own[i].pass.set \in Int
         /\ own[i].pass.set - own[i].pass.rise >= MinPass
         /\ own[i].pass.rise < own[i].pass.set
<1>1. /\ own[i].pass.rise \in Int /\ own[i].pass.set \in Int
      /\ own[i].pass.set - own[i].pass.rise >= MinPass
  BY Zenon DEF Orderly
<1>2. MinPass \in Nat \ {0}
  BY PredictionAssumption
<1> QED
  BY <1>1, <1>2

\* A clock that is not moved crosses no pass.
LEMMA StandsStill ==
  ASSUME NEW own, NEW t \in Int, Orderly(own)
  PROVE  Crossed(own, t, t) = {}
BY DEF Crossed, Orderly

\* An accelerated clock stops before the first pass it would reach, or where
\* that pass rises, and crosses no other.
LEMMA SnapStops ==
  ASSUME NEW own, Orderly(own), NEW old \in Int, NEW new \in Int, old <= new
  PROVE  /\ Snap(own, old, new) \in Int
         /\ old <= Snap(own, old, new)
         /\ \A i \in Crossed(own, old, Snap(own, old, new)) :
              /\ Snap(own, old, new) = own[i].pass.rise
              /\ Snap(own, old, new) < own[i].pass.set
<1> DEFINE crossed == Crossed(own, old, new)
           first   == Min(crossed)
           s       == Snap(own, old, new)
<1>1. CASE crossed = {}
  <2>1. s = new
    BY <1>1 DEF Snap
  <2> QED
    BY <1>1, <2>1
<1>2. CASE crossed # {}
  <2>1. crossed \in SUBSET Nat
    BY DEF Crossed, Orderly
  <2>2. first \in crossed /\ \A i \in crossed : first <= i
    BY <1>2, <2>1, LeastOf
  <2> HIDE DEF first
  <2>3. /\ first \in DOMAIN own
        /\ own[first].pass.rise \in Int /\ own[first].pass.set \in Int
        /\ old < own[first].pass.rise /\ own[first].pass.rise <= new
    BY <2>2 DEF Crossed, Orderly
  <2>4. s = IF own[first].pass.rise - LookaheadSec > old
            THEN own[first].pass.rise - LookaheadSec ELSE own[first].pass.rise
    BY <1>2 DEF Snap, first
  <2>5. s \in Int /\ old <= s /\ s <= own[first].pass.rise
    BY <2>3, <2>4, ClockAssumption
  <2>6. own[first].pass.rise < own[first].pass.set
    BY <2>3, PassLasts
  <2> HIDE DEF s
  <2>7. ASSUME NEW i \in Crossed(own, old, s)
        PROVE  s = own[i].pass.rise /\ s < own[i].pass.set
    <3>1. i \in DOMAIN own /\ own[i].pass.rise \in Int /\ own[i].pass.rise <= s /\ old < own[i].pass.rise
      BY <2>7 DEF Crossed, Orderly
    <3>2. i \in crossed
      BY <2>3, <2>5, <3>1 DEF Crossed
    <3>3. first \in Nat /\ i \in Nat
      BY <2>1, <2>2, <3>2
    <3>4. ~(first < i)
      <4>1. first < i => own[first].pass.set < own[i].pass.rise
        BY <2>3, <3>1, Zenon DEF Orderly
      <4> QED
        BY <2>3, <2>5, <2>6, <3>1, <4>1
    <3>5. i = first
      BY <2>2, <3>2, <3>3, <3>4
    <3> QED
      BY <2>5, <2>6, <2>3, <3>1, <3>5
  <2> QED
    BY <2>5, <2>7 DEF s
<1> QED
  BY <1>1, <1>2

\* What one call of Advance may do to the clock.
Disciplined(own, t, u, v) ==
  /\ u >= t
  /\ InPass(own, t) => u - t <= MaxGap[Primary]
  /\ \A i \in Crossed(own, t, u) :
       /\ u < own[i].pass.set
       /\ Factor(own, v, t) > 1 => u = own[i].pass.rise

\* A call of Advance within the pace of the primary's loop does no more.
LEMMA AdvanceDisciplined ==
  ASSUME NEW own, Orderly(own), simTime \in Int, NEW v \in Nat \ {0},
         NEW gap \in 0 .. MaxGap[Primary], Advance(own, v, gap)
  PROVE  simTime' \in Int /\ Disciplined(own, simTime, simTime', v)
<1> DEFINE factor == Factor(own, v, simTime)
           new    == simTime + gap * factor
<1>1. MaxGap[Primary] \in Nat /\ MaxGap[Primary] < MinPass /\ MinPass \in Nat
  BY SessionAssumption, PredictionAssumption
<1>2. factor \in Nat \ {0}
  BY DEF Factor
<1>3. new \in Int /\ new >= simTime
  <2>1. gap * factor \in Nat
    BY <1>1, <1>2
  <2> QED
    BY <2>1
<1>4. CASE simTime' = simTime
  <2>1. Crossed(own, simTime, simTime') = {}
    BY <1>4, StandsStill
  <2> QED
    BY <1>1, <1>4, <2>1 DEF Disciplined
<1>5. CASE factor > 1 /\ simTime' = Snap(own, simTime, new)
  <2>1. ~InPass(own, simTime)
    BY <1>5 DEF Factor
  <2> HIDE DEF new, factor
  <2> QED
    BY <1>3, <1>5, <2>1, SnapStops DEF Disciplined
<1>6. CASE ~(factor > 1) /\ simTime' = new
  <2>1. factor = 1
    BY <1>2, <1>6
  <2>2. simTime' = simTime + gap
    BY <1>6, <2>1
  <2>3. ASSUME NEW i \in Crossed(own, simTime, simTime')
        PROVE  simTime' < own[i].pass.set
    <3>1. i \in DOMAIN own /\ simTime < own[i].pass.rise
      BY DEF Crossed
    <3>2. /\ own[i].pass.rise \in Int /\ own[i].pass.set \in Int
          /\ own[i].pass.set - own[i].pass.rise >= MinPass
      BY <3>1, PassLasts
    <3> QED
      BY <1>1, <2>2, <3>1, <3>2
  <2> QED
    BY <1>1, <2>1, <2>2, <2>3 DEF Disciplined
<1> QED
  BY <1>4, <1>5, <1>6 DEF Advance

-----------------------------------------------------------------------------
(* The session *)

\* What the evaluators of a session are, what its clock relies on, and how long
\* each loop has not ticked.
SessionInv ==
  /\ skies \in [Observers -> Skies]
  /\ entries = [o \in Observers |-> EntriesFor[skies[o]]]
  /\ speed \in Nat \ {0}
  /\ watched \in Observers
  /\ startAt \in Int
  /\ phase \in {"refused", "running", "ended"}
  /\ phase = "refused" <=> \E o \in Observers : ~Builds(entries[o])
  /\ simTime \in Int /\ startAt <= simTime
  /\ phase # "refused" => MaxSearch - startAt < Infinity
  /\ since \in [Observers -> Nat]
  /\ \A o \in Observers : since[o] <= MaxGap[o]

\* What is assumed of the observers.
LEMMA ObserverFacts ==
  /\ Primary \in Observers /\ Peer \in Observers /\ Observers = {Primary, Peer} /\ Primary # Peer
  /\ \A o \in Observers : MaxGap[o] \in Nat \ {0} /\ MaxGap[o] < MinPass
                          /\ MaxGap[o] <= LookaheadSec /\ MaxGap[o] <= Coarse
BY SessionAssumption DEF Observers

\* The evaluator of an observer is the one made for its sky.
LEMMA EntriesMade ==
  ASSUME skies \in [Observers -> Skies],
         entries = [o \in Observers |-> EntriesFor[skies[o]]],
         NEW o \in Observers
  PROVE  /\ Elevation[skies[o]] \in [0 .. MaxSearch -> Int]
         /\ entries[o] = EntriesOf(PredictPasses(Elevation[skies[o]], 0), Model)
         /\ Orderly(entries[o])
         /\ EntriesTrue(entries[o], Elevation[skies[o]], Model)
<1>1. skies[o] \in Skies /\ Elevation[skies[o]] \in [0 .. MaxSearch -> Int]
  BY SessionAssumption
<1>2. entries[o] = EntriesOf(PredictPasses(Elevation[skies[o]], 0), Model)
  BY <1>1 DEF EntriesFor
<1>3. Orderly(entries[o])
  BY <1>2, EntriesOrderly
<1>4. Model \in Models /\ ValidModel(Model)
  BY SessionAssumption
<1>5. EntriesTrue(entries[o], Elevation[skies[o]], Model)
  BY <1>1, <1>2, <1>4, EntriesAreTrue
<1> QED
  BY <1>1, <1>2, <1>3, <1>5

\* A session that starts has a first pass for each observer, hence a start.
LEMMA SharedStartDefined ==
  ASSUME skies \in [Observers -> Skies],
         entries = [o \in Observers |-> EntriesFor[skies[o]]],
         \A o \in Observers : Builds(entries[o])
  PROVE  SharedStart \in Int /\ -LookaheadSec <= SharedStart
<1>1. \A o \in Observers : entries[o][1].pass.rise \in Nat
  <2> SUFFICES ASSUME NEW o \in Observers
               PROVE  entries[o][1].pass.rise \in Nat
    OBVIOUS
  <2> DEFINE sky == Elevation[skies[o]]
             passes == PredictPasses(sky, 0)
             own == EntriesOf(passes, Model)
  <2>1. entries[o] = own
    BY EntriesMade
  <2>2. /\ Len(own) \in Nat /\ DOMAIN own = 1 .. Len(own)
        /\ Len(own) = 0 => own = <<>>
        /\ \A i \in DOMAIN own : EntryOf(own[i], sky, Model, GapAfter(passes, i))
    BY EntriesFacts
  <2> HIDE DEF own, passes, sky
  <2>3. own # <<>>
    BY <2>1 DEF Builds
  <2>4. 1 \in DOMAIN own
    BY <2>2, <2>3
  <2>5. EntryOf(own[1], sky, Model, GapAfter(passes, 1))
    BY <2>2, <2>4, Zenon
  <2> QED
    BY <2>1, <2>5 DEF EntryOf
<1>2. {entries[o][1].pass.rise : o \in Observers}
        = {entries[Primary][1].pass.rise, entries[Peer][1].pass.rise}
  BY DEF Observers
<1>3. Min({entries[o][1].pass.rise : o \in Observers}) \in Nat
  BY <1>1, <1>2, EarlierOfTwo, ObserverFacts
<1> QED
  BY <1>3, ClockAssumption, PredictionAssumption DEF SharedStart

\* A session starts with its clock at the start, which is not so early that a pass
\* would be infinitely far.
LEMMA SessionInit ==
  ASSUME Init
  PROVE  SessionInv
<1>1. /\ skies \in [Observers -> Skies]
      /\ entries = [o \in Observers |-> EntriesFor[skies[o]]]
      /\ watched \in Observers
      /\ phase = (IF \A o \in Observers : Builds(entries[o]) THEN "running" ELSE "refused")
      /\ startAt \in (IF phase = "running" THEN {SharedStart} \cup StartTimes ELSE {0})
      /\ simTime = startAt
      /\ since = [o \in Observers |-> 0]
      /\ speed \in Nat \ {0}
  BY SessionAssumption DEF Init
<1>2. LookaheadSec \in Nat /\ MaxSearch \in Nat /\ Infinity \in Nat
  BY ClockAssumption, PredictionAssumption
<1>3. startAt \in Int /\ (phase # "refused" => MaxSearch - startAt < Infinity)
  <2>1. CASE phase = "running"
    <3>1. \A o \in Observers : Builds(entries[o])
      BY <1>1, <2>1
    <3>2. SharedStart \in Int /\ -LookaheadSec <= SharedStart
      BY <1>1, <3>1, SharedStartDefined
    <3>3. MaxSearch + LookaheadSec < Infinity
      <4>1. \A s \in StartTimes \cup {-LookaheadSec} : MaxSearch - s < Infinity
        BY SessionAssumption
      <4>2. MaxSearch - (-LookaheadSec) < Infinity
        BY <4>1
      <4> QED
        BY <1>2, <4>2
    <3>4. CASE startAt = SharedStart
      BY <1>2, <3>2, <3>3, <3>4
    <3>5. CASE startAt \in StartTimes
      BY <3>5, SessionAssumption
    <3> QED
      BY <1>1, <2>1, <3>4, <3>5
  <2>2. CASE phase # "running"
    BY <1>1, <2>2
  <2> QED
    BY <2>1, <2>2
<1>4. \A o \in Observers : since[o] <= MaxGap[o]
  BY <1>1, ObserverFacts
<1>5. startAt <= simTime
  BY <1>1, <1>3
<1> QED
  BY <1>1, <1>3, <1>4, <1>5 DEF SessionInv

\* Every step that leaves the session running moves the clock by one call of
\* Advance at most, and keeps the invariant.
LEMMA SessionStep ==
  ASSUME SessionInv, [Next]_vars
  PROVE  /\ SessionInv'
         /\ phase' = "running" =>
              Disciplined(entries[Primary], simTime, simTime', speed)
<1>1. UNCHANGED sessionVars
  BY DEF Next, Loops, TimePasses, PrimaryTick, PeerEvaluate, PeerPublish, Stop, Replay, vars
<1>2. UNCHANGED <<skies, entries, startAt, speed, watched>>
  BY <1>1 DEF sessionVars
<1>3. Orderly(entries[Primary])
  BY EntriesMade, ObserverFacts DEF SessionInv
<1>4. ASSUME simTime' = simTime
      PROVE  Disciplined(entries[Primary], simTime, simTime', speed)
  <2>1. Crossed(entries[Primary], simTime, simTime') = {}
    BY <1>3, <1>4, StandsStill DEF SessionInv
  <2> QED
    BY <1>4, <2>1, ObserverFacts DEF Disciplined, SessionInv
<1>5. /\ (phase = "refused" <=> \E o \in Observers : ~Builds(entries[o]))'
            <=> (phase' = "refused" <=> phase = "refused")
  BY <1>2 DEF SessionInv
<1>6. CASE TimePasses
  <2>1. simTime' = simTime /\ phase' = phase
    BY <1>6 DEF TimePasses, clockVars
  <2>2. since' \in [Observers -> Nat] /\ \A o \in Observers : since'[o] <= MaxGap[o]
    BY <1>6, ObserverFacts DEF TimePasses, SessionInv
  <2> QED
    BY <1>2, <1>4, <1>5, <2>1, <2>2 DEF SessionInv
<1>7. CASE PrimaryTick
  <2>1. phase' = phase
    BY <1>7 DEF PrimaryTick
  <2>2. Advance(entries[Primary], speed, since[Primary]) /\ since[Primary] \in 0 .. MaxGap[Primary]
    BY <1>7, ObserverFacts DEF PrimaryTick, SessionInv
  <2>3. simTime' \in Int /\ Disciplined(entries[Primary], simTime, simTime', speed)
    BY <1>3, <2>2, AdvanceDisciplined DEF SessionInv
  <2>5. startAt <= simTime'
    BY <2>3 DEF Disciplined, SessionInv
  <2>4. since' \in [Observers -> Nat] /\ \A o \in Observers : since'[o] <= MaxGap[o]
    BY <1>7, ObserverFacts DEF PrimaryTick, SessionInv
  <2> QED
    BY <1>2, <1>5, <2>1, <2>3, <2>4, <2>5 DEF SessionInv
<1>8. CASE PeerEvaluate
  <2>1. simTime' = simTime /\ phase' = phase /\ since' = since
    BY <1>8 DEF PeerEvaluate, clockVars
  <2> QED
    BY <1>2, <1>4, <1>5, <2>1 DEF SessionInv
<1>9. CASE PeerPublish
  <2>1. simTime' = simTime /\ phase' = phase
    BY <1>9 DEF PeerPublish, clockVars
  <2>2. since' \in [Observers -> Nat] /\ \A o \in Observers : since'[o] <= MaxGap[o]
    BY <1>9, ObserverFacts DEF PeerPublish, SessionInv
  <2> QED
    BY <1>2, <1>4, <1>5, <2>1, <2>2 DEF SessionInv
<1>10. CASE Stop
  <2>1. phase = "running" /\ phase' = "ended" /\ since' = [o \in Observers |-> 0] /\ simTime' = startAt
    BY <1>10 DEF Stop
  <2>2. since' \in [Observers -> Nat] /\ \A o \in Observers : since'[o] <= MaxGap[o]
    BY <2>1, ObserverFacts
  <2> QED
    BY <1>2, <1>5, <2>1, <2>2 DEF SessionInv
<1>11. CASE Replay
  <2>1. phase = "ended" /\ phase' = "ended" /\ since' = since /\ simTime' = simTime
    BY <1>11 DEF Replay, clockVars
  <2> QED
    BY <1>2, <1>5, <2>1 DEF SessionInv
<1>12. CASE UNCHANGED vars
  <2>1. simTime' = simTime /\ phase' = phase /\ since' = since
    BY <1>12 DEF vars, clockVars
  <2> QED
    BY <1>2, <1>4, <1>5, <2>1 DEF SessionInv
<1> QED
  BY <1>6, <1>7, <1>8, <1>9, <1>10, <1>11, <1>12 DEF Next, Loops

\* The clock of a session never runs backwards, is in real time in a pass, and
\* jumps neither into the middle of a pass nor over one (ClockDisciplined), for
\* every sky, speed, start and pace of the loops.
THEOREM ClockIsDisciplined == Spec => ClockDisciplined
<1>1. Init => SessionInv
  BY SessionInit
<1>2. SessionInv /\ [Next]_vars => SessionInv'
  BY SessionStep
<1>3. SessionInv /\ [Next]_vars =>
        [phase' = "running" => LET own == entries[Primary] IN
           /\ simTime' >= simTime
           /\ InPass(own, simTime) => simTime' - simTime <= MaxGap[Primary]
           /\ \A i \in Crossed(own, simTime, simTime') :
                /\ simTime' < own[i].pass.set
                /\ Factor(own, speed, simTime) > 1 => simTime' = own[i].pass.rise]_vars
  BY SessionStep DEF Disciplined
<1> QED
  BY <1>1, <1>2, <1>3, PTL DEF Spec, ClockDisciplined

\* What the evaluators of a session say of the passes is true of the skies, for
\* every sky and link model, and only an observer without a pass refuses a
\* session with a sound model (SequenceTrue).
THEOREM SequenceIsTrue == Spec => []SequenceTrue
<1>1. Init => SessionInv
  BY SessionInit
<1>2. SessionInv /\ [Next]_vars => SessionInv'
  BY SessionStep
<1>3. SessionInv => SequenceTrue
  <2> SUFFICES ASSUME SessionInv
               PROVE  /\ \A o \in Observers : EntriesTrue(entries[o], Elevation[skies[o]], Model)
                      /\ phase = "refused" /\ Sound(Model) => \E o \in Observers : entries[o] = <<>>
    BY DEF SequenceTrue
  <2>1. \A o \in Observers : EntriesTrue(entries[o], Elevation[skies[o]], Model)
    BY EntriesMade DEF SessionInv
  <2>2. ASSUME phase = "refused", Sound(Model)
        PROVE  \E o \in Observers : entries[o] = <<>>
    <3>1. PICK o \in Observers : ~Builds(entries[o])
      BY <2>2 DEF SessionInv
    <3> QED
      BY <2>1, <2>2, <3>1 DEF EntriesTrue
  <2> QED
    BY <2>1, <2>2
<1> QED
  BY <1>1, <1>2, <1>3, PTL DEF Spec

-----------------------------------------------------------------------------
(* What a tick publishes *)

EventKinds == Edges \cup Notices
EventRows == [kind : EventKinds, inCoverage : BOOLEAN]

\* The elements of two sequences joined.
LEMMA JoinFacts ==
  ASSUME NEW S, NEW s \in Seq(S), NEW t \in Seq(S)
  PROVE  /\ s \o t \in Seq(S) /\ Len(s \o t) = Len(s) + Len(t)
         /\ \A k \in 1 .. Len(s) + Len(t) : (s \o t)[k] = IF k <= Len(s) THEN s[k] ELSE t[k - Len(s)]
<1>1. s \o t \in Seq(S)
  OBVIOUS
<1>2. Len(s \o t) = Len(s) + Len(t)
  OBVIOUS
<1>3. \A k \in 1 .. Len(s) + Len(t) : (s \o t)[k] = IF k <= Len(s) THEN s[k] ELSE t[k - Len(s)]
  OBVIOUS
<1> QED
  BY <1>1, <1>2, <1>3

\* The kinds published in a tick, in order: an edge, a notice.
LEMMA KindsFacts ==
  ASSUME NEW p, p.edge \in Edges \cup {None}, p.notice \in Notices \cup {None}
  PROVE  /\ Kinds(p) \in Seq(EventKinds)
         /\ Len(Kinds(p)) \in Nat /\ DOMAIN Kinds(p) = 1 .. Len(Kinds(p))
         /\ \A k \in DOMAIN Kinds(p) : Kinds(p)[k] \in {p.edge, p.notice} /\ Kinds(p)[k] # None
         /\ \A kind \in EventKinds : kind \in {p.edge, p.notice} => \E k \in DOMAIN Kinds(p) : Kinds(p)[k] = kind
         /\ \A k, m \in DOMAIN Kinds(p) : Kinds(p)[k] = Kinds(p)[m] => k = m
         /\ \A k \in DOMAIN Kinds(p) : Kinds(p)[k] \in Edges => k = 1 /\ Kinds(p)[k] = p.edge
<1> DEFINE s == Kinds(p)
           Good(q) == /\ q \in Seq(EventKinds)
                      /\ Len(q) \in Nat /\ DOMAIN q = 1 .. Len(q)
                      /\ \A k \in DOMAIN q : q[k] \in {p.edge, p.notice} /\ q[k] # None
                      /\ \A kind \in EventKinds : kind \in {p.edge, p.notice} => \E k \in DOMAIN q : q[k] = kind
                      /\ \A k, m \in DOMAIN q : q[k] = q[m] => k = m
                      /\ \A k \in DOMAIN q : q[k] \in Edges => k = 1 /\ q[k] = p.edge
<1>1. None \notin EventKinds /\ Edges \cap Notices = {}
  BY DEF None, EventKinds, Edges, Notices
<1>2. CASE p.edge = None /\ p.notice = None
  <2>1. s = <<>>
    BY <1>2 DEF Kinds
  <2>2. Good(<<>>)
    BY <1>1, <1>2
  <2> QED
    BY <2>1, <2>2
<1>3. CASE p.edge # None /\ p.notice = None
  <2>1. s = <<p.edge>>
    BY <1>3 DEF Kinds
  <2>2. Good(<<p.edge>>)
    BY <1>1, <1>3 DEF EventKinds
  <2> QED
    BY <2>1, <2>2
<1>4. CASE p.edge = None /\ p.notice # None
  <2>1. s = <<p.notice>>
    BY <1>4 DEF Kinds
  <2>2. Good(<<p.notice>>)
    BY <1>1, <1>4 DEF EventKinds
  <2> QED
    BY <2>1, <2>2
<1>5. CASE p.edge # None /\ p.notice # None
  <2> DEFINE e == <<p.edge>>
             n == <<p.notice>>
  <2>1. s = e \o n
    BY <1>5 DEF Kinds
  <2>2. p.edge \in EventKinds /\ p.notice \in EventKinds
    BY <1>5 DEF EventKinds
  <2>3. e \in Seq(EventKinds) /\ n \in Seq(EventKinds) /\ Len(e) = 1 /\ Len(n) = 1
        /\ e[1] = p.edge /\ n[1] = p.notice
    BY <2>2
  <2> HIDE DEF e, n
  <2>4. /\ e \o n \in Seq(EventKinds) /\ Len(e \o n) = Len(e) + Len(n)
        /\ \A k \in 1 .. Len(e) + Len(n) : (e \o n)[k] = IF k <= Len(e) THEN e[k] ELSE n[k - Len(e)]
    BY <2>3, JoinFacts, Zenon
  <2> DEFINE c == e \o n
  <2> HIDE DEF c
  <2>5. c \in Seq(EventKinds) /\ Len(c) = 2 /\ c[1] = p.edge /\ c[2] = p.notice
    BY <2>3, <2>4 DEF c
  <2>6. DOMAIN c = {1, 2} /\ DOMAIN c = 1 .. 2
    BY <2>5
  <2>7. p.edge \in Edges /\ p.notice \notin Edges /\ p.edge # p.notice
    BY <1>1, <1>5
  <2>8. Good(c)
    BY <1>5, <2>5, <2>6, <2>7
  <2> QED
    BY <2>1, <2>8 DEF c
<1> QED
  BY <1>2, <1>3, <1>4, <1>5

\* The rows written for events of these kinds: all of them, or none when JSON
\* cannot hold the time until the next transition.
LEMMA RowsFacts ==
  ASSUME NEW kinds \in Seq(EventKinds), NEW cov, cov.inCoverage \in BOOLEAN
  PROVE  LET r == Rows(kinds, cov) IN
         /\ r \in Seq(EventRows)
         /\ cov.until = Unending => r = <<>>
         /\ cov.until # Unending =>
              /\ Len(r) = Len(kinds)
              /\ \A k \in 1 .. Len(kinds) : r[k] = [kind |-> kinds[k], inCoverage |-> cov.inCoverage]
<1> DEFINE n == Len(kinds)
           f == [k \in 1 .. n |-> Row(kinds[k], cov)]
           r == Rows(kinds, cov)
<1>1. n \in Nat /\ DOMAIN kinds = 1 .. n /\ \A k \in 1 .. n : kinds[k] \in EventKinds
  OBVIOUS
<1>2. CASE cov.until = Unending
  <2>1. r = <<>>
    BY <1>2 DEF Rows
  <2> QED
    BY <1>2, <2>1
<1>3. CASE cov.until # Unending
  <2>1. r = f
    BY <1>1, <1>3 DEF Rows
  <2>2. \A k \in 1 .. n : f[k] = [kind |-> kinds[k], inCoverage |-> cov.inCoverage]
    BY DEF Row
  <2>3. \A k \in 1 .. n : f[k] \in EventRows
    BY <1>1, <2>2 DEF EventRows
  <2>4. f = [k \in 1 .. n |-> f[k]]
    OBVIOUS
  <2> HIDE DEF f, n
  <2>5. [k \in 1 .. n |-> f[k]] \in Seq(EventRows)
    BY <1>1, <2>3
  <2>6. f \in Seq(EventRows) /\ Len(f) = n
    BY <1>1, <2>4, <2>5, FunctionIsSeq
  <2> QED
    BY <1>3, <2>1, <2>2, <2>6 DEF n
<1> QED
  BY <1>2, <1>3

\* One tick keeps the types of the loop's memory, if the link has a value for
\* every impairment in coverage.
LEMMA TickTyped ==
  ASSUME LoopTypeOK, NEW cov, cov.inCoverage \in BOOLEAN, NEW link, cov.inCoverage => link \in LinkStates,
         NEW lookahead, NEW gap \in Nat, Tick(link, cov, lookahead, gap)
  PROVE  LoopTypeOK'
<1>1. Edge(cov) \in Edges \cup {None} /\ Notice(cov, lookahead) \in Notices \cup {None}
  BY DEF Edge, Notice, Edges, Notices
<1>2. published' \in [edge : Edges \cup {None}, notice : Notices \cup {None}, link : LinkStates \cup {Silent}]
  <2> DEFINE l == IF cov.inCoverage /\ Passes(link, gap) THEN link ELSE Silent
  <2>1. l \in LinkStates \cup {Silent}
    OBVIOUS
  <2>2. published' = [edge |-> Edge(cov), notice |-> Notice(cov, lookahead), link |-> l]
    BY DEF Tick
  <2> HIDE DEF l
  <2> QED
    BY <1>1, <2>1, <2>2
<1>3. Interval \in Nat \ {0} /\ lastAge \in 0 .. Interval /\ lastVal \in LinkStates \cup {Silent}
  BY ThrottleAssumption DEF LoopTypeOK, ThrottleTypeOK
<1>4. Aged(gap) \in 0 .. Interval
  BY <1>3 DEF Aged
<1>5. lastVal' \in LinkStates \cup {Silent} /\ lastAge' \in 0 .. Interval
  <2>1. CASE cov.inCoverage
    BY <1>3, <1>4, <2>1 DEF Tick, Offer
  <2>2. CASE ~cov.inCoverage
    BY <1>3, <1>4, <2>2 DEF Tick, Idle
  <2> QED
    BY <2>1, <2>2
<1>6. /\ prevInCoverageSet' = TRUE /\ prevInCoverage' = cov.inCoverage
      /\ lookaheadCloseFired' = (Fired(lookaheadCloseFired, cov) \/ Closing(cov, lookahead))
      /\ lookaheadOpenFired' = (Fired(lookaheadOpenFired, cov) \/ Opening(cov, lookahead))
  BY DEF Tick
<1>7. /\ prevInCoverageSet' \in BOOLEAN /\ prevInCoverage' \in BOOLEAN
      /\ lookaheadCloseFired' \in BOOLEAN /\ lookaheadOpenFired' \in BOOLEAN
  BY <1>6
<1> QED
  BY <1>2, <1>5, <1>7 DEF LoopTypeOK, ThrottleTypeOK

-----------------------------------------------------------------------------
(* Types *)

\* TypeOK, and what keeps the age of the position bounded.
TypeInv ==
  /\ TypeOK
  /\ positionAge # NoTime => positionAge < PositionEvery + since[Primary]
  /\ replayed \in Seq(EventRows)

\* The evaluator of the watched observer is orderly, and in a pass it yields a
\* link state.
LEMMA OwnFacts ==
  ASSUME SessionInv
  PROVE  /\ Orderly(Own) /\ Len(Own) \in Nat /\ DOMAIN Own = 1 .. Len(Own)
         /\ \A i \in DOMAIN Own : Own[i].pass.rise \in Nat /\ Own[i].pass.set <= MaxSearch
         /\ \A i \in DOMAIN Own : i > 1 => Own[i].pass.rise - Own[i - 1].pass.set > Coarse
         /\ phase # "refused" => \A t \in Int : InPass(Own, t) => LinkAt(Own, t) \in LinkStates
<1> DEFINE sky == Elevation[skies[watched]]
           passes == PredictPasses(sky, 0)
           own == EntriesOf(passes, Model)
<1>1. Own = own /\ sky \in [0 .. MaxSearch -> Int]
  BY EntriesMade DEF SessionInv, Own
<1>2. Orderly(own)
  BY EntriesOrderly
<1>3. /\ Len(own) \in Nat /\ DOMAIN own = 1 .. Len(own)
      /\ \A i \in DOMAIN own : EntryOf(own[i], sky, Model, GapAfter(passes, i))
      /\ \A i \in DOMAIN own : i > 1 => own[i].pass.rise - own[i - 1].pass.set > Coarse
  BY EntriesFacts
<1>4. ASSUME phase # "refused", NEW t \in Int, InPass(own, t)
      PROVE  LinkAt(own, t) \in LinkStates
  <2>1. Builds(own)
    BY <1>1, <1>4 DEF SessionInv, Own
  <2>2. Model \in Models /\ ValidModel(Model)
    BY SessionAssumption
  <2> HIDE DEF sky
  <2> QED
    BY <1>1, <1>4, <2>1, <2>2, LinkInPass
<1> HIDE DEF own, passes, sky
<1>5. \A i \in DOMAIN own : own[i].pass.rise \in Nat /\ own[i].pass.set <= MaxSearch
  BY <1>3 DEF EntryOf
<1> QED
  BY <1>1, <1>2, <1>3, <1>4, <1>5

\* What the watched loop does when it has found coverage at instant t, and the
\* recorder at the clock of the moment.
LEMMA PublishFacts ==
  ASSUME SessionInv, TypeInv, phase = "running",
         NEW t \in Int, NEW clock \in Int, NEW gap \in Nat, Publish(t, clock, gap)
  PROVE  LET cov == CoverageAt(Own, startAt, t)
             here == CoverageAt(Own, startAt, clock)
         IN /\ cov.inCoverage \in BOOLEAN /\ here.inCoverage \in BOOLEAN
            /\ LoopTypeOK'
            /\ prevInCoverageSet' = TRUE /\ prevInCoverage' = cov.inCoverage
            /\ lookaheadCloseFired' = (Fired(lookaheadCloseFired, cov) \/ Closing(cov, LookaheadSec))
            /\ lookaheadOpenFired' = (Fired(lookaheadOpenFired, cov) \/ Opening(cov, LookaheadSec))
            /\ published'.edge = Edge(cov) /\ published'.notice = Notice(cov, LookaheadSec)
            /\ published'.edge \in Edges \cup {None} /\ published'.notice \in Notices \cup {None}
            /\ told' = [i \in DOMAIN told |->
                          IF i \in PassAt(t) THEN told[i] \cup ({published'.edge, published'.notice} \ {None})
                          ELSE told[i]]
            /\ file' = file \o Rows(Kinds(published'), here)
            /\ replayed' = replayed /\ replay' = replay
<1> DEFINE cov == CoverageAt(Own, startAt, t)
           here == CoverageAt(Own, startAt, clock)
           link == LinkAt(Own, t)
<1>1. /\ cov.inCoverage \in BOOLEAN /\ here.inCoverage \in BOOLEAN
      /\ cov.inCoverage <=> InPass(Own, t)
  BY OwnFacts, CoverageFacts, Zenon
<1>2. cov.inCoverage => link \in LinkStates
  BY <1>1, OwnFacts
<1>3. Tick(link, cov, LookaheadSec, gap)
  BY DEF Publish
<1>4. LoopTypeOK
  BY DEF TypeInv, TypeOK
<1> HIDE DEF cov, link
<1>5. LoopTypeOK'
  BY <1>1, <1>2, <1>3, <1>4, TickTyped
<1>6. published'.edge = Edge(cov) /\ published'.notice = Notice(cov, LookaheadSec)
  BY <1>3 DEF Tick
<1>7. published'.edge \in Edges \cup {None} /\ published'.notice \in Notices \cup {None}
  BY <1>5 DEF LoopTypeOK
<1>8. /\ prevInCoverageSet' = TRUE /\ prevInCoverage' = cov.inCoverage
      /\ lookaheadCloseFired' = (Fired(lookaheadCloseFired, cov) \/ Closing(cov, LookaheadSec))
      /\ lookaheadOpenFired' = (Fired(lookaheadOpenFired, cov) \/ Opening(cov, LookaheadSec))
  BY <1>3 DEF Tick
<1>9. /\ file' = file \o Rows(Kinds(published'), here)
      /\ replayed' = replayed /\ replay' = replay
      /\ told' = [i \in DOMAIN told |->
                    IF i \in PassAt(t) THEN told[i] \cup ({published'.edge, published'.notice} \ {None})
                    ELSE told[i]]
  BY DEF Publish, Record
<1> QED
  BY <1>1, <1>5, <1>6, <1>7, <1>8, <1>9 DEF cov

\* What is published is recorded in rows, if the time until the next transition
\* can be written.
LEMMA RowsWritten ==
  ASSUME SessionInv, TypeInv, phase = "running",
         NEW t \in Int, NEW clock \in Int, NEW gap \in Nat, Publish(t, clock, gap)
  PROVE  LET cov == CoverageAt(Own, startAt, clock) IN
         /\ file' \in Seq(EventRows) /\ Len(file) \in Nat /\ Len(file') \in Nat /\ Len(file) <= Len(file')
         /\ \A k \in 1 .. Len(file) : file'[k] = file[k]
         /\ cov.until = Unending => file' = file
         /\ cov.until # Unending =>
              /\ Len(file') = Len(file) + Len(Kinds(published'))
              /\ \A k \in 1 .. Len(Kinds(published')) :
                   file'[Len(file) + k] = [kind |-> Kinds(published')[k], inCoverage |-> cov.inCoverage]
<1> DEFINE cov == CoverageAt(Own, startAt, clock)
<1>0. /\ published'.edge \in Edges \cup {None} /\ published'.notice \in Notices \cup {None}
      /\ file \in Seq(EventRows) /\ cov.inCoverage \in BOOLEAN
      /\ file' = file \o Rows(Kinds(published'), cov)
  BY PublishFacts DEF TypeInv, TypeOK, RecordingTypeOK, EventRows, EventKinds
<1> HIDE DEF cov
<1> DEFINE kinds == Kinds(published')
           rows == Rows(kinds, cov)
<1>1. kinds \in Seq(EventKinds) /\ Len(kinds) \in Nat
  BY <1>0, KindsFacts
<1> HIDE DEF kinds
<1>2. /\ rows \in Seq(EventRows)
      /\ cov.until = Unending => rows = <<>>
      /\ cov.until # Unending =>
           /\ Len(rows) = Len(kinds)
           /\ \A k \in 1 .. Len(kinds) : rows[k] = [kind |-> kinds[k], inCoverage |-> cov.inCoverage]
  BY <1>0, <1>1, RowsFacts
<1>3. file' = file \o rows
  BY <1>0 DEF kinds
<1> HIDE DEF rows
<1>4. /\ file' \in Seq(EventRows) /\ Len(file') = Len(file) + Len(rows)
      /\ \A k \in 1 .. Len(file) + Len(rows) : file'[k] = IF k <= Len(file) THEN file[k] ELSE rows[k - Len(file)]
  BY <1>0, <1>2, <1>3, JoinFacts
<1>5. Len(file) \in Nat /\ Len(rows) \in Nat
  BY <1>0, <1>2
<1>6. \A k \in 1 .. Len(file) : file'[k] = file[k]
  BY <1>4, <1>5
<1>7. cov.until = Unending => file' = file
  <2>1. file \in Seq(EventRows)
    BY <1>0
  <2> QED
    BY <1>2, <1>3, <2>1
<1>8. ASSUME cov.until # Unending, NEW k \in 1 .. Len(kinds)
      PROVE  file'[Len(file) + k] = [kind |-> kinds[k], inCoverage |-> cov.inCoverage]
  <2>0. Len(rows) = Len(kinds) /\ k \in Nat /\ 1 <= k /\ k <= Len(kinds)
    BY <1>1, <1>2, <1>8
  <2>1. /\ Len(file) + k \in 1 .. Len(file) + Len(rows)
        /\ ~(Len(file) + k <= Len(file)) /\ Len(file) + k - Len(file) = k
    BY <1>5, <2>0
  <2>2. file'[Len(file) + k] = rows[k]
    BY <1>4, <2>1
  <2> QED
    BY <1>2, <1>8, <2>2
<1>9. Len(file') \in Nat /\ Len(file) <= Len(file')
  BY <1>4, <1>5
<1>10. cov.until # Unending => Len(file') = Len(file) + Len(kinds)
  BY <1>2, <1>4
<1> QED
  BY <1>4, <1>5, <1>6, <1>7, <1>8, <1>9, <1>10 DEF kinds, cov

\* A session starts well typed.
LEMMA TypeInit ==
  ASSUME Init
  PROVE  TypeInv
<1>1. LoopTypeOK
  <2>1. published = [edge |-> None, notice |-> None, link |-> Silent]
    BY DEF Init, LoopInit
  <2>2. published \in [edge : Edges \cup {None}, notice : Notices \cup {None}, link : LinkStates \cup {Silent}]
    BY <2>1
  <2>3. ThrottleTypeOK
    BY ThrottleAssumption DEF Init, LoopInit, ThrottleInit, ThrottleTypeOK
  <2> QED
    BY <2>2, <2>3 DEF Init, LoopInit, LoopTypeOK
<1>2. RecordingTypeOK(Edges \cup Notices) /\ replayed \in Seq(EventRows)
  BY DEF Init, RecordingInit, RecordingTypeOK
<1>3. /\ phase \in {"refused", "running", "ended"} /\ simTime \in Int
      /\ \A o \in Observers : since[o] \in 0 .. MaxGap[o]
  BY SessionInit, ObserverFacts DEF SessionInv
<1>4. told \in [DOMAIN Own -> SUBSET (Edges \cup Notices)]
  BY DEF Init
<1>5. evaluated = NoTime /\ positionAge = NoTime /\ started = FALSE
  BY DEF Init
<1> QED
  BY <1>1, <1>2, <1>3, <1>4, <1>5 DEF TypeInv, TypeOK

\* What the watched loop publishes keeps the types.
LEMMA PublishTyped ==
  ASSUME SessionInv, TypeInv, phase = "running", UNCHANGED sessionVars,
         NEW t \in Int, NEW clock \in Int, NEW gap \in Nat, Publish(t, clock, gap)
  PROVE  /\ LoopTypeOK' /\ RecordingTypeOK(Edges \cup Notices)'
         /\ replayed' \in Seq(EventRows)
         /\ (told \in [DOMAIN Own -> SUBSET (Edges \cup Notices)])'
<1> DEFINE here == CoverageAt(Own, startAt, clock)
<1>1. /\ here.inCoverage \in BOOLEAN
      /\ LoopTypeOK'
      /\ published'.edge \in Edges \cup {None} /\ published'.notice \in Notices \cup {None}
      /\ told' = [i \in DOMAIN told |->
                    IF i \in PassAt(t) THEN told[i] \cup ({published'.edge, published'.notice} \ {None})
                    ELSE told[i]]
      /\ file' = file \o Rows(Kinds(published'), here)
      /\ replayed' = replayed /\ replay' = replay
  BY PublishFacts
<1> HIDE DEF here
<1>2. file \in Seq(EventRows) /\ Len(replayed) <= Len(file) /\ replayed \in Seq(EventRows)
  BY DEF TypeInv, TypeOK, RecordingTypeOK, EventRows, EventKinds
<1>3. file' \in Seq(EventRows) /\ Len(file) \in Nat /\ Len(file') \in Nat /\ Len(file) <= Len(file')
  BY <1>1, <1>2, RowsWritten
<1>4. Len(replayed') <= Len(file')
  BY <1>1, <1>2, <1>3
<1>5. RecordingTypeOK(Edges \cup Notices)'
  BY <1>1, <1>3, <1>4 DEF TypeInv, TypeOK, RecordingTypeOK, EventRows, EventKinds
<1>6. Own' = Own
  BY DEF Own, sessionVars
<1>7. told' \in [DOMAIN Own -> SUBSET (Edges \cup Notices)]
  <2>1. told \in [DOMAIN Own -> SUBSET (Edges \cup Notices)] /\ DOMAIN told = DOMAIN Own
    BY DEF TypeInv, TypeOK
  <2>2. {published'.edge, published'.notice} \ {None} \subseteq Edges \cup Notices
    BY <1>1
  <2> QED
    BY <1>1, <2>1, <2>2
<1> QED
  BY <1>1, <1>2, <1>5, <1>6, <1>7

\* A replay publishes a row of the file, or nothing.
LEMMA ReplayTyped ==
  ASSUME RecordingTypeOK(Edges \cup Notices), replayed \in Seq(EventRows),
         ReplayStart \/ ReplayRow \/ ReplayCancel \/ ReplayDone
  PROVE  /\ RecordingTypeOK(Edges \cup Notices)' /\ replayed' \in Seq(EventRows)
         /\ file' = file
<1>1. file \in Seq(EventRows) /\ Len(replayed) <= Len(file)
  BY DEF RecordingTypeOK, EventRows, EventKinds
<1>2. CASE ReplayStart \/ ReplayCancel \/ ReplayDone
  BY <1>2 DEF ReplayStart, ReplayCancel, ReplayDone, RecordingTypeOK
<1>3. CASE ReplayRow
  <2>1. /\ Len(replayed) < Len(file) /\ replayed' = Append(replayed, file[Len(replayed) + 1])
        /\ file' = file /\ replay' = replay
    BY <1>3 DEF ReplayRow
  <2>2. Len(file) \in Nat /\ Len(replayed) \in Nat /\ file[Len(replayed) + 1] \in EventRows
    <3>1. Len(replayed) \in Nat /\ Len(file) \in Nat
      BY <1>1
    <3>2. Len(replayed) + 1 \in 1 .. Len(file)
      BY <2>1, <3>1
    <3> QED
      BY <1>1, <3>1, <3>2
  <2> DEFINE row == file[Len(replayed) + 1]
  <2>3. replayed' = Append(replayed, row) /\ row \in EventRows
    BY <2>1, <2>2
  <2> HIDE DEF row
  <2>4. replayed' \in Seq(EventRows) /\ Len(replayed') = Len(replayed) + 1
    BY <2>3
  <2>5. \A i \in DOMAIN replayed' : replayed'[i] \in EventRows
    BY <2>4
  <2>6. Len(replayed') <= Len(file')
    BY <2>1, <2>2, <2>4
  <2> QED
    BY <2>1, <2>4, <2>5, <2>6 DEF RecordingTypeOK, EventRows, EventKinds
<1> QED
  BY <1>2, <1>3

\* Every step keeps the types; the age of the position grows with the time since
\* the last tick of the primary's loop, which publishes it once it is due.
LEMMA TypeStep ==
  ASSUME SessionInv, TypeInv, [Next]_vars
  PROVE  TypeInv'
<1>1. SessionInv'
  BY SessionStep
<1>2. /\ (phase \in {"refused", "running", "ended"})' /\ (simTime \in Int)'
      /\ (\A o \in Observers : since[o] \in 0 .. MaxGap[o])'
  BY <1>1, ObserverFacts DEF SessionInv
<1>3. UNCHANGED sessionVars
  BY DEF Next, Loops, TimePasses, PrimaryTick, PeerEvaluate, PeerPublish, Stop, Replay, vars
<1>4. Own' = Own
  BY <1>3 DEF Own, sessionVars
<1>5. /\ Primary \in Observers /\ Peer \in Observers /\ Primary # Peer
      /\ MaxGap[Primary] \in Nat /\ PositionEvery \in Nat \ {0} /\ NoTime \notin Int
      /\ since \in [Observers -> Nat] /\ \A o \in Observers : since[o] \in 0 .. MaxGap[o]
  BY ObserverFacts, SessionAssumption, PredictionAssumption DEF SessionInv
<1> DEFINE Heard == told \in [DOMAIN Own -> SUBSET (Edges \cup Notices)]
           Aging == /\ positionAge \in Int \cup {NoTime}
                    /\ positionAge # NoTime => positionAge >= 0 /\ positionAge < PositionEvery + since[Primary]
           Rest == /\ Heard /\ LoopTypeOK /\ RecordingTypeOK(Edges \cup Notices)
                   /\ replayed \in Seq(EventRows)
<1>6. Rest /\ Aging
  BY <1>5 DEF TypeInv, TypeOK
<1>7. ASSUME UNCHANGED told
      PROVE  Heard'
  BY <1>4, <1>6, <1>7
<1>8. ASSUME UNCHANGED loopVars
      PROVE  LoopTypeOK'
  BY <1>6, <1>8 DEF loopVars, throttleVars, LoopTypeOK, ThrottleTypeOK
<1>9. ASSUME UNCHANGED recordingVars
      PROVE  RecordingTypeOK(Edges \cup Notices)' /\ replayed' \in Seq(EventRows)
  BY <1>6, <1>9 DEF recordingVars, RecordingTypeOK
<1>10. SUFFICES (evaluated \in Int \cup {NoTime})' /\ (started \in BOOLEAN)' /\ Rest' /\ Aging'
  <2>1. ASSUME Aging'
        PROVE  (positionAge \in (0 .. PositionEvery + MaxGap[Primary] - 1) \cup {NoTime})'
    <3>1. since'[Primary] \in Nat /\ since'[Primary] <= MaxGap[Primary]
      BY <1>2, <1>5
    <3> QED
      BY <1>5, <2>1, <3>1
  <2>2. ASSUME Aging'
        PROVE  (positionAge # NoTime => positionAge < PositionEvery + since[Primary])'
    BY <2>2
  <2> HIDE DEF Aging
  <2> QED
    BY <1>2, <2>1, <2>2 DEF TypeInv, TypeOK
<1> HIDE DEF Heard
<1>11. evaluated \in Int \cup {NoTime} /\ started \in BOOLEAN /\ simTime \in Int
  BY DEF TypeInv, TypeOK
<1>12. CASE TimePasses
  <2>1. /\ UNCHANGED <<told, loopVars, recordingVars, evaluated, started>>
        /\ since'[Primary] = since[Primary] + 1
        /\ positionAge' = IF positionAge = NoTime THEN NoTime ELSE positionAge + 1
    BY <1>5, <1>12 DEF TimePasses, clockVars
  <2>2. Aging'
    BY <1>5, <1>6, <2>1
  <2> QED
    BY <1>7, <1>8, <1>9, <1>11, <2>1, <2>2
<1>13. CASE PrimaryTick
  <2>1. /\ phase = "running" /\ UNCHANGED evaluated /\ started' = TRUE /\ since'[Primary] = 0
        /\ positionAge' = IF positionAge = NoTime \/ positionAge >= PositionEvery THEN 0 ELSE positionAge
    BY <1>5, <1>13 DEF PrimaryTick, Advance, PublishPosition
  <2>2. Aging'
    BY <1>5, <1>6, <2>1
  <2>3. Rest'
    <3>1. CASE watched = Primary
      <4>1. Publish(simTime', simTime', since[Primary])
        BY <1>13, <3>1 DEF PrimaryTick
      <4>2. simTime' \in Int /\ since[Primary] \in Nat
        BY <1>2, <1>5
      <4> QED
        BY <1>3, <2>1, <4>1, <4>2, PublishTyped DEF Heard
    <3>2. CASE watched # Primary
      <4>1. UNCHANGED <<told, loopVars, recordingVars>>
        BY <1>13, <3>2 DEF PrimaryTick
      <4> QED
        BY <1>7, <1>8, <1>9, <4>1
    <3> QED
      BY <3>1, <3>2
  <2> QED
    BY <1>11, <2>1, <2>2, <2>3
<1>14. CASE PeerEvaluate
  <2>1. UNCHANGED <<told, loopVars, recordingVars, started, positionAge, since>> /\ evaluated' = simTime
    BY <1>14 DEF PeerEvaluate, clockVars
  <2>2. Aging'
    BY <1>6, <2>1
  <2> QED
    BY <1>7, <1>8, <1>9, <1>11, <2>1, <2>2
<1>15. CASE PeerPublish
  <2>1. /\ phase = "running" /\ evaluated # NoTime /\ evaluated' = NoTime
        /\ UNCHANGED <<positionAge, started>> /\ since'[Primary] = since[Primary]
        /\ Publish(evaluated, simTime, since[Peer])
    BY <1>5, <1>15 DEF PeerPublish, clockVars
  <2>2. Aging'
    BY <1>6, <2>1
  <2>3. evaluated \in Int /\ simTime \in Int /\ since[Peer] \in Nat
    BY <1>5, <1>11, <2>1
  <2>4. Rest'
    BY <1>3, <2>1, <2>3, PublishTyped DEF Heard
  <2> QED
    BY <1>11, <2>1, <2>2, <2>4
<1>16. CASE Stop
  <2>1. /\ UNCHANGED <<told, recordingVars, evaluated>> /\ started' = FALSE /\ positionAge' = NoTime
    BY <1>16 DEF Stop
  <2>2. LoopTypeOK'
    <3>1. /\ prevInCoverage' = FALSE /\ prevInCoverageSet' = FALSE
          /\ lookaheadOpenFired' = FALSE /\ lookaheadCloseFired' = FALSE
          /\ published' = [edge |-> None, notice |-> None, link |-> Silent]
          /\ lastVal' = Silent /\ lastAge' = 0
      BY <1>16 DEF Stop, LoopReset
    <3>2. published' \in [edge : Edges \cup {None}, notice : Notices \cup {None}, link : LinkStates \cup {Silent}]
      BY <3>1
    <3>3. 0 \in 0 .. Interval
      BY ThrottleAssumption
    <3>4. ThrottleTypeOK'
      BY <3>1, <3>3 DEF ThrottleTypeOK
    <3> QED
      BY <3>1, <3>2, <3>4 DEF LoopTypeOK
  <2>3. Aging'
    BY <2>1
  <2> QED
    BY <1>7, <1>9, <1>11, <2>1, <2>2, <2>3
<1>17. CASE Replay
  <2>1. UNCHANGED <<told, loopVars, evaluated, started, positionAge, since>>
    BY <1>17 DEF Replay, clockVars
  <2>2. RecordingTypeOK(Edges \cup Notices)' /\ replayed' \in Seq(EventRows)
    BY <1>6, <1>17, ReplayTyped DEF Replay
  <2>3. Aging'
    BY <1>6, <2>1
  <2> QED
    BY <1>7, <1>8, <1>11, <2>1, <2>2, <2>3
<1>18. CASE UNCHANGED vars
  <2>1. UNCHANGED <<told, loopVars, recordingVars, evaluated, started, positionAge, since>>
    BY <1>18 DEF vars, clockVars
  <2>2. Aging'
    BY <1>6, <2>1
  <2> QED
    BY <1>7, <1>8, <1>9, <1>11, <2>1, <2>2
<1> QED
  BY <1>12, <1>13, <1>14, <1>15, <1>16, <1>17, <1>18 DEF Next, Loops

\* The types of a session's state (TypeOK): a pass is told of events only, and the
\* position is never older than the ticks of the loop allow.
THEOREM SessionTyped == Spec => []TypeOK
<1>1. Init => SessionInv /\ TypeInv
  BY SessionInit, TypeInit
<1>2. SessionInv /\ TypeInv /\ [Next]_vars => (SessionInv /\ TypeInv)'
  BY SessionStep, TypeStep
<1>3. SessionInv /\ TypeInv => TypeOK
  BY DEF TypeInv
<1> QED
  BY <1>1, <1>2, <1>3, PTL DEF Spec

-----------------------------------------------------------------------------
(* What is told and written *)

EdgeOf(covered) == IF covered THEN "window_opened" ELSE "window_closed"

Heard(kind) == {i \in DOMAIN told : kind \in told[i]}

\* What the watched loop remembers of its last tick.
Remembered ==
  /\ evaluated = NoTime
  /\ prevInCoverageSet = started
  /\ started => (prevInCoverage <=> InPass(Own, simTime))
  /\ ~started => file = <<>> /\ \A i \in DOMAIN told : told[i] = {}

\* What a pass was told is the past of the clock, and a notice that may still be
\* repeated is remembered.
ToldInTime ==
  \A i \in DOMAIN told :
    /\ told[i] # {} => \A j \in DOMAIN told : j < i => Own[j].pass.set <= simTime
    /\ "window_opened" \in told[i] \/ "window_closing" \in told[i] => Own[i].pass.rise <= simTime
    /\ "window_closing" \in told[i] /\ simTime < Own[i].pass.set => lookaheadCloseFired
    /\ "window_opening" \in told[i] /\ simTime < Own[i].pass.rise => lookaheadOpenFired

\* The edge last written is the one the loop remembers.
EdgeAnswered ==
  Pending(Own, simTime) # {} =>
    \A k \in DOMAIN file : file[k].kind = EdgeOf(~prevInCoverage) =>
      \E m \in k .. Len(file) : file[m].kind = EdgeOf(prevInCoverage)

MemoryInv == phase = "running" /\ watched = Primary => Remembered /\ ToldInTime /\ EdgeAnswered

Counted ==
  \A kind \in EventKinds :
    /\ IsFiniteSet(RowsOf(kind)) /\ IsFiniteSet(Heard(kind))
    /\ Cardinality(RowsOf(kind)) = Cardinality(Heard(kind))

Covering == \A k \in DOMAIN file : file[k].inCoverage <=> file[k].kind \in {"window_opened", "window_closing"}

Alternating ==
  \A k \in DOMAIN file : file[k].kind \in Edges =>
    \A j \in 1 .. k - 1 : file[j].kind = file[k].kind =>
      \E m \in j .. k : file[m].kind \in Edges \ {file[k].kind}

RowsInv == watched = Primary => Counted /\ Covering /\ Alternating

\* A replay is a part of the file from its start.
ReplayInv ==
  /\ \A k \in 1 .. Len(replayed) : replayed[k] = file[k]
  /\ replay # "idle" => phase = "ended"
  /\ replay = "done" => Len(replayed) = Len(file)

\* A clock that has moved to a pass, or to the gap before it.
LEMMA Overtaken ==
  ASSUME NEW own, Orderly(own), NEW t \in Int, NEW u \in Int, t <= u,
         NEW i, IsPending(own, u, i)
  PROVE  /\ own[i].pass.rise <= t => InPass(own, t)
         /\ InPass(own, t) /\ u < own[i].pass.rise =>
              \E j \in DOMAIN own : j < i /\ t < own[j].pass.set
         /\ \A j \in DOMAIN own : own[j].pass.rise <= t /\ u < own[j].pass.set => j = i
<1>1. /\ i \in DOMAIN own /\ u < own[i].pass.set
      /\ \A j \in DOMAIN own : j < i => own[j].pass.set <= u
      /\ DOMAIN own \in SUBSET Int
  BY DEF IsPending, Orderly
<1>2. /\ \A j \in DOMAIN own : own[j].pass.rise \in Int /\ own[j].pass.set \in Int
                               /\ own[j].pass.rise < own[j].pass.set
      /\ \A j, k \in DOMAIN own : j < k => own[j].pass.set < own[k].pass.rise
  BY PassLasts DEF Orderly
<1>3. own[i].pass.rise <= t => InPass(own, t)
  BY <1>1, <1>2 DEF InPass, During
<1>4. ASSUME InPass(own, t), u < own[i].pass.rise
      PROVE  \E j \in DOMAIN own : j < i /\ t < own[j].pass.set
  <2>1. PICK j \in DOMAIN own : own[j].pass.rise <= t /\ t < own[j].pass.set
    BY <1>4 DEF InPass, During
  <2>2. j # i /\ ~(i < j)
    BY <1>1, <1>2, <1>4, <2>1
  <2>3. j < i
    BY <1>1, <2>1, <2>2
  <2> QED
    BY <2>1, <2>3
<1>5. ASSUME NEW j \in DOMAIN own, own[j].pass.rise <= t, u < own[j].pass.set
      PROVE  j = i
  <2>1. ~(j < i)
    BY <1>1, <1>2, <1>5
  <2>2. ~(i < j)
    BY <1>1, <1>2, <1>5
  <2> QED
    BY <1>1, <2>1, <2>2
<1> QED
  BY <1>3, <1>4, <1>5

\* A tick of the primary's loop that is watched.
LEMMA TickFacts ==
  ASSUME SessionInv, PrimaryTick, watched = Primary
  PROVE  /\ phase = "running" /\ phase' = phase /\ watched' = watched /\ evaluated' = evaluated
         /\ Own' = Own /\ startAt' = startAt /\ started' = TRUE
         /\ simTime \in Int /\ simTime' \in Int /\ startAt \in Int
         /\ startAt <= simTime /\ simTime <= simTime'
         /\ since[Primary] \in Nat /\ Publish(simTime', simTime', since[Primary])
<1>1. phase = "running" /\ UNCHANGED <<sessionVars, phase, evaluated>> /\ started' = TRUE
  BY DEF PrimaryTick, Advance
<1>2. Own' = Own /\ startAt' = startAt /\ watched' = watched
  BY <1>1 DEF sessionVars, Own
<1>3. SessionInv' /\ Disciplined(entries[Primary], simTime, simTime', speed)
  BY <1>1, SessionStep DEF Next, Loops
<1>4. since[Primary] \in Nat
  BY ObserverFacts DEF SessionInv
<1>5. Publish(simTime', simTime', since[Primary])
  BY DEF PrimaryTick
<1> QED
  BY <1>1, <1>2, <1>3, <1>4, <1>5 DEF SessionInv, Disciplined

\* A tick while no pass is left tells and writes nothing: JSON cannot hold the
\* time until a transition that never comes.
LEMMA NothingLeft ==
  ASSUME SessionInv, TypeInv, PrimaryTick, watched = Primary,
         Pending(Own, simTime') = {}
  PROVE  told' = told /\ file' = file
<1> DEFINE t == simTime'
           cov == CoverageAt(Own, startAt, t)
<1>1. t \in Int /\ phase = "running" /\ since[Primary] \in Nat /\ Publish(t, t, since[Primary])
  BY TickFacts
<1>2. cov.until = Infinity
  BY <1>1, OwnFacts, CoverageFacts
<1>3. cov.until = Unending
  BY <1>2, SessionAssumption
<1>4. told \in [DOMAIN Own -> SUBSET (Edges \cup Notices)]
  BY DEF TypeInv, TypeOK
<1>5. /\ told' = [i \in DOMAIN told |->
                    IF i \in PassAt(t) THEN told[i] \cup ({published'.edge, published'.notice} \ {None})
                    ELSE told[i]]
      /\ cov.until = Unending => file' = file
  BY <1>1, PublishFacts, RowsWritten
<1>6. PassAt(t) = {}
  BY DEF PassAt
<1> QED
  BY <1>3, <1>4, <1>5, <1>6

\* What a tick tells the pass under way, or the next one.
News == {published'.edge, published'.notice} \ {None}

Tells(i) ==
  /\ IsPending(Own, simTime', i) /\ i \in DOMAIN told /\ News \subseteq EventKinds
  /\ told' = [j \in DOMAIN told |-> IF j = i THEN told[j] \cup News ELSE told[j]]
  /\ told[i] \cap News = {}

\* What it publishes, and what the loop remembers of it.
Publishes(in) ==
  /\ prevInCoverageSet' = TRUE /\ prevInCoverage' = in
  /\ published'.edge = (IF started /\ prevInCoverage = in THEN None ELSE EdgeOf(in))
  /\ published'.notice \in {None, IF in THEN "window_closing" ELSE "window_opening"}
  /\ lookaheadCloseFired' = ((lookaheadCloseFired /\ ~(started /\ prevInCoverage # in))
                               \/ published'.notice = "window_closing")
  /\ lookaheadOpenFired' = ((lookaheadOpenFired /\ ~(started /\ prevInCoverage # in))
                              \/ published'.notice = "window_opening")

\* What it writes.
Writes(in) ==
  /\ Len(file') = Len(file) + Len(Kinds(published'))
  /\ \A k \in 1 .. Len(file) : file'[k] = file[k]
  /\ \A k \in 1 .. Len(Kinds(published')) :
       file'[Len(file) + k] = [kind |-> Kinds(published')[k], inCoverage |-> in]

\* What a tick tells of the pass under way, or the next one, is new to it, and
\* is written.
LEMMA NewToPass ==
  ASSUME SessionInv, TypeInv, MemoryInv, PrimaryTick, watched = Primary,
         Pending(Own, simTime') # {}, NEW i, i = Min(Pending(Own, simTime'))
  PROVE  LET in == Own[i].pass.rise <= simTime'
         IN Tells(i) /\ Publishes(in) /\ Writes(in)
<1> DEFINE t == simTime'
           cov == CoverageAt(Own, startAt, t)
           news == {published'.edge, published'.notice} \ {None}
           in == Own[i].pass.rise <= t
<1>1. /\ t \in Int /\ simTime \in Int /\ startAt \in Int /\ startAt <= simTime /\ simTime <= t
      /\ phase = "running" /\ since[Primary] \in Nat /\ Publish(t, t, since[Primary])
  BY TickFacts
<1>2. Orderly(Own) /\ \A j \in DOMAIN Own : Own[j].pass.rise \in Nat /\ Own[j].pass.set <= MaxSearch
  BY OwnFacts
<1>3. IsPending(Own, t, i) /\ i \in DOMAIN Own /\ t < Own[i].pass.set
  <2>1. IsPending(Own, t, i)
    BY <1>1, <1>2, PendingFacts
  <2> QED
    BY <2>1 DEF IsPending
<1>4. /\ cov.inCoverage \in BOOLEAN /\ (cov.inCoverage <=> in)
      /\ cov.until = IF in THEN Own[i].pass.set - t ELSE Own[i].pass.rise - t
  BY <1>1, <1>2, CoverageFacts
<1>5. Own[i].pass.rise \in Int /\ Own[i].pass.set \in Int /\ Own[i].pass.rise < Own[i].pass.set
  BY <1>2, <1>3, PassLasts
<1>6. cov.until # Unending
  <2>1. MaxSearch - startAt < Infinity /\ MaxSearch \in Int /\ Infinity \in Int /\ Unending = Infinity
    BY <1>1, SessionAssumption, PredictionAssumption, ClockAssumption DEF SessionInv
  <2>2. Own[i].pass.set <= MaxSearch
    BY <1>2, <1>3
  <2>3. cov.until <= Own[i].pass.set - t /\ cov.until \in Int
    BY <1>1, <1>4, <1>5
  <2> HIDE DEF cov
  <2> QED
    BY <1>1, <1>5, <2>1, <2>2, <2>3
<1>7. told \in [DOMAIN Own -> SUBSET (Edges \cup Notices)] /\ DOMAIN told = DOMAIN Own
  BY DEF TypeInv, TypeOK
<1>8. PassAt(t) = {i}
  BY DEF PassAt
<1>9. /\ prevInCoverageSet' = TRUE /\ prevInCoverage' = cov.inCoverage
      /\ lookaheadCloseFired' = (Fired(lookaheadCloseFired, cov) \/ Closing(cov, LookaheadSec))
      /\ lookaheadOpenFired' = (Fired(lookaheadOpenFired, cov) \/ Opening(cov, LookaheadSec))
      /\ published'.edge = Edge(cov) /\ published'.notice = Notice(cov, LookaheadSec)
      /\ published'.edge \in Edges \cup {None} /\ published'.notice \in Notices \cup {None}
      /\ told' = [j \in DOMAIN told |->
                    IF j \in PassAt(t) THEN told[j] \cup news ELSE told[j]]
  BY <1>1, PublishFacts
<1>10. /\ \A k \in 1 .. Len(file) : file'[k] = file[k]
       /\ Len(file') = Len(file) + Len(Kinds(published'))
       /\ \A k \in 1 .. Len(Kinds(published')) :
            file'[Len(file) + k] = [kind |-> Kinds(published')[k], inCoverage |-> cov.inCoverage]
  BY <1>1, <1>6, RowsWritten
<1>11. cov.inCoverage = in
  BY <1>4
<1>12. Remembered /\ ToldInTime
  BY <1>1 DEF MemoryInv
<1>13. /\ prevInCoverage \in BOOLEAN /\ lookaheadCloseFired \in BOOLEAN /\ lookaheadOpenFired \in BOOLEAN
       /\ started \in BOOLEAN /\ prevInCoverageSet = started
  BY <1>12 DEF TypeInv, TypeOK, LoopTypeOK, Remembered
<1> HIDE DEF cov, in, t
<1>14. Transition(cov) = ~(started /\ prevInCoverage = in)
  BY <1>11, <1>13 DEF Transition
<1>15. published'.edge = IF started /\ prevInCoverage = in THEN None ELSE EdgeOf(in)
  BY <1>9, <1>11, <1>14 DEF Edge, EdgeOf
<1>16. /\ Fired(lookaheadCloseFired, cov) = (lookaheadCloseFired /\ ~(started /\ prevInCoverage # in))
       /\ Fired(lookaheadOpenFired, cov) = (lookaheadOpenFired /\ ~(started /\ prevInCoverage # in))
  BY <1>13, <1>14 DEF Fired
<1>17. /\ Closing(cov, LookaheadSec) => in /\ ~Fired(lookaheadCloseFired, cov)
       /\ Opening(cov, LookaheadSec) => ~in /\ ~Fired(lookaheadOpenFired, cov)
  BY <1>11 DEF Closing, Opening
<1>18. /\ published'.notice = "window_closing" <=> Closing(cov, LookaheadSec)
       /\ published'.notice = "window_opening" <=> Opening(cov, LookaheadSec)
       /\ published'.notice \in {None, IF in THEN "window_closing" ELSE "window_opening"}
  BY <1>9, <1>17 DEF Notice, None
<1>19. /\ lookaheadCloseFired' = ((lookaheadCloseFired /\ ~(started /\ prevInCoverage # in))
                                    \/ published'.notice = "window_closing")
       /\ lookaheadOpenFired' = ((lookaheadOpenFired /\ ~(started /\ prevInCoverage # in))
                                    \/ published'.notice = "window_opening")
  BY <1>9, <1>13, <1>16, <1>18 DEF Closing, Opening
<1>20. \A e \in news : e \notin told[i]
  <2> SUFFICES ASSUME NEW e \in news, e \in told[i]
               PROVE  FALSE
    OBVIOUS
  <2>1. started /\ told[i] # {}
    BY <1>3, <1>7, <1>12 DEF Remembered
  <2>2. prevInCoverage <=> InPass(Own, simTime)
    BY <1>12, <2>1 DEF Remembered
  <2>3. \A j \in DOMAIN Own : j < i => Own[j].pass.set <= simTime
    BY <1>3, <1>7, <1>12, <2>1, Zenon DEF ToldInTime
  <2>4. /\ Own[i].pass.rise <= simTime => InPass(Own, simTime)
        /\ InPass(Own, simTime) /\ t < Own[i].pass.rise =>
             \E j \in DOMAIN Own : j < i /\ simTime < Own[j].pass.set
    BY <1>1, <1>2, <1>3, Overtaken
  <2>5. in \/ t < Own[i].pass.rise
    BY <1>1, <1>5 DEF in
  <2>6. ~in => ~prevInCoverage
    <3>1. \A j \in DOMAIN Own : Own[j].pass.set \in Int
      BY <1>2, PassLasts
    <3> QED
      BY <1>1, <2>2, <2>3, <2>4, <2>5, <3>1
  <2>7. /\ "window_opened" \in told[i] \/ "window_closing" \in told[i] => Own[i].pass.rise <= simTime
        /\ "window_closing" \in told[i] /\ simTime < Own[i].pass.set => lookaheadCloseFired
        /\ "window_opening" \in told[i] /\ simTime < Own[i].pass.rise => lookaheadOpenFired
    BY <1>3, <1>7, <1>12, Zenon DEF ToldInTime
  <2>8. "window_opened" \in told[i] \/ "window_closing" \in told[i] => prevInCoverage
    BY <2>2, <2>4, <2>7
  <2>9. CASE e = published'.edge
    <3>1. e = EdgeOf(in) /\ ~(prevInCoverage = in) /\ in \in BOOLEAN
      BY <1>15, <2>1, <2>9 DEF in
    <3>2. CASE in
      <4>1. e = "window_opened"
        BY <3>1, <3>2 DEF EdgeOf
      <4> QED
        BY <1>13, <2>8, <3>1, <3>2, <4>1
    <3>3. CASE ~in
      BY <2>6, <3>1, <3>3, <1>13
    <3> QED
      BY <3>2, <3>3
  <2>10. CASE e = published'.notice
    <3>1. CASE in
      <4>1. e = "window_closing" /\ ~Fired(lookaheadCloseFired, cov)
        BY <1>17, <1>18, <2>10, <3>1
      <4>2. simTime < Own[i].pass.set
        BY <1>1, <1>3, <1>5
      <4>3. prevInCoverage = in
        BY <1>13, <2>8, <3>1, <4>1 DEF in
      <4> QED
        BY <1>16, <2>7, <4>1, <4>2, <4>3
    <3>2. CASE ~in
      <4>1. e = "window_opening" /\ ~Fired(lookaheadOpenFired, cov)
        BY <1>17, <1>18, <2>10, <3>2
      <4>2. simTime < Own[i].pass.rise
        BY <1>1, <1>5, <2>5, <3>2
      <4>3. prevInCoverage = in
        BY <1>13, <2>6, <3>2 DEF in
      <4> QED
        BY <1>16, <2>7, <4>1, <4>2, <4>3
    <3> QED
      BY <3>1, <3>2
  <2> QED
    BY <2>9, <2>10
<1>21. news \subseteq EventKinds
  BY <1>9 DEF EventKinds
<1>22. told' = [j \in DOMAIN told |-> IF j = i THEN told[j] \cup news ELSE told[j]]
  BY <1>8, <1>9
<1>23. told[i] \cap news = {}
  BY <1>20
<1> HIDE DEF news
<1> QED
  BY <1>3, <1>7, <1>9, <1>10, <1>11, <1>15, <1>18, <1>19, <1>21, <1>22, <1>23 DEF in, t, news, News, Tells, Publishes, Writes

\* Each event of a tick is one row more and is heard by one pass more.
LEMMA CountedTick ==
  ASSUME SessionInv, TypeInv, MemoryInv, PrimaryTick, watched = Primary,
         Pending(Own, simTime') # {}, Counted
  PROVE  Counted'
<1> DEFINE kinds == Kinds(published')
           news == {published'.edge, published'.notice} \ {None}
           n == Len(file)
<1>1. PICK i : i = Min(Pending(Own, simTime'))
  OBVIOUS
<1>2. Tells(i) /\ Writes(Own[i].pass.rise <= simTime')
  BY <1>1, NewToPass
<1>2a. /\ i \in DOMAIN told
       /\ told' = [j \in DOMAIN told |-> IF j = i THEN told[j] \cup news ELSE told[j]]
       /\ told[i] \cap news = {}
  BY <1>2 DEF Tells, News
<1>2b. /\ Len(file') = n + Len(kinds)
       /\ \A k \in 1 .. n : file'[k] = file[k]
       /\ \A k \in 1 .. Len(kinds) : file'[n + k].kind = kinds[k]
  <2> DEFINE in == Own[i].pass.rise <= simTime'
  <2>1. Writes(in)
    BY <1>2
  <2> HIDE DEF in
  <2>2. Len(file') = n + Len(kinds) /\ \A k \in 1 .. n : file'[k] = file[k]
    BY <2>1 DEF Writes
  <2>3. ASSUME NEW k \in 1 .. Len(kinds)
        PROVE  file'[n + k].kind = kinds[k]
    <3>1. file'[n + k] = [kind |-> kinds[k], inCoverage |-> in]
      BY <2>1 DEF Writes
    <3> HIDE DEF kinds
    <3> QED
      BY <3>1
  <2> QED
    BY <2>2, <2>3
<1>3. /\ file \in Seq(EventRows) /\ file' \in Seq(EventRows)
      /\ published'.edge \in Edges \cup {None} /\ published'.notice \in Notices \cup {None}
  BY TickFacts, RowsWritten, PublishFacts DEF TypeInv, TypeOK, RecordingTypeOK, EventRows, EventKinds
<1>4. /\ Len(kinds) \in Nat /\ DOMAIN kinds = 1 .. Len(kinds)
      /\ \A k \in DOMAIN kinds : kinds[k] \in {published'.edge, published'.notice} /\ kinds[k] # None
      /\ \A kind \in EventKinds : kind \in {published'.edge, published'.notice} => \E k \in DOMAIN kinds : kinds[k] = kind
      /\ \A k, m \in DOMAIN kinds : kinds[k] = kinds[m] => k = m
  BY <1>3, KindsFacts
<1>5. None \notin EventKinds
  BY DEF None, EventKinds, Edges, Notices
<1> HIDE DEF kinds
<1>6. /\ n \in Nat /\ DOMAIN file = 1 .. n /\ DOMAIN file' = 1 .. n + Len(kinds)
  BY <1>2b, <1>3
<1> HIDE DEF n
<1>7. \A k \in DOMAIN file' : k \in DOMAIN file \/ \E m \in DOMAIN kinds : k = n + m
  <2> SUFFICES ASSUME NEW k \in DOMAIN file', k \notin DOMAIN file
               PROVE  k - n \in DOMAIN kinds /\ k = n + (k - n)
    OBVIOUS
  <2> QED
    BY <1>4, <1>6
<1>8. \A m \in DOMAIN kinds : /\ n + m \in DOMAIN file' /\ n + m \notin DOMAIN file
                              /\ file'[n + m].kind = kinds[m]
  BY <1>2b, <1>4, <1>6
<1>9. \A k \in DOMAIN file : k \in DOMAIN file' /\ file'[k] = file[k]
  BY <1>2b, <1>4, <1>6
<1> SUFFICES ASSUME NEW kind \in EventKinds
             PROVE  /\ IsFiniteSet(RowsOf(kind))' /\ IsFiniteSet(Heard(kind))'
                    /\ (Cardinality(RowsOf(kind)) = Cardinality(Heard(kind)))'
  BY DEF Counted
<1>10. /\ IsFiniteSet(RowsOf(kind)) /\ IsFiniteSet(Heard(kind))
       /\ Cardinality(RowsOf(kind)) = Cardinality(Heard(kind))
  BY DEF Counted
<1>11. kind \in news <=> \E m \in DOMAIN kinds : kinds[m] = kind
  BY <1>4, <1>5
<1>12. CASE kind \in news
  <2>1. PICK m \in DOMAIN kinds : kinds[m] = kind
    BY <1>11, <1>12
  <2>2. RowsOf(kind)' = RowsOf(kind) \cup {n + m}
    <3>1. \A k \in RowsOf(kind)' : k \in RowsOf(kind) \/ k = n + m
      BY <1>4, <1>7, <1>8, <1>9, <2>1 DEF RowsOf
    <3>2. \A k \in RowsOf(kind) : k \in RowsOf(kind)'
      BY <1>9 DEF RowsOf
    <3>3. n + m \in RowsOf(kind)'
      BY <1>8, <2>1 DEF RowsOf
    <3> QED
      BY <3>1, <3>2, <3>3
  <2>3. n + m \notin RowsOf(kind)
    BY <1>8, <2>1 DEF RowsOf
  <2>4. Heard(kind)' = Heard(kind) \cup {i} /\ i \notin Heard(kind)
    BY <1>2a, <1>12 DEF Heard
  <2>5. /\ IsFiniteSet(RowsOf(kind)') /\ Cardinality(RowsOf(kind)') = Cardinality(RowsOf(kind)) + 1
        /\ IsFiniteSet(Heard(kind)') /\ Cardinality(Heard(kind)') = Cardinality(Heard(kind)) + 1
    <3> DEFINE R == RowsOf(kind)
               H == Heard(kind)
               k == n + m
    <3>1. IsFiniteSet(R) /\ k \notin R /\ IsFiniteSet(H) /\ i \notin H
      BY <1>10, <2>3, <2>4
    <3> HIDE DEF R, H, k
    <3>2. IsFiniteSet(R \cup {k}) /\ Cardinality(R \cup {k}) = Cardinality(R) + 1
      BY <3>1, FS_AddElement
    <3>3. IsFiniteSet(H \cup {i}) /\ Cardinality(H \cup {i}) = Cardinality(H) + 1
      BY <3>1, FS_AddElement
    <3> QED
      BY <2>2, <2>4, <3>2, <3>3 DEF R, H, k
  <2> QED
    BY <1>10, <2>5
<1>13. CASE kind \notin news
  <2>1. RowsOf(kind)' = RowsOf(kind)
    BY <1>7, <1>8, <1>9, <1>11, <1>13 DEF RowsOf
  <2>2. Heard(kind)' = Heard(kind)
    BY <1>2a, <1>13 DEF Heard
  <2> QED
    BY <1>10, <2>1, <2>2
<1> QED
  BY <1>12, <1>13

\* The rows of a tick say the coverage of their kind, and the edge among them, if
\* any, comes after the other edge.
LEMMA WrittenTick ==
  ASSUME SessionInv, TypeInv, MemoryInv, PrimaryTick, watched = Primary,
         Pending(Own, simTime') # {}, Covering, Alternating
  PROVE  Covering' /\ Alternating' /\ EdgeAnswered'
<1> DEFINE kinds == Kinds(published')
           n == Len(file)
           in == Own[Min(Pending(Own, simTime'))].pass.rise <= simTime'
<1>2. /\ prevInCoverage' = in
      /\ published'.edge = (IF started /\ prevInCoverage = in THEN None ELSE EdgeOf(in))
      /\ published'.notice \in {None, IF in THEN "window_closing" ELSE "window_opening"}
      /\ Len(file') = n + Len(kinds)
      /\ \A k \in 1 .. n : file'[k] = file[k]
      /\ \A k \in 1 .. Len(kinds) : file'[n + k] = [kind |-> kinds[k], inCoverage |-> in]
  <2>1. PICK i : i = Min(Pending(Own, simTime'))
    OBVIOUS
  <2>2. Publishes(Own[i].pass.rise <= simTime') /\ Writes(Own[i].pass.rise <= simTime')
    BY <2>1, NewToPass
  <2>3. Publishes(in) /\ Writes(in)
    BY <2>1, <2>2
  <2> HIDE DEF in
  <2> QED
    BY <2>3 DEF Publishes, Writes
<1>3. /\ file \in Seq(EventRows) /\ file' \in Seq(EventRows)
      /\ published'.edge \in Edges \cup {None} /\ published'.notice \in Notices \cup {None}
  BY TickFacts, RowsWritten, PublishFacts DEF TypeInv, TypeOK, RecordingTypeOK, EventRows, EventKinds
<1>4. /\ Len(kinds) \in Nat /\ DOMAIN kinds = 1 .. Len(kinds)
      /\ \A k \in DOMAIN kinds : kinds[k] \in {published'.edge, published'.notice} /\ kinds[k] # None
      /\ \A kind \in EventKinds : kind \in {published'.edge, published'.notice} => \E k \in DOMAIN kinds : kinds[k] = kind
      /\ \A k \in DOMAIN kinds : kinds[k] \in Edges => k = 1 /\ kinds[k] = published'.edge
  BY <1>3, KindsFacts
<1>5. Pending(Own, simTime) # {}
  <2>1. /\ simTime \in Int /\ simTime' \in Int /\ simTime <= simTime'
        /\ \A j \in DOMAIN Own : Own[j].pass.set \in Int
    BY TickFacts, OwnFacts, PassLasts
  <2>2. PICK j \in DOMAIN Own : simTime' < Own[j].pass.set
    BY DEF Pending
  <2>3. simTime < Own[j].pass.set
    BY <2>1, <2>2
  <2> QED
    BY <2>3 DEF Pending
<1>6. /\ prevInCoverage \in BOOLEAN /\ started \in BOOLEAN /\ in \in BOOLEAN
      /\ ~started => file = <<>>
      /\ \A k \in DOMAIN file : file[k].kind = EdgeOf(~prevInCoverage) =>
           \E m \in k .. Len(file) : file[m].kind = EdgeOf(prevInCoverage)
  BY <1>5, TickFacts DEF MemoryInv, Remembered, EdgeAnswered, TypeInv, TypeOK, LoopTypeOK
<1> HIDE DEF kinds, in
<1>7. /\ n \in Nat /\ DOMAIN file = 1 .. n /\ DOMAIN file' = 1 .. n + Len(kinds) /\ Len(file') \in Nat
  BY <1>2, <1>3, <1>4
<1>8. /\ EdgeOf(in) \in Edges /\ EdgeOf(~in) \in Edges /\ EdgeOf(in) # EdgeOf(~in)
      /\ \A kind \in Edges : kind = EdgeOf(in) \/ kind = EdgeOf(~in)
      /\ Edges \subseteq EventKinds /\ None \notin EventKinds
  BY <1>6 DEF EdgeOf, Edges, EventKinds, Notices, None
<1>9. \A k \in DOMAIN file : /\ k \in DOMAIN file' /\ k <= n /\ k \in Int
                             /\ file'[k] = file[k]
  BY <1>2, <1>4, <1>7
<1>10. \A k \in DOMAIN file' :
         k \in DOMAIN file \/ \E m \in DOMAIN kinds :
                                k = n + m /\ file'[k] = [kind |-> kinds[m], inCoverage |-> in]
  <2> SUFFICES ASSUME NEW k \in DOMAIN file', k \notin DOMAIN file
               PROVE  \E m \in DOMAIN kinds :
                        k = n + m /\ file'[k] = [kind |-> kinds[m], inCoverage |-> in]
    OBVIOUS
  <2>1. k - n \in DOMAIN kinds /\ k = n + (k - n)
    BY <1>4, <1>7
  <2>2. file'[n + (k - n)] = [kind |-> kinds[k - n], inCoverage |-> in]
    BY <1>2, <1>4, <2>1
  <2> QED
    BY <2>1, <2>2
<1> HIDE DEF n
<1>11. Covering'
  <2> SUFFICES ASSUME NEW k \in DOMAIN file'
               PROVE  file'[k].inCoverage <=> file'[k].kind \in {"window_opened", "window_closing"}
    BY DEF Covering
  <2>1. CASE k \in DOMAIN file
    BY <1>9, <2>1 DEF Covering
  <2>2. CASE k \notin DOMAIN file
    <3>1. PICK m \in DOMAIN kinds : file'[k] = [kind |-> kinds[m], inCoverage |-> in]
      BY <1>10, <2>2
    <3>2. kinds[m] \in {EdgeOf(in), IF in THEN "window_closing" ELSE "window_opening"}
      BY <1>2, <1>4, <3>1
    <3>3. file'[k].kind = kinds[m] /\ file'[k].inCoverage = in
      BY <3>1
    <3> QED
      BY <1>6, <3>2, <3>3 DEF EdgeOf
  <2> QED
    BY <2>1, <2>2
<1>12. \A k \in DOMAIN file' : k \notin DOMAIN file /\ file'[k].kind \in Edges =>
         k = n + 1 /\ file'[k].kind = EdgeOf(in) /\ ~(started /\ prevInCoverage = in)
  <2> SUFFICES ASSUME NEW k \in DOMAIN file', k \notin DOMAIN file, file'[k].kind \in Edges
               PROVE  k = n + 1 /\ file'[k].kind = EdgeOf(in) /\ ~(started /\ prevInCoverage = in)
    OBVIOUS
  <2>1. PICK m \in DOMAIN kinds : k = n + m /\ file'[k] = [kind |-> kinds[m], inCoverage |-> in]
    BY <1>10
  <2>2. kinds[m] \in Edges
    BY <2>1
  <2>3. m = 1 /\ kinds[m] = published'.edge /\ kinds[m] # None
    BY <1>4, <2>1, <2>2
  <2> QED
    BY <1>2, <2>1, <2>3
<1>13. ASSUME ~(started /\ prevInCoverage = in)
       PROVE  n + 1 \in DOMAIN file' /\ file'[n + 1].kind = EdgeOf(in)
  <2>1. published'.edge = EdgeOf(in)
    BY <1>2, <1>13
  <2>2. PICK m \in DOMAIN kinds : kinds[m] = EdgeOf(in)
    BY <1>4, <1>8, <2>1
  <2>3. m = 1
    BY <1>4, <1>8, <2>2
  <2>4. file'[n + 1] = [kind |-> kinds[1], inCoverage |-> in]
    BY <1>2, <1>4, <2>2, <2>3
  <2> QED
    BY <1>4, <1>7, <2>2, <2>3, <2>4
<1>14. Alternating'
  <2> SUFFICES ASSUME NEW k \in DOMAIN file', file'[k].kind \in Edges,
                      NEW j \in 1 .. k - 1, file'[j].kind = file'[k].kind
               PROVE  \E m \in j .. k : file'[m].kind \in Edges \ {file'[k].kind}
    BY DEF Alternating
  <2>1. k \in Int /\ j \in Int /\ j < k /\ 1 <= j /\ j \in DOMAIN file'
    BY <1>4, <1>7
  <2>2. CASE k \in DOMAIN file
    <3>1. j \in DOMAIN file /\ \A m \in j .. k : m \in DOMAIN file
      BY <1>7, <1>9, <2>1, <2>2
    <3>2. PICK m \in j .. k : file[m].kind \in Edges \ {file[k].kind}
      BY <1>9, <2>2, <3>1 DEF Alternating
    <3> QED
      BY <1>9, <2>2, <3>1, <3>2
  <2>3. CASE k \notin DOMAIN file
    <3>1. k = n + 1 /\ file'[k].kind = EdgeOf(in) /\ ~(started /\ prevInCoverage = in)
      BY <1>12, <2>3
    <3>2. j \in DOMAIN file
      BY <1>7, <2>1, <3>1
    <3>3. file # <<>> /\ started
      BY <1>6, <3>2
    <3>4. file[j].kind = EdgeOf(~prevInCoverage) /\ EdgeOf(prevInCoverage) = EdgeOf(~in)
      BY <1>6, <1>9, <3>1, <3>2, <3>3 DEF EdgeOf
    <3>5. PICK m \in j .. Len(file) : file[m].kind = EdgeOf(~in)
      BY <1>6, <3>2, <3>4
    <3>6. m \in j .. k /\ m \in DOMAIN file
      BY <1>7, <2>1, <3>1, <3>5 DEF n
    <3> QED
      BY <1>8, <1>9, <3>1, <3>5, <3>6
  <2> QED
    BY <2>2, <2>3
<1>15. EdgeAnswered'
  <2> SUFFICES ASSUME NEW k \in DOMAIN file', file'[k].kind = EdgeOf(~in)
               PROVE  \E m \in k .. Len(file') : file'[m].kind = EdgeOf(in)
    BY <1>2 DEF EdgeAnswered
  <2>1. k \in DOMAIN file
    BY <1>8, <1>12
  <2>2. CASE started /\ prevInCoverage = in
    <3>1. file[k].kind = EdgeOf(~prevInCoverage)
      BY <1>9, <2>1, <2>2
    <3>2. PICK m \in k .. Len(file) : file[m].kind = EdgeOf(prevInCoverage)
      BY <1>6, <2>1, <3>1
    <3>3. m \in DOMAIN file /\ m \in k .. Len(file')
      BY <1>2, <1>4, <1>7, <1>9, <2>1, <3>2 DEF n
    <3> QED
      BY <1>9, <2>2, <3>2, <3>3
  <2>3. CASE ~(started /\ prevInCoverage = in)
    <3>1. n + 1 \in DOMAIN file' /\ file'[n + 1].kind = EdgeOf(in)
      BY <1>13, <2>3
    <3>2. n + 1 \in k .. Len(file')
      BY <1>2, <1>4, <1>7, <1>9, <2>1, <3>1
    <3> QED
      BY <3>1, <3>2
  <2> QED
    BY <2>2, <2>3
<1> QED
  BY <1>11, <1>14, <1>15

\* What the loop remembers agrees with what each pass was told.
LEMMA MemoryTick ==
  ASSUME SessionInv, TypeInv, MemoryInv, PrimaryTick, watched = Primary
  PROVE  Remembered' /\ ToldInTime'
<1> DEFINE t == simTime'
           cov == CoverageAt(Own, startAt, t)
<1>1. /\ t \in Int /\ simTime \in Int /\ simTime <= t /\ since[Primary] \in Nat
      /\ phase = "running" /\ evaluated' = evaluated /\ Own' = Own /\ started' = TRUE
      /\ Publish(t, t, since[Primary])
  BY TickFacts
<1>2. Remembered /\ ToldInTime
  BY <1>1 DEF MemoryInv
<1>3. /\ Orderly(Own)
      /\ \A j \in DOMAIN Own : Own[j].pass.rise \in Int /\ Own[j].pass.set \in Int
                               /\ Own[j].pass.rise < Own[j].pass.set
      /\ \A j, k \in DOMAIN Own : j < k => Own[j].pass.set < Own[k].pass.rise
      /\ DOMAIN Own \in SUBSET Int
  <2>1. Orderly(Own)
    BY OwnFacts
  <2>2. \A j \in DOMAIN Own : Own[j].pass.rise \in Int /\ Own[j].pass.set \in Int
                               /\ Own[j].pass.rise < Own[j].pass.set
    BY <2>1, PassLasts
  <2>3. DOMAIN Own \in SUBSET Int /\ \A j, k \in DOMAIN Own : j < k => Own[j].pass.set < Own[k].pass.rise
    BY <2>1 DEF Orderly
  <2> QED
    BY <2>1, <2>2, <2>3
<1>4. Remembered'
  <2>1. prevInCoverageSet' = TRUE /\ prevInCoverage' = cov.inCoverage
    BY <1>1, PublishFacts
  <2>2. cov.inCoverage <=> InPass(Own, t)
    BY <1>1, <1>3, CoverageFacts
  <2> QED
    BY <1>1, <1>2, <2>1, <2>2 DEF Remembered
<1>5. DOMAIN told = DOMAIN Own /\ started \in BOOLEAN /\ prevInCoverage \in BOOLEAN
      /\ lookaheadCloseFired \in BOOLEAN /\ lookaheadOpenFired \in BOOLEAN
  BY DEF TypeInv, TypeOK, LoopTypeOK
<1> DEFINE Timely(j) ==
             /\ told'[j] # {} => \A k \in DOMAIN told : k < j => Own[k].pass.set <= t
             /\ "window_opened" \in told'[j] \/ "window_closing" \in told'[j] => Own[j].pass.rise <= t
             /\ "window_closing" \in told'[j] /\ t < Own[j].pass.set => lookaheadCloseFired'
             /\ "window_opening" \in told'[j] /\ t < Own[j].pass.rise => lookaheadOpenFired'
<1>5a. ASSUME DOMAIN told' = DOMAIN told, \A j \in DOMAIN told : Timely(j)
       PROVE  ToldInTime'
  <2>1. ToldInTime' <=>
          \A j \in DOMAIN told' :
            /\ told'[j] # {} => \A k \in DOMAIN told' : k < j => Own'[k].pass.set <= t
            /\ "window_opened" \in told'[j] \/ "window_closing" \in told'[j] => Own'[j].pass.rise <= t
            /\ "window_closing" \in told'[j] /\ t < Own'[j].pass.set => lookaheadCloseFired'
            /\ "window_opening" \in told'[j] /\ t < Own'[j].pass.rise => lookaheadOpenFired'
    BY DEF ToldInTime
  <2>2. Own' = Own
    BY <1>1
  <2> QED
    BY <1>5a, <2>1, <2>2, Zenon
<1>6. CASE Pending(Own, t) = {}
  <2>1. told' = told
    BY <1>6, NothingLeft
  <2>2. \A j \in DOMAIN Own : ~(t < Own[j].pass.set) /\ ~(t < Own[j].pass.rise)
    BY <1>1, <1>3, <1>6 DEF Pending
  <2> SUFFICES ASSUME NEW j \in DOMAIN told
               PROVE  Timely(j)
    BY <1>4, <1>5a, <2>1
  <2> QED
    BY <1>1, <1>3, <1>5, <2>2
<1>7. CASE Pending(Own, t) # {}
  <2>1. PICK i : i = Min(Pending(Own, t))
    OBVIOUS
  <2> DEFINE in == Own[i].pass.rise <= t
  <2>2. Tells(i) /\ Publishes(in)
    BY <1>7, <2>1, NewToPass
  <2>3. /\ i \in DOMAIN told /\ IsPending(Own, t, i)
        /\ told' = [j \in DOMAIN told |-> IF j = i THEN told[j] \cup News ELSE told[j]]
    BY <2>2 DEF Tells
  <2>4. i \in DOMAIN Own /\ t < Own[i].pass.set /\ \A j \in DOMAIN Own : j < i => Own[j].pass.set <= t
    BY <2>3 DEF IsPending
  <2>5. in \in BOOLEAN /\ (~in => t < Own[i].pass.rise)
    BY <1>1, <1>3, <2>4
  <2>6. /\ Own[i].pass.rise <= simTime => InPass(Own, simTime)
        /\ InPass(Own, simTime) /\ t < Own[i].pass.rise =>
             \E j \in DOMAIN Own : j < i /\ simTime < Own[j].pass.set
        /\ \A j \in DOMAIN Own : Own[j].pass.rise <= simTime /\ t < Own[j].pass.set => j = i
    BY <1>1, <1>3, <2>3, Overtaken
  <2> HIDE DEF in
  <2>7. /\ lookaheadCloseFired' = ((lookaheadCloseFired /\ ~(started /\ prevInCoverage # in))
                                     \/ published'.notice = "window_closing")
        /\ lookaheadOpenFired' = ((lookaheadOpenFired /\ ~(started /\ prevInCoverage # in))
                                    \/ published'.notice = "window_opening")
    BY <2>2 DEF Publishes
  <2>8. /\ "window_opened" \in News \/ "window_closing" \in News => in
        /\ "window_closing" \in News => published'.notice = "window_closing"
        /\ "window_opening" \in News => published'.notice = "window_opening"
    BY <2>2, <2>5 DEF Publishes, News, EdgeOf, None
  <2> SUFFICES ASSUME NEW j \in DOMAIN told
               PROVE  Timely(j)
    BY <1>4, <1>5a, <2>3
  <2>9. /\ told'[j] = told[j] \/ (j = i /\ told'[j] = told[j] \cup News)
        /\ j \in DOMAIN Own
    BY <1>5, <2>3
  <2>10. /\ told[j] # {} => \A k \in DOMAIN told : k < j => Own[k].pass.set <= simTime
         /\ "window_opened" \in told[j] \/ "window_closing" \in told[j] => Own[j].pass.rise <= simTime
         /\ "window_closing" \in told[j] /\ simTime < Own[j].pass.set => lookaheadCloseFired
         /\ "window_opening" \in told[j] /\ simTime < Own[j].pass.rise => lookaheadOpenFired
    BY <1>2, Zenon DEF ToldInTime
  <2>11. told[j] # {} => started /\ (prevInCoverage <=> InPass(Own, simTime))
    BY <1>2, <1>5 DEF Remembered
  <2>12. told'[j] # {} => \A k \in DOMAIN told : k < j => Own[k].pass.set <= t
    <3> SUFFICES ASSUME told'[j] # {}, NEW k \in DOMAIN told, k < j
                 PROVE  Own[k].pass.set <= t
      OBVIOUS
    <3>1. CASE j = i
      BY <1>5, <2>4, <3>1
    <3>2. CASE j # i
      <4>1. Own[k].pass.set <= simTime
        BY <2>9, <2>10, <3>2
      <4>2. Own[k].pass.set \in Int
        BY <1>3, <1>5
      <4> QED
        BY <1>1, <4>1, <4>2
    <3> QED
      BY <3>1, <3>2
  <2>13. "window_opened" \in told'[j] \/ "window_closing" \in told'[j] => Own[j].pass.rise <= t
    <3>1. Own[j].pass.rise \in Int
      BY <1>3, <2>9
    <3>2. CASE "window_opened" \in told[j] \/ "window_closing" \in told[j]
      BY <1>1, <2>10, <3>1, <3>2
    <3>3. CASE j = i /\ ("window_opened" \in News \/ "window_closing" \in News)
      BY <2>8, <3>3 DEF in
    <3> QED
      BY <2>9, <3>2, <3>3
  <2>14. "window_closing" \in told'[j] /\ t < Own[j].pass.set => lookaheadCloseFired'
    <3> SUFFICES ASSUME "window_closing" \in told'[j], t < Own[j].pass.set
                 PROVE  lookaheadCloseFired'
      OBVIOUS
    <3>1. CASE "window_closing" \in told[j]
      <4>1. Own[j].pass.rise <= simTime /\ simTime < Own[j].pass.set
        <5>1. Own[j].pass.rise \in Int /\ Own[j].pass.set \in Int
          BY <1>3, <2>9
        <5> QED
          BY <1>1, <2>10, <3>1, <5>1
      <4>2. j = i
        BY <2>6, <2>9, <4>1
      <4>3. prevInCoverage = TRUE /\ started /\ lookaheadCloseFired
        BY <1>5, <2>6, <2>10, <2>11, <3>1, <4>1, <4>2
      <4>4. in = TRUE
        <5>1. Own[i].pass.rise \in Int
          BY <1>3, <2>4
        <5> QED
          BY <1>1, <2>5, <4>1, <4>2, <5>1
      <4> QED
        BY <2>7, <4>3, <4>4
    <3>2. CASE "window_closing" \in News
      BY <2>7, <2>8, <3>2
    <3> QED
      BY <2>9, <3>1, <3>2
  <2>15. "window_opening" \in told'[j] /\ t < Own[j].pass.rise => lookaheadOpenFired'
    <3> SUFFICES ASSUME "window_opening" \in told'[j], t < Own[j].pass.rise
                 PROVE  lookaheadOpenFired'
      OBVIOUS
    <3>1. CASE "window_opening" \in told[j]
      <4>1. /\ simTime < Own[j].pass.rise /\ t < Own[j].pass.set
            /\ Own[j].pass.rise \in Int /\ Own[j].pass.set \in Int
        <5>1. Own[j].pass.rise \in Int /\ Own[j].pass.set \in Int /\ Own[j].pass.rise < Own[j].pass.set
          BY <1>3, <2>9
        <5> QED
          BY <1>1, <5>1
      <4>2. \A k \in DOMAIN Own : k < j => Own[k].pass.set <= simTime
        BY <1>5, <2>10, <3>1
      <4>3. lookaheadOpenFired /\ started /\ (prevInCoverage <=> InPass(Own, simTime))
        BY <2>10, <2>11, <3>1, <4>1
      <4>4. j = i
        <5>1. ~(j < i)
          BY <1>1, <2>4, <2>9, <4>1
        <5>2. ~(i < j)
          <6> SUFFICES ASSUME i < j
                       PROVE  FALSE
            OBVIOUS
          <6>1. Own[i].pass.set <= simTime /\ Own[i].pass.set \in Int
            BY <1>3, <2>4, <4>2
          <6> QED
            BY <1>1, <2>4, <6>1
        <5> QED
          BY <1>3, <2>4, <2>9, <5>1, <5>2
      <4>5. in = FALSE
        <5>1. Own[i].pass.rise \in Int /\ t < Own[i].pass.rise
          BY <4>1, <4>4
        <5> QED
          BY <1>1, <2>5, <5>1 DEF in
      <4>6. prevInCoverage = FALSE
        <5>1. ~InPass(Own, simTime)
          BY <1>1, <1>3, <2>6, <4>1, <4>2, <4>4
        <5> QED
          BY <1>5, <4>3, <5>1
      <4> QED
        BY <2>7, <4>3, <4>5, <4>6
    <3>2. CASE "window_opening" \in News
      BY <2>7, <2>8, <3>2
    <3> QED
      BY <2>9, <3>1, <3>2
  <2> QED
    BY <2>12, <2>13, <2>14, <2>15
<1> QED
  BY <1>4, <1>6, <1>7

\* A sequence is a prefix of another if their elements agree.
LEMMA PrefixFacts ==
  ASSUME NEW S, NEW s \in Seq(S), NEW u \in Seq(S), Len(s) <= Len(u),
         \A k \in 1 .. Len(s) : s[k] = u[k]
  PROVE  IsPrefix(s, u) /\ (Len(s) = Len(u) => s = u)
<1>1. SubSeq(s, 1, Len(s)) = SubSeq(u, 1, Len(s))
  <2>1. /\ SubSeq(s, 1, Len(s)) = [k \in 1 .. Len(s) |-> s[k]]
        /\ SubSeq(u, 1, Len(s)) = [k \in 1 .. Len(s) |-> u[k]]
    OBVIOUS
  <2> QED
    BY <2>1
<1>2. ASSUME Len(s) = Len(u)
      PROVE  s = u
  <2>1. DOMAIN s = 1 .. Len(s) /\ DOMAIN u = 1 .. Len(u)
    OBVIOUS
  <2>2. s = [k \in 1 .. Len(s) |-> s[k]] /\ u = [k \in 1 .. Len(u) |-> u[k]]
    BY <2>1
  <2> QED
    BY <1>2, <2>2
<1> QED
  BY <1>1, <1>2 DEF IsPrefix

\* Nothing is told, written or replayed before the session starts.
LEMMA HistoryInit ==
  ASSUME Init
  PROVE  MemoryInv /\ RowsInv /\ ReplayInv
<1>1. /\ evaluated = NoTime /\ prevInCoverageSet = FALSE /\ started = FALSE
      /\ file = <<>> /\ replayed = <<>> /\ replay = "idle"
      /\ told = [i \in DOMAIN Own |-> {}]
  BY DEF Init, LoopInit, RecordingInit
<1>2. DOMAIN file = {} /\ \A i \in DOMAIN told : told[i] = {}
  BY <1>1
<1>3. MemoryInv
  BY <1>1, <1>2 DEF MemoryInv, Remembered, ToldInTime, EdgeAnswered
<1>4. Counted
  <2> SUFFICES ASSUME NEW kind \in EventKinds
               PROVE  RowsOf(kind) = {} /\ Heard(kind) = {}
    BY FS_EmptySet DEF Counted
  <2> QED
    BY <1>2 DEF RowsOf, Heard
<1>5. Covering /\ Alternating
  BY <1>2 DEF Covering, Alternating
<1>6. ReplayInv
  <2>1. Len(replayed) = 0 /\ 1 .. 0 = {}
    BY <1>1
  <2> QED
    BY <1>1, <2>1 DEF ReplayInv
<1> QED
  BY <1>3, <1>4, <1>5, <1>6 DEF RowsInv

\* A tick of the loop that is watched.
LEMMA HistoryTick ==
  ASSUME SessionInv, TypeInv, MemoryInv, RowsInv, PrimaryTick, watched = Primary
  PROVE  MemoryInv' /\ RowsInv'
<1>1. Own' = Own /\ watched' = watched
  BY TickFacts
<1>2. Remembered' /\ ToldInTime'
  BY MemoryTick
<1>3. Counted /\ Covering /\ Alternating
  BY DEF RowsInv
<1>4. CASE Pending(Own, simTime') = {}
  <2>1. told' = told /\ file' = file
    BY <1>4, NothingLeft
  <2>2. Counted' /\ Covering' /\ Alternating'
    BY <1>3, <2>1 DEF Counted, Covering, Alternating, RowsOf, Heard
  <2>3. EdgeAnswered'
    BY <1>1, <1>4 DEF EdgeAnswered
  <2> QED
    BY <1>2, <2>2, <2>3 DEF MemoryInv, RowsInv
<1>5. CASE Pending(Own, simTime') # {}
  BY <1>2, <1>3, <1>5, CountedTick, WrittenTick DEF MemoryInv, RowsInv
<1> QED
  BY <1>4, <1>5

\* Only a watched tick tells and writes; a replay only moves along the file.
LEMMA HistoryStep ==
  ASSUME SessionInv, TypeInv, MemoryInv, RowsInv, ReplayInv, [Next]_vars
  PROVE  MemoryInv' /\ RowsInv' /\ ReplayInv'
<1>1. UNCHANGED sessionVars
  BY DEF Next, Loops, TimePasses, PrimaryTick, PeerEvaluate, PeerPublish, Stop, Replay, vars
<1>2. Own' = Own /\ watched' = watched /\ (watched = Primary \/ watched = Peer) /\ Primary # Peer
  BY <1>1, ObserverFacts DEF Own, sessionVars, SessionInv
<1>3. ASSUME UNCHANGED <<file, told>>
      PROVE  RowsInv'
  BY <1>2, <1>3 DEF RowsInv, Counted, Covering, Alternating, RowsOf, Heard
<1>4. ASSUME UNCHANGED <<phase, evaluated, simTime, started, loopVars, file, told>>
      PROVE  MemoryInv'
  BY <1>2, <1>4 DEF MemoryInv, Remembered, ToldInTime, EdgeAnswered, loopVars
<1>5. ASSUME UNCHANGED <<phase, recordingVars>>
      PROVE  ReplayInv'
  BY <1>5 DEF ReplayInv, recordingVars
<1>6. file \in Seq(EventRows) /\ replayed \in Seq(EventRows) /\ Len(replayed) <= Len(file)
      /\ Len(file) \in Nat /\ Len(replayed) \in Nat
  BY DEF TypeInv, TypeOK, RecordingTypeOK, EventRows, EventKinds
<1>7. ASSUME phase = "running", NEW t \in Int, NEW clock \in Int, NEW gap \in Nat,
             Publish(t, clock, gap)
      PROVE  ReplayInv'
  <2>1. /\ replayed' = replayed /\ replay' = replay
        /\ \A k \in 1 .. Len(file) : file'[k] = file[k]
    BY <1>7, PublishFacts, RowsWritten
  <2>2. replay = "idle"
    BY <1>7 DEF ReplayInv
  <2> QED
    BY <1>6, <2>1, <2>2 DEF ReplayInv
<1>8. evaluated \in Int \cup {NoTime} /\ simTime \in Int
  BY DEF TypeInv, TypeOK
<1>9. CASE TimePasses
  <2>1. UNCHANGED <<phase, evaluated, simTime, started, loopVars, file, told, recordingVars>>
    BY <1>9 DEF TimePasses, clockVars, recordingVars
  <2> QED
    BY <1>3, <1>4, <1>5, <2>1
<1>10. CASE PrimaryTick
  <2>1. CASE watched = Primary
    <3>1. MemoryInv' /\ RowsInv'
      BY <1>10, <2>1, HistoryTick
    <3>2. phase = "running" /\ simTime' \in Int /\ since[Primary] \in Nat /\ Publish(simTime', simTime', since[Primary])
      BY <1>10, <2>1, TickFacts
    <3> QED
      BY <1>7, <3>1, <3>2
  <2>2. CASE watched = Peer
    <3>1. UNCHANGED <<phase, recordingVars>>
      BY <1>2, <1>10, <2>2 DEF PrimaryTick
    <3> QED
      BY <1>2, <1>5, <2>2, <3>1 DEF MemoryInv, RowsInv
  <2> QED
    BY <1>2, <2>1, <2>2
<1>11. CASE PeerEvaluate
  <2>1. watched = Peer /\ UNCHANGED <<phase, recordingVars>>
    BY <1>11 DEF PeerEvaluate
  <2> QED
    BY <1>2, <1>5, <2>1 DEF MemoryInv, RowsInv
<1>12. CASE PeerPublish
  <2>1. phase = "running" /\ evaluated # NoTime /\ Publish(evaluated, simTime, since[Peer])
    BY <1>12 DEF PeerPublish
  <2>2. watched = Peer
    BY <1>2, <2>1 DEF MemoryInv, Remembered
  <2>3. evaluated \in Int /\ since[Peer] \in Nat
    BY <1>8, <2>1, ObserverFacts DEF SessionInv
  <2>4. ReplayInv'
    BY <1>7, <1>8, <2>1, <2>3
  <2> QED
    BY <1>2, <2>2, <2>4 DEF MemoryInv, RowsInv
<1>13. CASE Stop
  <2>1. phase = "running" /\ phase' = "ended" /\ UNCHANGED <<told, recordingVars>>
    BY <1>13 DEF Stop
  <2>2. ReplayInv'
    BY <2>1 DEF ReplayInv, recordingVars
  <2>3. file' = file
    BY <2>1 DEF recordingVars
  <2> QED
    BY <1>3, <2>1, <2>2, <2>3 DEF MemoryInv
<1>14. CASE Replay
  <2>1. phase = "ended" /\ phase' = "ended" /\ told' = told
        /\ (ReplayStart \/ ReplayRow \/ ReplayCancel \/ ReplayDone)
    BY <1>14 DEF Replay
  <2>2. file' = file
    BY <2>1 DEF ReplayStart, ReplayRow, ReplayCancel, ReplayDone
  <2>3. CASE ReplayStart \/ ReplayCancel \/ ReplayDone
    BY <1>3, <2>1, <2>2, <2>3 DEF ReplayStart, ReplayCancel, ReplayDone, ReplayInv, MemoryInv
  <2>4. CASE ReplayRow
    <3> DEFINE n == Len(replayed)
               row == file[n + 1]
    <3>1. n < Len(file) /\ replayed' = Append(replayed, row) /\ replay = "running" /\ replay' = "running"
      BY <2>4 DEF ReplayRow
    <3>2. row \in EventRows
      <4>1. n + 1 \in 1 .. Len(file)
        BY <1>6, <3>1
      <4> QED
        BY <1>6, <4>1
    <3> HIDE DEF row
    <3>3. Len(replayed') = n + 1 /\ replayed'[n + 1] = row /\ \A k \in 1 .. n : replayed'[k] = replayed[k]
      BY <1>6, <3>1, <3>2
    <3>4. \A k \in 1 .. n + 1 : replayed'[k] = file[k]
      BY <1>6, <3>3 DEF ReplayInv, row
    <3>5. ReplayInv'
      BY <2>1, <2>2, <3>1, <3>3, <3>4 DEF ReplayInv
    <3> QED
      BY <1>3, <2>1, <2>2, <3>5 DEF MemoryInv
  <2> QED
    BY <2>1, <2>3, <2>4
<1>15. CASE UNCHANGED vars
  <2>1. UNCHANGED <<phase, evaluated, simTime, started, loopVars, file, told, recordingVars>>
    BY <1>15 DEF vars, clockVars, recordingVars
  <2> QED
    BY <1>3, <1>4, <1>5, <2>1
<1> QED
  BY <1>9, <1>10, <1>11, <1>12, <1>13, <1>14, <1>15 DEF Next, Loops

\* The recording of the primary holds each event a pass was told once, in rows
\* that say the coverage of their kind and whose edges alternate; a replay is a
\* part of the recording from its start, and all of it when it is done
\* (ReplayFaithful), for every sky, speed, start and pace of the loops.
THEOREM ReplayIsFaithful == Spec => []ReplayFaithful
<1> DEFINE Inv == SessionInv /\ TypeInv /\ MemoryInv /\ RowsInv /\ ReplayInv
<1>1. Init => Inv
  BY SessionInit, TypeInit, HistoryInit
<1>2. Inv /\ [Next]_vars => Inv'
  BY SessionStep, TypeStep, HistoryStep
<1>3. Inv => ReplayFaithful
  <2> SUFFICES ASSUME Inv
               PROVE  ReplayFaithful
    OBVIOUS
  <2>1. file \in Seq(EventRows) /\ replayed \in Seq(EventRows) /\ Len(replayed) <= Len(file)
    BY DEF TypeInv, TypeOK, RecordingTypeOK, EventRows, EventKinds
  <2>2. IsPrefix(replayed, file) /\ (replay = "done" => replayed = file)
    BY <2>1, PrefixFacts DEF ReplayInv
  <2>3. ASSUME watched = Primary, NEW kind \in Edges \cup Notices
        PROVE  Cardinality(RowsOf(kind)) = Cardinality({i \in DOMAIN told : kind \in told[i]})
    BY <2>3 DEF RowsInv, Counted, Heard, EventKinds
  <2>4. ASSUME watched = Primary
        PROVE  \A k \in DOMAIN file :
                 /\ file[k].inCoverage <=> file[k].kind \in {"window_opened", "window_closing"}
                 /\ file[k].kind \in Edges =>
                      \A j \in 1 .. k - 1 : file[j].kind = file[k].kind =>
                        \E m \in j .. k : file[m].kind \in Edges \ {file[k].kind}
    BY <2>4 DEF RowsInv, Covering, Alternating
  <2> QED
    BY <2>2, <2>3, <2>4 DEF ReplayFaithful
<1> QED
  BY <1>1, <1>2, <1>3, PTL DEF Spec

-----------------------------------------------------------------------------
(* Passes are announced *)

\* What is known of the pass under way, or of the next one, by the subscribers of
\* the primary.
NoticeInv ==
  phase = "running" /\ watched = Primary =>
    /\ ~started => simTime = startAt /\ ~lookaheadOpenFired
    /\ started => \A i \in DOMAIN told : IsPending(Own, simTime, i) =>
         /\ Own[i].pass.rise <= simTime => "window_opened" \in told[i]
         /\ simTime < Own[i].pass.rise
              /\ (Own[i].pass.rise - simTime <= LookaheadSec \/ lookaheadOpenFired) =>
              "window_opening" \in told[i]

\* A call of Advance reaches the rise of a pass only when its notice is due, since
\* an accelerated clock stops there first, and a tick is shorter than the lead.
LEMMA NoticeDue ==
  ASSUME NEW own, Orderly(own), simTime \in Int, NEW v \in Nat \ {0},
         NEW gap \in 0 .. MaxGap[Primary], Advance(own, v, gap),
         NEW i \in Crossed(own, simTime, simTime')
  PROVE  started /\ own[i].pass.rise - simTime <= LookaheadSec
<1> DEFINE factor == Factor(own, v, simTime)
           new == simTime + gap * factor
           crossed == Crossed(own, simTime, new)
           first == Min(crossed)
<1>1. /\ MaxGap[Primary] \in Nat /\ MaxGap[Primary] <= LookaheadSec
      /\ LookaheadSec \in Nat \ {0} /\ gap \in Nat
  BY ObserverFacts, ClockAssumption, PredictionAssumption
<1>2. factor \in Nat \ {0}
  BY DEF Factor
<1>3. new \in Int /\ simTime <= new
  <2>1. gap * factor \in Nat
    BY <1>1, <1>2
  <2> QED
    BY <2>1
<1>4. /\ i \in DOMAIN own /\ own[i].pass.rise \in Int
      /\ simTime < own[i].pass.rise /\ own[i].pass.rise <= simTime'
  BY DEF Crossed, Orderly
<1>5. started /\ (IF factor > 1 THEN simTime' = Snap(own, simTime, new) ELSE simTime' = new)
  <2>1. simTime' # simTime
    BY <1>4
  <2> QED
    BY <2>1 DEF Advance
<1>6. CASE ~(factor > 1)
  <2>1. factor = 1
    BY <1>2, <1>6
  <2>2. simTime' = simTime + gap
    BY <1>5, <1>6, <2>1
  <2> QED
    BY <1>1, <1>4, <1>5, <2>2
<1>7. CASE factor > 1
  <2> HIDE DEF new, factor
  <2>1. simTime' = Snap(own, simTime, new) /\ simTime' \in Int
    BY <1>3, <1>5, <1>7, SnapStops
  <2>2. simTime' = own[i].pass.rise
    BY <1>3, <2>1, SnapStops
  <2>3. crossed # {}
    <3>1. crossed = {} => simTime' = new
      BY <2>1 DEF Snap
    <3> QED
      BY <1>4, <3>1 DEF Crossed
  <2>4. crossed \in SUBSET Nat
    BY DEF Crossed, Orderly
  <2>5. first \in crossed /\ \A k \in crossed : first <= k
    BY <2>3, <2>4, LeastOf
  <2>6. simTime' = IF own[first].pass.rise - LookaheadSec > simTime
                   THEN own[first].pass.rise - LookaheadSec ELSE own[first].pass.rise
    BY <2>1, <2>3 DEF Snap
  <2> HIDE DEF first
  <2>7. /\ first \in DOMAIN own /\ own[first].pass.rise \in Int
        /\ own[first].pass.set \in Int /\ own[first].pass.rise < own[first].pass.set
        /\ own[first].pass.rise <= new
    BY <2>5, PassLasts DEF Crossed
  <2>8. CASE own[first].pass.rise - LookaheadSec > simTime
    <3>1. own[i].pass.rise < own[first].pass.rise /\ own[i].pass.rise <= new
      BY <1>1, <1>3, <2>2, <2>6, <2>7, <2>8
    <3>2. i \in crossed
      BY <1>4, <3>1 DEF Crossed
    <3>3. first <= i /\ first \in Nat /\ i \in Nat
      BY <2>4, <2>5, <3>2
    <3>4. first < i => own[first].pass.set < own[i].pass.rise
      BY <1>4, <2>7, Zenon DEF Orderly
    <3>5. first # i
      BY <1>4, <3>1
    <3>6. first < i
      BY <3>3, <3>5
    <3> QED
      BY <1>4, <2>7, <3>1, <3>4, <3>6
  <2>9. CASE ~(own[first].pass.rise - LookaheadSec > simTime)
    <3>1. own[i].pass.rise = own[first].pass.rise
      BY <2>2, <2>6, <2>9
    <3> QED
      BY <1>1, <1>4, <1>5, <2>7, <2>9, <3>1
  <2> QED
    BY <2>8, <2>9
<1> QED
  BY <1>6, <1>7

\* The next pass of a clock that moved in a gap was the next one before.
LEMMA StillPending ==
  ASSUME NEW own, Orderly(own), NEW t \in Int, NEW u \in Int, NEW v, Disciplined(own, t, u, v),
         ~InPass(own, t), NEW i, IsPending(own, u, i), t < own[i].pass.rise
  PROVE  IsPending(own, t, i)
<1>1. /\ i \in DOMAIN own /\ t <= u
      /\ \A j \in DOMAIN own : j < i => own[j].pass.set <= u
  BY DEF IsPending, Disciplined
<1>2. \A j \in DOMAIN own : /\ own[j].pass.rise \in Int /\ own[j].pass.set \in Int
                            /\ own[j].pass.rise < own[j].pass.set
  BY PassLasts
<1>3. ASSUME NEW j \in DOMAIN own, j < i, ~(own[j].pass.set <= t)
      PROVE  FALSE
  <2>1. t < own[j].pass.set /\ own[j].pass.set <= u
    BY <1>1, <1>2, <1>3
  <2>2. t < own[j].pass.rise /\ own[j].pass.rise <= u
    BY <1>2, <2>1 DEF InPass, During
  <2>3. j \in Crossed(own, t, u)
    BY <2>2 DEF Crossed
  <2>4. u < own[j].pass.set
    BY <2>3 DEF Disciplined
  <2> QED
    BY <1>2, <2>1, <2>4
<1>4. t < own[i].pass.set
  BY <1>1, <1>2
<1> QED
  BY <1>1, <1>3, <1>4 DEF IsPending

\* A tick is shorter than a gap: a clock that was in a pass and is in one is in
\* the same.
LEMMA SamePass ==
  ASSUME NEW own, Orderly(own),
         \A j \in DOMAIN own : j > 1 => own[j].pass.rise - own[j - 1].pass.set > Coarse,
         NEW t \in Int, NEW u \in Int, NEW v, Disciplined(own, t, u, v), InPass(own, t),
         NEW i, IsPending(own, u, i), own[i].pass.rise <= u
  PROVE  own[i].pass.rise <= t /\ IsPending(own, t, i)
<1>1. /\ i \in DOMAIN own /\ u < own[i].pass.set /\ t <= u /\ u - t <= MaxGap[Primary]
      /\ MaxGap[Primary] \in Int /\ MaxGap[Primary] <= Coarse /\ Coarse \in Int
  BY ObserverFacts, PredictionAssumption DEF IsPending, Disciplined
<1>2. /\ \A j \in DOMAIN own : /\ own[j].pass.rise \in Int /\ own[j].pass.set \in Int
                               /\ own[j].pass.rise < own[j].pass.set
      /\ \A j, k \in DOMAIN own : j < k => own[j].pass.set < own[k].pass.rise
      /\ Len(own) \in Nat /\ DOMAIN own = 1 .. Len(own)
  <2>1. \A j \in DOMAIN own : /\ own[j].pass.rise \in Int /\ own[j].pass.set \in Int
                              /\ own[j].pass.rise < own[j].pass.set
    BY PassLasts
  <2> QED
    BY <2>1 DEF Orderly
<1>3. PICK j \in DOMAIN own : own[j].pass.rise <= t /\ t < own[j].pass.set
  BY DEF InPass, During
<1>4. /\ own[i].pass.rise \in Int /\ own[i].pass.set \in Int
      /\ own[j].pass.rise \in Int /\ own[j].pass.set \in Int
      /\ i \in Int /\ j \in Int /\ 1 <= i /\ 1 <= j /\ i <= Len(own) /\ Len(own) \in Int
  BY <1>1, <1>2, <1>3
<1>5. ~(i < j)
  <2>1. i < j => own[i].pass.set < own[j].pass.rise
    BY <1>1, <1>2, <1>3
  <2> QED
    BY <1>1, <1>3, <1>4, <2>1
<1>6. ASSUME j < i
      PROVE  FALSE
  <2> DEFINE h == i - 1
  <2>1. h \in Int /\ 1 <= h /\ h <= Len(own) /\ j <= h /\ i > 1
    BY <1>4, <1>6
  <2>2. h \in DOMAIN own
    BY <1>2, <2>1
  <2>3. own[i].pass.rise - own[h].pass.set > Coarse
    BY <1>1, <2>1
  <2> HIDE DEF h
  <2>4. own[h].pass.rise \in Int /\ own[h].pass.set \in Int /\ own[h].pass.rise < own[h].pass.set
    BY <1>2, <2>2
  <2>5. j < h => own[j].pass.set < own[h].pass.rise
    BY <1>2, <1>3, <2>2
  <2>6. own[j].pass.set <= own[h].pass.set
    <3>1. j = h \/ j < h
      BY <1>4, <2>1
    <3>2. CASE j = h
      BY <2>4, <3>2
    <3>3. CASE j < h
      <4> DEFINE z == own[j].pass.set
                 r == own[h].pass.rise
                 y == own[h].pass.set
      <4>1. z < r /\ r < y /\ z \in Int /\ r \in Int /\ y \in Int
        BY <1>4, <2>4, <2>5, <3>3
      <4> HIDE DEF z, r, y
      <4>2. z <= y
        BY <4>1
      <4> QED
        BY <4>2 DEF z, y
    <3> QED
      BY <3>1, <3>2, <3>3
  <2> DEFINE x == own[i].pass.rise
             y == own[h].pass.set
             z == own[j].pass.set
             g == MaxGap[Primary]
  <2>7. /\ x \in Int /\ y \in Int /\ z \in Int /\ g \in Int /\ Coarse \in Int
        /\ x - y > Coarse /\ z <= y /\ t < z /\ x <= u /\ u - t <= g /\ g <= Coarse
    BY <1>1, <1>3, <1>4, <2>3, <2>4, <2>6
  <2> HIDE DEF x, y, z, g
  <2> QED
    BY <2>7
<1>7. i = j
  BY <1>4, <1>5, <1>6
<1>8. \A k \in DOMAIN own : k < i => own[k].pass.set <= t
  <2> SUFFICES ASSUME NEW k \in DOMAIN own, k < i
               PROVE  own[k].pass.set <= t
    OBVIOUS
  <2>1. own[k].pass.set < own[i].pass.rise /\ own[k].pass.set \in Int
    BY <1>1, <1>2
  <2> QED
    BY <1>3, <1>4, <1>7, <2>1
<1> QED
  BY <1>1, <1>3, <1>7, <1>8 DEF IsPending

\* In a gap, a notice that is due is given, unless it was.
LEMMA NoticeGiven ==
  ASSUME SessionInv, TypeInv, PrimaryTick, watched = Primary,
         Pending(Own, simTime') # {}, NEW i, i = Min(Pending(Own, simTime')),
         simTime' < Own[i].pass.rise, Own[i].pass.rise - simTime' <= LookaheadSec
  PROVE  lookaheadOpenFired'
<1> DEFINE t == simTime'
           cov == CoverageAt(Own, startAt, t)
<1>1. t \in Int /\ phase = "running" /\ since[Primary] \in Nat /\ Publish(t, t, since[Primary])
  BY TickFacts
<1>2. Orderly(Own)
  BY OwnFacts
<1>3. i \in DOMAIN Own /\ Own[i].pass.rise \in Int
  <2>1. IsPending(Own, t, i)
    BY <1>1, <1>2, PendingFacts
  <2> QED
    BY <1>2, <2>1, PassLasts DEF IsPending
<1>4. ~(Own[i].pass.rise <= t)
  BY <1>1, <1>3
<1>5. ~cov.inCoverage /\ cov.until = Own[i].pass.rise - t
  BY <1>1, <1>2, <1>4, CoverageFacts
<1>6. lookaheadOpenFired' = (Fired(lookaheadOpenFired, cov) \/ Opening(cov, LookaheadSec))
  BY <1>1, PublishFacts
<1>7. Imminent(cov, LookaheadSec)
  BY <1>5, ClockAssumption DEF Imminent
<1> HIDE DEF cov
<1> QED
  BY <1>5, <1>6, <1>7 DEF Opening

\* A tick of the watched loop of the primary tells each pass that it opens, that it
\* opened and that it closes in this order.
LEMMA NoticeTick ==
  ASSUME SessionInv, TypeInv, MemoryInv, NoticeInv, PrimaryTick, watched = Primary
  PROVE  NoticeInv' /\ ToldInTurn
<1> DEFINE t == simTime'
<1>1. /\ t \in Int /\ simTime \in Int /\ startAt \in Int /\ simTime <= t
      /\ phase = "running" /\ Own' = Own /\ started' = TRUE
  BY TickFacts
<1>2. /\ Orderly(Own)
      /\ \A j \in DOMAIN Own : j > 1 => Own[j].pass.rise - Own[j - 1].pass.set > Coarse
  BY OwnFacts
<1>3. \A j \in DOMAIN Own : Own[j].pass.rise \in Int /\ Own[j].pass.set \in Int
                            /\ Own[j].pass.rise < Own[j].pass.set
  BY <1>2, PassLasts
<1>4. told \in [DOMAIN Own -> SUBSET (Edges \cup Notices)] /\ DOMAIN told = DOMAIN Own
      /\ started \in BOOLEAN /\ prevInCoverage \in BOOLEAN /\ lookaheadOpenFired \in BOOLEAN
  BY DEF TypeInv, TypeOK, LoopTypeOK
<1>5. /\ Advance(Own, speed, since[Primary]) /\ speed \in Nat \ {0}
      /\ since[Primary] \in 0 .. MaxGap[Primary]
  <2>1. Own = entries[Primary]
    BY DEF Own
  <2> QED
    BY <2>1, ObserverFacts DEF PrimaryTick, SessionInv
<1>6. Disciplined(Own, simTime, t, speed)
  BY <1>1, <1>2, <1>5, AdvanceDisciplined
<1>7. ~started => t = simTime /\ simTime = startAt /\ ~lookaheadOpenFired
  BY <1>1, <1>5 DEF Advance, NoticeInv
<1>8. started => (prevInCoverage <=> InPass(Own, simTime))
  BY <1>1 DEF MemoryInv, Remembered
<1> DEFINE Knows(j) ==
      IsPending(Own, t, j) =>
        /\ Own[j].pass.rise <= t => "window_opened" \in told'[j]
        /\ t < Own[j].pass.rise
             /\ (Own[j].pass.rise - t <= LookaheadSec \/ lookaheadOpenFired') =>
             "window_opening" \in told'[j]
<1>9. ASSUME DOMAIN told' = DOMAIN told, \A j \in DOMAIN told : Knows(j)
      PROVE  NoticeInv'
  <2>1. NoticeInv' <=>
          (phase' = "running" /\ watched' = Primary =>
            /\ ~started' => t = startAt' /\ ~lookaheadOpenFired'
            /\ started' => \A j \in DOMAIN told' : IsPending(Own', t, j) =>
                 /\ Own'[j].pass.rise <= t => "window_opened" \in told'[j]
                 /\ t < Own'[j].pass.rise
                      /\ (Own'[j].pass.rise - t <= LookaheadSec \/ lookaheadOpenFired') =>
                      "window_opening" \in told'[j])
    BY DEF NoticeInv, IsPending
  <2>2. Own' = Own /\ started' = TRUE
    BY <1>1
  <2> QED
    BY <1>9, <2>1, <2>2, Zenon
<1>10. CASE Pending(Own, t) = {}
  <2>1. told' = told
    BY <1>10, NothingLeft
  <2>2. \A j \in DOMAIN told : ~IsPending(Own, t, j)
    BY <1>10 DEF IsPending, Pending
  <2>3. NoticeInv'
    BY <1>9, <2>1, <2>2
  <2>4. ToldInTurn
    BY <2>1 DEF ToldInTurn
  <2> QED
    BY <2>3, <2>4
<1>11. CASE Pending(Own, t) # {}
  <2>1. PICK i : i = Min(Pending(Own, t))
    OBVIOUS
  <2> DEFINE in == Own[i].pass.rise <= t
  <2>2. Tells(i) /\ Publishes(in)
    BY <1>11, <2>1, NewToPass
  <2>3. /\ i \in DOMAIN told /\ IsPending(Own, t, i)
        /\ told' = [j \in DOMAIN told |-> IF j = i THEN told[j] \cup News ELSE told[j]]
    BY <2>2 DEF Tells
  <2>4. i \in DOMAIN Own /\ t < Own[i].pass.set /\ \A j \in DOMAIN Own : j < i => Own[j].pass.set <= t
    BY <2>3 DEF IsPending
  <2>5. in \in BOOLEAN /\ (~in => t < Own[i].pass.rise) /\ (in => Own[i].pass.rise <= t)
    BY <1>1, <1>3, <2>4
  <2>6. /\ Own[i].pass.rise <= simTime => InPass(Own, simTime)
        /\ InPass(Own, simTime) /\ t < Own[i].pass.rise =>
             \E j \in DOMAIN Own : j < i /\ simTime < Own[j].pass.set
    BY <1>1, <1>2, <2>3, Overtaken
  <2>7. started => \A j \in DOMAIN told : IsPending(Own, simTime, j) =>
          /\ Own[j].pass.rise <= simTime => "window_opened" \in told[j]
          /\ simTime < Own[j].pass.rise
               /\ (Own[j].pass.rise - simTime <= LookaheadSec \/ lookaheadOpenFired) =>
               "window_opening" \in told[j]
    BY <1>1 DEF NoticeInv
  <2>8. \A j \in DOMAIN told : j # i => ~IsPending(Own, t, j) /\ told'[j] = told[j]
    <3>1. \A j \in DOMAIN Own : IsPending(Own, t, j) => ~(j < i) /\ ~(i < j)
      BY <1>1, <1>3, <2>4 DEF IsPending
    <3>2. DOMAIN Own \in SUBSET Int
      BY <1>2 DEF Orderly
    <3> QED
      BY <1>4, <2>3, <2>4, <3>1, <3>2
  <2>9. told'[i] = told[i] \cup News
    BY <2>3
  <2> HIDE DEF in
  <2>10. /\ published'.edge = (IF started /\ prevInCoverage = in THEN None ELSE EdgeOf(in))
         /\ published'.notice \in {None, IF in THEN "window_closing" ELSE "window_opening"}
         /\ lookaheadOpenFired' = ((lookaheadOpenFired /\ ~(started /\ prevInCoverage # in))
                                     \/ published'.notice = "window_opening")
    BY <2>2 DEF Publishes
  <2>11. ASSUME in
         PROVE  "window_opened" \in told'[i]
    <3>1. CASE started /\ prevInCoverage = in
      <4>1. InPass(Own, simTime) /\ in = TRUE
        BY <1>8, <2>5, <2>11, <3>1
      <4>2. Own[i].pass.rise <= simTime /\ IsPending(Own, simTime, i)
        BY <1>1, <1>2, <1>6, <2>3, <2>5, <2>11, <4>1, SamePass
      <4> QED
        BY <2>3, <2>7, <2>9, <3>1, <4>2
    <3>2. CASE ~(started /\ prevInCoverage = in)
      <4>1. published'.edge = "window_opened"
        BY <2>10, <2>11, <3>2 DEF EdgeOf
      <4> QED
        BY <2>9, <4>1 DEF News, None
    <3> QED
      BY <3>1, <3>2
  <2>12. ASSUME ~in, lookaheadOpenFired'
         PROVE  "window_opening" \in told'[i]
    <3>1. CASE published'.notice = "window_opening"
      BY <2>9, <3>1 DEF News, None
    <3>2. CASE published'.notice # "window_opening"
      <4>1. started /\ lookaheadOpenFired /\ prevInCoverage = FALSE
        BY <1>4, <1>7, <2>5, <2>10, <2>12, <3>2
      <4>2. ~InPass(Own, simTime)
        BY <1>8, <4>1
      <4>3. simTime < Own[i].pass.rise
        BY <1>1, <1>3, <2>4, <2>5, <2>12
      <4>4. IsPending(Own, simTime, i)
        BY <1>1, <1>2, <1>6, <2>3, <4>2, <4>3, StillPending
      <4> QED
        BY <2>3, <2>7, <2>9, <4>1, <4>3, <4>4
    <3> QED
      BY <3>1, <3>2
  <2>13. ASSUME ~in, Own[i].pass.rise - t <= LookaheadSec
         PROVE  lookaheadOpenFired'
    BY <1>11, <2>1, <2>5, <2>13, NoticeGiven
  <2>14. NoticeInv'
    <3>1. Knows(i)
      BY <1>1, <1>3, <2>4, <2>5, <2>11, <2>12, <2>13
    <3>2. \A j \in DOMAIN told : Knows(j)
      BY <2>8, <3>1
    <3> QED
      BY <1>9, <2>3, <3>2
  <2>15. ToldInTurn
    <3> SUFFICES ASSUME NEW j \in DOMAIN told, Own[j].pass.rise > startAt
                 PROVE  /\ "window_opened" \in told'[j] \ told[j] => "window_opening" \in told[j]
                        /\ "window_closing" \in told'[j] \ told[j] => "window_opened" \in told'[j]
      BY DEF ToldInTurn
    <3>1. CASE j # i
      BY <2>8, <3>1
    <3>2. CASE j = i
      <4>1. "window_closing" \in News => in
        BY <2>5, <2>10 DEF News, EdgeOf
      <4>2. "window_closing" \in told'[j] \ told[j] => "window_opened" \in told'[j]
        BY <2>9, <2>11, <3>2, <4>1
      <4>3. ASSUME "window_opened" \in News
            PROVE  "window_opening" \in told[i]
        <5>1. in /\ ~(started /\ prevInCoverage = in)
          BY <2>5, <2>10, <4>3 DEF News, EdgeOf, None
        <5>2. started
          <6>1. ~started => t = startAt
            BY <1>7
          <6> QED
            BY <1>1, <1>3, <2>4, <2>5, <3>2, <5>1, <6>1
        <5>3. ~InPass(Own, simTime)
          BY <1>4, <1>8, <2>5, <5>1, <5>2
        <5>4. simTime < Own[i].pass.rise /\ Own[i].pass.rise <= t
          BY <1>1, <1>3, <2>4, <2>5, <2>6, <5>1, <5>3
        <5>5. i \in Crossed(Own, simTime, t)
          BY <2>4, <5>4 DEF Crossed
        <5>6. Own[i].pass.rise - simTime <= LookaheadSec
          BY <1>1, <1>2, <1>5, <5>5, NoticeDue
        <5>7. IsPending(Own, simTime, i)
          BY <1>1, <1>2, <1>6, <2>3, <5>3, <5>4, StillPending
        <5> QED
          BY <2>3, <2>7, <5>2, <5>4, <5>6, <5>7
      <4> QED
        BY <2>9, <3>2, <4>2, <4>3
    <3> QED
      BY <3>1, <3>2
  <2> QED
    BY <2>14, <2>15
<1> QED
  BY <1>10, <1>11

\* Only a tick of its loop tells the subscribers of the primary anything.
LEMMA NoticeStep ==
  ASSUME SessionInv, TypeInv, MemoryInv, NoticeInv, [Next]_vars
  PROVE  NoticeInv' /\ (watched = Primary => ToldInTurn)
<1>1. UNCHANGED sessionVars
  BY DEF Next, Loops, TimePasses, PrimaryTick, PeerEvaluate, PeerPublish, Stop, Replay, vars
<1>2. Own' = Own /\ watched' = watched /\ startAt' = startAt /\ (watched = Primary \/ watched = Peer) /\ Primary # Peer
  BY <1>1, ObserverFacts DEF Own, sessionVars, SessionInv
<1>3. CASE watched = Peer
  BY <1>2, <1>3 DEF NoticeInv
<1>4. ASSUME watched = Primary, UNCHANGED told
      PROVE  ToldInTurn
  BY <1>4 DEF ToldInTurn
<1>5. ASSUME UNCHANGED <<phase, simTime, started, lookaheadOpenFired, told>>
      PROVE  NoticeInv'
  BY <1>2, <1>5 DEF NoticeInv, IsPending
<1>6. CASE watched = Primary
  <2>1. CASE TimePasses \/ UNCHANGED vars
    <3>1. UNCHANGED <<phase, simTime, started, lookaheadOpenFired, told>>
      BY <2>1 DEF TimePasses, vars, clockVars, loopVars
    <3> QED
      BY <1>4, <1>5, <1>6, <3>1
  <2>2. CASE PrimaryTick
    BY <1>6, <2>2, NoticeTick
  <2>3. CASE PeerEvaluate
    BY <1>2, <1>6, <2>3 DEF PeerEvaluate
  <2>4. CASE PeerPublish
    <3>1. phase = "running" /\ evaluated # NoTime
      BY <2>4 DEF PeerPublish
    <3> QED
      BY <1>6, <3>1 DEF MemoryInv, Remembered
  <2>5. CASE Stop \/ Replay
    <3>1. phase' = "ended" /\ told' = told
      BY <2>5 DEF Stop, Replay
    <3> QED
      BY <1>4, <1>6, <3>1 DEF NoticeInv
  <2> QED
    BY <2>1, <2>2, <2>3, <2>4, <2>5 DEF Next, Loops
<1> QED
  BY <1>2, <1>3, <1>6

\* The subscribers of the primary hear that a pass is opening before it opened, and
\* that it opened before it is closing, for every pass that rises after the start:
\* no speed of the clock and no pace of the loop skips a notice.  This is the safety
\* part of PassesPlayed for the primary.
THEOREM PassesAreAnnounced == Spec => [][watched = Primary => ToldInTurn]_vars
<1> DEFINE Inv == SessionInv /\ TypeInv /\ MemoryInv /\ RowsInv /\ ReplayInv /\ NoticeInv
<1>1. Init => Inv
  <2>1. Init => NoticeInv
    BY DEF Init, LoopInit, NoticeInv
  <2> QED
    BY <2>1, SessionInit, TypeInit, HistoryInit
<1>2. Inv /\ [Next]_vars => Inv'
  BY SessionStep, TypeStep, HistoryStep, NoticeStep
<1>3. Inv /\ [Next]_vars => [watched = Primary => ToldInTurn]_vars
  BY NoticeStep
<1> QED
  BY <1>1, <1>2, <1>3, PTL DEF Spec
=============================================================================
