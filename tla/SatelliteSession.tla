--------------------------- MODULE SatelliteSession ---------------------------
(***************************************************************************)
(* A session driven by a satellite's orbit (cmd/ntnbox/tle_session.go): the*)
(* passes over two observers are predicted, the primary observer's driver  *)
(* moves the simulation clock on, and each observer's driver tells its     *)
(* subscribers what happens at the clock.  The session may be recorded, and*)
(* replayed when it has ended.                                             *)
(*                                                                         *)
(* The drivers of two observers share the clock and nothing else, so one   *)
(* of them is watched; while the peer's is, the primary's loop is only its *)
(* calls of Advance.  The bounds are the length of a sky and Horizon, where*)
(* the clock stops.                                                        *)
(***************************************************************************)
EXTENDS DriverLoop, SequenceClock, Recording, SequencesExt

CONSTANTS
  Primary, Peer,
  Skies,          \* what the orbit model may say of an observer
  Elevation,      \* the elevation at every instant, for each sky
  Model,          \* the link model
  Speeds,         \* --speed: the acceleration of gaps
  StartTimes,     \* --start-at, other than the next pass
  MaxGap,         \* the longest time between two ticks of each observer's loop
  PositionEvery,  \* the position is published at most this often
  Horizon

ASSUME SessionAssumption ==
  /\ Primary # Peer
  /\ Elevation \in [Skies -> [0 .. MaxSearch -> Int]]
  /\ Model \in Models /\ ValidModel(Model)
  /\ Speeds \subseteq Nat \ {0}
  /\ StartTimes \subseteq Int
  /\ {PositionEvery, Horizon} \subseteq Nat \ {0}
  /\ MaxGap \in [{Primary, Peer} -> Nat \ {0}]
  /\ \A o \in {Primary, Peer} : MaxGap[o] < MinPass /\ MaxGap[o] <= LookaheadSec /\ MaxGap[o] <= Coarse
  /\ Unending = Infinity
  /\ \A s \in StartTimes \cup {-LookaheadSec} : MaxSearch - s < Infinity

Observers == {Primary, Peer}

VARIABLES
  skies,             \* the sky over each observer
  entries,           \* the passes and profiles of each observer's evaluator
  startAt, speed,
  phase,             \* "refused", "running" or "ended"
  watched,           \* the observer whose driver is watched
  since,             \* seconds since the last tick of each loop
  evaluated,         \* the instant a peer's tick has read from the clock, or NoTime
  positionAge,       \* seconds since the position was published, or NoTime
  told               \* what subscribers heard of each pass, by its number (history)

sessionVars == <<skies, entries, startAt, speed, watched>>
vars == <<sessionVars, phase, since, evaluated, positionAge, told, clockVars, loopVars,
          recordingVars>>

\* The passes and profiles of the evaluator made for each sky.
EntriesFor == [sky \in Skies |-> EntriesOf(PredictPasses(Elevation[sky], 0), Model)]

Own == entries[watched]

TypeOK ==
  /\ phase \in {"refused", "running", "ended"}
  /\ \A o \in Observers : since[o] \in 0 .. MaxGap[o]
  /\ evaluated \in Int \cup {NoTime}
  /\ positionAge \in (0 .. PositionEvery + MaxGap[Primary] - 1) \cup {NoTime}
  /\ told \in [DOMAIN Own -> SUBSET (Edges \cup Notices)]
  /\ simTime \in Int
  /\ started \in BOOLEAN
  /\ LoopTypeOK
  /\ RecordingTypeOK(Edges \cup Notices)

-----------------------------------------------------------------------------
(* bootstrapTLE *)

\* The earliest first pass of any observer, less the lead of the notice.
SharedStart == Min({entries[o][1].pass.rise : o \in Observers}) - LookaheadSec

Init ==
  /\ skies \in [Observers -> Skies]
  /\ entries = [o \in Observers |-> EntriesFor[skies[o]]]
  /\ speed \in Speeds
  /\ watched \in Observers
  /\ phase = (IF \A o \in Observers : Builds(entries[o]) THEN "running" ELSE "refused")
  /\ startAt \in IF phase = "running" THEN {SharedStart} \cup StartTimes ELSE {0}
  /\ simTime = startAt
  /\ started = FALSE
  /\ since = [o \in Observers |-> 0]
  /\ evaluated = NoTime
  /\ positionAge = NoTime
  /\ told = [i \in DOMAIN Own |-> {}]
  /\ LoopInit
  /\ RecordingInit

-----------------------------------------------------------------------------
LoopReset ==
  /\ prevInCoverage' = FALSE /\ prevInCoverageSet' = FALSE
  /\ lookaheadOpenFired' = FALSE /\ lookaheadCloseFired' = FALSE
  /\ published' = [edge |-> None, notice |-> None, link |-> Silent]
  /\ lastVal' = Silent /\ lastAge' = 0

TimePasses ==
  /\ phase = "running"
  /\ simTime < Horizon
  /\ \A o \in {Primary, watched} : since[o] < MaxGap[o]
  /\ since' = [o \in Observers |-> IF o \in {Primary, watched} THEN since[o] + 1 ELSE 0]
  /\ positionAge' = IF positionAge = NoTime THEN NoTime ELSE positionAge + 1
  /\ UNCHANGED <<sessionVars, phase, evaluated, told, clockVars, loopVars, recordingVars>>

\* What was published, in order.
Kinds(p) ==
  LET kept(kind) == IF kind = None THEN <<>> ELSE <<kind>>
  IN kept(p.edge) \o kept(p.notice)

\* The pass a subscriber relates an event of instant t to.
PassAt(t) == IF Pending(Own, t) = {} THEN {} ELSE {Min(Pending(Own, t))}

\* The watched loop publishes what it found at instant t; the recorder, called
\* before the loop goes on, evaluates the observer at the clock of that moment.
Publish(t, clock, gap) ==
  /\ \E link \in {LinkAt(Own, t)}, cov \in {CoverageAt(Own, startAt, t)} :
       Tick(link, cov, LookaheadSec, gap)
  /\ told' = [i \in DOMAIN told |->
                IF i \in PassAt(t) THEN told[i] \cup ({published'.edge, published'.notice} \ {None})
                ELSE told[i]]
  /\ Record(Kinds(published'), CoverageAt(Own, startAt, clock))

\* A loop ticks at once when it starts.
Due(o) == since[o] > 0 \/ (IF o = watched THEN ~prevInCoverageSet ELSE ~started)

\* A bug: the position is held back one second too long.
PublishPositionLate ==
  positionAge' = IF positionAge = NoTime \/ positionAge > PositionEvery THEN 0 ELSE positionAge

PublishPosition ==
  positionAge' = IF positionAge = NoTime \/ positionAge >= PositionEvery THEN 0 ELSE positionAge

\* A tick of the primary's loop: Advance, Evaluate, publish.
PrimaryTick ==
  /\ phase = "running"
  /\ Due(Primary)
  /\ Advance(entries[Primary], speed, since[Primary])
  /\ since' = [since EXCEPT ![Primary] = 0]
  /\ PublishPosition
  /\ IF watched = Primary
     THEN Publish(simTime', simTime', since[Primary])
     ELSE UNCHANGED <<told, loopVars, recordingVars>>
  /\ UNCHANGED <<sessionVars, phase, evaluated>>

\* A tick of the peer's loop reads the clock, then publishes.
PeerEvaluate ==
  /\ phase = "running"
  /\ watched = Peer /\ Due(Peer)
  /\ evaluated = NoTime
  /\ evaluated' = simTime
  /\ UNCHANGED <<sessionVars, phase, since, positionAge, told, clockVars, loopVars, recordingVars>>

PeerPublish ==
  /\ phase = "running"
  /\ evaluated # NoTime
  /\ Publish(evaluated, simTime, since[Peer])
  /\ evaluated' = NoTime
  /\ since' = [since EXCEPT ![Peer] = 0]
  /\ UNCHANGED <<sessionVars, phase, positionAge, clockVars>>

\* The session is stopped between two ticks: of its process, the recording is
\* what remains.
Stop ==
  /\ phase = "running"
  /\ evaluated = NoTime
  /\ phase' = "ended"
  /\ since' = [o \in Observers |-> 0]
  /\ positionAge' = NoTime
  /\ simTime' = startAt /\ started' = FALSE
  /\ LoopReset
  /\ UNCHANGED <<sessionVars, evaluated, told, recordingVars>>

Replay ==
  /\ phase = "ended"
  /\ ReplayStart \/ ReplayRow \/ ReplayCancel \/ ReplayDone
  /\ UNCHANGED <<sessionVars, phase, since, evaluated, positionAge, told, clockVars, loopVars>>

Loops == TimePasses \/ PrimaryTick \/ PeerEvaluate \/ PeerPublish

Next == Loops \/ Stop \/ Replay

Spec == Init /\ [][Next]_vars

\* The tickers never stop: some loop ticks again, as long as time passes.
FairSpec == Spec /\ WF_vars(Loops)

-----------------------------------------------------------------------------
(* What makes a session correct *)

\* What an evaluator says of its passes is true of the sky it was made for, and
\* a session with a sound link model is refused only if an observer has no pass
\* (bootstrapTLE, NewSequenceEvaluator).
SequenceTrue ==
  phase # "ended" /\ ~started =>
    /\ \A o \in Observers : EntriesTrue(entries[o], Elevation[skies[o]], Model)
    /\ phase = "refused" /\ Sound(Model) => \E o \in Observers : entries[o] = <<>>

\* The clock never runs backwards, passes run in real time, an accelerated gap
\* never carries the clock into a pass or past it, and no tick of the loop jumps
\* over a pass (sequence.go: Advance).
ClockDisciplined ==
  [][phase' = "running" => LET own == entries[Primary] IN
     /\ simTime' >= simTime
     /\ InPass(own, simTime) => simTime' - simTime <= MaxGap[Primary]
     /\ \A i \in Crossed(own, simTime, simTime') :
          /\ simTime' < own[i].pass.set
          /\ Factor(own, speed, simTime) > 1 => simTime' = own[i].pass.rise]_vars

\* The primary's subscribers hear that each pass is opening, then that it opened,
\* then that it is closing, for every pass that rises after the start; so do a
\* peer's if gaps are not accelerated.
Played(i) ==
  Own[i].pass.rise > startAt => {"window_opening", "window_opened", "window_closing"} \subseteq told[i]

InStep == watched = Primary \/ speed = 1

ToldInTurn ==
  \A i \in DOMAIN told : Own[i].pass.rise > startAt =>
    /\ "window_opened" \in told'[i] \ told[i] => "window_opening" \in told[i]
    /\ "window_closing" \in told'[i] \ told[i] => "window_opened" \in told'[i]

PassesPlayed ==
  /\ [][InStep => ToldInTurn]_vars
  /\ <>(InStep /\ phase = "running" => \A i \in DOMAIN told : Played(i))

RowsOf(kind) == {k \in DOMAIN file : file[k].kind = kind}

\* A recording of the primary holds every event up to the end of the last pass,
\* once, with the coverage its kind says, and edges alternate; a replay of any
\* recording publishes its rows in order, and is done only after the last one
\* (recorder.go: OnCoverage, write; replayer.go: Run).
ReplayFaithful ==
  /\ watched = Primary =>
       /\ \A kind \in Edges \cup Notices :
            Cardinality(RowsOf(kind)) = Cardinality({i \in DOMAIN told : kind \in told[i]})
       /\ \A k \in DOMAIN file :
            /\ file[k].inCoverage <=> file[k].kind \in {"window_opened", "window_closing"}
            /\ file[k].kind \in Edges =>
                 \A j \in 1 .. k - 1 : file[j].kind = file[k].kind =>
                   \E m \in j .. k : file[m].kind \in Edges \ {file[k].kind}
  /\ IsPrefix(replayed, file)
  /\ replay = "done" => replayed = file
=============================================================================
