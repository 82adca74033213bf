--------------------------- MODULE ReportAggregator ---------------------------
(***************************************************************************)
(* The field-data report of one run (internal/report/aggregator.go).       *)
(* Coverage time is split into segments, one bucket each.  Three kinds of  *)
(* goroutine share the aggregator: the driver loop, which calls onCoverage *)
(* when InCoverage flips, the aggregator's own ticker, which samples the   *)
(* evaluator, and callers of Close and Finalize.  Sampling asks what       *)
(* coverage is at a given instant.  A profile's evaluator answers for that *)
(* instant; a pass sequence's (run --tle) ignores it and answers for its   *)
(* own clock, which the driver's ticks move.                               *)
(***************************************************************************)
EXTENDS Integers, FiniteSets

CONSTANTS
  Horizon,    \* the last instant considered (bounds time)
  Evaluators, \* the kinds of evaluator a run may have
  Schedule,   \* the bucket a profile's evaluator reports at each instant
  Ticking,    \* TickEvery > 0: the aggregator has a ticker
  PromptDriver,  \* the driver ticks, and its events arrive, at every instant
  Callers     \* goroutines that call Finalize once each

Buckets == {"in", "blocked", "out"}

ASSUME ReportAssumption ==
  /\ Horizon \in Nat
  /\ Evaluators \subseteq {"profile", "sequence"}
  /\ Schedule \in [0 .. Horizon -> Buckets]
  /\ Ticking \in BOOLEAN
  /\ PromptDriver \in BOOLEAN
  /\ PromptDriver => Evaluators = {"profile"}

VARIABLES
  now,           \* the wall clock
  evaluator,     \* the kind of evaluator that is sampled
  answer,        \* what a pass sequence answers since the driver last advanced it
  lastWall,      \* when the driver last changed that answer
  seen,          \* the bucket at the driver's last tick; the driver keeps only
                 \* whether it is "in"
  drvPc, event,  \* the driver's position, and the event it is delivering
  tickPc,        \* the position of tickLoop
  armed,         \* the select of tickLoop has a stop channel, not nil
  lastTick,      \* the time of the ticker's latest tick
  bucket, segmentStart, sec,
  opens, closes, finalized,
  stopTick,      \* a.stopTick is not nil
  stopClosed,    \* the stop channel is closed
  subscribed,    \* onCoverage is on the bus
  unsub,         \* a.unsubCov is not nil
  pc, local,     \* the position of each caller, and what it took from the fields
  report,        \* what Finalize returned to each caller
  trueOpens, trueCloses  \* scheduled openings and closings the driver told of (history)

evalVars == <<evaluator, answer, lastWall>>
driverVars == <<seen, drvPc, event, trueOpens, trueCloses>>
tickerVars == <<tickPc, armed, lastTick>>
countVars == <<bucket, segmentStart, sec, opens, closes, finalized>>
closeVars == <<stopTick, stopClosed, subscribed, unsub>>
callerVars == <<pc, local, report>>
vars == <<now, evalVars, driverVars, tickerVars, countVars, closeVars, callerVars>>

Time == 0 .. Horizon

NoEvent == [kind |-> "none", at |-> 0]
Events == [kind : {"none", "window_opened", "window_closed"}, at : Time]

Reports == [ended : Time, sec : [Buckets -> Time], opens : Nat, closes : Nat]
NoReport == [ended |-> 0, sec |-> [b \in Buckets |-> 0], opens |-> 0, closes |-> 0]

TypeOK ==
  /\ now \in Time
  /\ evaluator \in {"profile", "sequence"}
  /\ answer \in Buckets
  /\ lastWall \in Time
  /\ seen \in Buckets \cup {"nothing"}
  /\ drvPc \in {"idle", "handle"}
  /\ event \in Events
  /\ tickPc \in {"arm", "select", "sample", "done"}
  /\ armed \in BOOLEAN
  /\ lastTick \in Time
  /\ bucket \in Buckets
  /\ segmentStart \in Time
  /\ sec \in [Buckets -> Time]
  /\ opens \in Nat /\ closes \in Nat /\ trueOpens \in Nat /\ trueCloses \in Nat
  /\ finalized \in BOOLEAN /\ stopTick \in BOOLEAN /\ stopClosed \in BOOLEAN
  /\ subscribed \in BOOLEAN /\ unsub \in BOOLEAN
  /\ pc \in [Callers -> {"idle", "close", "wait", "unsubscribe", "finalize", "returned"}]
  /\ local \in [Callers -> [end : Time, unsub : BOOLEAN]]
  /\ report \in [Callers -> Reports]

\* What the evaluator answers when it is asked about an instant.
Sampled(at) == IF evaluator = "sequence" THEN answer ELSE Schedule[at]

\* New: the first segment starts in the bucket sampled at the start.
Init ==
  /\ now = 0
  /\ evaluator \in Evaluators
  /\ answer \in (IF evaluator = "sequence" THEN {"in", "out"} ELSE {Schedule[0]})
  /\ lastWall = 0
  /\ seen = "nothing" /\ drvPc = "idle" /\ event = NoEvent
  /\ tickPc = IF Ticking THEN "arm" ELSE "done"
  /\ armed = FALSE /\ lastTick = 0
  /\ bucket = Sampled(0) /\ segmentStart = 0 /\ sec = [b \in Buckets |-> 0]
  /\ opens = 0 /\ closes = 0 /\ finalized = FALSE
  /\ stopTick = Ticking /\ stopClosed = FALSE
  /\ subscribed = TRUE /\ unsub = TRUE
  /\ pc = [c \in Callers |-> "idle"]
  /\ local = [c \in Callers |-> [end |-> 0, unsub |-> FALSE]]
  /\ report = [c \in Callers |-> NoReport]
  /\ trueOpens = 0 /\ trueCloses = 0

TimePasses ==
  /\ now < Horizon
  /\ PromptDriver => seen = Schedule[now] /\ drvPc = "idle"
  /\ now' = now + 1
  /\ UNCHANGED <<evalVars, driverVars, tickerVars, countVars, closeVars, callerVars>>

-------------------------------------------------------------------------------
(* Segments *)

\* Mutant: an event that reports an earlier instant moves the segment back.
ClampNone(at) == at

\* An instant is never taken to lie before the running segment.
Clamp(at) == IF at < segmentStart THEN segmentStart ELSE at

\* accrueLocked.
Accrue(at) == sec' = [sec EXCEPT ![bucket] = @ + (Clamp(at) - segmentStart)]

\* Mutant: a new bucket starts a new segment before the old one is accrued.
ResampleUnaccrued(at) ==
  IF Sampled(Clamp(at)) # bucket
    THEN /\ bucket' = Sampled(Clamp(at))
         /\ segmentStart' = Clamp(at)
         /\ UNCHANGED sec
    ELSE UNCHANGED <<sec, bucket, segmentStart>>

\* Mutant: the bucket is sampled at the event's instant, without the clamp.
ResampleUnclamped(at) ==
  IF Sampled(at) # bucket
    THEN /\ Accrue(at)
         /\ bucket' = Sampled(at)
         /\ segmentStart' = Clamp(at)
    ELSE UNCHANGED <<sec, bucket, segmentStart>>

\* Sample the evaluator at an instant; a new bucket starts a new segment.
Resample(at) ==
  IF Sampled(Clamp(at)) # bucket
    THEN /\ Accrue(at)
         /\ bucket' = Sampled(Clamp(at))
         /\ segmentStart' = Clamp(at)
    ELSE UNCHANGED <<sec, bucket, segmentStart>>

-------------------------------------------------------------------------------
(* The driver loop and onCoverage *)

Count(b) == IF b THEN 1 ELSE 0

\* What a tick finds.  It advances a pass sequence first, to any point of its
\* passes and gaps (it knows no blockages): the first Advance only starts that
\* clock, and one that finds no wall time gone by moves nothing.
Ticked(b) ==
  IF evaluator = "profile"
    THEN b = Schedule[now] /\ UNCHANGED evalVars
    ELSE /\ b # "blocked"
         /\ seen = "nothing" \/ now = lastWall => b = answer
         /\ answer' = b
         /\ lastWall' = now
         /\ UNCHANGED evaluator

\* Loop.tick: an event on the first tick and whenever InCoverage flips.  The
\* bus has copied its subscribers when the handler gets to run.
DriverTick ==
  \E b \in Buckets :
    LET kind == IF b = "in" THEN "window_opened" ELSE "window_closed"
        flips == seen = "nothing" \/ (seen = "in") # (b = "in")
    IN
    /\ drvPc = "idle"
    /\ Ticked(b)
    /\ seen # b
    /\ seen' = b
    /\ IF flips /\ subscribed
         THEN drvPc' = "handle" /\ event' = [kind |-> kind, at |-> now]
         ELSE UNCHANGED <<drvPc, event>>
    /\ trueOpens' = trueOpens + Count(subscribed /\ b = "in" /\ seen \in {"nothing", "out"})
    /\ trueCloses' = trueCloses + Count(subscribed /\ b = "out" /\ seen = "in")
    /\ UNCHANGED <<now, tickerVars, countVars, closeVars, callerVars>>

\* Mutant: an event that arrives after Finalize still counts.
OnCoverageLate ==
  /\ drvPc = "handle"
  /\ drvPc' = "idle"
  /\ event' = NoEvent
  /\ Resample(event.at)
  /\ opens' = opens + Count(event.kind = "window_opened" /\ bucket' = "in" /\ bucket # "blocked")
  /\ closes' = closes + Count(event.kind = "window_closed" /\ bucket = "in" /\ bucket' = "out")
  /\ UNCHANGED <<now, evalVars, seen, trueOpens, trueCloses, finalized, tickerVars, closeVars,
                 callerVars>>

\* noteTransition under a.mu.
OnCoverage ==
  /\ drvPc = "handle"
  /\ drvPc' = "idle"
  /\ event' = NoEvent
  /\ IF finalized
       THEN UNCHANGED countVars
       ELSE /\ Resample(event.at)
            /\ opens' = opens + Count(event.kind = "window_opened" /\ bucket' = "in" /\ bucket # "blocked")
            /\ closes' = closes + Count(event.kind = "window_closed" /\ bucket = "in" /\ bucket' = "out")
            /\ UNCHANGED finalized
  /\ UNCHANGED <<now, evalVars, seen, trueOpens, trueCloses, tickerVars, closeVars, callerVars>>

-------------------------------------------------------------------------------
(* tickLoop *)

\* The select reads a.stopTick, without a.mu: nil once Close has taken it.
TickArm ==
  /\ tickPc = "arm"
  /\ armed' = stopTick
  /\ tickPc' = "select"
  /\ UNCHANGED <<now, evalVars, driverVars, lastTick, countVars, closeVars, callerVars>>

TickStop ==
  /\ tickPc = "select"
  /\ armed /\ stopClosed
  /\ tickPc' = "done"
  /\ UNCHANGED <<now, evalVars, driverVars, armed, lastTick, countVars, closeVars, callerVars>>

\* A nil channel is never ready: only a tick ends this select then.
TickFire ==
  /\ tickPc = "select"
  /\ lastTick < now
  /\ lastTick' = now
  /\ tickPc' = "sample"
  /\ UNCHANGED <<now, evalVars, driverVars, armed, countVars, closeVars, callerVars>>

\* sampleNow under a.mu.
SampleNow ==
  /\ tickPc = "sample"
  /\ tickPc' = "arm"
  /\ IF finalized THEN UNCHANGED <<sec, bucket, segmentStart>> ELSE Resample(lastTick)
  /\ UNCHANGED <<now, evalVars, driverVars, armed, lastTick, opens, closes, finalized, closeVars,
                 callerVars>>

-------------------------------------------------------------------------------
(* Close and Finalize *)

Goto(c, step) == pc' = [pc EXCEPT ![c] = step]

\* Finalize(now) calls Close, which takes the fields under a.mu.
TakeFields(c) ==
  /\ pc[c] = "idle"
  /\ local' = [local EXCEPT ![c] = [end |-> now, unsub |-> unsub]]
  /\ Goto(c, IF stopTick THEN "close" ELSE "unsubscribe")
  /\ stopTick' = FALSE
  /\ unsub' = FALSE
  /\ UNCHANGED <<now, evalVars, driverVars, tickerVars, countVars, stopClosed, subscribed, report>>

CloseStop(c) ==
  /\ pc[c] = "close"
  /\ stopClosed' = TRUE
  /\ Goto(c, "wait")
  /\ UNCHANGED <<now, evalVars, driverVars, tickerVars, countVars, stopTick, subscribed, unsub,
                 local, report>>

\* <-a.tickDone.
WaitTicker(c) ==
  /\ pc[c] = "wait"
  /\ tickPc = "done"
  /\ Goto(c, "unsubscribe")
  /\ UNCHANGED <<now, evalVars, driverVars, tickerVars, countVars, closeVars, local, report>>

Unsubscribe(c) ==
  /\ pc[c] = "unsubscribe"
  /\ subscribed' = (subscribed /\ ~local[c].unsub)
  /\ Goto(c, "finalize")
  /\ UNCHANGED <<now, evalVars, driverVars, tickerVars, countVars, stopTick, stopClosed, unsub,
                 local, report>>

\* Mutant: the segment that runs at the end is not rolled.
FinalizeUnrolled(c) ==
  /\ pc[c] = "finalize"
  /\ finalized' = TRUE
  /\ report' = [report EXCEPT ![c] =
                  [ended |-> local[c].end, sec |-> sec, opens |-> opens, closes |-> closes]]
  /\ Goto(c, "returned")
  /\ UNCHANGED <<now, evalVars, driverVars, tickerVars, bucket, segmentStart, sec, opens, closes,
                 closeVars, local>>

\* The rest of Finalize, under a.mu: roll the last segment once, and report.
Finalize(c) ==
  LET end == local[c].end IN
  /\ pc[c] = "finalize"
  /\ IF finalized
       THEN UNCHANGED <<sec, segmentStart>>
       ELSE Accrue(end) /\ segmentStart' = Clamp(end)
  /\ finalized' = TRUE
  /\ report' = [report EXCEPT ![c] = [ended |-> end, sec |-> sec', opens |-> opens, closes |-> closes]]
  /\ Goto(c, "returned")
  /\ UNCHANGED <<now, evalVars, driverVars, tickerVars, bucket, opens, closes, closeVars, local>>

-------------------------------------------------------------------------------

Ticker == TickArm \/ TickStop \/ TickFire \/ SampleNow

Caller(c) == TakeFields(c) \/ CloseStop(c) \/ WaitTicker(c) \/ Unsubscribe(c) \/ Finalize(c)

Next == TimePasses \/ DriverTick \/ OnCoverage \/ Ticker \/ \E c \in Callers : Caller(c)

Spec == Init /\ [][Next]_vars

\* Goroutines are scheduled and the clock runs.
Fairness ==
  /\ WF_vars(TimePasses) /\ WF_vars(DriverTick \/ OnCoverage) /\ WF_vars(Ticker)
  /\ \A c \in Callers : WF_vars(Caller(c))

FairSpec == Spec /\ Fairness

-------------------------------------------------------------------------------
(* Properties *)

SegmentTime(s) == s["in"] + s["blocked"] + s["out"]

\* No instant is lost or counted twice: the buckets add up to the time before
\* the running segment, however ticks, events and Finalize interleave.
TimeAccounted == SegmentTime(sec) = segmentStart

\* The running segment is in its true bucket.  A profile: the one reported for
\* the instant it starts at.  A pass sequence: the one the sequence is in, once
\* the driver's event is handled; where that segment starts may be off, for the
\* sample ignores the instant under which noteTransition stores it.
SegmentFaithful ==
  ~finalized =>
    IF evaluator = "profile"
      THEN bucket = Schedule[segmentStart]
      ELSE drvPc = "idle" /\ subscribed => bucket = answer

\* The finalized numbers never change again, though handlers and the ticker of
\* another caller may still be running.
FrozenOnceFinalized == [][finalized => UNCHANGED countVars]_vars

\* A report accounts at least for the whole run up to the first Finalize.
RunCovered ==
  finalized => \E c \in Callers : pc[c] = "returned" /\ SegmentTime(sec) >= report[c].ended

\* guides/report.md: opens and closes count scheduled window openings and
\* closings, not blockages.
CountsScheduled ==
  drvPc = "idle" /\ ~finalized => opens = trueOpens /\ closes = trueCloses

\* Close: it "stops the ticker and unsubscribes", and so returns.
CloseReturns == \A c \in Callers : pc[c] = "close" ~> pc[c] = "returned"
===============================================================================
