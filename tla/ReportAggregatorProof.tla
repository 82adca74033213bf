------------------------- MODULE ReportAggregatorProof -------------------------
(***************************************************************************)
(* Proofs about ReportAggregator, for any schedule, horizon and number of  *)
(* callers: type correctness, that no second of the run is lost or counted *)
(* twice, that the running segment is in its true bucket as far as the     *)
(* evaluator's kind allows, that a finished report covers the run, and     *)
(* that its numbers never change again.                                    *)
(***************************************************************************)
EXTENDS ReportAggregator, TLAPS

\* A pass sequence answers what the driver's latest tick found: a tick that moves
\* the answer thus sees a flip, and tells the aggregator.
AnswerTold ==
  evaluator = "sequence" => answer # "blocked" /\ (seen # "nothing" => seen = answer)

Inv == TypeOK /\ TimeAccounted /\ SegmentFaithful /\ RunCovered /\ AnswerTold

-------------------------------------------------------------------------------
(* What the segment operators do *)

LEMMA ClampType ==
  ASSUME TypeOK, NEW at \in Time
  PROVE  Clamp(at) \in Time /\ Clamp(at) >= segmentStart /\ Clamp(at) >= at
BY ReportAssumption DEF TypeOK, Time, Clamp

\* Closing the running segment at an instant accounts for the time up to it.
LEMMA Accrual ==
  ASSUME TypeOK, TimeAccounted, NEW at \in Time, Accrue(at)
  PROVE  /\ sec' \in [Buckets -> Time]
         /\ SegmentTime(sec') = Clamp(at)
<1> DEFINE d == Clamp(at) - segmentStart
<1>1. /\ Clamp(at) \in Time /\ segmentStart \in Time /\ d \in 0 .. Horizon
      /\ Horizon \in Nat
  <2>1. Clamp(at) \in Time /\ Clamp(at) >= segmentStart /\ segmentStart \in Time
    BY ClampType DEF TypeOK
  <2>2. Clamp(at) \in Nat /\ segmentStart \in Nat /\ Clamp(at) <= Horizon /\ Horizon \in Nat
    BY <2>1, ReportAssumption DEF Time
  <2> QED
    BY <2>1, <2>2
<1>2. /\ sec["in"] \in Time /\ sec["blocked"] \in Time /\ sec["out"] \in Time
      /\ sec["in"] + sec["blocked"] + sec["out"] = segmentStart
  BY DEF TypeOK, TimeAccounted, SegmentTime, Buckets
<1>3. sec' = [sec EXCEPT ![bucket] = sec[bucket] + d] /\ bucket \in Buckets
  BY DEF Accrue, TypeOK
<1> HIDE DEF d
<1>4. /\ sec' \in [Buckets -> Int]
      /\ sec'[bucket] = sec[bucket] + d
      /\ \A b \in Buckets \ {bucket} : sec'[b] = sec[b]
  BY <1>1, <1>2, <1>3 DEF TypeOK, Time, Buckets
<1>5. sec'["in"] + sec'["blocked"] + sec'["out"] = segmentStart + d
  BY <1>1, <1>2, <1>3, <1>4 DEF Buckets, Time
<1>6. segmentStart + d = Clamp(at)
  BY <1>1 DEF d, Time
<1>7. \A b \in Buckets : sec'[b] \in Time
  <2>1. \A b \in Buckets : sec'[b] >= 0 /\ sec'[b] \in Int
    BY <1>1, <1>2, <1>3, <1>4 DEF Buckets, Time
  <2>2. Buckets = {"in", "blocked", "out"}
    BY DEF Buckets
  <2> QED
    BY <1>1, <1>5, <1>6, <2>1, <2>2 DEF Time
<1> QED
  BY <1>4, <1>5, <1>6, <1>7 DEF SegmentTime

\* Sampling keeps the account and leaves a segment in its true bucket.
LEMMA Sampling ==
  ASSUME TypeOK, TimeAccounted, NEW at \in Time, Resample(at)
  PROVE  /\ sec' \in [Buckets -> Time] /\ segmentStart' \in Time /\ bucket' \in Buckets
         /\ SegmentTime(sec') = segmentStart'
         /\ evaluator = "profile" /\ bucket = Schedule[segmentStart]
              => bucket' = Schedule[segmentStart']
         /\ evaluator = "sequence" => bucket' = answer
<1>0. Clamp(at) \in Time /\ Sampled(Clamp(at)) \in Buckets
  BY ClampType, ReportAssumption DEF TypeOK, Sampled, Time
<1>1. CASE Sampled(Clamp(at)) # bucket
  <2>1. /\ Accrue(at) /\ bucket' = Sampled(Clamp(at)) /\ segmentStart' = Clamp(at)
    BY <1>1 DEF Resample
  <2> QED
    BY <1>0, <2>1, Accrual DEF Sampled
<1>2. CASE Sampled(Clamp(at)) = bucket
  BY <1>2 DEF Resample, TypeOK, TimeAccounted, Sampled
<1> QED
  BY <1>1, <1>2

-------------------------------------------------------------------------------
(* The inductive invariant *)

LEMMA InitInv == Init => Inv
<1> SUFFICES ASSUME Init PROVE Inv
  OBVIOUS
<1>1. 0 \in Time /\ Schedule[0] \in Buckets /\ Sampled(0) \in Buckets
  BY ReportAssumption DEF Init, Sampled, Time, Buckets
<1>2. /\ Buckets = {"in", "blocked", "out"}
      /\ [b \in Buckets |-> 0] \in [Buckets -> Time]
  BY <1>1 DEF Buckets
<1>3. NoEvent \in Events /\ NoReport \in Reports
  BY <1>1, <1>2 DEF NoEvent, Events, NoReport, Reports
<1>4. TypeOK
  <2>1. local \in [Callers -> [end : Time, unsub : BOOLEAN]]
    BY <1>1 DEF Init
  <2>2. report \in [Callers -> Reports]
    BY <1>3 DEF Init
  <2> QED
    BY <1>1, <1>2, <1>3, <2>1, <2>2, ReportAssumption DEF Init, TypeOK
<1>5. TimeAccounted
  BY <1>2 DEF Init, TimeAccounted, SegmentTime
<1> QED
  BY <1>4, <1>5 DEF Init, Inv, SegmentFaithful, RunCovered, AnswerTold, Sampled

\* Callers that stay as they are keep the report covered.
LEMMA CoveredStays ==
  ASSUME RunCovered, finalized' = finalized, finalized => sec' = sec,
         UNCHANGED report, \A c \in Callers : pc[c] = "returned" => pc'[c] = "returned"
  PROVE  RunCovered'
BY DEF RunCovered

\* The clock, the driver and the ticker keep the invariant.
LEMMA ThreadStep ==
  ASSUME Inv, TimePasses \/ DriverTick \/ OnCoverage \/ Ticker
  PROVE  Inv'
<1> USE DEF Inv
<1>0. /\ Horizon \in Nat /\ Schedule \in [Time -> Buckets]
      /\ now \in Time /\ lastTick \in Time /\ event.at \in Time
  BY ReportAssumption DEF TypeOK, Time, Events
<1>1. CASE TimePasses
  <2>1. now' \in Time
    BY <1>0, <1>1 DEF TimePasses, Time
  <2> QED
    BY <1>1, <2>1, CoveredStays
    DEF TimePasses, TypeOK, TimeAccounted, SegmentFaithful, AnswerTold, evalVars, driverVars,
        tickerVars, countVars,
        closeVars, callerVars
<1>2. CASE DriverTick
  <2>1. PICK b \in Buckets :
          /\ drvPc = "idle" /\ Ticked(b) /\ seen # b /\ seen' = b
          /\ IF (seen = "nothing" \/ (seen = "in") # (b = "in")) /\ subscribed
               THEN /\ drvPc' = "handle"
                    /\ \E kind \in {"window_opened", "window_closed"} :
                         event' = [kind |-> kind, at |-> now]
               ELSE UNCHANGED <<drvPc, event>>
    BY <1>2 DEF DriverTick
  <2>2. /\ trueOpens' \in Nat /\ trueCloses' \in Nat
        /\ UNCHANGED <<now, tickerVars, countVars, closeVars, callerVars>>
    BY <1>2 DEF DriverTick, Count, TypeOK
  <2>3. event' \in Events /\ seen' \in Buckets /\ drvPc' \in {"idle", "handle"}
    BY <1>0, <2>1 DEF Events, TypeOK
  <2>4. /\ evaluator' = evaluator /\ answer' \in Buckets /\ lastWall' \in Time
        /\ evaluator = "sequence" => b # "blocked" /\ answer' = b
    BY <1>0, <2>1 DEF Ticked, evalVars, TypeOK
  <2>5. TypeOK'
    BY <2>2, <2>3, <2>4 DEF TypeOK, tickerVars, countVars, closeVars, callerVars
  <2>6. AnswerTold'
    BY <2>1, <2>4 DEF AnswerTold
  <2>7. SegmentFaithful'
    <3>1. CASE evaluator = "profile"
      BY <2>2, <2>4, <3>1 DEF SegmentFaithful, countVars
    <3>2. CASE evaluator = "sequence"
      <4>1. subscribed => drvPc' = "handle"
        BY <2>1, <2>4, <3>2 DEF AnswerTold, TypeOK, Buckets
      <4> QED
        BY <2>2, <2>4, <3>2, <4>1 DEF SegmentFaithful, closeVars
    <3> QED
      BY <3>1, <3>2 DEF TypeOK
  <2> QED
    BY <2>2, <2>5, <2>6, <2>7, CoveredStays DEF TimeAccounted, countVars, callerVars
<1>3. CASE OnCoverage
  <2>1. /\ drvPc' = "idle" /\ event' \in Events
        /\ UNCHANGED <<now, evalVars, seen, trueOpens, trueCloses, tickerVars, closeVars,
                       callerVars>>
    BY <1>3, ReportAssumption DEF OnCoverage, NoEvent, Events, Time
  <2>2. CASE finalized
    <3>1. UNCHANGED countVars
      BY <1>3, <2>2 DEF OnCoverage
    <3> QED
      BY <2>1, <2>2, <3>1, CoveredStays
      DEF TypeOK, TimeAccounted, SegmentFaithful, AnswerTold, evalVars, tickerVars, countVars,
          closeVars, callerVars
  <2>3. CASE ~finalized
    <3>1. Resample(event.at) /\ UNCHANGED finalized
      BY <1>3, <2>3 DEF OnCoverage
    <3>2. opens' \in Nat /\ closes' \in Nat
      BY <1>3, <2>3 DEF OnCoverage, Count, TypeOK
    <3>3. /\ sec' \in [Buckets -> Time] /\ segmentStart' \in Time /\ bucket' \in Buckets
          /\ SegmentTime(sec') = segmentStart'
          /\ evaluator = "profile" => bucket' = Schedule[segmentStart']
          /\ evaluator = "sequence" => bucket' = answer
      BY <1>0, <2>3, <3>1, Sampling DEF SegmentFaithful
    <3> QED
      BY <2>1, <2>3, <3>1, <3>2, <3>3
      DEF TypeOK, TimeAccounted, SegmentFaithful, AnswerTold, evalVars, RunCovered, tickerVars,
          closeVars, callerVars
  <2> QED
    BY <2>2, <2>3
<1>4. CASE TickArm \/ TickStop \/ TickFire
  <2>1. /\ tickPc' \in {"arm", "select", "sample", "done"} /\ armed' \in BOOLEAN
        /\ lastTick' \in Time
        /\ UNCHANGED <<now, evalVars, driverVars, countVars, closeVars, callerVars>>
    BY <1>0, <1>4 DEF TickArm, TickStop, TickFire, TypeOK
  <2> QED
    BY <2>1, CoveredStays
    DEF TypeOK, TimeAccounted, SegmentFaithful, AnswerTold, evalVars, driverVars, countVars,
        closeVars, callerVars
<1>5. CASE SampleNow
  <2>1. /\ tickPc' = "arm"
        /\ UNCHANGED <<now, evalVars, driverVars, armed, lastTick, opens, closes, finalized,
                       closeVars, callerVars>>
    BY <1>5 DEF SampleNow
  <2>2. CASE finalized
    <3>1. UNCHANGED <<sec, bucket, segmentStart>>
      BY <1>5, <2>2 DEF SampleNow
    <3> QED
      BY <2>1, <2>2, <3>1, CoveredStays
      DEF TypeOK, TimeAccounted, SegmentFaithful, AnswerTold, evalVars, driverVars, closeVars,
          callerVars
  <2>3. CASE ~finalized
    <3>1. /\ sec' \in [Buckets -> Time] /\ segmentStart' \in Time /\ bucket' \in Buckets
          /\ SegmentTime(sec') = segmentStart'
          /\ evaluator = "profile" => bucket' = Schedule[segmentStart']
          /\ evaluator = "sequence" => bucket' = answer
      BY <1>0, <1>5, <2>3, Sampling DEF SampleNow, SegmentFaithful
    <3> QED
      BY <2>1, <2>3, <3>1
      DEF TypeOK, TimeAccounted, SegmentFaithful, AnswerTold, evalVars, RunCovered, driverVars,
          closeVars, callerVars
  <2> QED
    BY <2>2, <2>3
<1> QED
  BY <1>1, <1>2, <1>3, <1>4, <1>5 DEF Ticker

\* Close and Finalize keep the invariant.
LEMMA CallerStep ==
  ASSUME Inv, NEW c \in Callers, Caller(c)
  PROVE  Inv'
<1> USE DEF Inv
<1>1. CASE TakeFields(c) \/ CloseStop(c) \/ WaitTicker(c) \/ Unsubscribe(c)
  <2>1. /\ \E step \in {"close", "wait", "unsubscribe", "finalize"} : pc' = [pc EXCEPT ![c] = step]
        /\ pc[c] # "returned"
        /\ UNCHANGED <<now, evalVars, driverVars, tickerVars, countVars, report>>
        /\ stopTick' \in BOOLEAN /\ stopClosed' \in BOOLEAN
        /\ subscribed' \in BOOLEAN /\ unsub' \in BOOLEAN
    BY <1>1 DEF TakeFields, CloseStop, WaitTicker, Unsubscribe, Goto, TypeOK, closeVars
  <2>2. local' \in [Callers -> [end : Time, unsub : BOOLEAN]]
    <3>1. CASE TakeFields(c)
      <4>1. [end |-> now, unsub |-> unsub] \in [end : Time, unsub : BOOLEAN]
        BY DEF TypeOK
      <4> QED
        BY <3>1, <4>1 DEF TakeFields, TypeOK
    <3>2. CASE CloseStop(c) \/ WaitTicker(c) \/ Unsubscribe(c)
      BY <3>2 DEF CloseStop, WaitTicker, Unsubscribe, TypeOK
    <3> QED
      BY <1>1, <3>1, <3>2
  <2>3. /\ pc' \in [Callers -> {"idle", "close", "wait", "unsubscribe", "finalize", "returned"}]
        /\ \A d \in Callers : pc[d] = "returned" => pc'[d] = "returned"
    BY <2>1 DEF TypeOK
  <2>4. TypeOK'
    BY <2>1, <2>2, <2>3 DEF TypeOK, evalVars, driverVars, tickerVars, countVars
  <2>5. subscribed' => subscribed
    BY <1>1, Zenon DEF TakeFields, CloseStop, WaitTicker, Unsubscribe, closeVars
  <2> QED
    BY <2>1, <2>3, <2>4, <2>5, CoveredStays
    DEF TimeAccounted, SegmentFaithful, AnswerTold, evalVars, driverVars, countVars
<1>2. CASE Finalize(c)
  <2> DEFINE end == local[c].end
             r == [ended |-> end, sec |-> sec', opens |-> opens, closes |-> closes]
  <2>1. /\ pc[c] = "finalize" /\ finalized' = TRUE /\ end \in Time
        /\ pc' = [pc EXCEPT ![c] = "returned"] /\ report' = [report EXCEPT ![c] = r]
        /\ UNCHANGED <<now, evalVars, driverVars, tickerVars, bucket, opens, closes, closeVars,
                       local>>
    BY <1>2 DEF Finalize, Goto, TypeOK
  <2>2. /\ sec' \in [Buckets -> Time] /\ segmentStart' \in Time
        /\ SegmentTime(sec') = segmentStart'
        /\ finalized => sec' = sec
        /\ ~finalized => segmentStart' >= end
    <3>1. CASE finalized
      BY <1>2, <3>1 DEF Finalize, TypeOK, TimeAccounted
    <3>2. CASE ~finalized
      <4>1. Accrue(end) /\ segmentStart' = Clamp(end)
        BY <1>2, <3>2 DEF Finalize
      <4> QED
        BY <2>1, <3>2, <4>1, Accrual, ClampType
    <3> QED
      BY <3>1, <3>2
  <2>3. r \in Reports
    BY <2>1, <2>2 DEF Reports, TypeOK
  <2>4. report' \in [Callers -> Reports] /\ report'[c] = r /\ r.ended = end
    BY <2>1, <2>3 DEF TypeOK
  <2>5. /\ pc' \in [Callers -> {"idle", "close", "wait", "unsubscribe", "finalize", "returned"}]
        /\ pc'[c] = "returned"
        /\ \A d \in Callers \ {c} : pc'[d] = pc[d] /\ report'[d] = report[d]
    BY <2>1, <2>3 DEF TypeOK
  <2> HIDE DEF r, end
  <2>6. TypeOK'
    BY <2>1, <2>2, <2>4, <2>5 DEF TypeOK, evalVars, driverVars, tickerVars, closeVars
  <2>7. RunCovered'
    <3>1. CASE finalized
      <4>1. PICK d \in Callers : pc[d] = "returned" /\ SegmentTime(sec) >= report[d].ended
        BY <3>1 DEF RunCovered
      <4>2. d # c
        BY <2>1, <4>1
      <4>3. SegmentTime(sec') = SegmentTime(sec)
        BY <2>2, <3>1
      <4> QED
        BY <2>5, <4>1, <4>2, <4>3 DEF RunCovered
    <3>2. CASE ~finalized
      BY <2>2, <2>4, <2>5, <3>2 DEF RunCovered
    <3> QED
      BY <3>1, <3>2
  <2> QED
    BY <2>1, <2>2, <2>6, <2>7 DEF TimeAccounted, SegmentFaithful, AnswerTold, evalVars, driverVars
<1> QED
  BY <1>1, <1>2 DEF Caller

LEMMA Invariant == Spec => []Inv
<1>1. Inv /\ [Next]_vars => Inv'
  <2> SUFFICES ASSUME Inv, [Next]_vars PROVE Inv'
    OBVIOUS
  <2>1. CASE UNCHANGED vars
    BY <2>1
    DEF vars, evalVars, driverVars, tickerVars, countVars, closeVars, callerVars, Inv, TypeOK,
        TimeAccounted,
        SegmentFaithful, RunCovered, AnswerTold
  <2> QED
    BY <2>1, ThreadStep, CallerStep DEF Next
<1> QED
  BY InitInv, <1>1, PTL DEF Spec

-------------------------------------------------------------------------------
(* The theorems *)

\* No field leaves its domain; in particular no bucket exceeds the run.
THEOREM TypeCorrect == Spec => []TypeOK
BY Invariant, PTL DEF Inv

\* The buckets add up to the time before the running segment.
THEOREM NoTimeLost == Spec => []TimeAccounted
BY Invariant, PTL DEF Inv

\* The running segment is in its true bucket: a profile's for the instant it starts
\* at, a pass sequence's once the driver's event is handled.
THEOREM SegmentsFaithful == Spec => []SegmentFaithful
BY Invariant, PTL DEF Inv

\* A finalized report accounts for the run up to the first Finalize.
THEOREM ReportCoversRun == Spec => []RunCovered
BY Invariant, PTL DEF Inv

\* Late events, late ticks and later calls of Finalize leave the numbers alone.
THEOREM Frozen == Spec => FrozenOnceFinalized
<1>1. [Next]_vars => [finalized => UNCHANGED countVars]_vars
  <2> SUFFICES ASSUME Next, finalized PROVE UNCHANGED countVars
    OBVIOUS
  <2>1. CASE TimePasses \/ DriverTick \/ OnCoverage
    BY <2>1 DEF TimePasses, DriverTick, OnCoverage
  <2>2. CASE Ticker
    BY <2>2 DEF Ticker, TickArm, TickStop, TickFire, SampleNow, countVars
  <2>3. CASE \E c \in Callers : Caller(c)
    <3>1. PICK c \in Callers : Caller(c)
      BY <2>3
    <3>2. CASE Finalize(c)
      BY <3>2 DEF Finalize, countVars
    <3> QED
      BY <3>1, <3>2 DEF Caller, TakeFields, CloseStop, WaitTicker, Unsubscribe
  <2> QED
    BY <2>1, <2>2, <2>3 DEF Next
<1> QED
  BY <1>1, PTL DEF Spec, FrozenOnceFinalized
===============================================================================
