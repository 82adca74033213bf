---------------------------- MODULE ShaperQueueProof ----------------------------
(***************************************************************************)
(* Proofs about ShaperQueue, for any number of goroutines, link states and *)
(* edges, and any capacity: type correctness, and that the drained channel *)
(* leaves the qdisc closed out of coverage and open in coverage.           *)
(***************************************************************************)
EXTENDS ShaperQueue, TLAPS

-------------------------------------------------------------------------------
(* What the steps do to the pending commands *)

\* Sending appends to the queue.
LEMMA AppendRange ==
  ASSUME NEW q \in Seq(Cmds), NEW m \in Cmds
  PROVE  /\ Append(q, m) \in Seq(Cmds)
         /\ {Append(q, m)[i] : i \in DOMAIN Append(q, m)} = {q[i] : i \in DOMAIN q} \cup {m}
<1>1. /\ Append(q, m) \in Seq(Cmds)
      /\ DOMAIN Append(q, m) = DOMAIN q \cup {Len(q) + 1}
      /\ Append(q, m)[Len(q) + 1] = m
      /\ \A i \in DOMAIN q : Append(q, m)[i] = q[i]
  OBVIOUS
<1> QED
  BY <1>1

\* Taking the head leaves the rest.
LEMMA TailRange ==
  ASSUME NEW q \in Seq(Cmds), q # <<>>
  PROVE  /\ Tail(q) \in Seq(Cmds) /\ Head(q) \in Cmds
         /\ {q[i] : i \in DOMAIN q} = {Tail(q)[i] : i \in DOMAIN Tail(q)} \cup {Head(q)}
<1>1. /\ Tail(q) \in Seq(Cmds) /\ Head(q) \in Cmds
      /\ Len(q) \in Nat \ {0} /\ Len(Tail(q)) = Len(q) - 1
      /\ Head(q) = q[1]
      /\ DOMAIN q = 1..Len(q) /\ DOMAIN Tail(q) = 1..Len(Tail(q))
      /\ \A i \in 1..Len(Tail(q)) : Tail(q)[i] = q[i + 1]
  OBVIOUS
<1>2. {q[i] : i \in DOMAIN q} \subseteq {Tail(q)[i] : i \in DOMAIN Tail(q)} \cup {Head(q)}
  <2> SUFFICES ASSUME NEW i \in DOMAIN q
               PROVE  q[i] \in {Tail(q)[j] : j \in DOMAIN Tail(q)} \cup {Head(q)}
    OBVIOUS
  <2>1. CASE i = 1
    BY <1>1, <2>1
  <2>2. CASE i # 1
    <3>1. i - 1 \in DOMAIN Tail(q) /\ Tail(q)[i - 1] = q[i]
      BY <1>1, <2>2
    <3> QED
      BY <3>1
  <2> QED
    BY <2>1, <2>2
<1>3. {Tail(q)[i] : i \in DOMAIN Tail(q)} \cup {Head(q)} \subseteq {q[i] : i \in DOMAIN q}
  <2>1. \A i \in DOMAIN Tail(q) : i + 1 \in DOMAIN q /\ Tail(q)[i] = q[i + 1]
    BY <1>1
  <2>2. 1 \in DOMAIN q /\ q[1] = Head(q)
    BY <1>1
  <2> QED
    BY <2>1, <2>2
<1> QED
  BY <1>1, <1>2, <1>3

\* An event's command becomes pending, and nothing else does.
LEMMA PendingToSend ==
  ASSUME TypeOK, NEW c \in Callers, NEW setting \in Settings, NEW g \in Nat,
         sending[c] = NoCmd, ToSend(c, setting, g), UNCHANGED <<queue, hand>>
  PROVE  /\ sending' \in [Callers -> Cmds \cup {NoCmd}]
         /\ [set |-> setting, gen |-> g] \in Cmds
         /\ Pending' = Pending \cup {[set |-> setting, gen |-> g]}
<1> DEFINE m == [set |-> setting, gen |-> g]
<1>1. m \in Cmds /\ m # NoCmd
  BY ShaperQueueAssumption DEF Cmds
<1>2. /\ sending' \in [Callers -> Cmds \cup {NoCmd}]
      /\ sending'[c] = m
      /\ \A d \in Callers \ {c} : sending'[d] = sending[d]
  BY <1>1 DEF TypeOK, ToSend
<1>3. Sending' \ {NoCmd} = (Sending \ {NoCmd}) \cup {m}
  BY <1>1, <1>2 DEF Sending
<1>4. Queued' = Queued
  BY DEF Queued
<1> QED
  BY <1>1, <1>2, <1>3, <1>4 DEF Pending

\* Sending moves a command to the queue.
LEMMA PendingSend ==
  ASSUME TypeOK, NEW c \in Callers, Send(c)
  PROVE  /\ sending' \in [Callers -> Cmds \cup {NoCmd}] /\ queue' \in Seq(Cmds)
         /\ Pending' = Pending
<1>1. sending[c] \in Cmds /\ NoCmd \notin Cmds
  BY ShaperQueueAssumption DEF TypeOK, Send
<1>2. queue' \in Seq(Cmds) /\ Queued' = Queued \cup {sending[c]}
  BY <1>1, AppendRange DEF TypeOK, Send, Queued
<1>3. /\ sending' \in [Callers -> Cmds \cup {NoCmd}]
      /\ sending'[c] = NoCmd
      /\ \A d \in Callers \ {c} : sending'[d] = sending[d]
  BY DEF TypeOK, Send
<1>4. (Sending' \cup {sending[c]}) \ {NoCmd} = Sending \ {NoCmd}
  BY <1>1, <1>3 DEF Sending
<1> QED
  BY <1>1, <1>2, <1>3, <1>4 DEF Pending, Send

\* shaperLoop drops the head, takes it, or is done with what it took.
LEMMA PendingLoop ==
  ASSUME TypeOK
  PROVE  /\ Skip => /\ queue' \in Seq(Cmds) /\ Head(queue) \in Pending /\ Head(queue) \in Cmds
                    /\ Pending \subseteq Pending' \cup {Head(queue)}
                    /\ Pending' \subseteq Pending
         /\ Take => /\ queue' \in Seq(Cmds) /\ Head(queue) \in Pending /\ Head(queue) \in Cmds
                    /\ Pending' = Pending
         /\ Execute => /\ hand \in Pending /\ hand \in Cmds
                       /\ Pending \subseteq Pending' \cup {hand}
                       /\ Pending' \subseteq Pending
<1>1. CASE Skip
  <2>1. /\ queue' \in Seq(Cmds) /\ Head(queue) \in Cmds
        /\ Queued = Queued' \cup {Head(queue)}
    BY <1>1, TailRange DEF TypeOK, Skip, Queued
  <2>2. Sending' = Sending /\ hand' = hand
    BY <1>1 DEF Skip, Sending
  <2> QED
    BY <1>1, <2>1, <2>2, ShaperQueueAssumption DEF Pending, Skip, Take, Execute
<1>2. CASE Take
  <2>1. /\ queue' \in Seq(Cmds) /\ Head(queue) \in Cmds
        /\ Queued = Queued' \cup {Head(queue)}
    BY <1>2, TailRange DEF TypeOK, Take, Queued
  <2>2. Sending' = Sending /\ hand = NoCmd /\ hand' = Head(queue)
    BY <1>2 DEF Take, Sending
  <2> QED
    BY <1>2, <2>1, <2>2, ShaperQueueAssumption DEF Pending, Skip, Take, Execute
<1>3. CASE Execute
  <2>1. Sending' = Sending /\ Queued' = Queued /\ hand \in Cmds /\ hand' = NoCmd
    BY <1>3 DEF Execute, Sending, Queued, TypeOK
  <2> QED
    BY <1>3, <2>1, ShaperQueueAssumption DEF Pending, Skip, Take, Execute
<1> QED
  BY <1>1, <1>2, <1>3

\* All pending commands are commands.
LEMMA PendingType == TypeOK => Pending \subseteq Cmds
<1> SUFFICES ASSUME TypeOK PROVE Pending \subseteq Cmds
  OBVIOUS
<1>1. Queued \subseteq Cmds
  BY DEF TypeOK, Queued
<1>2. Sending \subseteq Cmds \cup {NoCmd}
  BY DEF TypeOK, Sending
<1> QED
  BY <1>1, <1>2 DEF Pending, TypeOK

-------------------------------------------------------------------------------
(* The inductive invariant *)

LEMMA InitIInv == Init => IInv
<1> SUFFICES ASSUME Init PROVE IInv
  OBVIOUS
<1>1. TypeOK
  <2>1. <<>> \in Seq(Cmds)
    OBVIOUS
  <2>2. [c \in Callers |-> NoCmd] \in [Callers -> Cmds \cup {NoCmd}]
    OBVIOUS
  <2> QED
    BY <2>1, <2>2 DEF Init, TypeOK, Settings
<1>2. Pending = {}
  BY DEF Init, Pending, Queued, Sending
<1> QED
  BY <1>1, <1>2 DEF Init, IInv, GenInv, StartInv, ShapeInv, Wanted

\* An event keeps the invariant: its command, if any, is of this generation.
LEMMA EventStep ==
  ASSUME IInv, NEW c \in Callers,
         \/ \E covered \in BOOLEAN : CoverageCall(c, covered)
         \/ \E state \in LinkStates : LinkCall(c, state)
  PROVE  IInv'
<1> USE DEF IInv
<1>0. Pending \subseteq Cmds /\ \A m \in Cmds : m.gen \in Nat
  BY PendingType DEF Cmds
<1>1. ASSUME NEW covered \in BOOLEAN, CoverageCall(c, covered) PROVE IInv'
  <2>0. /\ gen \in Nat /\ gen' = gen + 1 /\ currentGen' = currentGen /\ currentGen <= gen
        /\ currentGen \in Nat /\ lastState' = lastState /\ inCoverage' = covered
        /\ hand' = hand /\ raced' \in BOOLEAN
        /\ \A m \in Pending : m.gen # gen' /\ m.gen <= gen'
    BY <1>0, <1>1 DEF CoverageCall, Deliver, TypeOK, GenInv
  <2>1. CASE covered /\ lastState = NoState
    <3>1. Pending' = Pending /\ UNCHANGED <<sending, queue, qdisc, shaped>>
      BY <1>1, <2>1 DEF CoverageCall, Pending, Queued, Sending
    <3>2. TypeOK'
      BY <2>0, <3>1 DEF TypeOK
    <3> QED
      BY <2>0, <2>1, <3>1, <3>2 DEF GenInv, StartInv, ShapeInv, Wanted
  <2>2. CASE ~(covered /\ lastState = NoState)
    <3> DEFINE setting == IF covered THEN lastState ELSE FullLoss
               m == [set |-> setting, gen |-> gen + 1]
    <3>1. /\ setting \in Settings /\ gen + 1 \in Nat
          /\ IF covered THEN setting \in LinkStates ELSE setting = FullLoss
      BY <2>0, <2>2 DEF TypeOK, Settings
    <3>2. /\ ToSend(c, setting, gen + 1) /\ sending[c] = NoCmd
          /\ UNCHANGED <<queue, hand, qdisc, shaped>>
      BY <1>1, <2>2 DEF CoverageCall, Deliver
    <3> HIDE DEF setting
    <3>3. /\ sending' \in [Callers -> Cmds \cup {NoCmd}]
          /\ Pending' = Pending \cup {m}
      BY <3>1, <3>2, PendingToSend
    <3>4. m.set = setting /\ m.gen = gen'
      BY <2>0
    <3> HIDE DEF m
    <3>5. TypeOK'
      BY <2>0, <3>2, <3>3 DEF TypeOK
    <3>6. GenInv'
      <4>1. \A n \in Pending' : n.gen <= gen' /\ (n.gen = gen' => Fits(n.set)')
        BY <2>0, <3>1, <3>3, <3>4 DEF Fits
      <4> QED
        BY <2>0, <4>1 DEF GenInv
    <3>7. m \in Pending'
      BY <3>3
    <3> QED
      BY <2>0, <3>4, <3>5, <3>6, <3>7 DEF StartInv, ShapeInv
  <2> QED
    BY <2>1, <2>2
<1>2. ASSUME NEW state \in LinkStates, LinkCall(c, state) PROVE IInv'
  <2>0. /\ lastState' = state /\ raced' \in BOOLEAN /\ sending[c] = NoCmd
        /\ UNCHANGED <<inCoverage, gen, queue, hand, currentGen, qdisc, shaped>>
    BY <1>2 DEF LinkCall, Deliver
  <2>1. CASE ~inCoverage
    <3>1. Pending' = Pending /\ sending' = sending
      BY <1>2, <2>0, <2>1 DEF LinkCall, Pending, Queued, Sending
    <3>2. TypeOK'
      BY <2>0, <3>1 DEF TypeOK
    <3>3. Wanted' => Wanted
      BY <2>0, <2>1 DEF Wanted
    <3> QED
      BY <2>0, <3>1, <3>2, <3>3 DEF GenInv, StartInv, ShapeInv, Fits
  <2>2. CASE inCoverage
    <3> DEFINE m == [set |-> state, gen |-> gen]
    <3>1. state \in Settings /\ gen \in Nat /\ ToSend(c, state, gen)
      BY <1>2, <2>2 DEF LinkCall, TypeOK, Settings
    <3>2. /\ sending' \in [Callers -> Cmds \cup {NoCmd}]
          /\ Pending' = Pending \cup {m}
      BY <2>0, <3>1, PendingToSend
    <3>3. m.set = state /\ m.gen = gen' /\ m \in Pending'
      BY <2>0, <3>2
    <3> HIDE DEF m
    <3>4. TypeOK'
      BY <2>0, <3>2 DEF TypeOK
    <3>5. GenInv'
      BY <2>0, <2>2, <3>1, <3>2, <3>3 DEF GenInv, Fits, TypeOK
    <3> QED
      BY <2>0, <2>2, <3>3, <3>4, <3>5 DEF StartInv, ShapeInv
  <2> QED
    BY <2>1, <2>2 DEF TypeOK
<1> QED
  BY <1>1, <1>2

\* Moving commands along keeps the invariant: only older ones are dropped, and
\* the one that is executed fits the coverage if it is of this generation.
LEMMA CommandStep ==
  ASSUME IInv, (\E c \in Callers : Send(c)) \/ ShaperLoop
  PROVE  IInv'
<1> USE DEF IInv
<1>0. Pending \subseteq Cmds /\ \A m \in Cmds : m.gen \in Nat /\ m.set \in Settings
  BY PendingType DEF Cmds
<1>1. ASSUME NEW c \in Callers, Send(c) PROVE IInv'
  <2>1. /\ sending' \in [Callers -> Cmds \cup {NoCmd}] /\ queue' \in Seq(Cmds)
        /\ Pending' = Pending
    BY <1>1, PendingSend
  <2>2. UNCHANGED <<inCoverage, lastState, gen, hand, currentGen, qdisc, shaped, raced>>
    BY <1>1 DEF Send
  <2>3. TypeOK'
    BY <2>1, <2>2 DEF TypeOK
  <2> QED
    BY <2>1, <2>2, <2>3 DEF GenInv, StartInv, ShapeInv, Wanted, Fits
<1>2. CASE Skip
  <2>1. /\ queue' \in Seq(Cmds) /\ Head(queue) \in Pending
        /\ Pending \subseteq Pending' \cup {Head(queue)} /\ Pending' \subseteq Pending
    BY <1>2, PendingLoop
  <2>2. /\ UNCHANGED <<inCoverage, lastState, gen, sending, hand, currentGen, qdisc, shaped, raced>>
        /\ Head(queue).gen < currentGen
    BY <1>2 DEF Skip
  <2>3. TypeOK'
    BY <2>1, <2>2 DEF TypeOK
  <2>4. Head(queue).gen # gen
    BY <1>0, <2>1, <2>2 DEF GenInv, TypeOK
  <2> QED
    BY <2>1, <2>2, <2>3, <2>4 DEF GenInv, StartInv, ShapeInv, Wanted, Fits
<1>3. CASE Take
  <2>1. /\ queue' \in Seq(Cmds) /\ Head(queue) \in Pending /\ Head(queue) \in Cmds
        /\ Pending' = Pending
    BY <1>3, PendingLoop
  <2>2. /\ UNCHANGED <<inCoverage, lastState, gen, sending, qdisc, shaped, raced>>
        /\ hand' = Head(queue) /\ currentGen' = Head(queue).gen
        /\ currentGen <= Head(queue).gen
    BY <1>0, <1>3, <2>1 DEF Take, TypeOK
  <2>3. TypeOK' /\ Head(queue).gen <= gen
    BY <1>0, <2>1, <2>2 DEF TypeOK, GenInv
  <2>4. GenInv'
    BY <2>1, <2>2, <2>3 DEF GenInv, Fits
  <2>5. ShapeInv'
    <3> SUFFICES ASSUME Wanted PROVE \E m \in Pending : m.gen = gen \/ (currentGen = gen /\ m = Head(queue) /\ m.gen = gen)
      BY <2>1, <2>2 DEF ShapeInv, Wanted
    <3>1. CASE \E m \in Pending : m.gen = gen
      BY <3>1
    <3>2. CASE currentGen = gen
      BY <1>0, <2>1, <2>2, <2>3, <3>2 DEF TypeOK
    <3> QED
      BY <3>1, <3>2 DEF ShapeInv
  <2> QED
    BY <2>1, <2>2, <2>3, <2>4, <2>5 DEF StartInv
<1>4. CASE Execute
  <2>1. /\ hand \in Pending /\ hand \in Cmds
        /\ Pending \subseteq Pending' \cup {hand} /\ Pending' \subseteq Pending
    BY <1>4, PendingLoop
  <2>2. /\ UNCHANGED <<inCoverage, lastState, gen, sending, queue, currentGen, raced>>
        /\ hand' = NoCmd /\ hand # NoCmd
        /\ qdisc' \in Settings /\ shaped' \in BOOLEAN /\ (shaped' => qdisc' = hand.set)
    BY <1>0, <1>4, <2>1 DEF Execute, TypeOK
  <2>3. TypeOK'
    BY <2>2 DEF TypeOK
  <2>4. GenInv' /\ StartInv'
    BY <2>1, <2>2 DEF GenInv, StartInv, Fits
  <2>5. hand.gen = gen => currentGen = gen /\ Fits(hand.set)
    BY <2>1, <2>2 DEF GenInv
  <2>6. currentGen = gen => hand.gen = gen
    BY <2>2 DEF GenInv
  <2>7. ShapeInv'
    BY <2>1, <2>2, <2>5, <2>6 DEF ShapeInv, Wanted, Fits
  <2> QED
    BY <2>3, <2>4, <2>7
<1> QED
  BY <1>1, <1>2, <1>3, <1>4 DEF ShaperLoop

LEMMA Invariant == Spec => []IInv
<1>1. IInv /\ [Next]_vars => IInv'
  <2> SUFFICES ASSUME IInv, [Next]_vars PROVE IInv'
    OBVIOUS
  <2>1. CASE UNCHANGED vars
    BY <2>1 DEF vars, IInv, TypeOK, GenInv, StartInv, ShapeInv, Wanted, Fits, Pending, Queued, Sending
  <2>2. ASSUME NEW c \in Callers,
               \/ \E covered \in BOOLEAN : CoverageCall(c, covered)
               \/ \E state \in LinkStates : LinkCall(c, state)
        PROVE  IInv'
    BY <2>2, EventStep
  <2>3. CASE (\E c \in Callers : Send(c)) \/ ShaperLoop
    BY <2>3, CommandStep
  <2> QED
    BY <2>1, <2>2, <2>3 DEF Next
<1> QED
  BY InitIInv, <1>1, PTL DEF Spec

-------------------------------------------------------------------------------
(* The theorems *)

\* Every command that is queued or executed is a setting with a generation.
THEOREM TypeCorrect == Spec => []TypeOK
BY Invariant, PTL DEF IInv

\* The single-path sandbox fails closed, for any interleaving of the handlers'
\* unlocked sends and any capacity of the channel.
THEOREM SinglePathFailsClosed == Spec => []FailClosed
<1>1. IInv => FailClosed
  BY DEF IInv, ShapeInv, Wanted, Fits, FailClosed, Drained
<1> QED
  BY Invariant, <1>1, PTL

\* It carries traffic again once coverage is back and a link state is known.
THEOREM ServiceResumes == Spec => []ServedInCoverage
<1>1. IInv => ServedInCoverage
  BY DEF IInv, TypeOK, StartInv, ShapeInv, Wanted, Fits, ServedInCoverage, Drained
<1> QED
  BY Invariant, <1>1, PTL

\* The latest link state gets to the qdisc when events come from one goroutine
\* at a time, as the driver delivers them.
THEOREM LatestStateReaches == Spec => []LatestStateApplied
<1>1. Init => NewestInv
  BY DEF Init, NewestInv
<1>2. IInv /\ NewestInv /\ [Next]_vars => NewestInv'
  <2> SUFFICES ASSUME IInv, NewestInv, [Next]_vars,
                      inCoverage', lastState' # NoState, ~raced'
               PROVE  /\ \A c, d \in Callers : sending'[c] # NoCmd /\ sending'[d] # NoCmd => c = d
                      /\ \A c \in Callers : sending'[c] # NoCmd => sending'[c] = [set |-> lastState', gen |-> gen']
                      /\ NothingToSend' /\ queue' # <<>> =>
                            queue'[Len(queue')] = [set |-> lastState', gen |-> gen']
                      /\ NothingToSend' /\ queue' = <<>> /\ hand' # NoCmd =>
                            hand' = [set |-> lastState', gen |-> gen']
                      /\ NothingToSend' /\ queue' = <<>> /\ hand' = NoCmd /\ shaped' => qdisc' = lastState'
    BY DEF NewestInv
  <2>0. /\ TypeOK /\ sending \in [Callers -> Cmds \cup {NoCmd}] /\ queue \in Seq(Cmds)
        /\ NoCmd \notin Cmds
    BY ShaperQueueAssumption DEF IInv, TypeOK
  <2>1. ASSUME NEW c \in Callers,
               \/ \E covered \in BOOLEAN : CoverageCall(c, covered)
               \/ \E state \in LinkStates : LinkCall(c, state)
        PROVE  /\ sending'[c] = [set |-> lastState', gen |-> gen']
               /\ sending'[c] # NoCmd
               /\ \A d \in Callers \ {c} : sending'[d] = NoCmd
    <3>1. \A d \in Callers : sending[d] = NoCmd
      BY <2>1 DEF CoverageCall, LinkCall, Deliver
    <3>2. CASE \E covered \in BOOLEAN : CoverageCall(c, covered)
      <4>1. ToSend(c, lastState, gen + 1) /\ lastState' = lastState /\ gen' = gen + 1
        BY <3>2 DEF CoverageCall
      <4>2. lastState \in Settings /\ gen + 1 \in Nat
        BY <2>0, <4>1 DEF TypeOK, Settings
      <4> QED
        BY <2>0, <3>1, <4>1, <4>2 DEF ToSend, Cmds
    <3>3. CASE \E state \in LinkStates : LinkCall(c, state)
      <4>1. ToSend(c, lastState', gen) /\ gen' = gen /\ lastState' \in Settings /\ gen \in Nat
        BY <2>0, <3>3 DEF LinkCall, TypeOK, Settings
      <4> QED
        BY <2>0, <3>1, <4>1 DEF ToSend, Cmds
    <3> QED
      BY <2>1, <3>2, <3>3
  <2>2. ASSUME NEW c \in Callers, Send(c)
        PROVE  /\ \A d \in Callers : sending'[d] = NoCmd
               /\ queue' # <<>> /\ queue'[Len(queue')] = [set |-> lastState', gen |-> gen']
    <3>1. /\ inCoverage /\ lastState # NoState /\ ~raced /\ sending[c] # NoCmd
          /\ UNCHANGED <<lastState, gen>>
          /\ queue' = Append(queue, sending[c])
          /\ sending' = [sending EXCEPT ![c] = NoCmd]
      BY <2>2 DEF Send
    <3>2. /\ sending[c] = [set |-> lastState, gen |-> gen] /\ sending[c] \in Cmds
          /\ \A d \in Callers \ {c} : sending[d] = NoCmd
      BY <2>0, <3>1 DEF NewestInv
    <3>3. queue' # <<>> /\ queue'[Len(queue')] = sending[c]
      BY <2>0, <3>1, <3>2
    <3> QED
      BY <2>0, <3>1, <3>2, <3>3
  <2>3. ASSUME Skip \/ Take, NothingToSend
        PROVE  /\ hand = NoCmd /\ sending' = sending /\ UNCHANGED <<lastState, gen>>
               /\ queue' # <<>> => queue'[Len(queue')] = [set |-> lastState, gen |-> gen]
               /\ queue' = <<>> => Take /\ hand' = [set |-> lastState, gen |-> gen]
               /\ Skip => hand' = NoCmd
               /\ Take => hand' # NoCmd
    <3>1. /\ hand = NoCmd /\ queue # <<>> /\ queue' = Tail(queue)
          /\ UNCHANGED <<inCoverage, lastState, gen, sending, raced>>
      BY <2>3 DEF Skip, Take
    <3>2. queue[Len(queue)] = [set |-> lastState, gen |-> gen]
      BY <2>3, <3>1 DEF NewestInv
    <3>3. queue' # <<>> => queue'[Len(queue')] = queue[Len(queue)]
      BY <2>0, <3>1
    <3>4. queue' = <<>> => Head(queue) = queue[Len(queue)]
      <4>1. Len(Tail(queue)) = Len(queue) - 1 /\ Head(queue) = queue[1] /\ Len(queue) \in Nat
        BY <2>0, <3>1
      <4>2. Tail(queue) = <<>> => Len(Tail(queue)) = 0
        <5>1. Len(<<>>) = 0
          OBVIOUS
        <5> QED
          BY <5>1, Zenon
      <4>3. Tail(queue) = <<>> => Len(queue) = 1
        BY <4>1, <4>2
      <4> QED
        BY <3>1, <4>1, <4>3
    <3>5. queue' = <<>> => Take
      <4> SUFFICES ASSUME queue' = <<>>, Skip PROVE FALSE
        BY <2>3
      <4>1. Head(queue).gen = gen /\ Head(queue).gen < currentGen
        BY <3>2, <3>4 DEF Skip
      <4> QED
        BY <2>0, <4>1 DEF IInv, GenInv, TypeOK
    <3>6. Head(queue) \in Cmds
      BY <2>0, <3>1
    <3> QED
      BY <2>0, <2>3, <3>1, <3>2, <3>3, <3>4, <3>5, <3>6 DEF Skip, Take
  <2>4. ASSUME Execute
        PROVE  /\ UNCHANGED <<sending, queue, lastState, gen, inCoverage, raced>>
               /\ hand # NoCmd /\ hand' = NoCmd /\ (shaped' => qdisc' = hand.set)
    BY <2>4 DEF Execute
  <2>5. CASE \E c \in Callers : \/ \E covered \in BOOLEAN : CoverageCall(c, covered)
                                \/ \E state \in LinkStates : LinkCall(c, state)
    BY <2>1, <2>5 DEF NothingToSend
  <2>6. CASE \E c \in Callers : Send(c)
    BY <2>2, <2>6
  <2>7. CASE Skip \/ Take
    <3>1. UNCHANGED <<inCoverage, lastState, gen, sending, raced>>
      BY <2>7 DEF Skip, Take
    <3>2. CASE NothingToSend
      BY <2>3, <2>7, <3>1, <3>2 DEF NewestInv, NothingToSend
    <3>3. CASE ~NothingToSend
      BY <3>1, <3>3 DEF NewestInv, NothingToSend
    <3> QED
      BY <3>2, <3>3
  <2>8. CASE Execute
    <3>1. /\ UNCHANGED <<sending, queue, lastState, gen, inCoverage, raced>>
          /\ hand # NoCmd /\ hand' = NoCmd /\ (shaped' => qdisc' = hand.set)
      BY <2>4, <2>8
    <3>2. NothingToSend /\ queue = <<>> => hand.set = lastState
      BY <3>1 DEF NewestInv
    <3>3. NothingToSend' = NothingToSend
      BY <3>1 DEF NothingToSend
    <3> QED
      BY <3>1, <3>2, <3>3 DEF NewestInv
  <2>9. CASE UNCHANGED vars
    BY <2>9 DEF vars, NewestInv, NothingToSend
  <2> QED
    BY <2>5, <2>6, <2>7, <2>8, <2>9 DEF Next, ShaperLoop
<1>3. IInv /\ NewestInv => LatestStateApplied
  <2> SUFFICES ASSUME IInv, NewestInv, Drained PROVE NothingToSend /\ queue = <<>> /\ hand = NoCmd
    BY DEF NewestInv, LatestStateApplied
  <2>1. \A c \in Callers : sending[c] \in Sending
    BY DEF Sending
  <2>2. queue # <<>> => Head(queue) \in Queued /\ Head(queue) # NoCmd
    BY TailRange, ShaperQueueAssumption DEF IInv, TypeOK, Queued
  <2> QED
    BY <2>1, <2>2 DEF Drained, Pending, NothingToSend
<1> QED
  BY Invariant, <1>1, <1>2, <1>3, PTL DEF Spec
===============================================================================
