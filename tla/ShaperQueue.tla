------------------------------ MODULE ShaperQueue ------------------------------
(***************************************************************************)
(* The single-path sandbox (internal/module/devsandbox/module.go without a *)
(* router): coverage and link-state events put shaping commands on a       *)
(* bounded channel, and one goroutine, shaperLoop, executes them.  What an *)
(* event changes is changed under mu, but its command is sent after mu is  *)
(* released: commands of two goroutines may be queued in another order     *)
(* than their events were recorded.  Every coverage edge starts a new      *)
(* generation, and shaperLoop drops commands of an older one.              *)
(***************************************************************************)
EXTENDS Naturals, Sequences

CONSTANTS
  Callers,     \* goroutines that deliver events
  LinkStates,  \* impairment values a curve can produce
  FullLoss,    \* the qdisc setting of 100% loss
  NoState,     \* hasState is false
  NoCmd,       \* nothing to send, nothing to execute
  QueueCap,    \* capacity of shapeCh
  MaxEdges     \* bound on the coverage edges delivered

Settings == LinkStates \cup {FullLoss}

\* shaperCmd
Cmds == [set : Settings, gen : Nat]

ASSUME ShaperQueueAssumption ==
  /\ FullLoss \notin LinkStates
  /\ NoState \notin Settings
  /\ NoCmd \notin Cmds
  /\ QueueCap \in Nat \ {0}
  /\ MaxEdges \in Nat

VARIABLES
  inCoverage,  \* Module.inCoverage
  lastState,   \* Module.lastState, NoState while hasState is false
  gen,         \* Module.gen
  sending,     \* the command each caller has made and not sent yet
  queue,       \* shapeCh
  hand,        \* the command shaperLoop executes
  currentGen,  \* shaperLoop's currentGen
  qdisc,       \* what the netem qdisc does
  shaped,      \* the latest shaping command worked (history)
  raced        \* the latest event was delivered during another (history)

vars == <<inCoverage, lastState, gen, sending, queue, hand, currentGen, qdisc, shaped, raced>>

TypeOK ==
  /\ inCoverage \in BOOLEAN
  /\ lastState \in LinkStates \cup {NoState}
  /\ gen \in Nat
  /\ sending \in [Callers -> Cmds \cup {NoCmd}]
  /\ queue \in Seq(Cmds)
  /\ hand \in Cmds \cup {NoCmd}
  /\ currentGen \in Nat
  /\ qdisc \in Settings
  /\ shaped \in BOOLEAN
  /\ raced \in BOOLEAN

\* netem.Setup has installed the curves' first values.
Init ==
  /\ inCoverage = FALSE
  /\ lastState = NoState
  /\ gen = 0
  /\ sending = [c \in Callers |-> NoCmd]
  /\ queue = <<>>
  /\ hand = NoCmd
  /\ currentGen = 0
  /\ qdisc \in LinkStates
  /\ shaped = TRUE
  /\ raced = FALSE

-------------------------------------------------------------------------------
(* The handlers *)

\* Caller c may deliver an event; others may be about to send their commands.
Deliver(c) ==
  /\ sending[c] = NoCmd
  /\ raced' = \E d \in Callers : sending[d] # NoCmd

ToSend(c, setting, g) == sending' = [sending EXCEPT ![c] = [set |-> setting, gen |-> g]]

\* Mutant: the last link state is sent without asking hasState.
CoverageCallUnchecked(c, covered) ==
  /\ gen < MaxEdges
  /\ Deliver(c)
  /\ inCoverage' = covered
  /\ gen' = gen + 1
  /\ ToSend(c, IF covered THEN lastState ELSE FullLoss, gen + 1)
  /\ UNCHANGED <<lastState, queue, hand, currentGen, qdisc, shaped>>

\* Mutant: an opening waits for the next link state.
CoverageCallNoResume(c, covered) ==
  /\ gen < MaxEdges
  /\ Deliver(c)
  /\ inCoverage' = covered
  /\ gen' = gen + 1
  /\ IF covered THEN UNCHANGED sending ELSE ToSend(c, FullLoss, gen + 1)
  /\ UNCHANGED <<lastState, queue, hand, currentGen, qdisc, shaped>>

\* handleSinglePathCoverage, up to the send: a new generation in which the
\* qdisc drops everything, or carries the last link state if there is one.
CoverageCall(c, covered) ==
  /\ gen < MaxEdges
  /\ Deliver(c)
  /\ inCoverage' = covered
  /\ gen' = gen + 1
  /\ IF covered /\ lastState = NoState
       THEN UNCHANGED sending
       ELSE ToSend(c, IF covered THEN lastState ELSE FullLoss, gen + 1)
  /\ UNCHANGED <<lastState, queue, hand, currentGen, qdisc, shaped>>

\* OnLinkState, up to the send.  Out of coverage the state is only recorded.
LinkCall(c, state) ==
  /\ Deliver(c)
  /\ lastState' = state
  /\ IF inCoverage THEN ToSend(c, state, gen) ELSE UNCHANGED sending
  /\ UNCHANGED <<inCoverage, gen, queue, hand, currentGen, qdisc, shaped>>

\* Mutant: a command that finds the channel full is dropped.
SendOrDrop(c) ==
  /\ sending[c] # NoCmd
  /\ queue' = IF Len(queue) < QueueCap THEN Append(queue, sending[c]) ELSE queue
  /\ sending' = [sending EXCEPT ![c] = NoCmd]
  /\ UNCHANGED <<inCoverage, lastState, gen, hand, currentGen, qdisc, shaped, raced>>

\* m.shapeCh <- cmd: the caller waits while the channel is full.
Send(c) ==
  /\ sending[c] # NoCmd
  /\ Len(queue) < QueueCap
  /\ queue' = Append(queue, sending[c])
  /\ sending' = [sending EXCEPT ![c] = NoCmd]
  /\ UNCHANGED <<inCoverage, lastState, gen, hand, currentGen, qdisc, shaped, raced>>

-------------------------------------------------------------------------------
(* shaperLoop *)

\* Mutant: commands of the current generation are dropped as well.
SkipRepeated ==
  /\ hand = NoCmd
  /\ queue # <<>>
  /\ Head(queue).gen <= currentGen
  /\ queue' = Tail(queue)
  /\ UNCHANGED <<inCoverage, lastState, gen, sending, hand, currentGen, qdisc, shaped, raced>>

\* A command of a generation that is over is dropped.
Skip ==
  /\ hand = NoCmd
  /\ queue # <<>>
  /\ Head(queue).gen < currentGen
  /\ queue' = Tail(queue)
  /\ UNCHANGED <<inCoverage, lastState, gen, sending, hand, currentGen, qdisc, shaped, raced>>

\* Mutant: the generation is not looked at.
TakeAny ==
  /\ hand = NoCmd
  /\ queue # <<>>
  /\ hand' = Head(queue)
  /\ currentGen' = Head(queue).gen
  /\ queue' = Tail(queue)
  /\ UNCHANGED <<inCoverage, lastState, gen, sending, qdisc, shaped, raced>>

Take ==
  /\ hand = NoCmd
  /\ queue # <<>>
  /\ Head(queue).gen >= currentGen
  /\ hand' = Head(queue)
  /\ currentGen' = Head(queue).gen
  /\ queue' = Tail(queue)
  /\ UNCHANGED <<inCoverage, lastState, gen, sending, qdisc, shaped, raced>>

\* Shaper.Apply or Shaper.SetFullLoss, whose error is ignored.
Execute ==
  /\ hand # NoCmd
  /\ hand' = NoCmd
  /\ \/ qdisc' = hand.set /\ shaped' = TRUE
     \/ UNCHANGED qdisc /\ shaped' = FALSE
  /\ UNCHANGED <<inCoverage, lastState, gen, sending, queue, currentGen, raced>>

-------------------------------------------------------------------------------

ShaperLoop == Skip \/ Take \/ Execute

Next ==
  \/ \E c \in Callers :
        \/ \E covered \in BOOLEAN : CoverageCall(c, covered)
        \/ \E state \in LinkStates : LinkCall(c, state)
        \/ Send(c)
  \/ ShaperLoop

Spec == Init /\ [][Next]_vars

\* A command is cut off by shaperTimeout, and senders that wait for room in a
\* channel are served in the order they came.
FairSpec == Spec /\ WF_vars(ShaperLoop) /\ \A c \in Callers : SF_vars(Send(c))

-------------------------------------------------------------------------------
(* The inductive invariant *)

Queued == {queue[i] : i \in DOMAIN queue}

Sending == {sending[c] : c \in Callers}

\* The commands that have been made and not executed.
Pending == (Queued \cup Sending \cup {hand}) \ {NoCmd}

\* All events delivered have reached the kernel.
Drained == Pending = {}

\* The setting fits the coverage the latest edge reported.
Fits(setting) == IF inCoverage THEN setting \in LinkStates ELSE setting = FullLoss

\* No command is ahead of its time, and those of this generation fit it.
GenInv ==
  /\ currentGen <= gen
  /\ \A m \in Pending : m.gen <= gen /\ (m.gen = gen => Fits(m.set))
  /\ hand # NoCmd => hand.gen = currentGen

\* There is something this generation shapes the qdisc to.
Wanted == gen > 0 /\ (inCoverage => lastState # NoState)

\* Before the first edge the module is out of coverage and sends nothing.
StartInv == gen = 0 => ~inCoverage /\ Pending = {}

\* This generation has a command under way, or one that has been executed.
ShapeInv ==
  Wanted => \/ \E m \in Pending : m.gen = gen
            \/ currentGen = gen /\ (shaped => Fits(qdisc))

IInv == TypeOK /\ GenInv /\ StartInv /\ ShapeInv

NothingToSend == \A c \in Callers : sending[c] = NoCmd

\* The command made last, wherever it has got to, carries the latest link state,
\* if no other was about to be sent when it was made.
NewestInv ==
  LET newest == [set |-> lastState, gen |-> gen] IN
  inCoverage /\ lastState # NoState /\ ~raced =>
    /\ \A c, d \in Callers : sending[c] # NoCmd /\ sending[d] # NoCmd => c = d
    /\ \A c \in Callers : sending[c] # NoCmd => sending[c] = newest
    /\ NothingToSend /\ queue # <<>> => queue[Len(queue)] = newest
    /\ NothingToSend /\ queue = <<>> /\ hand # NoCmd => hand = newest
    /\ NothingToSend /\ queue = <<>> /\ hand = NoCmd /\ shaped => qdisc = lastState

-------------------------------------------------------------------------------
(* Properties *)

\* Fail closed: out of coverage the qdisc drops everything once the channel is
\* drained, however commands of several goroutines overtook each other, unless
\* the latest command failed.
FailClosed == Drained /\ ~inCoverage /\ gen > 0 /\ shaped => qdisc = FullLoss

\* Service resumes: in coverage the qdisc passes traffic once a link state is
\* known and the channel is drained.
ServedInCoverage ==
  Drained /\ inCoverage /\ lastState # NoState /\ shaped => qdisc \in LinkStates

\* The link state on the qdisc is the latest one, unless the latest event was
\* delivered while another goroutine was about to send.
LatestStateApplied ==
  Drained /\ inCoverage /\ lastState # NoState /\ shaped /\ ~raced => qdisc = lastState

\* An outage reaches the kernel: the qdisc closes, or coverage returns, or a
\* command fails, although the channel may be full of link states.
LossReachesKernel ==
  ~inCoverage /\ gen > 0 ~> qdisc = FullLoss \/ inCoverage \/ ~shaped
===============================================================================
