------------------------------- MODULE Messaging -------------------------------
(***************************************************************************)
(* Store-and-forward messaging (internal/module/messaging) with the mock   *)
(* IMS adapter (internal/kernel/imsadapter/mock.go).  Three kinds of       *)
(* goroutine share the store: HTTP senders (handleSend), one driver per    *)
(* device that publishes window_opened and so flushes the recipient        *)
(* (OnCoverageEvent), and one goroutine per submitted message that runs    *)
(* the adapter's lifecycle.  Every Store method is one step under its      *)
(* mutex; everything between two of them interleaves.                      *)
(***************************************************************************)
EXTENDS Naturals, Sequences, FiniteSets

CONSTANTS
  Messages,       \* the messages senders may post; also names their adapter goroutines
  Devices,        \* devices that receive; also names their drivers
  Senders,        \* HTTP goroutines
  Cloud,          \* CloudRecipient
  To,             \* the recipient of each message
  NoMessage,      \* a goroutine works on no message
  Capacity,       \* MaxMessages
  ShortGaps,      \* coverage may change twice between two ticks of a driver
  SubmitMayFail   \* the adapter may refuse a message

ASSUME MessagingAssumption ==
  /\ Messages \cap (Devices \cup Senders) = {}
  /\ Devices \cap Senders = {}
  /\ Cloud \notin Devices
  /\ To \in [Messages -> Devices \cup {Cloud}]
  /\ NoMessage \notin Messages
  /\ IsFiniteSet(Messages)
  /\ Capacity \in Nat \ {0}
  /\ ShortGaps \in BOOLEAN
  /\ SubmitMayFail \in BOOLEAN

VARIABLES
  status,     \* each message's Status; "unsent" before, "gone" after the store
  older,      \* the messages whose time stamp precedes each message's
  handed,     \* how often each message was handed to adapter.Submit (history)
  announced,  \* the statuses published for each message, in order (history)
  inCov,      \* what each device's evaluator says now
  prevInCov,  \* Loop.prevInCoverage of each device's driver
  closed,     \* Module.Close has cancelled the context
  pc,         \* where each goroutine is
  msg,        \* the message each goroutine works on
  todo,       \* the rest of the PendingFor snapshot a flush still has to release
  local       \* a status a goroutine holds: read by Get or about to be set

vars == <<status, older, handed, announced, inCov, prevInCov, closed, pc, msg, todo, local>>

Releasers == Senders \cup Devices
Workers == Releasers \cup Messages

Settled == {"delivered", "failed"}
Stored == {"queued", "in_flight"} \cup Settled
Statuses == Stored \cup {"unsent", "accepted", "gone"}

\* handleSend and flushRecipient, the lifecycle goroutine, and publishStatus.
Steps == {"idle", "accept", "ready", "flush", "claim", "submit", "lifecycle", "settle",
          "get_accepted", "get_claimed", "get_settled",
          "publish_accepted", "publish_claimed", "publish_settled"}

TypeOK ==
  /\ status \in [Messages -> Statuses]
  /\ older \in [Messages -> SUBSET Messages]
  /\ handed \in [Messages -> Nat]
  /\ announced \in [Messages -> Seq(Stored)]
  /\ inCov \in [Devices -> BOOLEAN]
  /\ prevInCov \in [Devices -> BOOLEAN]
  /\ closed \in BOOLEAN
  /\ pc \in [Workers -> Steps]
  /\ msg \in [Workers -> Messages \cup {NoMessage}]
  /\ todo \in [Workers -> SUBSET Messages]
  /\ local \in [Workers -> Statuses]

\* A driver starts as if it had last seen the device out of coverage: its first
\* tick announces whatever it finds.
Init ==
  /\ status = [m \in Messages |-> "unsent"]
  /\ older = [m \in Messages |-> {}]
  /\ handed = [m \in Messages |-> 0]
  /\ announced = [m \in Messages |-> <<>>]
  /\ inCov \in [Devices -> BOOLEAN]
  /\ prevInCov = [d \in Devices |-> FALSE]
  /\ closed = FALSE
  /\ pc = [w \in Workers |-> "idle"]
  /\ msg = [w \in Workers |-> NoMessage]
  /\ todo = [w \in Workers |-> {}]
  /\ local = [w \in Workers |-> "unsent"]

storeVars == <<status, older, handed>>
covVars == <<inCov, prevInCov>>

-------------------------------------------------------------------------------
(* Helpers *)

\* m is the oldest of S by time stamp.
Oldest(m, S) == m \in S /\ older[m] \cap S = {}

\* The message m gets the latest of all time stamps.
Stamp(m) ==
  older' = [n \in Messages |-> IF n = m THEN {k \in Messages : status[k] # "unsent"} \ {m}
                                        ELSE older[n] \ {m}]

Goto(w, step) == pc' = [pc EXCEPT ![w] = step]

InStore == {m \in Messages : status[m] \in Stored}

\* The goroutine is done with its message: release the next of the snapshot,
\* oldest first, or return.
Finish(w) ==
  /\ IF todo[w] = {}
       THEN /\ Goto(w, "idle")
            /\ msg' = [msg EXCEPT ![w] = NoMessage]
            /\ UNCHANGED todo
       ELSE \E m \in todo[w] :
            /\ Oldest(m, todo[w])
            /\ Goto(w, "claim")
            /\ msg' = [msg EXCEPT ![w] = m]
            /\ todo' = [todo EXCEPT ![w] = @ \ {m}]

-------------------------------------------------------------------------------
(* publishStatus: Get under the store's mutex, PublishMessage after it *)

\* What the goroutine goes on to once the status is published.
AfterPublish(w) ==
  CASE pc[w] \in {"get_accepted", "publish_accepted"} -> "ready"
    [] pc[w] \in {"get_claimed", "publish_claimed"}   -> "submit"
    [] OTHER                                          -> "idle"

Proceed(w) ==
  IF AfterPublish(w) = "idle" THEN Finish(w)
  ELSE Goto(w, AfterPublish(w)) /\ UNCHANGED <<msg, todo>>

PublishStep(step) ==
  CASE step = "get_accepted" -> "publish_accepted"
    [] step = "get_claimed"  -> "publish_claimed"
    [] step = "get_settled"  -> "publish_settled"

\* Mutant: the copy is published although the message may have been evicted.
GetUnchecked(w) ==
  /\ pc[w] \in {"get_accepted", "get_claimed", "get_settled"}
  /\ local' = [local EXCEPT ![w] = status[msg[w]]]
  /\ Goto(w, PublishStep(pc[w]))
  /\ UNCHANGED <<storeVars, announced, covVars, closed, msg, todo>>

\* Store.Get finds the message and copies its status.
Get(w) ==
  /\ pc[w] \in {"get_accepted", "get_claimed", "get_settled"}
  /\ status[msg[w]] \in Stored
  /\ local' = [local EXCEPT ![w] = status[msg[w]]]
  /\ Goto(w, PublishStep(pc[w]))
  /\ UNCHANGED <<storeVars, announced, covVars, closed, msg, todo>>

\* The message has been evicted: nothing is published.
GetMissing(w) ==
  /\ pc[w] \in {"get_accepted", "get_claimed", "get_settled"}
  /\ status[msg[w]] \notin Stored
  /\ Proceed(w)
  /\ UNCHANGED <<storeVars, announced, covVars, closed, local>>

Publish(w) ==
  /\ pc[w] \in {"publish_accepted", "publish_claimed", "publish_settled"}
  /\ announced' = [announced EXCEPT ![msg[w]] = Append(@, local[w])]
  /\ local' = [local EXCEPT ![w] = "unsent"]
  /\ Proceed(w)
  /\ UNCHANGED <<storeVars, covVars, closed>>

-------------------------------------------------------------------------------
(* handleSend *)

\* The request is valid; Accept takes the time stamp before the store's mutex.
Send(s, m) ==
  /\ pc[s] = "idle"
  /\ status[m] = "unsent"
  /\ status' = [status EXCEPT ![m] = "accepted"]
  /\ Stamp(m)
  /\ msg' = [msg EXCEPT ![s] = m]
  /\ Goto(s, "accept")
  /\ UNCHANGED <<handed, announced, covVars, closed, todo, local>>

\* Mutant: anything that is not queued may be evicted first.
EvictableNotQueued ==
  LET others == {m \in Messages : status[m] \in Stored \ {"queued"}}
  IN  IF others # {} THEN others ELSE {m \in Messages : status[m] = "queued"}

\* evictOneLocked: the oldest settled message, else the oldest queued one.
Evictable ==
  LET settled == {m \in Messages : status[m] \in Settled}
  IN  IF settled # {} THEN settled ELSE {m \in Messages : status[m] = "queued"}

AcceptRoom(s) ==
  /\ pc[s] = "accept"
  /\ Cardinality(InStore) < Capacity
  /\ status' = [status EXCEPT ![msg[s]] = "queued"]
  /\ Goto(s, "get_accepted")
  /\ UNCHANGED <<older, handed, announced, covVars, closed, msg, todo, local>>

AcceptEvicting(s) ==
  /\ pc[s] = "accept"
  /\ Cardinality(InStore) >= Capacity
  /\ \E victim \in Evictable :
        /\ Oldest(victim, Evictable)
        /\ status' = [status EXCEPT ![msg[s]] = "queued", ![victim] = "gone"]
  /\ Goto(s, "get_accepted")
  /\ UNCHANGED <<older, handed, announced, covVars, closed, msg, todo, local>>

\* ErrStoreFull: everything stored is in flight.
AcceptFull(s) ==
  /\ pc[s] = "accept"
  /\ Cardinality(InStore) >= Capacity
  /\ Evictable = {}
  /\ status' = [status EXCEPT ![msg[s]] = "gone"]
  /\ Goto(s, "idle")
  /\ msg' = [msg EXCEPT ![s] = NoMessage]
  /\ UNCHANGED <<older, handed, announced, covVars, closed, todo, local>>

\* recipientReady asks the evaluator, not the driver.
Ready(s) ==
  /\ pc[s] = "ready"
  /\ IF To[msg[s]] = Cloud \/ inCov[To[msg[s]]]
       THEN Goto(s, "claim") /\ UNCHANGED <<msg, todo>>
       ELSE Finish(s)
  /\ UNCHANGED <<storeVars, announced, covVars, closed, local>>

-------------------------------------------------------------------------------
(* release *)

\* Mutant: ClaimQueued does not look at the status.
ClaimUnchecked(w) ==
  /\ pc[w] = "claim"
  /\ status[msg[w]] \in Stored
  /\ status' = [status EXCEPT ![msg[w]] = "in_flight"]
  /\ Goto(w, "get_claimed")
  /\ UNCHANGED <<older, handed, announced, covVars, closed, msg, todo, local>>

\* ClaimQueued succeeds.
Claim(w) ==
  /\ pc[w] = "claim"
  /\ status[msg[w]] = "queued"
  /\ status' = [status EXCEPT ![msg[w]] = "in_flight"]
  /\ Goto(w, "get_claimed")
  /\ UNCHANGED <<older, handed, announced, covVars, closed, msg, todo, local>>

\* Another goroutine has claimed the message, or it was evicted.
ClaimLost(w) ==
  /\ pc[w] = "claim"
  /\ status[msg[w]] # "queued"
  /\ Finish(w)
  /\ UNCHANGED <<storeVars, announced, covVars, closed, local>>

\* The adapter takes the message and starts its lifecycle goroutine; the two
\* run on.  The releasing goroutine goes on with the rest of its snapshot.
Submit(w) ==
  LET m == msg[w] IN
  /\ pc[w] = "submit"
  /\ handed' = [handed EXCEPT ![m] = @ + 1]
  /\ \/ /\ todo[w] = {}
        /\ pc' = [pc EXCEPT ![w] = "idle", ![m] = "lifecycle"]
        /\ msg' = [msg EXCEPT ![w] = NoMessage, ![m] = m]
        /\ UNCHANGED todo
     \/ \E n \in todo[w] :
        /\ Oldest(n, todo[w])
        /\ pc' = [pc EXCEPT ![w] = "claim", ![m] = "lifecycle"]
        /\ msg' = [msg EXCEPT ![w] = n, ![m] = m]
        /\ todo' = [todo EXCEPT ![w] = @ \ {n}]
  /\ UNCHANGED <<status, older, announced, covVars, closed, local>>

\* Mutant: the error of Submit is ignored.
SubmitErrorIgnored(w) ==
  /\ SubmitMayFail
  /\ pc[w] = "submit"
  /\ handed' = [handed EXCEPT ![msg[w]] = @ + 1]
  /\ Finish(w)
  /\ UNCHANGED <<status, older, announced, covVars, closed, local>>

\* Submit returns an error; the release goes on to mark the message failed.
SubmitFails(w) ==
  /\ SubmitMayFail
  /\ pc[w] = "submit"
  /\ handed' = [handed EXCEPT ![msg[w]] = @ + 1]
  /\ Stamp(msg[w])
  /\ local' = [local EXCEPT ![w] = "failed"]
  /\ Goto(w, "settle")
  /\ UNCHANGED <<status, announced, covVars, closed, msg, todo>>

-------------------------------------------------------------------------------
(* driveLifecycle and the receipt callback *)

\* Mutant: a failed delivery is not reported.
OutcomeUnreported(m) ==
  /\ pc[m] = "lifecycle"
  /\ ~closed
  /\ Finish(m)
  /\ UNCHANGED <<storeVars, announced, covVars, closed, local>>

\* The context is live: the message is delivered or fails.  Mock receipts of
\* "queued" and "in_flight" change nothing in the module.
Outcome(m) ==
  /\ pc[m] = "lifecycle"
  /\ ~closed
  /\ \E outcome \in Settled : local' = [local EXCEPT ![m] = outcome]
  /\ Stamp(m)
  /\ Goto(m, "settle")
  /\ UNCHANGED <<status, handed, announced, covVars, closed, msg, todo>>

Cancelled(m) ==
  /\ pc[m] = "lifecycle"
  /\ closed
  /\ Finish(m)
  /\ UNCHANGED <<storeVars, announced, covVars, closed, local>>

\* Mutant: the receipt callback does not publish.
SetStatusSilently(w) ==
  /\ pc[w] = "settle"
  /\ status' = [status EXCEPT ![msg[w]] = local[w]]
  /\ local' = [local EXCEPT ![w] = "unsent"]
  /\ Finish(w)
  /\ UNCHANGED <<older, handed, announced, covVars, closed>>

\* Store.SetStatus.
SetStatus(w) ==
  /\ pc[w] = "settle"
  /\ status' = IF status[msg[w]] \in Stored THEN [status EXCEPT ![msg[w]] = local[w]] ELSE status
  /\ local' = [local EXCEPT ![w] = "unsent"]
  /\ Goto(w, "get_settled")
  /\ UNCHANGED <<older, handed, announced, covVars, closed, msg, todo>>

Close ==
  /\ ~closed
  /\ closed' = TRUE
  /\ UNCHANGED <<storeVars, announced, covVars, pc, msg, todo, local>>

-------------------------------------------------------------------------------
(* Coverage, and the drivers that watch it *)

\* Time passes: the device enters or leaves coverage.  Unless gaps can be
\* short, the driver has ticked since the last change.
CoverageFlip(d) ==
  /\ ShortGaps \/ prevInCov[d] = inCov[d]
  /\ inCov' = [inCov EXCEPT ![d] = ~@]
  /\ UNCHANGED <<storeVars, announced, prevInCov, closed, pc, msg, todo, local>>

\* Mutant: the module is not told of the open window.
TickUnheard(d) ==
  /\ pc[d] = "idle"
  /\ prevInCov[d] # inCov[d]
  /\ prevInCov' = [prevInCov EXCEPT ![d] = inCov[d]]
  /\ UNCHANGED <<storeVars, announced, inCov, closed, pc, msg, todo, local>>

\* Loop.tick finds a change; window_opened goes on to OnCoverageEvent.
Tick(d) ==
  /\ pc[d] = "idle"
  /\ prevInCov[d] # inCov[d]
  /\ prevInCov' = [prevInCov EXCEPT ![d] = inCov[d]]
  /\ IF inCov[d] THEN Goto(d, "flush") ELSE UNCHANGED pc
  /\ UNCHANGED <<storeVars, announced, inCov, closed, msg, todo, local>>

\* Mutant: a flush releases the oldest message only.
FlushOldestOnly(d) ==
  LET pending == {m \in Messages : status[m] = "queued" /\ To[m] = d} IN
  /\ pc[d] = "flush"
  /\ IF pending = {}
       THEN Goto(d, "idle") /\ UNCHANGED msg
       ELSE \E m \in pending :
              /\ Oldest(m, pending)
              /\ Goto(d, "claim")
              /\ msg' = [msg EXCEPT ![d] = m]
  /\ UNCHANGED <<storeVars, announced, covVars, closed, todo, local>>

\* PendingFor: the snapshot of the queued messages to the device.
Flush(d) ==
  LET pending == {m \in Messages : status[m] = "queued" /\ To[m] = d} IN
  /\ pc[d] = "flush"
  /\ IF pending = {}
       THEN Goto(d, "idle") /\ UNCHANGED <<msg, todo>>
       ELSE \E m \in pending :
              /\ Oldest(m, pending)
              /\ Goto(d, "claim")
              /\ msg' = [msg EXCEPT ![d] = m]
              /\ todo' = [todo EXCEPT ![d] = pending \ {m}]
  /\ UNCHANGED <<storeVars, announced, covVars, closed, local>>

-------------------------------------------------------------------------------

PublishStatus(w) == Get(w) \/ GetMissing(w) \/ Publish(w)

Release(w) == Claim(w) \/ ClaimLost(w) \/ Submit(w) \/ SubmitFails(w) \/ SetStatus(w)

HandleSend(s) ==
  AcceptRoom(s) \/ AcceptEvicting(s) \/ AcceptFull(s) \/ Ready(s) \/ Release(s) \/ PublishStatus(s)

Drive(d) == Tick(d) \/ Flush(d) \/ Release(d) \/ PublishStatus(d)

DriveLifecycle(m) == Outcome(m) \/ Cancelled(m) \/ SetStatus(m) \/ PublishStatus(m)

Next ==
  \/ \E s \in Senders : HandleSend(s) \/ \E m \in Messages : Send(s, m)
  \/ \E d \in Devices : Drive(d) \/ CoverageFlip(d)
  \/ \E m \in Messages : DriveLifecycle(m)
  \/ Close

Spec == Init /\ [][Next]_vars

\* Goroutines are scheduled, tickers tick, and every window opens in the end.
Fairness ==
  /\ \A s \in Senders : WF_vars(HandleSend(s))
  /\ \A d \in Devices : WF_vars(Drive(d)) /\ WF_vars(~inCov[d] /\ CoverageFlip(d))
  /\ \A m \in Messages : WF_vars(DriveLifecycle(m))

FairSpec == Spec /\ Fairness

-------------------------------------------------------------------------------
(* The inductive invariant *)

\* No message is submitted to the IMS adapter twice, however senders and
\* drivers race for it.
AtMostOnce == \A m \in Messages : handed[m] <= 1

\* A message in flight is in the hands of one goroutine that will settle it:
\* whoever claimed it, and then its lifecycle; only Close can leave it behind.
Holds(w, m) ==
  /\ msg[w] = m
  /\ pc[w] \in {"get_claimed", "publish_claimed", "submit", "lifecycle", "settle"}

InFlightHeld ==
  \A m \in Messages :
    /\ \A v, w \in Workers : Holds(v, m) /\ Holds(w, m) => v = w
    /\ status[m] = "in_flight" => (\E w \in Workers : Holds(w, m)) \/ closed

\* Which goroutine can be where, and what it works on.
PlaceInv ==
  /\ \A w \in Workers : pc[w] \notin {"idle", "flush"} => msg[w] \in Messages
  /\ \A m \in Messages :
        /\ pc[m] \in {"idle", "lifecycle", "settle", "get_settled", "publish_settled"}
        /\ todo[m] = {}
        /\ pc[m] # "idle" => msg[m] = m
  /\ \A w \in Releasers : pc[w] # "lifecycle"

\* A status about to be set is an outcome; one about to be published was read.
LocalInv ==
  \A w \in Workers :
    /\ pc[w] = "settle" => local[w] \in Settled
    /\ pc[w] \in {"publish_accepted", "publish_claimed", "publish_settled"} => local[w] \in Stored

\* Every sender inserts a message of its own.
AcceptInv ==
  /\ \A w \in Workers : pc[w] = "accept" => status[msg[w]] = "accepted"
  /\ \A v, w \in Workers :
        pc[v] = "accept" /\ pc[w] = "accept" /\ msg[v] = msg[w] => v = w

\* A held message stays in flight, and its holder knows whether it was handed over.
HoldInv ==
  \A w \in Workers : \A m \in Messages :
    Holds(w, m) =>
      /\ status[m] = "in_flight"
      /\ handed[m] = IF pc[w] \in {"lifecycle", "settle"} THEN 1 ELSE 0

HandedInv ==
  \A m \in Messages :
    /\ status[m] \in {"unsent", "accepted", "queued"} => handed[m] = 0
    /\ pc[m] # "idle" => handed[m] = 1

IInv ==
  /\ TypeOK /\ PlaceInv /\ LocalInv /\ AcceptInv
  /\ AtMostOnce /\ InFlightHeld /\ HoldInv /\ HandedInv

-------------------------------------------------------------------------------
(* Properties *)

Quiet == \A w \in Workers : pc[w] = "idle"

\* No message is stranded: when nothing is going on and every driver has seen
\* its device's coverage, a reachable recipient has no queued messages.
NoneStranded ==
  Quiet => \A m \in Messages :
    status[m] = "queued" => To[m] # Cloud /\ ~(inCov[To[m]] /\ prevInCov[To[m]])

\* Every settled message that is still stored had its outcome published.
OutcomeAnnounced ==
  Quiet => \A m \in Messages :
    status[m] \in Settled => \E i \in DOMAIN announced[m] : announced[m][i] = status[m]

\* guides/report.md reads the event feed as "Latest status per ID": when all is
\* quiet, the last event of a settled message carries its outcome.
LatestEventIsOutcome ==
  Quiet => \A m \in Messages :
    status[m] \in Settled => /\ announced[m] # <<>>
                             /\ announced[m][Len(announced[m])] = status[m]

\* A queued message is released at some later window, or evicted.
QueuedIsReleased == \A m \in Messages : status[m] = "queued" ~> status[m] # "queued"

\* A claimed message is settled, unless the module is closed.
ClaimedIsSettled ==
  \A m \in Messages : status[m] = "in_flight" ~> status[m] # "in_flight" \/ closed

\* Seen message by message, all of this is MessageLifecycle.
LifeState ==
  [m \in Messages |-> IF status[m] \in {"unsent", "accepted"} THEN "outside" ELSE status[m]]

Life == INSTANCE MessageLifecycle WITH state <- LifeState

Lifecycle == Life!LifeSpec
===============================================================================
