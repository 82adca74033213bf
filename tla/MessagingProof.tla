--------------------------- MODULE MessagingProof ---------------------------
(***************************************************************************)
(* Proofs about Messaging, for any messages, senders, devices and store    *)
(* size: type correctness, that no message is handed to the adapter twice, *)
(* that a message in flight always has exactly one goroutine to settle it, *)
(* that every outcome is announced, that no message is stranded if drivers *)
(* see every change of coverage, and that every message lives the life     *)
(* MessageLifecycle prescribes.                                            *)
(***************************************************************************)
EXTENDS Messaging, TLAPS

-------------------------------------------------------------------------------
(* What the operators do *)

\* Finish returns or moves on to a message of the snapshot, and touches only w.
LEMMA FinishEffect ==
  ASSUME TypeOK, NEW w \in Workers, Finish(w)
  PROVE  /\ pc' \in [Workers -> Steps]
         /\ msg' \in [Workers -> Messages \cup {NoMessage}]
         /\ todo' \in [Workers -> SUBSET Messages]
         /\ pc'[w] = "idle" \/ (pc'[w] = "claim" /\ msg'[w] \in Messages)
         /\ todo[w] = {} => pc'[w] = "idle" /\ todo' = todo
         /\ \A v \in Workers \ {w} : pc'[v] = pc[v] /\ msg'[v] = msg[v] /\ todo'[v] = todo[v]
<1>1. {"idle", "claim"} \subseteq Steps
  BY DEF Steps
<1>2. CASE todo[w] = {}
  BY <1>1, <1>2 DEF TypeOK, Finish, Goto
<1>3. CASE todo[w] # {}
  <2>1. PICK m \in todo[w] :
           /\ Goto(w, "claim")
           /\ msg' = [msg EXCEPT ![w] = m]
           /\ todo' = [todo EXCEPT ![w] = @ \ {m}]
    BY <1>3 DEF Finish
  <2>2. m \in Messages
    BY <2>1 DEF TypeOK
  <2> QED
    BY <1>1, <1>3, <2>1, <2>2 DEF TypeOK, Goto
<1> QED
  BY <1>2, <1>3

\* A goto touches only w.
LEMMA GotoEffect ==
  ASSUME TypeOK, NEW w \in Workers, NEW s \in Steps, Goto(w, s)
  PROVE  /\ pc' \in [Workers -> Steps]
         /\ pc'[w] = s
         /\ \A v \in Workers \ {w} : pc'[v] = pc[v]
BY DEF TypeOK, Goto

LEMMA StampType ==
  ASSUME TypeOK, NEW m \in Messages, Stamp(m)
  PROVE  older' \in [Messages -> SUBSET Messages]
BY DEF TypeOK, Stamp

\* Where publishStatus leads: on to the next step, or out as Finish does.
LEMMA ProceedEffect ==
  ASSUME TypeOK, NEW w \in Workers, Proceed(w)
  PROVE  /\ pc' \in [Workers -> Steps]
         /\ msg' \in [Workers -> Messages \cup {NoMessage}]
         /\ todo' \in [Workers -> SUBSET Messages]
         /\ \A v \in Workers \ {w} : pc'[v] = pc[v] /\ msg'[v] = msg[v] /\ todo'[v] = todo[v]
         /\ \/ pc[w] \in {"get_accepted", "publish_accepted"}
               /\ pc'[w] = "ready" /\ msg' = msg /\ todo' = todo
            \/ pc[w] \in {"get_claimed", "publish_claimed"}
               /\ pc'[w] = "submit" /\ msg' = msg /\ todo' = todo
            \/ /\ pc[w] \notin {"get_accepted", "publish_accepted", "get_claimed", "publish_claimed"}
               /\ pc'[w] = "idle" \/ (pc'[w] = "claim" /\ msg'[w] \in Messages)
               /\ todo[w] = {} => pc'[w] = "idle" /\ todo' = todo
<1>0. {"ready", "submit"} \subseteq Steps
  BY DEF Steps
<1>1. CASE pc[w] \in {"get_accepted", "publish_accepted"}
  <2>1. AfterPublish(w) = "ready"
    BY <1>1 DEF AfterPublish
  <2> QED
    BY <1>0, <1>1, <2>1, GotoEffect DEF Proceed, TypeOK
<1>2. CASE pc[w] \in {"get_claimed", "publish_claimed"}
  <2>1. AfterPublish(w) = "submit"
    BY <1>2 DEF AfterPublish
  <2> QED
    BY <1>0, <1>2, <2>1, GotoEffect DEF Proceed, TypeOK
<1>3. CASE pc[w] \notin {"get_accepted", "publish_accepted", "get_claimed", "publish_claimed"}
  <2>1. AfterPublish(w) = "idle"
    BY <1>3 DEF AfterPublish
  <2> QED
    BY <1>3, <2>1, FinishEffect DEF Proceed
<1> QED
  BY <1>1, <1>2, <1>3

-------------------------------------------------------------------------------
(* The inductive invariant *)

LEMMA InitIInv == Init => IInv
<1> SUFFICES ASSUME Init PROVE IInv
  OBVIOUS
<1>1. TypeOK
  <2>1. <<>> \in Seq(Stored)
    OBVIOUS
  <2>2. "idle" \in Steps /\ "unsent" \in Statuses
    BY DEF Steps, Statuses
  <2>3. announced \in [Messages -> Seq(Stored)]
    BY <2>1 DEF Init
  <2> QED
    BY <2>2, <2>3 DEF Init, TypeOK
<1>2. \A m \in Messages : m \in Workers
  BY DEF Workers
<1>3. \A w \in Workers : pc[w] = "idle" /\ todo[w] = {}
  BY DEF Init
<1>4. \A m \in Messages : status[m] = "unsent" /\ handed[m] = 0
  BY DEF Init
<1>5. PlaceInv
  BY <1>2, <1>3 DEF PlaceInv, Workers
<1> QED
  BY <1>1, <1>2, <1>3, <1>4, <1>5
     DEF IInv, LocalInv, AcceptInv, AtMostOnce, InFlightHeld, Holds, HoldInv, HandedInv

\* Next, flattened into its actions.
LEMMA StepCases ==
  ASSUME [Next]_vars
  PROVE  \/ \E s \in Senders, m \in Messages : Send(s, m)
         \/ \E s \in Senders : AcceptRoom(s) \/ AcceptEvicting(s) \/ AcceptFull(s) \/ Ready(s)
         \/ \E w \in Releasers : Claim(w) \/ ClaimLost(w) \/ Submit(w) \/ SubmitFails(w)
         \/ \E w \in Workers : SetStatus(w) \/ Get(w) \/ GetMissing(w) \/ Publish(w)
         \/ \E m \in Messages : Outcome(m) \/ Cancelled(m)
         \/ \E d \in Devices : Tick(d) \/ Flush(d) \/ CoverageFlip(d)
         \/ Close
         \/ UNCHANGED vars
<1>1. /\ \A s \in Senders : s \in Releasers /\ s \in Workers
      /\ \A d \in Devices : d \in Releasers /\ d \in Workers
      /\ \A m \in Messages : m \in Workers
  BY DEF Releasers, Workers
<1>2. ASSUME NEW s \in Senders, HandleSend(s)
      PROVE  \/ AcceptRoom(s) \/ AcceptEvicting(s) \/ AcceptFull(s) \/ Ready(s)
             \/ Claim(s) \/ ClaimLost(s) \/ Submit(s) \/ SubmitFails(s)
             \/ SetStatus(s) \/ Get(s) \/ GetMissing(s) \/ Publish(s)
  BY <1>2 DEF HandleSend, Release, PublishStatus
<1>3. ASSUME NEW d \in Devices, Drive(d)
      PROVE  \/ Tick(d) \/ Flush(d)
             \/ Claim(d) \/ ClaimLost(d) \/ Submit(d) \/ SubmitFails(d)
             \/ SetStatus(d) \/ Get(d) \/ GetMissing(d) \/ Publish(d)
  BY <1>3 DEF Drive, Release, PublishStatus
<1>4. ASSUME NEW m \in Messages, DriveLifecycle(m)
      PROVE  Outcome(m) \/ Cancelled(m) \/ SetStatus(m) \/ Get(m) \/ GetMissing(m) \/ Publish(m)
  BY <1>4 DEF DriveLifecycle, PublishStatus
<1> QED
  BY <1>1, <1>2, <1>3, <1>4 DEF Next

\* A step that changes no status and no hand-over, and moves one goroutine
\* within its program, keeps the invariant.
LEMMA Move ==
  ASSUME IInv, TypeOK', NEW w \in Workers,
         UNCHANGED <<status, handed, closed>>,
         \A v \in Workers \ {w} :
            pc'[v] = pc[v] /\ msg'[v] = msg[v] /\ todo'[v] = todo[v] /\ local'[v] = local[v],
         pc'[w] \notin {"idle", "flush"} => msg'[w] \in Messages,
         w \in Releasers => pc'[w] # "lifecycle",
         w \in Messages =>
            /\ todo'[w] = {}
            /\ \/ pc'[w] = "idle"
               \/ /\ pc'[w] \in {"settle", "get_settled", "publish_settled"}
                  /\ pc[w] # "idle"
                  /\ msg'[w] = w,
         pc'[w] # "accept",
         pc'[w] = "settle" => local'[w] \in Settled,
         pc'[w] \in {"publish_accepted", "publish_claimed", "publish_settled"} =>
            local'[w] \in Stored,
         \A m \in Messages : Holds(w, m)' => Holds(w, m),
         closed \/ \A m \in Messages : Holds(w, m) => Holds(w, m)',
         pc'[w] \in {"get_claimed", "publish_claimed", "submit", "lifecycle", "settle"} =>
            (pc[w] \in {"lifecycle", "settle"} <=> pc'[w] \in {"lifecycle", "settle"})
  PROVE  IInv'
<1> USE DEF IInv
<1>1. \A v \in Workers \ {w} : \A m \in Messages : Holds(v, m)' <=> Holds(v, m)
  BY DEF Holds
<1>2. \A v \in Workers : \A m \in Messages : Holds(v, m)' => Holds(v, m)
  BY <1>1
<1>3. PlaceInv'
  <2>1. \A m \in Messages : m \in Workers
    BY DEF Workers
  <2>2. \A v \in Releasers : v \in Workers
    BY DEF Workers
  <2> QED
    BY <2>1, <2>2 DEF PlaceInv
<1>4. LocalInv'
  BY DEF LocalInv
<1>5. AcceptInv'
  BY DEF AcceptInv
<1>6. AtMostOnce'
  BY DEF AtMostOnce
<1>7. InFlightHeld'
  BY <1>1, <1>2 DEF InFlightHeld
<1>8. HoldInv'
  <2> SUFFICES ASSUME NEW v \in Workers, NEW m \in Messages, Holds(v, m)'
               PROVE  /\ status[m] = "in_flight"
                      /\ handed[m] = IF pc'[v] \in {"lifecycle", "settle"} THEN 1 ELSE 0
    BY DEF HoldInv
  <2>1. Holds(v, m) /\ (pc[v] \in {"lifecycle", "settle"} <=> pc'[v] \in {"lifecycle", "settle"})
    BY <1>2 DEF Holds
  <2> QED
    BY <2>1 DEF HoldInv
<1>9. HandedInv'
  <2>1. \A m \in Messages : m \in Workers /\ (pc'[m] # "idle" => pc[m] # "idle")
    BY DEF Workers
  <2> QED
    BY <2>1 DEF HandedInv
<1> QED
  BY <1>3, <1>4, <1>5, <1>6, <1>7, <1>8, <1>9

\* Releasing goroutines are not lifecycle goroutines.
LEMMA Disjoint ==
  /\ \A w \in Releasers : w \in Workers /\ w \notin Messages
  /\ \A m \in Messages : m \in Workers /\ m \notin Releasers
  /\ \A s \in Senders : s \in Releasers /\ s \notin Devices
  /\ \A d \in Devices : d \in Releasers
BY MessagingAssumption DEF Releasers, Workers

-------------------------------------------------------------------------------
(* Steps that only move a goroutine *)

LEMMA ReadyStep == ASSUME IInv, NEW s \in Senders, Ready(s) PROVE IInv'
<1>1. s \in Workers /\ s \notin Messages /\ pc[s] = "ready"
  BY Disjoint DEF Ready
<1>2. msg[s] \in Messages
  BY <1>1 DEF IInv, PlaceInv
<1>3. CASE Goto(s, "claim") /\ UNCHANGED <<msg, todo>>
  <2>1. "claim" \in Steps
    BY DEF Steps
  <2>2. TypeOK'
    BY <1>1, <1>3, <2>1, GotoEffect DEF Ready, IInv, TypeOK, storeVars, covVars
  <2>3. pc'[s] = "claim" /\ \A v \in Workers \ {s} : pc'[v] = pc[v]
    BY <1>1, <1>3, <2>1, GotoEffect DEF IInv
  <2> QED
    BY <1>1, <1>2, <1>3, <2>2, <2>3, Move DEF Ready, storeVars, Holds
<1>4. CASE Finish(s)
  <2>1. TypeOK'
    BY <1>1, <1>4, FinishEffect DEF Ready, IInv, TypeOK, storeVars, covVars
  <2>2. /\ pc'[s] = "idle" \/ (pc'[s] = "claim" /\ msg'[s] \in Messages)
        /\ \A v \in Workers \ {s} : pc'[v] = pc[v] /\ msg'[v] = msg[v] /\ todo'[v] = todo[v]
    BY <1>1, <1>4, FinishEffect DEF IInv
  <2> QED
    BY <1>1, <2>1, <2>2, Move DEF Ready, storeVars, Holds
<1> QED
  BY <1>3, <1>4 DEF Ready

LEMMA ClaimLostStep == ASSUME IInv, NEW w \in Releasers, ClaimLost(w) PROVE IInv'
<1>1. w \in Workers /\ w \notin Messages /\ pc[w] = "claim" /\ Finish(w)
  BY Disjoint DEF ClaimLost
<1>2. TypeOK'
  BY <1>1, FinishEffect DEF ClaimLost, IInv, TypeOK, storeVars, covVars
<1>3. /\ pc'[w] = "idle" \/ (pc'[w] = "claim" /\ msg'[w] \in Messages)
      /\ \A v \in Workers \ {w} : pc'[v] = pc[v] /\ msg'[v] = msg[v] /\ todo'[v] = todo[v]
  BY <1>1, FinishEffect DEF IInv
<1> QED
  BY <1>1, <1>2, <1>3, Move DEF ClaimLost, storeVars, Holds

LEMMA GetStep == ASSUME IInv, NEW w \in Workers, Get(w) PROVE IInv'
<1> DEFINE s == PublishStep(pc[w])
<1>1. /\ pc[w] = "get_accepted" => s = "publish_accepted"
      /\ pc[w] = "get_claimed" => s = "publish_claimed"
      /\ pc[w] = "get_settled" => s = "publish_settled"
      /\ pc[w] \in {"get_accepted", "get_claimed", "get_settled"}
  BY DEF Get, PublishStep
<1>2. s \in Steps
  BY <1>1 DEF Steps
<1>3. pc' \in [Workers -> Steps] /\ pc'[w] = s /\ \A v \in Workers \ {w} : pc'[v] = pc[v]
  BY <1>2, GotoEffect DEF Get, IInv
<1>4. msg[w] \in Messages /\ (w \in Messages => pc[w] = "get_settled" /\ msg[w] = w /\ todo[w] = {})
  BY <1>1 DEF IInv, PlaceInv
<1>5. local'[w] \in Stored /\ \A v \in Workers \ {w} : local'[v] = local[v]
  BY DEF Get, IInv, TypeOK
<1>6. TypeOK'
  <2>1. local' \in [Workers -> Statuses]
    BY <1>4 DEF Get, IInv, TypeOK
  <2> QED
    BY <1>3, <2>1 DEF Get, IInv, TypeOK, storeVars, covVars
<1> HIDE DEF s
<1> QED
  BY <1>1, <1>3, <1>4, <1>5, <1>6, Move DEF Get, storeVars, Holds

LEMMA ProceedStep ==
  ASSUME IInv, TypeOK', NEW w \in Workers, Proceed(w),
         pc[w] \in {"get_accepted", "get_settled",
                    "publish_accepted", "publish_claimed", "publish_settled"},
         UNCHANGED <<status, handed, closed>>,
         \A v \in Workers \ {w} : local'[v] = local[v]
  PROVE  IInv'
<1>1. msg[w] \in Messages
  BY DEF IInv, PlaceInv
<1>2. w \in Messages => pc[w] \in {"get_settled", "publish_settled"} /\ todo[w] = {}
  BY DEF IInv, PlaceInv
<1>3. /\ \A v \in Workers \ {w} : pc'[v] = pc[v] /\ msg'[v] = msg[v] /\ todo'[v] = todo[v]
      /\ \/ pc[w] \in {"get_accepted", "publish_accepted"} /\ pc'[w] = "ready" /\ msg' = msg
         \/ pc[w] = "publish_claimed" /\ pc'[w] = "submit" /\ msg' = msg
         \/ /\ pc[w] \in {"get_settled", "publish_settled"}
            /\ pc'[w] = "idle" \/ (pc'[w] = "claim" /\ msg'[w] \in Messages)
            /\ todo[w] = {} => pc'[w] = "idle" /\ todo' = todo
  BY ProceedEffect DEF IInv
<1> QED
  BY <1>1, <1>2, <1>3, Move DEF Holds

LEMMA GetMissingStep == ASSUME IInv, NEW w \in Workers, GetMissing(w) PROVE IInv'
<1>1. msg[w] \in Messages
  BY DEF IInv, PlaceInv, GetMissing
<1>2. pc[w] # "get_claimed"
  BY <1>1 DEF GetMissing, IInv, HoldInv, Holds, Stored
<1>3. TypeOK'
  BY ProceedEffect DEF GetMissing, IInv, TypeOK, storeVars, covVars
<1> QED
  BY <1>2, <1>3, ProceedStep DEF GetMissing, storeVars

LEMMA PublishType == ASSUME IInv, NEW w \in Workers, Publish(w) PROVE TypeOK'
<1>1. msg[w] \in Messages /\ local[w] \in Stored
  BY DEF IInv, PlaceInv, LocalInv, Publish
<1>2. announced' \in [Messages -> Seq(Stored)]
  <2>1. announced[msg[w]] \in Seq(Stored)
    BY <1>1 DEF IInv, TypeOK
  <2>2. Append(announced[msg[w]], local[w]) \in Seq(Stored)
    BY <1>1, <2>1
  <2> QED
    BY <2>2 DEF Publish, IInv, TypeOK
<1>3. local' \in [Workers -> Statuses]
  BY DEF Publish, IInv, TypeOK, Statuses
<1> QED
  BY <1>2, <1>3, ProceedEffect DEF Publish, IInv, TypeOK, storeVars, covVars

LEMMA PublishStepInv == ASSUME IInv, NEW w \in Workers, Publish(w) PROVE IInv'
<1>1. \A v \in Workers \ {w} : local'[v] = local[v]
  BY DEF Publish, IInv, TypeOK
<1> QED
  BY <1>1, PublishType, ProceedStep DEF Publish, storeVars

LEMMA OutcomeStep == ASSUME IInv, NEW m \in Messages, Outcome(m) PROVE IInv'
<1>1. m \in Workers /\ m \notin Releasers /\ pc[m] = "lifecycle" /\ "settle" \in Steps
  BY Disjoint DEF Outcome, Steps
<1>2. pc' \in [Workers -> Steps] /\ pc'[m] = "settle" /\ \A v \in Workers \ {m} : pc'[v] = pc[v]
  BY <1>1, GotoEffect DEF Outcome, IInv
<1>3. /\ local' \in [Workers -> Statuses]
      /\ local'[m] \in Settled
      /\ \A v \in Workers \ {m} : local'[v] = local[v]
  BY <1>1 DEF Outcome, IInv, TypeOK, Statuses, Stored
<1>4. TypeOK'
  BY <1>2, <1>3, StampType DEF Outcome, IInv, TypeOK, covVars
<1>5. msg[m] = m /\ todo[m] = {}
  BY <1>1 DEF IInv, PlaceInv
<1> QED
  BY <1>1, <1>2, <1>3, <1>4, <1>5, Move DEF Outcome, Holds

LEMMA CancelledStep == ASSUME IInv, NEW m \in Messages, Cancelled(m) PROVE IInv'
<1>1. m \in Workers /\ m \notin Releasers /\ Finish(m) /\ closed
  BY Disjoint DEF Cancelled
<1>2. todo[m] = {}
  BY DEF IInv, PlaceInv
<1>3. TypeOK'
  BY <1>1, FinishEffect DEF Cancelled, IInv, TypeOK, storeVars, covVars
<1>4. /\ pc'[m] = "idle" /\ todo' = todo
      /\ \A v \in Workers \ {m} : pc'[v] = pc[v] /\ msg'[v] = msg[v] /\ todo'[v] = todo[v]
  BY <1>1, <1>2, FinishEffect DEF IInv
<1> QED
  BY <1>1, <1>2, <1>3, <1>4, Move DEF Cancelled, storeVars, Holds

LEMMA TickStep == ASSUME IInv, NEW d \in Devices, Tick(d) PROVE IInv'
<1>1. d \in Workers /\ d \notin Messages /\ pc[d] = "idle" /\ "flush" \in Steps
  BY Disjoint DEF Tick, Steps
<1>2. /\ pc' \in [Workers -> Steps]
      /\ pc'[d] \in {"idle", "flush"}
      /\ \A v \in Workers \ {d} : pc'[v] = pc[v]
  BY <1>1, GotoEffect DEF Tick, IInv, TypeOK
<1>3. TypeOK'
  BY <1>2 DEF Tick, IInv, TypeOK, storeVars
<1> QED
  BY <1>1, <1>2, <1>3, Move DEF Tick, storeVars, Holds

LEMMA FlushStep == ASSUME IInv, NEW d \in Devices, Flush(d) PROVE IInv'
<1> DEFINE pending == {m \in Messages : status[m] = "queued" /\ To[m] = d}
<1>1. d \in Workers /\ d \notin Messages /\ pc[d] = "flush" /\ {"idle", "claim"} \subseteq Steps
  BY Disjoint DEF Flush, Steps
<1>2. CASE Goto(d, "idle") /\ UNCHANGED <<msg, todo>>
  <2>1. /\ pc' \in [Workers -> Steps]
        /\ pc'[d] = "idle"
        /\ \A v \in Workers \ {d} : pc'[v] = pc[v]
    BY <1>1, <1>2, GotoEffect DEF IInv
  <2>2. TypeOK'
    BY <1>2, <2>1 DEF Flush, IInv, TypeOK, storeVars, covVars
  <2> QED
    BY <1>1, <1>2, <2>1, <2>2, Move DEF Flush, storeVars, Holds
<1>3. ASSUME NEW m \in pending, Goto(d, "claim"),
             msg' = [msg EXCEPT ![d] = m], todo' = [todo EXCEPT ![d] = pending \ {m}]
      PROVE  IInv'
  <2>1. /\ pc' \in [Workers -> Steps]
        /\ pc'[d] = "claim"
        /\ \A v \in Workers \ {d} : pc'[v] = pc[v]
    BY <1>1, <1>3, GotoEffect DEF IInv
  <2>2. /\ msg' \in [Workers -> Messages \cup {NoMessage}]
        /\ todo' \in [Workers -> SUBSET Messages]
        /\ msg'[d] \in Messages
        /\ \A v \in Workers \ {d} : msg'[v] = msg[v] /\ todo'[v] = todo[v]
    BY <1>1, <1>3 DEF IInv, TypeOK
  <2>3. TypeOK'
    BY <2>1, <2>2 DEF Flush, IInv, TypeOK, storeVars, covVars
  <2> QED
    BY <1>1, <2>1, <2>2, <2>3, Move DEF Flush, storeVars, Holds
<1> QED
  BY <1>2, <1>3 DEF Flush

LEMMA QuietStep ==
  ASSUME IInv, \/ \E d \in Devices : CoverageFlip(d)
               \/ Close
               \/ UNCHANGED vars
  PROVE  IInv'
<1>1. /\ UNCHANGED <<storeVars, announced, pc, msg, todo, local>>
      /\ closed => closed'
  BY DEF CoverageFlip, Close, vars, storeVars
<1>2. /\ inCov' \in [Devices -> BOOLEAN]
      /\ prevInCov' \in [Devices -> BOOLEAN]
      /\ closed' \in BOOLEAN
  BY DEF CoverageFlip, Close, vars, covVars, IInv, TypeOK
<1>3. TypeOK'
  BY <1>1, <1>2 DEF IInv, TypeOK, storeVars
<1> QED
  BY <1>1, <1>3 DEF IInv, storeVars, PlaceInv, LocalInv, AcceptInv, AtMostOnce,
                    InFlightHeld, Holds, HoldInv, HandedInv

-------------------------------------------------------------------------------
(* Steps that change a status or hand a message over *)

LEMMA SendStep == ASSUME IInv, NEW s \in Senders, NEW m \in Messages, Send(s, m) PROVE IInv'
<1>1. s \in Workers /\ s \notin Messages /\ "accept" \in Steps /\ "accepted" \in Statuses
  BY Disjoint DEF Steps, Statuses
<1>2. /\ pc' \in [Workers -> Steps]
      /\ pc'[s] = "accept"
      /\ \A v \in Workers \ {s} : pc'[v] = pc[v]
  BY <1>1, GotoEffect DEF Send, IInv
<1>3. /\ msg' \in [Workers -> Messages \cup {NoMessage}]
      /\ msg'[s] = m
      /\ \A v \in Workers \ {s} : msg'[v] = msg[v]
  BY <1>1 DEF Send, IInv, TypeOK
<1>4. /\ status' \in [Messages -> Statuses]
      /\ status[m] = "unsent"
      /\ status'[m] = "accepted"
      /\ \A n \in Messages \ {m} : status'[n] = status[n]
  BY <1>1 DEF Send, IInv, TypeOK
<1>5. TypeOK'
  BY <1>2, <1>3, <1>4, StampType DEF Send, IInv, TypeOK, covVars
<1>6. \A v \in Workers, n \in Messages : Holds(v, n)' <=> Holds(v, n)
  BY <1>2, <1>3 DEF Holds, Send
<1>7. \A v \in Workers, n \in Messages : Holds(v, n) => n # m /\ v # s
  BY <1>4 DEF Holds, Send, IInv, HoldInv
<1>8. PlaceInv'
  BY <1>1, <1>2, <1>3, Disjoint DEF Send, IInv, PlaceInv
<1>9. LocalInv'
  BY <1>2 DEF Send, IInv, LocalInv
<1>10. AcceptInv'
  <2>1. \A v \in Workers \ {s} : pc[v] = "accept" => msg[v] \in Messages /\ msg[v] # m
    BY <1>4 DEF IInv, AcceptInv, PlaceInv
  <2> QED
    BY <1>2, <1>3, <1>4, <2>1 DEF IInv, AcceptInv
<1>11. InFlightHeld' /\ AtMostOnce'
  BY <1>4, <1>6 DEF Send, IInv, InFlightHeld, AtMostOnce
<1>12. HoldInv'
  BY <1>2, <1>4, <1>6, <1>7 DEF Send, IInv, HoldInv
<1>13. HandedInv'
  BY <1>1, <1>2, <1>4, Disjoint DEF Send, IInv, HandedInv
<1> QED
  BY <1>5, <1>8, <1>9, <1>10, <1>11, <1>12, <1>13 DEF IInv

\* The message to insert belongs to this sender, and nothing holds it.
LEMMA Inserting ==
  ASSUME IInv, NEW s \in Senders, pc[s] = "accept"
  PROVE  /\ msg[s] \in Messages /\ status[msg[s]] = "accepted" /\ handed[msg[s]] = 0
         /\ \A v \in Workers \ {s} : ~(pc[v] = "accept" /\ msg[v] = msg[s])
         /\ \A v \in Workers, n \in Messages : Holds(v, n) => n # msg[s] /\ v # s
<1>1. s \in Workers
  BY Disjoint
<1>2. msg[s] \in Messages /\ status[msg[s]] = "accepted"
  BY <1>1 DEF IInv, PlaceInv, AcceptInv
<1> QED
  BY <1>1, <1>2 DEF IInv, AcceptInv, HoldInv, Holds, HandedInv

\* Accept inserts the message, or refuses it, and may evict another one that
\* is neither accepted nor in flight.
LEMMA InsertStep ==
  ASSUME IInv, TypeOK', NEW s \in Senders, pc[s] = "accept",
         \A v \in Workers \ {s} : pc'[v] = pc[v] /\ msg'[v] = msg[v],
         \/ pc'[s] = "get_accepted" /\ msg' = msg
         \/ pc'[s] = "idle",
         status'[msg[s]] \in {"queued", "gone"},
         \A n \in Messages \ {msg[s]} :
            \/ status'[n] = status[n]
            \/ status'[n] = "gone" /\ status[n] \notin {"accepted", "in_flight"},
         UNCHANGED <<handed, closed, todo, local>>
  PROVE  IInv'
<1>1. s \in Workers /\ s \notin Messages /\ \A m \in Messages : m \in Workers
  BY Disjoint
<1>2. \A v \in Workers, n \in Messages : Holds(v, n)' <=> Holds(v, n)
  BY DEF Holds
<1>3. PlaceInv'
  BY <1>1, Disjoint, Inserting DEF IInv, PlaceInv
<1>4. LocalInv'
  BY DEF IInv, LocalInv
<1>5. AcceptInv'
  <2>1. \A v \in Workers : pc'[v] = "accept" =>
          v # s /\ pc[v] = "accept" /\ msg'[v] = msg[v] /\ msg[v] \in Messages \ {msg[s]}
    BY Inserting DEF IInv, PlaceInv
  <2> QED
    BY <2>1 DEF IInv, AcceptInv
<1>6. InFlightHeld' /\ AtMostOnce'
  BY <1>2 DEF IInv, InFlightHeld, AtMostOnce
<1>7. HoldInv'
  BY <1>1, <1>2, Inserting DEF IInv, HoldInv
<1>8. HandedInv'
  <2> SUFFICES ASSUME NEW n \in Messages
               PROVE  /\ status'[n] \in {"unsent", "accepted", "queued"} => handed[n] = 0
                      /\ pc'[n] # "idle" => handed[n] = 1
    BY DEF HandedInv
  <2>1. pc'[n] = pc[n]
    BY <1>1
  <2> QED
    BY <2>1, Inserting DEF IInv, HandedInv
<1> QED
  BY <1>3, <1>4, <1>5, <1>6, <1>7, <1>8 DEF IInv

LEMMA AcceptStep ==
  ASSUME IInv, NEW s \in Senders, AcceptRoom(s) \/ AcceptEvicting(s) \/ AcceptFull(s)
  PROVE  IInv'
<1>1. /\ s \in Workers
      /\ {"get_accepted", "idle"} \subseteq Steps
      /\ {"queued", "gone"} \subseteq Statuses
  BY Disjoint DEF Steps, Statuses, Stored
<1>2. pc[s] = "accept" /\ msg[s] \in Messages
  BY Inserting DEF AcceptRoom, AcceptEvicting, AcceptFull
<1>3. CASE AcceptRoom(s)
  <2>1. TypeOK'
    BY <1>1, <1>2, <1>3, GotoEffect DEF AcceptRoom, IInv, TypeOK, covVars
  <2>2. /\ pc'[s] = "get_accepted"
        /\ \A v \in Workers \ {s} : pc'[v] = pc[v]
    BY <1>1, <1>3, GotoEffect DEF AcceptRoom, IInv
  <2> QED
    BY <1>2, <1>3, <2>1, <2>2, InsertStep DEF AcceptRoom, IInv, TypeOK
<1>4. CASE AcceptEvicting(s)
  <2>1. PICK victim \in Evictable :
           status' = [status EXCEPT ![msg[s]] = "queued", ![victim] = "gone"]
    BY <1>4 DEF AcceptEvicting
  <2>2. victim \in Messages /\ status[victim] \in Settled \cup {"queued"}
    BY DEF Evictable
  <2>3. TypeOK'
    BY <1>1, <1>2, <1>4, <2>1, <2>2, GotoEffect DEF AcceptEvicting, IInv, TypeOK, covVars
  <2>4. /\ pc'[s] = "get_accepted"
        /\ \A v \in Workers \ {s} : pc'[v] = pc[v]
    BY <1>1, <1>4, GotoEffect DEF AcceptEvicting, IInv
  <2>5. victim # msg[s]
    BY <1>2, <2>2, Inserting DEF Settled
  <2>6. status'[msg[s]] = "queued"
    BY <1>2, <2>1, <2>2, <2>5 DEF IInv, TypeOK
  <2>7. \A n \in Messages \ {msg[s]} :
           \/ status'[n] = status[n]
           \/ status'[n] = "gone" /\ status[n] \notin {"accepted", "in_flight"}
    BY <2>1, <2>2 DEF IInv, TypeOK, Settled
  <2> QED
    BY <1>2, <1>4, <2>3, <2>4, <2>6, <2>7, InsertStep DEF AcceptEvicting
<1>5. CASE AcceptFull(s)
  <2>1. TypeOK'
    BY <1>1, <1>2, <1>5, GotoEffect DEF AcceptFull, IInv, TypeOK, covVars
  <2>2. /\ pc'[s] = "idle"
        /\ \A v \in Workers \ {s} : pc'[v] = pc[v] /\ msg'[v] = msg[v]
    BY <1>1, <1>5, GotoEffect DEF AcceptFull, IInv, TypeOK
  <2> QED
    BY <1>2, <1>5, <2>1, <2>2, InsertStep DEF AcceptFull, IInv, TypeOK
<1> QED
  BY <1>3, <1>4, <1>5

LEMMA ClaimStep == ASSUME IInv, NEW w \in Releasers, Claim(w) PROVE IInv'
<1> DEFINE m == msg[w]
<1>1. /\ w \in Workers /\ w \notin Messages /\ pc[w] = "claim" /\ m \in Messages
      /\ "get_claimed" \in Steps /\ "in_flight" \in Statuses
  BY Disjoint DEF Claim, Steps, Statuses, Stored, IInv, PlaceInv
<1>2. /\ pc' \in [Workers -> Steps]
      /\ pc'[w] = "get_claimed"
      /\ \A v \in Workers \ {w} : pc'[v] = pc[v]
  BY <1>1, GotoEffect DEF Claim, IInv
<1>3. /\ status' \in [Messages -> Statuses]
      /\ status[m] = "queued" /\ status'[m] = "in_flight" /\ handed[m] = 0
      /\ \A n \in Messages \ {m} : status'[n] = status[n]
  BY <1>1 DEF Claim, IInv, TypeOK, HandedInv
<1>4. TypeOK'
  BY <1>2, <1>3 DEF Claim, IInv, TypeOK, covVars
<1>5. \A v \in Workers, n \in Messages : Holds(v, n)' <=> Holds(v, n) \/ (v = w /\ n = m)
  BY <1>1, <1>2 DEF Holds, Claim
<1>6. \A v \in Workers, n \in Messages : Holds(v, n) => n # m /\ v # w
  BY <1>1, <1>3 DEF Holds, IInv, HoldInv
<1>7. PlaceInv' /\ LocalInv'
  BY <1>1, <1>2, Disjoint DEF Claim, IInv, PlaceInv, LocalInv
<1>8. AcceptInv'
  <2>1. \A v \in Workers : pc'[v] = "accept" =>
           pc[v] = "accept" /\ msg[v] \in Messages /\ msg[v] # m
    BY <1>2, <1>3 DEF IInv, AcceptInv, PlaceInv
  <2> QED
    BY <1>3, <2>1 DEF Claim, IInv, AcceptInv
<1>9. InFlightHeld' /\ AtMostOnce'
  <2>1. \A n \in Messages : \A u, v \in Workers : Holds(u, n)' /\ Holds(v, n)' => u = v
    BY <1>5, <1>6 DEF IInv, InFlightHeld
  <2>2. \A n \in Messages : status'[n] = "in_flight" => (\E v \in Workers : Holds(v, n)') \/ closed'
    BY <1>1, <1>3, <1>5 DEF Claim, IInv, InFlightHeld
  <2> QED
    BY <2>1, <2>2 DEF Claim, IInv, InFlightHeld, AtMostOnce
<1>10. HoldInv'
  BY <1>2, <1>3, <1>5, <1>6 DEF Claim, IInv, HoldInv
<1>11. HandedInv'
  BY <1>1, <1>2, <1>3, Disjoint DEF Claim, IInv, HandedInv
<1> QED
  BY <1>4, <1>7, <1>8, <1>9, <1>10, <1>11 DEF IInv

\* Whoever submits holds a message that was never handed over, so that its
\* lifecycle goroutine has not been started.
LEMMA Submitting ==
  ASSUME IInv, NEW w \in Releasers, pc[w] = "submit"
  PROVE  /\ w \in Workers /\ w \notin Messages
         /\ msg[w] \in Messages /\ msg[w] \in Workers /\ msg[w] # w
         /\ status[msg[w]] = "in_flight" /\ handed[msg[w]] = 0 /\ pc[msg[w]] = "idle"
         /\ Holds(w, msg[w])
         /\ \A v \in Workers : Holds(v, msg[w]) => v = w
<1>1. w \in Workers /\ w \notin Messages /\ msg[w] \in Messages
  BY Disjoint DEF IInv, PlaceInv
<1>2. Holds(w, msg[w])
  BY DEF Holds
<1>3. status[msg[w]] = "in_flight" /\ handed[msg[w]] = 0
  BY <1>1, <1>2 DEF IInv, HoldInv
<1>4. pc[msg[w]] = "idle"
  BY <1>1, <1>3 DEF IInv, HandedInv
<1> QED
  BY <1>1, <1>2, <1>3, <1>4, Disjoint DEF IInv, InFlightHeld

LEMMA SubmitStep == ASSUME IInv, NEW w \in Releasers, Submit(w) PROVE IInv'
<1> DEFINE m == msg[w]
           Started ==
             /\ pc' \in [Workers -> Steps]
             /\ msg' \in [Workers -> Messages \cup {NoMessage}]
             /\ todo' \in [Workers -> SUBSET Messages]
             /\ pc'[m] = "lifecycle" /\ msg'[m] = m
             /\ pc'[w] = "idle" \/ (pc'[w] = "claim" /\ msg'[w] \in Messages)
             /\ \A v \in Workers \ {w, m} : pc'[v] = pc[v] /\ msg'[v] = msg[v]
             /\ \A v \in Workers \ {w} : todo'[v] = todo[v]
<1>1. /\ w \in Workers /\ w \notin Messages
      /\ m \in Messages /\ m \in Workers /\ m # w
      /\ status[m] = "in_flight" /\ handed[m] = 0 /\ pc[m] = "idle"
      /\ Holds(w, m)
      /\ \A v \in Workers : Holds(v, m) => v = w
  BY Submitting DEF Submit
<1>2. {"idle", "claim", "lifecycle"} \subseteq Steps
  BY DEF Steps
<1>3. Started
  <2>1. CASE todo[w] = {} /\ pc' = [pc EXCEPT ![w] = "idle", ![m] = "lifecycle"]
             /\ msg' = [msg EXCEPT ![w] = NoMessage, ![m] = m] /\ UNCHANGED todo
    BY <1>1, <1>2, <2>1 DEF IInv, TypeOK
  <2>2. ASSUME NEW n \in todo[w],
               pc' = [pc EXCEPT ![w] = "claim", ![m] = "lifecycle"],
               msg' = [msg EXCEPT ![w] = n, ![m] = m],
               todo' = [todo EXCEPT ![w] = @ \ {n}]
        PROVE  Started
    <3>1. n \in Messages
      BY <1>1 DEF IInv, TypeOK
    <3> QED
      BY <1>1, <1>2, <2>2, <3>1 DEF IInv, TypeOK
  <2> QED
    BY <2>1, <2>2 DEF Submit
<1>4. /\ handed' \in [Messages -> Nat]
      /\ handed'[m] = 1
      /\ \A n \in Messages \ {m} : handed'[n] = handed[n]
  BY <1>1 DEF Submit, IInv, TypeOK
<1>5. TypeOK'
  BY <1>3, <1>4 DEF Submit, IInv, TypeOK, covVars
<1>6. \A v \in Workers, n \in Messages : Holds(v, n)' <=> v # w /\ (Holds(v, n) \/ (v = m /\ n = m))
  BY <1>1, <1>3 DEF Holds
<1>7. PlaceInv'
  BY <1>1, <1>3, Disjoint DEF IInv, PlaceInv
<1>8. LocalInv' /\ AcceptInv'
  BY <1>1, <1>3 DEF Submit, IInv, LocalInv, AcceptInv
<1>9. AtMostOnce'
  BY <1>4 DEF IInv, AtMostOnce
<1>10. InFlightHeld'
  <2>1. \A n \in Messages : \A u, v \in Workers : Holds(u, n)' /\ Holds(v, n)' => u = v
    BY <1>1, <1>6 DEF IInv, InFlightHeld
  <2>2. \A n \in Messages : status'[n] = "in_flight" => (\E v \in Workers : Holds(v, n)') \/ closed'
    <3> SUFFICES ASSUME NEW n \in Messages, status[n] = "in_flight", ~closed
                 PROVE  \E v \in Workers : Holds(v, n)'
      BY DEF Submit
    <3>1. CASE n = m
      BY <1>1, <1>6, <3>1
    <3>2. CASE n # m
      <4>1. PICK v \in Workers : Holds(v, n)
        BY DEF IInv, InFlightHeld
      <4>2. v # w
        BY <3>2, <4>1 DEF Holds
      <4> QED
        BY <1>6, <4>1, <4>2
    <3> QED
      BY <3>1, <3>2
  <2> QED
    BY <2>1, <2>2 DEF InFlightHeld
<1>11. HoldInv'
  <2> SUFFICES ASSUME NEW v \in Workers, NEW n \in Messages, Holds(v, n)'
               PROVE  /\ status[n] = "in_flight"
                      /\ handed'[n] = IF pc'[v] \in {"lifecycle", "settle"} THEN 1 ELSE 0
    BY DEF Submit, HoldInv
  <2>1. CASE v = m
    <3>1. n = m
      BY <1>3, <2>1 DEF Holds
    <3> QED
      BY <1>1, <1>3, <1>4, <2>1, <3>1
  <2>2. CASE v # m
    <3>1. v # w /\ Holds(v, n) /\ n # m
      BY <1>1, <1>6, <2>2
    <3> QED
      BY <1>3, <1>4, <2>2, <3>1 DEF IInv, HoldInv
  <2> QED
    BY <2>1, <2>2
<1>12. HandedInv'
  BY <1>1, <1>3, <1>4, Disjoint DEF Submit, IInv, HandedInv
<1> QED
  BY <1>5, <1>7, <1>8, <1>9, <1>10, <1>11, <1>12 DEF IInv

LEMMA SubmitFailsStep == ASSUME IInv, NEW w \in Releasers, SubmitFails(w) PROVE IInv'
<1> DEFINE m == msg[w]
<1>1. /\ w \in Workers /\ w \notin Messages
      /\ m \in Messages /\ m \in Workers /\ m # w
      /\ status[m] = "in_flight" /\ handed[m] = 0 /\ pc[m] = "idle"
      /\ Holds(w, m)
      /\ \A v \in Workers : Holds(v, m) => v = w
  BY Submitting DEF SubmitFails
<1>2. "settle" \in Steps /\ "failed" \in Settled /\ "failed" \in Statuses
  BY DEF Steps, Settled, Statuses, Stored
<1>3. /\ pc' \in [Workers -> Steps]
      /\ pc'[w] = "settle"
      /\ \A v \in Workers \ {w} : pc'[v] = pc[v]
  BY <1>1, <1>2, GotoEffect DEF SubmitFails, IInv
<1>4. /\ handed' \in [Messages -> Nat]
      /\ handed'[m] = 1
      /\ \A n \in Messages \ {m} : handed'[n] = handed[n]
  BY <1>1 DEF SubmitFails, IInv, TypeOK
<1>5. /\ local' \in [Workers -> Statuses]
      /\ local'[w] = "failed"
      /\ \A v \in Workers \ {w} : local'[v] = local[v]
  BY <1>1, <1>2 DEF SubmitFails, IInv, TypeOK
<1>6. TypeOK'
  BY <1>1, <1>3, <1>4, <1>5, StampType DEF SubmitFails, IInv, TypeOK, covVars
<1>7. \A v \in Workers, n \in Messages : Holds(v, n)' <=> Holds(v, n)
  BY <1>1, <1>3 DEF Holds, SubmitFails
<1>8. PlaceInv'
  BY <1>1, <1>3, Disjoint DEF SubmitFails, IInv, PlaceInv
<1>9. LocalInv' /\ AcceptInv'
  BY <1>2, <1>3, <1>5 DEF SubmitFails, IInv, LocalInv, AcceptInv
<1>10. InFlightHeld' /\ AtMostOnce'
  BY <1>4, <1>7 DEF SubmitFails, IInv, InFlightHeld, AtMostOnce
<1>11. HoldInv'
  <2> SUFFICES ASSUME NEW v \in Workers, NEW n \in Messages, Holds(v, n)
               PROVE  /\ status[n] = "in_flight"
                      /\ handed'[n] = IF pc'[v] \in {"lifecycle", "settle"} THEN 1 ELSE 0
    BY <1>7 DEF SubmitFails, HoldInv
  <2>1. CASE v = w
    <3>1. n = m
      BY <2>1 DEF Holds
    <3> QED
      BY <1>1, <1>3, <1>4, <2>1, <3>1
  <2>2. CASE v # w
    <3>1. n # m
      BY <1>1, <2>2
    <3> QED
      BY <1>3, <1>4, <2>2, <3>1 DEF IInv, HoldInv
  <2> QED
    BY <2>1, <2>2
<1>12. HandedInv'
  BY <1>1, <1>3, <1>4, Disjoint DEF SubmitFails, IInv, HandedInv
<1> QED
  BY <1>6, <1>8, <1>9, <1>10, <1>11, <1>12 DEF IInv

LEMMA SetStatusStep == ASSUME IInv, NEW w \in Workers, SetStatus(w) PROVE IInv'
<1> DEFINE m == msg[w]
<1>1. /\ pc[w] = "settle" /\ m \in Messages /\ local[w] \in Settled
      /\ Holds(w, m)
      /\ w \in Messages => m = w
  BY DEF SetStatus, IInv, PlaceInv, LocalInv, Holds
<1>2. status[m] = "in_flight" /\ handed[m] = 1 /\ "get_settled" \in Steps /\ Settled \subseteq Statuses
  BY <1>1 DEF IInv, HoldInv, Steps, Statuses, Stored
<1>3. /\ pc' \in [Workers -> Steps]
      /\ pc'[w] = "get_settled"
      /\ \A v \in Workers \ {w} : pc'[v] = pc[v]
  BY <1>1, <1>2, GotoEffect DEF SetStatus, IInv
<1>4. /\ status' \in [Messages -> Statuses]
      /\ status'[m] \in Settled
      /\ \A n \in Messages \ {m} : status'[n] = status[n]
  BY <1>1, <1>2 DEF SetStatus, IInv, TypeOK, Stored
<1>5. "unsent" \in Statuses
  BY DEF Statuses
<1>6. /\ local' \in [Workers -> Statuses]
      /\ \A v \in Workers \ {w} : local'[v] = local[v]
  BY <1>1, <1>5 DEF SetStatus, IInv, TypeOK
<1>7. TypeOK'
  BY <1>3, <1>4, <1>6 DEF SetStatus, IInv, TypeOK, covVars
<1>8. \A v \in Workers, n \in Messages : Holds(v, n)' <=> Holds(v, n) /\ v # w
  BY <1>1, <1>3 DEF Holds, SetStatus
<1>9. \A v \in Workers, n \in Messages : Holds(v, n) /\ v # w => n # m
  BY <1>1 DEF IInv, InFlightHeld
<1>10. PlaceInv'
  BY <1>1, <1>3, Disjoint DEF SetStatus, IInv, PlaceInv
<1>11. LocalInv'
  BY <1>3, <1>6 DEF IInv, LocalInv
<1>12. AcceptInv'
  <2>1. \A v \in Workers : pc'[v] = "accept" =>
           pc[v] = "accept" /\ msg[v] \in Messages /\ msg[v] # m
    BY <1>2, <1>3 DEF IInv, AcceptInv, PlaceInv
  <2> QED
    BY <1>4, <2>1 DEF SetStatus, IInv, AcceptInv
<1>13. AtMostOnce'
  BY DEF SetStatus, IInv, AtMostOnce
<1>14. InFlightHeld'
  <2>1. \A n \in Messages : status'[n] = "in_flight" => n # m /\ status[n] = "in_flight"
    BY <1>4 DEF Settled
  <2>2. \A v \in Workers, n \in Messages : Holds(v, n) /\ n # m => Holds(v, n)'
    BY <1>8 DEF Holds
  <2>3. \A n \in Messages : status'[n] = "in_flight" => (\E v \in Workers : Holds(v, n)') \/ closed'
    BY <2>1, <2>2 DEF SetStatus, IInv, InFlightHeld
  <2> QED
    BY <1>8, <2>3 DEF IInv, InFlightHeld
<1>15. HoldInv'
  BY <1>3, <1>4, <1>8, <1>9 DEF SetStatus, IInv, HoldInv
<1>16. HandedInv'
  <2>1. \A n \in Messages : n \in Workers /\ (pc'[n] # "idle" => pc[n] # "idle")
    BY <1>1, <1>3, Disjoint
  <2> QED
    BY <1>4, <2>1 DEF SetStatus, IInv, HandedInv, Settled
<1> QED
  BY <1>7, <1>10, <1>11, <1>12, <1>13, <1>14, <1>15, <1>16 DEF IInv

-------------------------------------------------------------------------------
(* The invariant, and what follows from it *)

LEMMA NextIInv == IInv /\ [Next]_vars => IInv'
<1> SUFFICES ASSUME IInv, [Next]_vars PROVE IInv'
  OBVIOUS
<1> QED
  BY StepCases, SendStep, AcceptStep, ReadyStep, ClaimStep, ClaimLostStep, SubmitStep,
     SubmitFailsStep, SetStatusStep, GetStep, GetMissingStep, PublishStepInv, OutcomeStep,
     CancelledStep, TickStep, FlushStep, QuietStep

LEMMA Invariant == Spec => []IInv
BY InitIInv, NextIInv, PTL DEF Spec

\* Type correctness.
THEOREM TypeCorrect == Spec => []TypeOK
<1>1. IInv => TypeOK
  BY DEF IInv
<1> QED
  BY <1>1, Invariant, PTL

\* No message is submitted to the adapter twice, for any number of senders and
\* drivers racing to release it: ClaimQueued lets one of them through, once.
THEOREM SubmittedAtMostOnce == Spec => []AtMostOnce
<1>1. IInv => AtMostOnce
  BY DEF IInv
<1> QED
  BY <1>1, Invariant, PTL

\* A message in flight always has exactly one goroutine that will settle it,
\* unless the module has been closed.
THEOREM NothingLeftInFlight == Spec => []InFlightHeld
<1>1. IInv => InFlightHeld
  BY DEF IInv
<1> QED
  BY <1>1, Invariant, PTL

-------------------------------------------------------------------------------
(* Every outcome is announced *)

\* The goroutine w is about to publish the outcome of m.
Telling(w, m) ==
  /\ msg[w] = m
  /\ pc[w] = "get_settled" \/ (pc[w] = "publish_settled" /\ local[w] = status[m])

\* An outcome has been published, or the goroutine that set it still will.
ToldInv ==
  \A m \in Messages :
    status[m] \in Settled =>
      \/ \E i \in DOMAIN announced[m] : announced[m][i] = status[m]
      \/ \E w \in Workers : Telling(w, m)

\* A step that settles nothing, publishes nothing and moves nobody who is telling.
LEMMA ToldKept ==
  ASSUME ToldInv, UNCHANGED announced,
         \A m \in Messages : status'[m] \in Settled => status'[m] = status[m],
         \A w \in Workers : pc[w] \in {"get_settled", "publish_settled"} =>
            pc'[w] = pc[w] /\ msg'[w] = msg[w] /\ local'[w] = local[w]
  PROVE  ToldInv'
BY DEF ToldInv, Telling

\* The same, when the step moves one goroutine that is not telling.
LEMMA ToldMove ==
  ASSUME IInv, ToldInv, NEW w \in Workers, UNCHANGED announced,
         pc[w] \notin {"get_settled", "publish_settled"},
         \A m \in Messages : status'[m] \in Settled => status'[m] = status[m],
         \A v \in Workers \ {w} : pc'[v] = pc[v] /\ msg'[v] = msg[v] /\ local'[v] = local[v]
  PROVE  ToldInv'
BY ToldKept

LEMMA ToldSender ==
  ASSUME IInv, ToldInv, NEW s \in Senders,
         \/ \E m \in Messages : Send(s, m)
         \/ AcceptRoom(s) \/ AcceptEvicting(s) \/ AcceptFull(s) \/ Ready(s)
  PROVE  ToldInv'
<1>1. s \in Workers /\ pc[s] \notin {"get_settled", "publish_settled"}
  BY Disjoint DEF Send, AcceptRoom, AcceptEvicting, AcceptFull, Ready
<1>2. \A m \in Messages : status'[m] \in Settled => status'[m] = status[m]
  BY DEF Send, AcceptRoom, AcceptEvicting, AcceptFull, Ready, storeVars, Settled, IInv, TypeOK
<1>3. UNCHANGED announced /\ \A v \in Workers \ {s} : local'[v] = local[v]
  BY DEF Send, AcceptRoom, AcceptEvicting, AcceptFull, Ready
<1>4. \A v \in Workers \ {s} : pc'[v] = pc[v] /\ msg'[v] = msg[v]
  <2>1. CASE Ready(s)
    BY <1>1, <2>1, FinishEffect DEF Ready, Goto, IInv, TypeOK
  <2>2. CASE ~Ready(s)
    BY <2>2 DEF Send, AcceptRoom, AcceptEvicting, AcceptFull, Goto, IInv, TypeOK
  <2> QED
    BY <2>1, <2>2
<1> QED
  BY <1>1, <1>2, <1>3, <1>4, ToldMove

LEMMA ToldReleaser ==
  ASSUME IInv, ToldInv, NEW w \in Releasers,
         Claim(w) \/ ClaimLost(w) \/ Submit(w) \/ SubmitFails(w)
  PROVE  ToldInv'
<1>1. w \in Workers /\ pc[w] \notin {"get_settled", "publish_settled"}
  BY Disjoint DEF Claim, ClaimLost, Submit, SubmitFails
<1>2. UNCHANGED announced /\ \A m \in Messages : status'[m] \in Settled => status'[m] = status[m]
  BY DEF Claim, ClaimLost, Submit, SubmitFails, storeVars, Settled, IInv, TypeOK
<1>3. \A v \in Workers \ {w} : local'[v] = local[v]
  BY DEF Claim, ClaimLost, Submit, SubmitFails, IInv, TypeOK
<1>4. CASE ~Submit(w)
  <2>1. \A v \in Workers \ {w} : pc'[v] = pc[v] /\ msg'[v] = msg[v]
    BY <1>1, <1>4, FinishEffect DEF Claim, ClaimLost, SubmitFails, Goto, IInv, TypeOK
  <2> QED
    BY <1>1, <1>2, <1>3, <2>1, ToldMove
<1>5. CASE Submit(w)
  <2>1. msg[w] \in Workers /\ pc[msg[w]] = "idle"
    BY <1>5, Submitting DEF Submit
  <2>2. \A v \in Workers \ {w, msg[w]} : pc'[v] = pc[v] /\ msg'[v] = msg[v]
    BY <1>5 DEF Submit, IInv, TypeOK
  <2> QED
    BY <1>1, <1>2, <1>3, <2>1, <2>2, ToldKept
<1> QED
  BY <1>4, <1>5

LEMMA ToldSetStatus == ASSUME IInv, ToldInv, NEW w \in Workers, SetStatus(w) PROVE ToldInv'
<1>1. msg[w] \in Messages /\ Holds(w, msg[w])
  BY DEF SetStatus, IInv, PlaceInv, Holds
<1>2. status[msg[w]] = "in_flight"
  BY <1>1 DEF IInv, HoldInv
<1>3. /\ status' = [status EXCEPT ![msg[w]] = local[w]]
      /\ pc[w] = "settle" /\ pc' = [pc EXCEPT ![w] = "get_settled"]
      /\ UNCHANGED <<announced, msg>>
      /\ \A v \in Workers \ {w} : local'[v] = local[v]
  BY <1>2 DEF SetStatus, Stored, Goto, IInv, TypeOK
<1> SUFFICES ASSUME NEW m \in Messages, status'[m] \in Settled
             PROVE  \/ \E i \in DOMAIN announced'[m] : announced'[m][i] = status'[m]
                    \/ \E v \in Workers : Telling(v, m)'
  BY DEF ToldInv
<1>4. CASE m = msg[w]
  <2>1. Telling(w, m)'
    BY <1>3, <1>4 DEF Telling, IInv, TypeOK
  <2> QED
    BY <2>1
<1>5. CASE m # msg[w]
  <2>1. status'[m] = status[m]
    BY <1>3, <1>5 DEF IInv, TypeOK
  <2>2. \A v \in Workers : Telling(v, m) => Telling(v, m)'
    BY <1>3, <1>5, <2>1 DEF Telling, IInv, TypeOK
  <2> QED
    BY <1>3, <2>1, <2>2 DEF ToldInv
<1> QED
  BY <1>4, <1>5

LEMMA ToldGet == ASSUME IInv, ToldInv, NEW w \in Workers, Get(w) PROVE ToldInv'
<1>1. /\ UNCHANGED <<status, announced, msg>>
      /\ \A v \in Workers \ {w} : local'[v] = local[v] /\ pc'[v] = pc[v]
      /\ local'[w] = status[msg[w]]
      /\ pc[w] \in {"get_accepted", "get_claimed", "get_settled"}
      /\ pc[w] = "get_settled" => pc'[w] = "publish_settled"
  BY DEF Get, Goto, PublishStep, storeVars, IInv, TypeOK
<1>2. \A v \in Workers, m \in Messages : Telling(v, m) => Telling(v, m)'
  BY <1>1 DEF Telling
<1> QED
  BY <1>1, <1>2 DEF ToldInv

LEMMA ToldGetMissing == ASSUME IInv, ToldInv, NEW w \in Workers, GetMissing(w) PROVE ToldInv'
<1>1. /\ UNCHANGED <<status, announced, local>>
      /\ \A v \in Workers \ {w} : pc'[v] = pc[v] /\ msg'[v] = msg[v]
  BY ProceedEffect DEF GetMissing, storeVars, IInv
<1>2. \A v \in Workers, m \in Messages :
         status[m] \in Settled /\ Telling(v, m) => Telling(v, m)'
  BY <1>1 DEF Telling, GetMissing, Stored
<1> QED
  BY <1>1, <1>2 DEF ToldInv

LEMMA ToldPublish == ASSUME IInv, ToldInv, NEW w \in Workers, Publish(w) PROVE ToldInv'
<1>1. /\ UNCHANGED status
      /\ \A v \in Workers \ {w} :
            pc'[v] = pc[v] /\ msg'[v] = msg[v] /\ local'[v] = local[v]
  BY ProceedEffect DEF Publish, storeVars, IInv, TypeOK
<1>2. ASSUME NEW m \in Messages
      PROVE  /\ \A i \in DOMAIN announced[m] :
                   i \in DOMAIN announced'[m] /\ announced'[m][i] = announced[m][i]
             /\ msg[w] = m => \E i \in DOMAIN announced'[m] : announced'[m][i] = local[w]
  <2>1. announced[m] \in Seq(Stored) /\ announced \in [Messages -> Seq(Stored)]
    BY DEF IInv, TypeOK
  <2>2. CASE msg[w] # m
    BY <2>1, <2>2 DEF Publish
  <2>3. CASE msg[w] = m
    <3> DEFINE told == Append(announced[m], local[w])
    <3>1. announced'[m] = told /\ local[w] \in Stored
      BY <2>1, <2>3 DEF Publish, IInv, LocalInv
    <3>2. /\ DOMAIN told = 1..(Len(announced[m]) + 1)
          /\ \A i \in 1..Len(announced[m]) : told[i] = announced[m][i]
          /\ told[Len(announced[m]) + 1] = local[w]
          /\ DOMAIN announced[m] = 1..Len(announced[m])
          /\ Len(announced[m]) \in Nat
      BY <2>1, <3>1
    <3>3. Len(announced[m]) + 1 \in DOMAIN told
      BY <3>2
    <3>4. \A i \in DOMAIN announced[m] : i \in DOMAIN told
      BY <3>2
    <3> HIDE DEF told
    <3> QED
      BY <3>1, <3>2, <3>3, <3>4
  <2> QED
    BY <2>2, <2>3
<1> SUFFICES ASSUME NEW m \in Messages, status[m] \in Settled
             PROVE  \/ \E i \in DOMAIN announced'[m] : announced'[m][i] = status[m]
                    \/ \E v \in Workers : Telling(v, m)'
  BY <1>1 DEF ToldInv
<1>3. CASE \E i \in DOMAIN announced[m] : announced[m][i] = status[m]
  BY <1>2, <1>3
<1>4. ASSUME NEW v \in Workers, Telling(v, m)
      PROVE  \/ \E i \in DOMAIN announced'[m] : announced'[m][i] = status[m]
             \/ Telling(v, m)'
  <2>1. CASE v = w
    BY <1>2, <1>4, <2>1 DEF Telling, Publish
  <2>2. CASE v # w
    BY <1>1, <1>4, <2>2 DEF Telling
  <2> QED
    BY <2>1, <2>2
<1> QED
  BY <1>3, <1>4 DEF ToldInv

LEMMA ToldStep == IInv /\ ToldInv /\ [Next]_vars => ToldInv'
<1> SUFFICES ASSUME IInv, ToldInv, [Next]_vars PROVE ToldInv'
  OBVIOUS
<1>1. ASSUME NEW m \in Messages, Outcome(m) \/ Cancelled(m) PROVE ToldInv'
  <2>1. m \in Workers /\ pc[m] = "lifecycle"
    BY <1>1, Disjoint DEF Outcome, Cancelled
  <2>2. UNCHANGED <<status, announced>> /\ \A v \in Workers \ {m} : local'[v] = local[v]
    BY <1>1 DEF Outcome, Cancelled, storeVars, IInv, TypeOK
  <2>3. \A v \in Workers \ {m} : pc'[v] = pc[v] /\ msg'[v] = msg[v]
    BY <1>1, <2>1, FinishEffect DEF Outcome, Cancelled, Goto, IInv, TypeOK
  <2> QED
    BY <2>1, <2>2, <2>3, ToldMove
<1>2. ASSUME NEW d \in Devices, Tick(d) \/ Flush(d) PROVE ToldInv'
  <2>1. d \in Workers /\ pc[d] \in {"idle", "flush"}
    BY <1>2, Disjoint DEF Tick, Flush
  <2>2. UNCHANGED <<status, announced, local>>
    BY <1>2 DEF Tick, Flush, storeVars
  <2>3. \A v \in Workers \ {d} : pc'[v] = pc[v] /\ msg'[v] = msg[v]
    BY <1>2, <2>1 DEF Tick, Flush, Goto, IInv, TypeOK
  <2> QED
    BY <2>1, <2>2, <2>3, ToldMove
<1>3. CASE (\E d \in Devices : CoverageFlip(d)) \/ Close \/ UNCHANGED vars
  BY <1>3, ToldKept DEF CoverageFlip, Close, vars, storeVars
<1> QED
  BY <1>1, <1>2, <1>3, StepCases, ToldSender, ToldReleaser, ToldSetStatus, ToldGet,
     ToldGetMissing, ToldPublish

\* Whoever settles a message publishes the outcome, however its goroutine
\* interleaves with the others, unless the message is evicted first.
THEOREM OutcomesAnnounced == Spec => []OutcomeAnnounced
<1>1. Init => ToldInv
  BY DEF Init, ToldInv, Settled
<1>2. IInv /\ ToldInv => OutcomeAnnounced
  BY DEF ToldInv, OutcomeAnnounced, Quiet, Telling
<1> QED
  BY <1>1, <1>2, ToldStep, Invariant, PTL DEF Spec

-------------------------------------------------------------------------------
(* No message is stranded, if the drivers see every change of coverage *)

\* A snapshot is kept only while it is worked off.
TodoInv == \A w \in Workers : pc[w] \in {"idle", "flush", "accept"} => todo[w] = {}

\* The goroutine w has m before it: it has queued m and will ask whether the
\* recipient is ready, is about to claim it, has it in its snapshot, or is
\* about to take the snapshot m will be in.
Attends(w, m) ==
  \/ m \in todo[w]
  \/ msg[w] = m /\ pc[w] \in {"get_accepted", "publish_accepted", "ready", "claim"}
  \/ w = To[m] /\ pc[w] = "flush"

\* The recipient can be reached, and its driver knows.
Reachable(m) == To[m] = Cloud \/ (inCov[To[m]] /\ prevInCov[To[m]])

AttendedInv ==
  \A m \in Messages :
    status[m] = "queued" /\ Reachable(m) => \E w \in Workers : Attends(w, m)

\* Finish drops no message of the snapshot.
LEMMA FinishKeeps ==
  ASSUME TypeOK, NEW w \in Workers, Finish(w)
  PROVE  /\ \A k \in todo[w] : k \in todo'[w] \/ (pc'[w] = "claim" /\ msg'[w] = k)
         /\ pc'[w] \in {"idle", "flush", "accept"} => todo'[w] = {}
<1>1. CASE todo[w] = {}
  BY <1>1 DEF Finish
<1>2. CASE todo[w] # {}
  BY <1>2 DEF Finish, Goto, TypeOK
<1> QED
  BY <1>1, <1>2

LEMMA ProceedKeeps ==
  ASSUME TypeOK, NEW w \in Workers, Proceed(w)
  PROVE  /\ \A k \in todo[w] : k \in todo'[w] \/ (pc'[w] = "claim" /\ msg'[w] = k)
         /\ pc'[w] \in {"idle", "flush", "accept"} => todo'[w] = {}
         /\ pc[w] \in {"get_accepted", "publish_accepted"} => pc'[w] = "ready" /\ msg' = msg
<1>1. CASE AfterPublish(w) = "idle"
  BY <1>1, FinishKeeps DEF Proceed, AfterPublish
<1>2. CASE AfterPublish(w) # "idle"
  BY <1>2 DEF Proceed, Goto, AfterPublish, TypeOK
<1> QED
  BY <1>1, <1>2

\* A step of one goroutine that leaves none of its messages unattended.
LEMMA AttendMove ==
  ASSUME TodoInv, AttendedInv, NEW w \in Workers, UNCHANGED covVars,
         \A v \in Workers \ {w} : pc'[v] = pc[v] /\ msg'[v] = msg[v] /\ todo'[v] = todo[v],
         pc'[w] \in {"idle", "flush", "accept"} => todo'[w] = {},
         \A m \in Messages : status'[m] = "queued" =>
            status[m] = "queued" \/ Attends(w, m)',
         \A m \in Messages : status'[m] = "queued" /\ Reachable(m) /\ Attends(w, m) =>
            Attends(w, m)'
  PROVE  TodoInv' /\ AttendedInv'
<1>1. TodoInv'
  BY DEF TodoInv
<1>2. \A v \in Workers \ {w}, m \in Messages : Attends(v, m) => Attends(v, m)'
  BY DEF Attends
<1>3. \A m \in Messages : Reachable(m)' = Reachable(m)
  BY DEF Reachable, covVars
<1> QED
  BY <1>1, <1>2, <1>3 DEF AttendedInv

LEMMA AttendSend ==
  ASSUME IInv, TodoInv, AttendedInv, NEW s \in Senders, NEW m \in Messages, Send(s, m)
  PROVE  TodoInv' /\ AttendedInv'
<1>1. s \in Workers /\ s \notin Devices
  BY Disjoint
<1>2. /\ pc[s] = "idle" /\ todo[s] = {} /\ pc'[s] = "accept" /\ todo' = todo
      /\ \A v \in Workers \ {s} : pc'[v] = pc[v] /\ msg'[v] = msg[v]
      /\ \A n \in Messages : status'[n] = "queued" => status[n] = "queued"
  BY <1>1 DEF Send, Goto, IInv, TypeOK, TodoInv
<1>3. \A n \in Messages : ~Attends(s, n)
  BY <1>2 DEF Attends
<1> QED
  BY <1>1, <1>2, <1>3, AttendMove DEF Send

LEMMA AttendAccept ==
  ASSUME IInv, TodoInv, AttendedInv, NEW s \in Senders,
         AcceptRoom(s) \/ AcceptEvicting(s) \/ AcceptFull(s)
  PROVE  TodoInv' /\ AttendedInv'
<1>1. s \in Workers /\ pc[s] = "accept" /\ todo[s] = {} /\ todo' = todo /\ msg[s] \in Messages
  BY Disjoint DEF AcceptRoom, AcceptEvicting, AcceptFull, TodoInv, IInv, PlaceInv
<1>2. \A v \in Workers \ {s} : pc'[v] = pc[v] /\ msg'[v] = msg[v]
  BY <1>1 DEF AcceptRoom, AcceptEvicting, AcceptFull, Goto, IInv, TypeOK
<1>3. \A n \in Messages : status'[n] = "queued" => status[n] = "queued" \/ Attends(s, n)'
  <2>1. CASE AcceptFull(s)
    BY <1>1, <2>1 DEF AcceptFull, IInv, TypeOK
  <2>2. CASE AcceptRoom(s) \/ AcceptEvicting(s)
    <3>1. msg' = msg /\ pc'[s] = "get_accepted"
      BY <1>1, <2>2 DEF AcceptRoom, AcceptEvicting, Goto, IInv, TypeOK
    <3>2. \A n \in Messages : n = msg[s] => Attends(s, n)'
      BY <3>1 DEF Attends
    <3>3. \A n \in Messages \ {msg[s]} : status'[n] = "queued" => status[n] = "queued"
      BY <2>2 DEF AcceptRoom, AcceptEvicting, IInv, TypeOK
    <3> QED
      BY <3>2, <3>3
  <2> QED
    BY <2>1, <2>2
<1>4. \A n \in Messages : ~Attends(s, n)
  BY <1>1 DEF Attends
<1> QED
  BY <1>1, <1>2, <1>3, <1>4, AttendMove DEF AcceptRoom, AcceptEvicting, AcceptFull

\* The sender turns away only from a recipient that is out of coverage.
LEMMA AttendReady ==
  ASSUME IInv, TodoInv, AttendedInv, NEW s \in Senders, Ready(s)
  PROVE  TodoInv' /\ AttendedInv'
<1>1. s \in Workers /\ pc[s] = "ready" /\ UNCHANGED <<status, covVars>>
  BY Disjoint DEF Ready, storeVars
<1>2. CASE Goto(s, "claim") /\ UNCHANGED <<msg, todo>>
  <2>1. pc'[s] = "claim" /\ \A v \in Workers \ {s} : pc'[v] = pc[v]
    BY <1>1, <1>2 DEF Goto, IInv, TypeOK
  <2>2. \A m \in Messages : Attends(s, m) => Attends(s, m)'
    BY <1>1, <1>2, <2>1 DEF Attends
  <2> QED
    BY <1>1, <1>2, <2>1, <2>2, AttendMove
<1>3. CASE ~(To[msg[s]] = Cloud \/ inCov[To[msg[s]]]) /\ Finish(s)
  <2>1. \A v \in Workers \ {s} : pc'[v] = pc[v] /\ msg'[v] = msg[v] /\ todo'[v] = todo[v]
    BY <1>1, <1>3, FinishEffect DEF IInv
  <2>2. /\ \A k \in todo[s] : k \in todo'[s] \/ (pc'[s] = "claim" /\ msg'[s] = k)
        /\ pc'[s] \in {"idle", "flush", "accept"} => todo'[s] = {}
    BY <1>1, <1>3, FinishKeeps DEF IInv
  <2>3. ASSUME NEW m \in Messages, Reachable(m), Attends(s, m)
        PROVE  Attends(s, m)'
    BY <1>1, <1>3, <2>2, <2>3 DEF Attends, Reachable
  <2> QED
    BY <1>1, <2>1, <2>2, <2>3, AttendMove
<1> QED
  BY <1>2, <1>3 DEF Ready

LEMMA AttendRelease ==
  ASSUME IInv, TodoInv, AttendedInv, NEW w \in Releasers,
         Claim(w) \/ ClaimLost(w) \/ SubmitFails(w)
  PROVE  TodoInv' /\ AttendedInv'
<1>1. /\ w \in Workers /\ w \notin Messages /\ UNCHANGED covVars
      /\ msg[w] \in Messages
  BY Disjoint DEF Claim, ClaimLost, SubmitFails, IInv, PlaceInv
<1>2. \A m \in Messages : status'[m] = "queued" => status[m] = "queued"
  BY DEF Claim, ClaimLost, SubmitFails, storeVars, IInv, TypeOK
<1>3. CASE ClaimLost(w)
  <2>1. /\ \A v \in Workers \ {w} : pc'[v] = pc[v] /\ msg'[v] = msg[v] /\ todo'[v] = todo[v]
        /\ \A k \in todo[w] : k \in todo'[w] \/ (pc'[w] = "claim" /\ msg'[w] = k)
        /\ pc'[w] \in {"idle", "flush", "accept"} => todo'[w] = {}
    BY <1>1, <1>3, FinishEffect, FinishKeeps DEF ClaimLost, IInv
  <2>2. \A m \in Messages : status'[m] = "queued" /\ Attends(w, m) => Attends(w, m)'
    BY <1>2, <1>3, <2>1 DEF Attends, ClaimLost
  <2> QED
    BY <1>1, <1>2, <2>1, <2>2, AttendMove
<1>4. CASE Claim(w) \/ SubmitFails(w)
  <2>1. /\ UNCHANGED <<msg, todo>>
        /\ pc'[w] \in {"get_claimed", "settle"}
        /\ \A v \in Workers \ {w} : pc'[v] = pc[v]
        /\ pc[w] \in {"claim", "submit"}
        /\ pc[w] = "claim" => status'[msg[w]] = "in_flight"
    BY <1>1, <1>4 DEF Claim, SubmitFails, Goto, IInv, TypeOK
  <2>2. \A m \in Messages : status'[m] = "queued" /\ Attends(w, m) => Attends(w, m)'
    BY <2>1 DEF Attends
  <2> QED
    BY <1>1, <1>2, <2>1, <2>2, AttendMove
<1> QED
  BY <1>3, <1>4

LEMMA AttendSubmit ==
  ASSUME IInv, TodoInv, AttendedInv, NEW w \in Releasers, Submit(w)
  PROVE  TodoInv' /\ AttendedInv'
<1> DEFINE m == msg[w]
<1>1. /\ w \in Workers /\ m \in Messages /\ m \in Workers /\ m # w
      /\ pc[m] = "idle" /\ pc[w] = "submit"
      /\ UNCHANGED <<status, covVars>>
  BY Submitting DEF Submit
<1>2. todo[m] = {}
  BY <1>1 DEF IInv, PlaceInv
<1>3. /\ \A v \in Workers \ {w} : todo'[v] = todo[v]
      /\ \A v \in Workers \ {w, m} : pc'[v] = pc[v] /\ msg'[v] = msg[v]
      /\ pc'[m] = "lifecycle"
      /\ \A k \in todo[w] : k \in todo'[w] \/ (pc'[w] = "claim" /\ msg'[w] = k)
      /\ pc'[w] \in {"idle", "flush", "accept"} => todo'[w] = {}
  <2>1. CASE /\ todo[w] = {}
             /\ pc' = [pc EXCEPT ![w] = "idle", ![m] = "lifecycle"]
             /\ msg' = [msg EXCEPT ![w] = NoMessage, ![m] = m]
             /\ UNCHANGED todo
    BY <1>1, <2>1 DEF IInv, TypeOK
  <2>2. ASSUME NEW n \in todo[w],
               pc' = [pc EXCEPT ![w] = "claim", ![m] = "lifecycle"],
               msg' = [msg EXCEPT ![w] = n, ![m] = m],
               todo' = [todo EXCEPT ![w] = @ \ {n}]
        PROVE  /\ \A v \in Workers \ {w} : todo'[v] = todo[v]
               /\ \A v \in Workers \ {w, m} : pc'[v] = pc[v] /\ msg'[v] = msg[v]
               /\ pc'[m] = "lifecycle"
               /\ pc'[w] = "claim"
               /\ \A k \in todo[w] : k \in todo'[w] \/ msg'[w] = k
    BY <1>1, <2>2 DEF IInv, TypeOK
  <2> QED
    BY <2>1, <2>2 DEF Submit
<1>4. \A v \in Workers, n \in Messages : Attends(v, n) => Attends(v, n)'
  BY <1>1, <1>2, <1>3 DEF Attends
<1>5. \A n \in Messages : Reachable(n)' = Reachable(n)
  BY <1>1 DEF Reachable, covVars
<1>6. TodoInv'
  BY <1>1, <1>3 DEF TodoInv
<1> QED
  BY <1>1, <1>4, <1>5, <1>6 DEF AttendedInv

LEMMA AttendWorker ==
  ASSUME IInv, TodoInv, AttendedInv, NEW w \in Workers,
         SetStatus(w) \/ Get(w) \/ GetMissing(w) \/ Publish(w)
  PROVE  TodoInv' /\ AttendedInv'
<1>1. UNCHANGED covVars /\ msg[w] \in Messages
  BY DEF SetStatus, Get, GetMissing, Publish, IInv, PlaceInv
<1>2. \A m \in Messages : status'[m] = "queued" => status[m] = "queued"
  <2>1. CASE SetStatus(w)
    BY <1>1, <2>1 DEF SetStatus, IInv, TypeOK, LocalInv, Settled
  <2>2. CASE ~SetStatus(w)
    BY <2>2 DEF Get, GetMissing, Publish, storeVars
  <2> QED
    BY <2>1, <2>2
<1>3. CASE SetStatus(w) \/ Get(w)
  <2>1. /\ UNCHANGED <<msg, todo>>
        /\ \A v \in Workers \ {w} : pc'[v] = pc[v]
        /\ pc[w] = "get_accepted" => pc'[w] = "publish_accepted"
        /\ pc[w] \in {"settle", "get_accepted", "get_claimed", "get_settled"}
        /\ pc'[w] \notin {"idle", "flush", "accept"}
    BY <1>3 DEF SetStatus, Get, Goto, PublishStep, IInv, TypeOK
  <2>2. \A m \in Messages : Attends(w, m) => Attends(w, m)'
    BY <2>1 DEF Attends
  <2> QED
    BY <1>1, <1>2, <2>1, <2>2, AttendMove
<1>4. CASE GetMissing(w) \/ Publish(w)
  <2>1. /\ Proceed(w)
        /\ pc[w] \in {"get_accepted", "get_claimed", "get_settled",
                      "publish_accepted", "publish_claimed", "publish_settled"}
    BY <1>4 DEF GetMissing, Publish
  <2>2. \A v \in Workers \ {w} : pc'[v] = pc[v] /\ msg'[v] = msg[v] /\ todo'[v] = todo[v]
    BY <2>1, ProceedEffect DEF IInv
  <2>3. /\ \A k \in todo[w] : k \in todo'[w] \/ (pc'[w] = "claim" /\ msg'[w] = k)
        /\ pc'[w] \in {"idle", "flush", "accept"} => todo'[w] = {}
        /\ pc[w] \in {"get_accepted", "publish_accepted"} => pc'[w] = "ready" /\ msg' = msg
    BY <2>1, ProceedKeeps DEF IInv
  <2>4. \A m \in Messages : Attends(w, m) => Attends(w, m)'
    BY <2>1, <2>3 DEF Attends
  <2> QED
    BY <1>1, <1>2, <2>2, <2>3, <2>4, AttendMove
<1> QED
  BY <1>3, <1>4

LEMMA AttendLife ==
  ASSUME IInv, TodoInv, AttendedInv, NEW m \in Messages, Outcome(m) \/ Cancelled(m)
  PROVE  TodoInv' /\ AttendedInv'
<1>1. m \in Workers /\ m \notin Devices /\ pc[m] = "lifecycle" /\ todo[m] = {} /\ UNCHANGED <<status, covVars>>
  BY Disjoint DEF Outcome, Cancelled, IInv, PlaceInv, storeVars
<1>2. \A n \in Messages : ~Attends(m, n)
  BY <1>1 DEF Attends
<1>3. /\ \A v \in Workers \ {m} : pc'[v] = pc[v] /\ msg'[v] = msg[v] /\ todo'[v] = todo[v]
      /\ pc'[m] \in {"idle", "flush", "accept"} => todo'[m] = {}
  BY <1>1, FinishEffect, FinishKeeps DEF Outcome, Cancelled, Goto, IInv, TypeOK
<1> QED
  BY <1>1, <1>2, <1>3, AttendMove

LEMMA AttendFlush ==
  ASSUME IInv, TodoInv, AttendedInv, NEW d \in Devices, Flush(d)
  PROVE  TodoInv' /\ AttendedInv'
<1> DEFINE pending == {m \in Messages : status[m] = "queued" /\ To[m] = d}
<1>1. /\ d \in Workers /\ pc[d] = "flush" /\ todo[d] = {} /\ UNCHANGED <<status, covVars>>
      /\ \A m \in Messages : status[m] = "queued" /\ Attends(d, m) => m \in pending
  BY Disjoint DEF Flush, storeVars, TodoInv, Attends
<1>2. CASE pending = {} /\ Goto(d, "idle") /\ UNCHANGED <<msg, todo>>
  <2>1. pc'[d] = "idle" /\ \A v \in Workers \ {d} : pc'[v] = pc[v]
    BY <1>1, <1>2 DEF Goto, IInv, TypeOK
  <2> QED
    BY <1>1, <1>2, <2>1, AttendMove
<1>3. ASSUME NEW m \in pending, Goto(d, "claim"),
             msg' = [msg EXCEPT ![d] = m], todo' = [todo EXCEPT ![d] = pending \ {m}]
      PROVE  TodoInv' /\ AttendedInv'
  <2>1. /\ pc'[d] = "claim" /\ msg'[d] = m /\ todo'[d] = pending \ {m}
        /\ \A v \in Workers \ {d} : pc'[v] = pc[v] /\ msg'[v] = msg[v] /\ todo'[v] = todo[v]
    BY <1>1, <1>3 DEF Goto, IInv, TypeOK
  <2>2. \A n \in Messages : status[n] = "queued" /\ Attends(d, n) => Attends(d, n)'
    BY <1>1, <2>1 DEF Attends
  <2> QED
    BY <1>1, <2>1, <2>2, AttendMove
<1> QED
  BY <1>2, <1>3 DEF Flush

\* A window opens for the driver at its tick, which starts a flush.
LEMMA AttendTick ==
  ASSUME IInv, TodoInv, AttendedInv, NEW d \in Devices, Tick(d)
  PROVE  TodoInv' /\ AttendedInv'
<1>1. /\ d \in Workers /\ pc[d] = "idle" /\ todo[d] = {}
      /\ UNCHANGED <<status, msg, todo, inCov>>
      /\ prevInCov' = [prevInCov EXCEPT ![d] = inCov[d]]
      /\ \A v \in Workers \ {d} : pc'[v] = pc[v]
      /\ inCov[d] => pc'[d] = "flush"
  BY Disjoint DEF Tick, TodoInv, storeVars, Goto, IInv, TypeOK
<1>2. TodoInv'
  BY <1>1 DEF TodoInv
<1>3. ASSUME NEW m \in Messages, status[m] = "queued", Reachable(m)'
      PROVE  \E w \in Workers : Attends(w, m)'
  <2>1. CASE To[m] = d
    <3>1. pc'[d] = "flush"
      BY <1>1, <1>3, <2>1, MessagingAssumption DEF Reachable, IInv, TypeOK
    <3> QED
      BY <1>1, <2>1, <3>1 DEF Attends
  <2>2. CASE To[m] # d
    <3>1. Reachable(m)
      BY <1>1, <1>3, <2>2, MessagingAssumption DEF Reachable, IInv, TypeOK
    <3>2. PICK w \in Workers : Attends(w, m)
      BY <1>3, <3>1 DEF AttendedInv
    <3>3. w # d
      BY <1>1, <2>2, <3>2 DEF Attends
    <3> QED
      BY <1>1, <3>2, <3>3 DEF Attends
  <2> QED
    BY <2>1, <2>2
<1> QED
  BY <1>1, <1>2, <1>3 DEF AttendedInv

\* Coverage changes only once the driver has seen the change before, so no
\* recipient becomes reachable by it.
LEMMA AttendQuiet ==
  ASSUME ~ShortGaps, IInv, TodoInv, AttendedInv,
         (\E d \in Devices : CoverageFlip(d)) \/ Close \/ UNCHANGED vars
  PROVE  TodoInv' /\ AttendedInv'
<1>1. UNCHANGED <<status, pc, msg, todo>>
  BY DEF CoverageFlip, Close, vars, storeVars
<1>2. \A m \in Messages : Reachable(m)' => Reachable(m)
  <2>1. ASSUME NEW d \in Devices, CoverageFlip(d)
        PROVE  \A m \in Messages : Reachable(m)' => Reachable(m)
    BY <2>1, MessagingAssumption DEF CoverageFlip, Reachable, IInv, TypeOK
  <2>2. CASE Close \/ UNCHANGED vars
    BY <2>2 DEF Close, vars, covVars, Reachable
  <2> QED
    BY <2>1, <2>2
<1> QED
  BY <1>1, <1>2 DEF TodoInv, AttendedInv, Attends

LEMMA AttendStep ==
  ASSUME ~ShortGaps, IInv, TodoInv, AttendedInv, [Next]_vars
  PROVE  TodoInv' /\ AttendedInv'
BY StepCases, AttendSend, AttendAccept, AttendReady, AttendRelease, AttendSubmit,
   AttendWorker, AttendLife, AttendFlush, AttendTick, AttendQuiet

\* No message is stranded: a sender that finds the recipient out of coverage
\* leaves it to the driver, and no window opens between the two unseen.
THEOREM NothingStranded ==
  ASSUME ~ShortGaps
  PROVE  Spec => []NoneStranded
<1>1. Init => TodoInv /\ AttendedInv
  BY DEF Init, TodoInv, AttendedInv
<1>2. IInv /\ TodoInv /\ AttendedInv /\ [Next]_vars => TodoInv' /\ AttendedInv'
  BY AttendStep
<1>3. IInv /\ TodoInv /\ AttendedInv => NoneStranded
  BY DEF TodoInv, AttendedInv, Attends, Reachable, NoneStranded, Quiet
<1> QED
  BY Invariant, <1>1, <1>2, <1>3, PTL DEF Spec

-------------------------------------------------------------------------------
(* Messaging implements MessageLifecycle *)

\* What a change of one status, or of none, does to the abstract state.
LEMMA LifeStateFacts ==
  ASSUME TypeOK
  PROVE  /\ LifeState = [m \in Messages |-> LifeState[m]]
         /\ \A m \in Messages :
              /\ status[m] \in Stored \cup {"gone"} => LifeState[m] = status[m]
              /\ status[m] \in {"unsent", "accepted"} => LifeState[m] = "outside"
         /\ Life!Kept(LifeState) = InStore
BY DEF LifeState, Life!Kept, InStore, Stored, Settled, TypeOK, Statuses

\* The instance counts as this module does.
LEMMA SameCardinality == \A S : Life!Cardinality(S) = Cardinality(S)
BY DEF Life!Cardinality, Cardinality

LEMMA LifeInitRefined == Init => Life!LifeInit
BY DEF Init, Life!LifeInit, LifeState

LEMMA TakeRefined ==
  ASSUME IInv, IInv', NEW s \in Senders, AcceptRoom(s) \/ AcceptEvicting(s)
  PROVE  Life!Take(msg[s])
<1>1. /\ msg[s] \in Messages /\ status[msg[s]] = "accepted"
  BY Inserting DEF AcceptRoom, AcceptEvicting
<1>2. LifeState[msg[s]] = "outside"
  BY <1>1, LifeStateFacts DEF IInv
<1>3. CASE AcceptRoom(s)
  <2>1. LifeState' = [LifeState EXCEPT ![msg[s]] = "queued"]
    BY <1>1, <1>3 DEF AcceptRoom, LifeState, IInv, TypeOK
  <2>2. Cardinality(Life!Kept(LifeState)) < Capacity
    BY <1>3, LifeStateFacts DEF AcceptRoom, IInv
  <2> QED
    BY <1>2, <1>3, <2>1, <2>2, SameCardinality DEF Life!Take, AcceptRoom
<1>4. CASE AcceptEvicting(s)
  <2>1. PICK victim \in Evictable :
           status' = [status EXCEPT ![msg[s]] = "queued", ![victim] = "gone"]
    BY <1>4 DEF AcceptEvicting
  <2>2. /\ victim \in Messages
        /\ \/ status[victim] \in Settled
           \/ /\ status[victim] = "queued"
              /\ \A n \in Messages : status[n] \notin Settled
    BY DEF Evictable
  <2>3. victim # msg[s]
    BY <1>1, <2>2 DEF Settled
  <2>4. LifeState' = [LifeState EXCEPT ![msg[s]] = "queued", ![victim] = "gone"]
    BY <1>1, <2>1, <2>2, <2>3 DEF LifeState, IInv, TypeOK
  <2>5. Cardinality(Life!Kept(LifeState)) >= Capacity
    BY <1>4, LifeStateFacts DEF AcceptEvicting, IInv
  <2>6. \/ LifeState[victim] \in {"delivered", "failed"}
        \/ /\ LifeState[victim] = "queued"
           /\ \A n \in Messages : LifeState[n] \notin {"delivered", "failed"}
    BY <2>2 DEF LifeState, Settled
  <2> QED
    BY <1>2, <1>4, <2>2, <2>4, <2>5, <2>6, SameCardinality DEF Life!Take, AcceptEvicting
<1> QED
  BY <1>3, <1>4

LEMMA RefuseRefined ==
  ASSUME IInv, NEW s \in Senders, AcceptFull(s)
  PROVE  Life!Refuse(msg[s])
<1>1. /\ msg[s] \in Messages /\ status[msg[s]] = "accepted"
  BY Inserting DEF AcceptFull
<1>2. \A n \in Messages : status[n] \notin Settled \cup {"queued"}
  BY DEF AcceptFull, Evictable
<1>3. LifeState' = [LifeState EXCEPT ![msg[s]] = "gone"]
  BY <1>1 DEF AcceptFull, LifeState, IInv, TypeOK
<1>4. LifeState[msg[s]] = "outside" /\ \A n \in Messages : LifeState[n] \notin {"queued", "delivered", "failed"}
  BY <1>1, <1>2 DEF LifeState, Settled
<1> QED
  BY <1>3, <1>4 DEF Life!Refuse, AcceptFull

LEMMA ClaimRefined ==
  ASSUME IInv, NEW w \in Releasers, Claim(w)
  PROVE  msg[w] \in Messages /\ Life!Claim(msg[w])
<1>1. msg[w] \in Messages /\ status[msg[w]] = "queued"
  BY Disjoint DEF Claim, IInv, PlaceInv
<1>2. LifeState' = [LifeState EXCEPT ![msg[w]] = "in_flight"] /\ LifeState[msg[w]] = "queued"
  BY <1>1 DEF Claim, LifeState, IInv, TypeOK
<1> QED
  BY <1>1, <1>2 DEF Life!Claim, Claim

LEMMA HandRefined ==
  ASSUME IInv, NEW w \in Releasers, Submit(w) \/ SubmitFails(w)
  PROVE  msg[w] \in Messages /\ Life!Hand(msg[w])
<1>1. msg[w] \in Messages /\ status[msg[w]] = "in_flight" /\ handed[msg[w]] = 0
  BY Submitting DEF Submit, SubmitFails
<1>2. UNCHANGED LifeState /\ LifeState[msg[w]] = "in_flight"
  BY <1>1 DEF Submit, SubmitFails, LifeState
<1>3. handed' = [handed EXCEPT ![msg[w]] = 1]
  BY <1>1 DEF Submit, SubmitFails, IInv, TypeOK
<1> QED
  BY <1>1, <1>2, <1>3 DEF Life!Hand

LEMMA SettleRefined ==
  ASSUME IInv, NEW w \in Workers, SetStatus(w)
  PROVE  msg[w] \in Messages /\ Life!Settle(msg[w])
<1>1. msg[w] \in Messages /\ Holds(w, msg[w]) /\ local[w] \in Settled
  BY DEF SetStatus, IInv, PlaceInv, LocalInv, Holds
<1>2. status[msg[w]] = "in_flight" /\ handed[msg[w]] = 1
  BY <1>1 DEF SetStatus, IInv, HoldInv
<1>3. status' = [status EXCEPT ![msg[w]] = local[w]]
  BY <1>2 DEF SetStatus, Stored
<1>4. LifeState' = [LifeState EXCEPT ![msg[w]] = local[w]] /\ LifeState[msg[w]] = "in_flight"
  BY <1>1, <1>2, <1>3 DEF LifeState, IInv, TypeOK, Settled
<1> QED
  BY <1>1, <1>2, <1>4 DEF Life!Settle, SetStatus, Settled

LEMMA LifeNextRefined ==
  ASSUME IInv, IInv', [Next]_vars
  PROVE  [Life!LifeNext]_(Life!lifeVars)
<1>1. ASSUME UNCHANGED <<status, handed>> PROVE UNCHANGED Life!lifeVars
  BY <1>1 DEF LifeState, Life!lifeVars
<1>2. ASSUME NEW s \in Senders, NEW m \in Messages, Send(s, m) PROVE UNCHANGED Life!lifeVars
  BY <1>2 DEF Send, LifeState, Life!lifeVars, IInv, TypeOK
<1>3. ASSUME NEW s \in Senders, AcceptRoom(s) \/ AcceptEvicting(s) \/ AcceptFull(s) \/ Ready(s)
      PROVE  Life!LifeNext \/ UNCHANGED Life!lifeVars
  <2>1. CASE Ready(s)
    BY <1>1, <2>1 DEF Ready, storeVars
  <2>2. CASE AcceptRoom(s) \/ AcceptEvicting(s) \/ AcceptFull(s)
    <3>1. msg[s] \in Messages
      BY <2>2, Inserting DEF AcceptRoom, AcceptEvicting, AcceptFull
    <3> QED
      BY <2>2, <3>1, TakeRefined, RefuseRefined DEF Life!LifeNext
  <2> QED
    BY <1>3, <2>1, <2>2
<1>4. ASSUME NEW w \in Releasers, Claim(w) \/ ClaimLost(w) \/ Submit(w) \/ SubmitFails(w)
      PROVE  Life!LifeNext \/ UNCHANGED Life!lifeVars
  <2>1. CASE ClaimLost(w)
    BY <1>1, <2>1 DEF ClaimLost, storeVars
  <2> QED
    BY <1>4, <2>1, ClaimRefined, HandRefined DEF Life!LifeNext
<1>5. ASSUME NEW w \in Workers, SetStatus(w) \/ Get(w) \/ GetMissing(w) \/ Publish(w)
      PROVE  Life!LifeNext \/ UNCHANGED Life!lifeVars
  <2>1. CASE Get(w) \/ GetMissing(w) \/ Publish(w)
    BY <1>1, <2>1 DEF Get, GetMissing, Publish, storeVars
  <2> QED
    BY <1>5, <2>1, SettleRefined DEF Life!LifeNext
<1>6. ASSUME NEW m \in Messages, Outcome(m) \/ Cancelled(m) PROVE UNCHANGED Life!lifeVars
  BY <1>1, <1>6 DEF Outcome, Cancelled, storeVars
<1>7. ASSUME \/ \E d \in Devices : Tick(d) \/ Flush(d) \/ CoverageFlip(d)
             \/ Close
             \/ UNCHANGED vars
      PROVE  UNCHANGED Life!lifeVars
  BY <1>1, <1>7 DEF Tick, Flush, CoverageFlip, Close, vars, storeVars
<1> QED
  BY <1>2, <1>3, <1>4, <1>5, <1>6, <1>7, StepCases

\* Every behaviour of the module is, message by message, a behaviour of
\* MessageLifecycle: taken or refused, claimed, handed over once, settled once,
\* and evicted only while nobody is responsible for it.
THEOREM LifecycleImplemented == Spec => Lifecycle
<1>1. Init => Life!LifeInit
  BY LifeInitRefined
<1>2. IInv /\ IInv' /\ [Next]_vars => [Life!LifeNext]_(Life!lifeVars)
  BY LifeNextRefined
<1> QED
  BY <1>1, <1>2, Invariant, PTL DEF Spec, Lifecycle, Life!LifeSpec

=============================================================================
