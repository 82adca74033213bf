--------------------------- MODULE MessageLifecycle ---------------------------
(***************************************************************************)
(* What store-and-forward messaging promises for every message: it is      *)
(* taken into a bounded store or refused, handed to the IMS adapter at     *)
(* most once, and settled once; it leaves the store only to make room for  *)
(* another, never between claim and settlement.  Nothing is said of        *)
(* senders, drivers, coverage, locks or publication.                       *)
(***************************************************************************)
EXTENDS Naturals, FiniteSets

CONSTANTS
  Messages,
  Capacity     \* MaxMessages

VARIABLES
  state,   \* where each message is in its life
  handed   \* how many times each message was handed to the adapter

lifeVars == <<state, handed>>

Kept(s) == {m \in Messages : s[m] \in {"queued", "in_flight", "delivered", "failed"}}

LifeInit ==
  /\ state = [m \in Messages |-> "outside"]
  /\ handed = [m \in Messages |-> 0]

\* A message enters; when the store is full exactly one other leaves it,
\* a settled one if there is any, and never one that is in flight.
Take(m) ==
  /\ state[m] = "outside"
  /\ \/ /\ Cardinality(Kept(state)) < Capacity
        /\ state' = [state EXCEPT ![m] = "queued"]
     \/ \E v \in Messages :
          /\ Cardinality(Kept(state)) >= Capacity
          /\ \/ state[v] \in {"delivered", "failed"}
             \/ /\ state[v] = "queued"
                /\ \A n \in Messages : state[n] \notin {"delivered", "failed"}
          /\ state' = [state EXCEPT ![m] = "queued", ![v] = "gone"]
  /\ UNCHANGED handed

Refuse(m) ==
  /\ state[m] = "outside"
  /\ \A n \in Messages : state[n] \notin {"queued", "delivered", "failed"}
  /\ state' = [state EXCEPT ![m] = "gone"]
  /\ UNCHANGED handed

Claim(m) ==
  /\ state[m] = "queued"
  /\ state' = [state EXCEPT ![m] = "in_flight"]
  /\ UNCHANGED handed

Hand(m) ==
  /\ state[m] = "in_flight"
  /\ handed[m] = 0
  /\ handed' = [handed EXCEPT ![m] = 1]
  /\ UNCHANGED state

Settle(m) ==
  /\ state[m] = "in_flight"
  /\ handed[m] = 1
  /\ state' \in {[state EXCEPT ![m] = "delivered"], [state EXCEPT ![m] = "failed"]}
  /\ UNCHANGED handed

LifeNext ==
  \E m \in Messages : Take(m) \/ Refuse(m) \/ Claim(m) \/ Hand(m) \/ Settle(m)

LifeSpec == LifeInit /\ [][LifeNext]_lifeVars
===============================================================================
