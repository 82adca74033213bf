----------------------------- MODULE HandoverFeed -----------------------------
(***************************************************************************)
(* What a dual-path sandbox promises the subscribers of its handover       *)
(* events: one bearer at a time, and a feed in which every event leaves    *)
(* the bearer the previous one arrived at, with a reason that fits its     *)
(* direction.  Nothing is said of shaping, routing, locks or callers.      *)
(***************************************************************************)
EXTENDS PathManager

VARIABLES
  announced,  \* the bearer the subscribers know of ("none" before start-up)
  latest      \* the set holding the latest handover event, empty before the first

feedVars == <<announced, latest>>

FeedTypeOK ==
  /\ announced \in Bearers \cup {"none"}
  /\ latest \in SUBSET Handovers

FeedInit ==
  /\ announced = "none"
  /\ latest = {}

\* The initial bearer is installed without an event.
Start ==
  /\ announced = "none"
  /\ announced' \in Bearers
  /\ UNCHANGED latest

Reasons(to) == IF to = "terrestrial" THEN LossReasons ELSE GainReasons

Switch(to) ==
  /\ announced \in Bearers \ {to}
  /\ \E reason \in Reasons(to) :
        latest' = {[from |-> announced, to |-> to, reason |-> reason]}
  /\ announced' = to

FeedNext == Start \/ \E to \in Bearers : Switch(to)

FeedSpec == FeedInit /\ [][FeedNext]_feedVars
===============================================================================
