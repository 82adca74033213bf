----------------------------- MODULE MCMessaging -----------------------------
(***************************************************************************)
(* Model checking of Messaging: two messages, one device and the cloud, in *)
(* a store that holds both or only one, so that messages are evicted and   *)
(* refused.                                                                *)
(***************************************************************************)
EXTENDS Messaging, TLC

CONSTANTS m1, m2, d1

OneDevice == {d1}
TwoMessages == {m1, m2}

AllToDevice == [m \in TwoMessages |-> d1]
OneEach == [m \in TwoMessages |-> IF m = m1 THEN d1 ELSE Cloud]

\* Senders are interchangeable.
SendersAlike == Permutations(Senders)
=============================================================================
