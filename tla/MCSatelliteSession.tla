-------------------------- MODULE MCSatelliteSession --------------------------
(***************************************************************************)
(* Model checking of SatelliteSession: two observers under skies of one to *)
(* three passes, long, short, close together, begun before the search or   *)
(* not ended with it.  A coarse step is eight seconds.                     *)
(***************************************************************************)
EXTENDS SatelliteSession

\* A pass climbs one degree a second, up to a peak.
MCSky(passes) ==
  [t \in 0 .. MaxSearch |->
     Max({0} \cup {Min({1 + t - p[1], 1 + p[2] - t, p[3]}) : p \in passes})]

MCElevation ==
  [ordinary |-> MCSky({<<10, 18, 3>>, <<30, 38, 4>>}),
   begun |-> MCSky({<<0, 8, 2>>, <<21, 25, 2>>}),
   short |-> MCSky({<<8, 9, 1>>, <<23, 26, 4>>, <<36, 40, 4>>}),
   close |-> MCSky({<<10, 14, 2>>, <<18, 27, 4>>}),
   empty |-> MCSky({})]

MCSkies == DOMAIN MCElevation

MCModel ==
  [delay |-> <<[elev |-> 1, value |-> 80], [elev |-> 3, value |-> 40]>>,
   loss |-> <<[elev |-> 2, value |-> 4]>>]

MCMaxGap == [o \in {Primary, Peer} |-> IF o = Primary THEN 2 ELSE 1]
=============================================================================
