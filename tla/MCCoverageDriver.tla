--------------------------- MODULE MCCoverageDriver ---------------------------
(***************************************************************************)
(* Model checking of CoverageDriver: every profile with a cycle of six     *)
(* seconds and at most two blockages, and a loop that ticks every one or   *)
(* two seconds.                                                            *)
(***************************************************************************)
EXTENDS CoverageDriver

MCPeriod == 6

\* Curves over 3, 4 and 6 seconds have integral slopes.
MCDelay(end) == <<[offset |-> 0, value |-> 24], [offset |-> end, value |-> 60]>>
MCLoss(end) ==
  <<[offset |-> 0, value |-> 0], [offset |-> 1, value |-> 12],
    [offset |-> end - 1, value |-> 12], [offset |-> end, value |-> 24]>>
MCCurves(end) == [delay |-> MCDelay(end), loss |-> MCLoss(end)]

MCBlockages ==
  LET B == {b \in [offset : 0 .. MCPeriod, duration : 1 .. MCPeriod] : End(b) <= MCPeriod}
  IN {<<>>} \cup {<<b>> : b \in B} \cup {<<a, b>> : a \in B, b \in B}

\* Valid keeps the well-formed ones.
MCProfiles ==
  [mode : {"periodic"}, period : {MCPeriod}, window : {3}, lookahead : 0 .. 4,
   blockages : MCBlockages, curves : {MCCurves(3)}]
  \cup [mode : {"periodic"}, period : {MCPeriod}, window : {4}, lookahead : 0 .. 3,
        blockages : MCBlockages, curves : {MCCurves(4)}]
  \cup [mode : {"periodic"}, period : {MCPeriod}, window : {MCPeriod}, lookahead : {0, 2},
        blockages : MCBlockages, curves : {MCCurves(MCPeriod)}]
  \cup [mode : {"continuous"}, period : {MCPeriod}, window : {0}, lookahead : {0, 2},
        blockages : MCBlockages, curves : {MCCurves(MCPeriod)}]
=============================================================================
