------------------------- MODULE MCReportAggregator -------------------------
(***************************************************************************)
(* Model checking of ReportAggregator over a short timeline with a         *)
(* blockage inside a window, a gap, and the next window.                   *)
(***************************************************************************)
EXTENDS ReportAggregator, TLC

\* One instant per bucket, two of the first.
Timeline == 0 :> "in" @@ 1 :> "blocked" @@ 2 :> "in" @@ 3 :> "out" @@ 4 :> "in" @@ 5 :> "in"

CallersAlike == Permutations(Callers)
=============================================================================
