----------------------------- MODULE MCDualPath -----------------------------
(***************************************************************************)
(* Model checking of DualPath: two goroutines deliver coverage edges, one  *)
(* or two deliver link states, and two link states can be told apart.      *)
(***************************************************************************)
EXTENDS DualPath, TLC

\* The two coverage goroutines are interchangeable, and so are link states.
Symmetry == Permutations(CoverageCallers) \cup Permutations(LinkCallers)
            \cup Permutations(LinkStates)
=============================================================================
