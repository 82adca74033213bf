----------------------------- MODULE MCShaperQueue -----------------------------
(***************************************************************************)
(* Model checking of ShaperQueue: two goroutines, a channel of one or two, *)
(* and enough edges for a gap between two windows.                         *)
(***************************************************************************)
EXTENDS ShaperQueue
===============================================================================
