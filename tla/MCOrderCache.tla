----------------------------- MODULE MCOrderCache -----------------------------
(***************************************************************************)
(* A small instance of OrderCache: two readers and three versions of the   *)
(* row.  An entry lives for two units of the clock, so that a reader can   *)
(* be slow by less than that.                                              *)
(***************************************************************************)
EXTENDS OrderCache, TLC

CONSTANTS r1, r2

Symmetry == Permutations(Reader)
===============================================================================
