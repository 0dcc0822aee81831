---------------------------- MODULE MCActionRuns ----------------------------
(***************************************************************************)
(* Instances of ActionRuns for TLC.                                        *)
(***************************************************************************)
EXTENDS ActionRuns, TLC

(* Requests are interchangeable, and so are run ids: no definition orders  *)
(* or names one.  Sound for invariants and for properties of single steps, *)
(* which TLC evaluates on every transition; the liveness run goes without. *)
Interchangeable == Permutations(Requests) \cup Permutations(Runs)
=============================================================================
