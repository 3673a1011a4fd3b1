----------------------------- MODULE MCDispatch -----------------------------
(***************************************************************************)
(* Instance of module Dispatch for TLC: the paths are interchangeable.     *)
(***************************************************************************)
EXTENDS Dispatch, TLC

Symmetry == Permutations(Paths)
=============================================================================
