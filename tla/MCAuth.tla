------------------------------- MODULE MCAuth -------------------------------
(* A task and two clicks on the Settings button. The margin is one tick, a token lives
   two. *)
EXTENDS Auth, TLC

Symmetric == Permutations(Clicks)
AllSlips == Slips
=============================================================================
