------------------------------ MODULE MCDesktop ------------------------------
(***************************************************************************)
(* Instances of module Desktop for TLC.                                    *)
(***************************************************************************)
EXTENDS Desktop, TLC

CONSTANTS confA, confB

AllOrders == {"Pause", "Resume", "ForceScan", "OpenSettings", "OpenHelp", "Shutdown"}
=============================================================================
