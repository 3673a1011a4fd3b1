------------------------------ MODULE MCEngine ------------------------------
(***************************************************************************)
(* Instances of module Engine for TLC.                                     *)
(***************************************************************************)
EXTENDS Engine

\* Every command of the desktop.
AllCommands == {"ForceScan", "Shutdown", "Apply", "ApplyRoot", "Pause", "Resume",
                "OpenSettings", "OpenHelp"}

\* One command of each kind that moves the loop, for the temporal properties.
FewCommands == {"ForceScan", "Shutdown", "Pause", "Resume"}
=============================================================================
