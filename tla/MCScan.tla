------------------------------- MODULE MCScan -------------------------------
\* One folder with one file: what a scan does of a file depends on no other.
EXTENDS Scan, TLC

CONSTANTS d, g

FolderOf == (d :> "root") @@ (g :> d)
=============================================================================
