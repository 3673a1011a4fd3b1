----------------------------- MODULE MCRequests -----------------------------
(***************************************************************************)
(* Instances of module Requests for TLC.                                   *)
(***************************************************************************)
EXTENDS Requests

\* One request of each shape: the others have steps of mkdir or of the listing.
AllShapes == {"simple", "resumable", "mkdir", "list"}
Uploads  == {"simple", "resumable"}
=============================================================================
