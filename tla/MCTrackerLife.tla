--------------------------- MODULE MCTrackerLife ---------------------------
(***************************************************************************)
(* A small life for TLC: hours shrink to units, so that windows pass, old   *)
(* attempts slide out of historic and intervals, in range or longer than a  *)
(* submission may have, pass within MaxTime.                                *)
(***************************************************************************)
EXTENDS TrackerLife

CONSTANTS ip1, ip2

\* The name moves from one address to the other and back, or fails.
SomeAnswers == {{ip1}, {ip2}, {}}
=============================================================================
