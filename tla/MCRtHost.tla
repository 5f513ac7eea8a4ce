------------------------------- MODULE MCRtHost -------------------------------
(***************************************************************************)
(* RtHost for TLC.  Of the coordinates, -5 is below the offset and         *)
(* saturates, 3 is truncated to the threshold's distance from the start.   *)
(***************************************************************************)
EXTENDS RtHost

MCPositions == {<<-5, 3, 3>>, <<3, 3, -5>>}

=============================================================================
