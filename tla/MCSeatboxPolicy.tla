------------------------- MODULE MCSeatboxPolicy -------------------------
(***************************************************************************)
(* Instances of SeatboxPolicy for TLC.                                     *)
(***************************************************************************)
EXTENDS SeatboxPolicy
===========================================================================
