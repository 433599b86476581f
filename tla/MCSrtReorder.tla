---------------------------- MODULE MCSrtReorder ----------------------------
(***************************************************************************)
(* Instances of SrtReorder.  The sequence numbers wrap in the middle of    *)
(* the packets sent: 14, 15, 0, 1, ...                                     *)
(***************************************************************************)
EXTENDS SrtReorder, TLC

TimerSymmetry == Permutations(Timers)
=============================================================================
