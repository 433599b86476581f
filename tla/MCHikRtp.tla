------------------------------ MODULE MCHikRtp ------------------------------
(***************************************************************************)
(* Instances of HikRtp: FUs back to back and around every other kind.      *)
(***************************************************************************)
EXTENDS HikRtp

Unit(k, n) == [kind |-> k, size |-> n]

MCUnits == <<Unit("prefixed", 2), Unit("fu", 3), Unit("fu", 2), Unit("other", 1),
             Unit("fu", 3), Unit("stub", 1), Unit("fu", 2), Unit("dropped", 1),
             Unit("fu", 2), Unit("nal", 1)>>
=============================================================================
