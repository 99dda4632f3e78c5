---------------------------- MODULE MCParallelRun ----------------------------
(***************************************************************************)
(* Keys files for the runs of ParallelRun.                                 *)
(***************************************************************************)
EXTENDS ParallelRun, TLC

CONSTANTS a, b, c, d

ThreeKeys   == 0 :> a @@ 1 :> b @@ 2 :> c
RepeatedKey == 0 :> a @@ 1 :> b @@ 2 :> a
FourKeys    == ThreeKeys @@ 3 :> d
=============================================================================
