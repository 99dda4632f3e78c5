--------------------------- MODULE MCSequentialRun ---------------------------
(***************************************************************************)
(* Keys files for the runs of SequentialRun: four distinct wallets, and a  *)
(* file in which the first wallet's key is pasted a second time.           *)
(***************************************************************************)
EXTENDS SequentialRun, TLC

CONSTANTS a, b, c, d

DistinctKeys == 0 :> a @@ 1 :> b @@ 2 :> c @@ 3 :> d
RepeatedKey  == 0 :> a @@ 1 :> b @@ 2 :> a @@ 3 :> c
=============================================================================
