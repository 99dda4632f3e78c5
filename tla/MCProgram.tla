------------------------------ MODULE MCProgram ------------------------------
(***************************************************************************)
(* A keys file for the runs of Program: four keys among a comment, a line  *)
(* that is no key and an empty one.                                        *)
(***************************************************************************)
EXTENDS Program, TLC

CONSTANTS a, b, c, d

FourKeys == 0 :> a @@ 1 :> b @@ 2 :> c @@ 3 :> d

FourKeysFile == <<Blank, a, Malformed, b, c, Blank, d>>

\* With three-bit numbers, 4 becomes negative, 8 zero and 9 one.
Sizes == {Unset, Junk, -1, 0, 2, 4, 8, 9}
=============================================================================
