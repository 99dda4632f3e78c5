-------------------------- MODULE ApplicationProofs --------------------------
(***************************************************************************)
(* Facts about the operators both modes are built from.                    *)
(***************************************************************************)
EXTENDS Application, WellFoundedInduction, TLAPS

(***************************************************************************)
(* Every non-empty set of positions has a least element.                   *)
(***************************************************************************)
LEMMA LeastPosition ==
    ASSUME NEW S \in SUBSET Nat, S # {}
    PROVE  \E x \in S : \A y \in S : x <= y
<1> DEFINE R == {ss \in Nat \X Nat : ss[1] < ss[2]}
<1>1. IsWellFoundedOn(R, Nat)
  BY NatLessThanWellFounded DEF OpToRel
<1>2. \E x \in S : \A y \in S : ~(<<y, x>> \in R)
  <2> HIDE DEF R
  <2> QED
    BY <1>1, WFMin
<1>3. \A x, y \in S : ~(<<y, x>> \in R) => x <= y
  OBVIOUS
<1> QED
  BY <1>2, <1>3

(***************************************************************************)
(* findOriginalIndex returns the first position that holds the address: it *)
(* exists, holds the same wallet and is not behind the position asked for. *)
(***************************************************************************)
LEMMA OriginalIndexFirst ==
    ASSUME wallets \in [Index -> Index], NEW p \in Index
    PROVE  /\ OriginalIndex(p) \in Index
           /\ Address(OriginalIndex(p)) = Address(p)
           /\ OriginalIndex(p) <= p
<1> DEFINE S == {q \in Index : Address(q) = Address(p)}
<1>1. S \in SUBSET Nat /\ p \in S
  BY ApplicationAssumption DEF Index
<1>2. \E x \in S : \A y \in S : x <= y
  BY <1>1, LeastPosition
<1>3. OriginalIndex(p) \in S /\ \A y \in S : OriginalIndex(p) <= y
  BY <1>2 DEF OriginalIndex, Min
<1> QED
  BY <1>1, <1>3

(***************************************************************************)
(* A caller of GetState gets the recorded index or none.                   *)
(***************************************************************************)
LEMMA LastCompletedIsSavedOrNone ==
    ASSUME NEW ctxDone \in BOOLEAN, NEW l \in LastCompleted(ctxDone)
    PROVE  l = saved \/ l = NoIndex
BY DEF LastCompleted, GetState

(***************************************************************************)
(* Resuming after index l starts behind every position up to l only.       *)
(***************************************************************************)
LEMMA ResumeFromBehind ==
    ASSUME NEW l \in Index \cup {NoIndex}
    PROVE  /\ ResumeFrom(l) \in 0..NumKeys
           /\ \A i \in Index : i <= ResumeFrom(l) - 1 => i <= l
BY ApplicationAssumption DEF ResumeFrom, Index, NoIndex

(***************************************************************************)
(* Whatever prepareWalletsToProcess reads, the order it leaves in          *)
(* a.wallets is a list of positions, and file order when that is asked for.*)
(***************************************************************************)
LEMMA OrdersAreLists ==
    ASSUME wallets \in [Index -> Index], NEW l, NEW o \in Orders(l)
    PROVE  o \in [Index -> Index] /\ (~RandomOrder => o = wallets)
BY DEF Orders, Shuffles
=============================================================================
