-------------------------------- MODULE Least --------------------------------
(***************************************************************************)
(* The minimum and the maximum of a set of numbers, for the proofs about   *)
(* the grammars, the map of wms_query and the first empty line of a reply. *)
(***************************************************************************)
EXTENDS Integers, FiniteSetsExt, WellFoundedInduction, TLAPS

\* A set of natural numbers has a least element, which is what Min gives.
LEMMA MinIsLeast ==
  ASSUME NEW T, T \subseteq Nat, T # {}
  PROVE  Min(T) \in T /\ \A y \in T : Min(T) <= y
<1> DEFINE R == OpToRel(<, Nat)
<1>0. IsWellFoundedOn(R, Nat)
  BY NatLessThanWellFounded
<1> HIDE DEF R
<1>1. PICK x \in T : \A y \in T : <<y, x>> \notin R
  BY <1>0, WFMin
<1>2. \A y \in T : ~(y < x)
  <2> SUFFICES ASSUME NEW y \in T, y < x PROVE FALSE
    OBVIOUS
  <2>1. <<y, x>> \in R
    BY SMT DEF R, OpToRel
  <2> QED BY <1>1, <2>1
<1>3. \E z \in T : \A y \in T : z <= y
  BY <1>1, <1>2
<1> QED BY <1>3 DEF Min

\* An element that no other is below, or above, is what Min, or Max, gives.
LEMMA MinIs ==
  ASSUME NEW T, T \subseteq Int, NEW v \in T, \A y \in T : v <= y
  PROVE  Min(T) = v
<1>1. Min(T) \in T /\ \A y \in T : Min(T) <= y
  BY DEF Min
<1>2. Min(T) <= v /\ v <= Min(T) /\ v \in Int /\ Min(T) \in Int
  BY <1>1
<1> QED BY <1>2

\* The same of the maximum.
LEMMA MaxIs ==
  ASSUME NEW T, T \subseteq Int, NEW v \in T, \A y \in T : y <= v
  PROVE  Max(T) = v
<1>1. Max(T) \in T /\ \A y \in T : Max(T) >= y
  BY DEF Max
<1>2. Max(T) >= v /\ Max(T) <= v /\ v \in Int /\ Max(T) \in Int
  BY <1>1
<1> QED BY <1>2

=============================================================================
