------------------------------ MODULE MCEngine ------------------------------
(***************************************************************************)
(* Instances of IntervalEngine for TLC.  The change sets write one key:    *)
(* any row but the one that sets every column (merges make that one), or a *)
(* delete, which also stands for the change set that has no effect.        *)
(***************************************************************************)
EXTENDS IntervalEngine, TLC

Put(pk, image) == [p \in {pk} |-> image]

Full == [c \in Cols |-> CHOOSE x \in Vals : x # Null]

MCChangeSets == {Put(pk, image) : pk \in PKs, image \in Image \ {Full}}

MCAllChangeSets == {Put(pk, image) : pk \in PKs, image \in Image}

(* Branches other than the root are interchangeable.                       *)
BranchSymmetry == Permutations(Branches \ {Main})
=============================================================================
