------------------------------- MODULE MCStore -------------------------------
(***************************************************************************)
(* Instances of BranchStore for TLC.  Change sets write one key; a delete  *)
(* also stands for the commit without effect.                              *)
(***************************************************************************)
EXTENDS StoreReads, CommitIds, TLC

Put(pk, image) == [p \in {pk} |-> image]

Set == [c \in Cols |-> CHOOSE x \in Vals : x # Null]
Cleared == [c \in Cols |-> Null]

(* Racing writers: every row set or deleted, in versioned tables; set only *)
(* in audit-mode tables.                                                   *)
MCRaceChangeSets ==
  {Put(pk, image) : pk \in UNION (Tables \ AuditTables), image \in {Set, Absent}}
    \cup {Put(pk, Set) : pk \in UNION AuditTables}

(* Forks: rows of two kinds, so that siblings may agree or not.            *)
MCForkChangeSets ==
  {Put(pk, image) : pk \in PKs, image \in [Cols -> Vals \ {Null}] \cup {Absent}}

(* Merges: rows that set some columns, and deletes.  The rows that set     *)
(* every column and none come out of merges.                               *)
MCMergeChangeSets == {Put(pk, image) : pk \in PKs, image \in Image \ {Set, Cleared}}

(* Branches other than the default one are interchangeable.                *)
BranchSymmetry == Permutations(Branches \ {Main})

(* The columns are interchangeable: MCMergeChangeSets favours none.        *)
ColumnSymmetry == Permutations(Cols)
=============================================================================
