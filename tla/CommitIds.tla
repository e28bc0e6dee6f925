------------------------------ MODULE CommitIds ------------------------------
(***************************************************************************)
(* Commit ids, internal/hash: a commit's id is a digest of the ids of its  *)
(* parents and of its changes, and of neither its branch nor its sequence  *)
(* number.                                                                 *)
(*                                                                         *)
(* A digest stands for what it is computed from: the encodings that are    *)
(* hashed are tagged and length-prefixed, so that different inputs give    *)
(* different bytes.  Author, time, message and the schema's digest are     *)
(* taken to be the same for all commits: what tells two commits apart is   *)
(* the data alone.                                                         *)
(***************************************************************************)
EXTENDS BranchStore, FiniteSets

Before(c, pk) ==
  IF commits[c].first = 0 THEN Absent ELSE StateAtCommit(commits[c].first)[pk]

Op(before, row) ==
  IF row = Absent THEN "delete" ELSE IF before = Absent THEN "insert" ELSE "update"

(* Mutant: the row image is left out, as it is for deletes.                *)
LeafDigestWithoutRow(c, v) ==
  [pk |-> v.pk, op |-> Op(Before(c, v.pk), v.row), changed |-> v.changed]

(* One row change.  A delete has no image to hash.                         *)
LeafDigest(c, v) ==
  [pk |-> v.pk, op |-> Op(Before(c, v.pk), v.row), changed |-> v.changed,
   row |-> v.row]

(* The root over the sorted leaves: the set of changes, in no order.  The  *)
(* versions of a commit are those of its number on its branch.             *)
ChangeDigest(c) ==
  {LeafDigest(c, v) : v \in {w \in rows : /\ w.branch = commits[c].branch
                                          /\ w.session = NoSession
                                          /\ w.from = commits[c].seq}}

(* The parents' ids, sorted, so that which side was recorded first does    *)
(* not show; two parents may have one id.                                  *)
SortedParents(c, id) ==
  LET others == commits[c].others
      all == others \cup ({commits[c].first} \ {0})
  IN  [ids |-> {id[p] : p \in all}, n |-> Cardinality(others) + 1]

(* Of the commits with one id, the first stands for all.                   *)
CommitID ==
  LET id[c \in DOMAIN commits] ==
        LET content(d) == [parents |-> SortedParents(d, id), changes |-> ChangeDigest(d)]
            same == {d \in 1 .. c - 1 : content(d) = content(c)}
        IN  IF same = {} THEN c ELSE CHOOSE d \in same : \A e \in same : d <= e
  IN  id

(* An id stands for a state of the whole repository, as in any history of  *)
(* content hashes: two commits with one id show the same rows, on whatever *)
(* branches and after whatever merges and updates they came about, though  *)
(* neither the branch, nor the order of the parents, nor the rows that the *)
(* commit leaves alone are hashed (hash.go:107-150, 199-245, read.go:57).  *)
IdsDetermineStates ==
  \A c \in DOMAIN commits :
    CommitID[c] # c => StateAtCommit(c) = StateAtCommit(CommitID[c])
=============================================================================
