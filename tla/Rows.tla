-------------------------------- MODULE Rows --------------------------------
(***************************************************************************)
(* Rows, tables, column masks and the three-way merge: the vocabulary of   *)
(* internal/core that every other module is written in.                    *)
(*                                                                         *)
(* A row image is a function from columns to values, or Absent when the    *)
(* table has no row for the key; a tombstone version carries Absent.  A    *)
(* mask is a set of columns.  A key never changes, so a table is a         *)
(* function from keys to images.                                           *)
(***************************************************************************)
EXTENDS Naturals, Sequences

CONSTANTS
  PKs,      \* primary keys
  Cols,     \* value columns
  Vals,     \* column values, SQL NULL among them
  Null,     \* SQL NULL
  Absent    \* the image of a key that has no row

ASSUME RowsAssumption == /\ Null \in Vals
                         /\ Absent \notin [Cols -> Vals]

Row == [Cols -> Vals]
Image == Row \cup {Absent}
Table == [PKs -> Image]
Mask == SUBSET Cols

EmptyTable == [pk \in PKs |-> Absent]

(* A change set names some keys and the image each is to have.             *)
ChangeSet == UNION {[keys -> Image] : keys \in SUBSET PKs}

-----------------------------------------------------------------------------
(* Row.Get: a column of an absent row reads as NULL, so deleting a row     *)
(* does not touch a column that was NULL already.                          *)
Get(image, c) == IF image = Absent THEN Null ELSE image[c]

MaskOf(before, after) == {c \in Cols : Get(before, c) # Get(after, c)}

-----------------------------------------------------------------------------
(* Three-way merge of one key: b is the base image, a ours, t theirs.      *)
(* Only the candidate columns cand are compared; every other column keeps  *)
(* the base value.                                                         *)
Clash(b, a, t, c) == a[c] # b[c] /\ t[c] # b[c] /\ a[c] # t[c]

OneSided(b, a, t) == a = b \/ t = b \/ a = t

Conflict(pk, kind, col) == [pk |-> pk, kind |-> kind, col |-> col]

KeyConflicts(pk, b, a, t, cand) ==
  IF OneSided(b, a, t) THEN {}
  ELSE IF b = Absent THEN {Conflict(pk, "add_add", "row")}
  ELSE IF Absent \in {a, t} THEN {Conflict(pk, "delete_modify", "row")}
  ELSE {Conflict(pk, "cell", c) : c \in {d \in cand : Clash(b, a, t, d)}}

(* The merged image; a conflicted key is left out of the result.           *)
MergedImage(b, a, t, cand) ==
  IF a = b THEN t
  ELSE IF OneSided(b, a, t) THEN a
  ELSE IF Absent \in {b, a, t} \/ \E c \in cand : Clash(b, a, t, c) THEN Absent
  ELSE [c \in Cols |-> IF c \notin cand THEN b[c]
                       ELSE IF a[c] = b[c] THEN t[c] ELSE a[c]]

(* The three-way merge of tables, with a set of candidate columns per key. *)
MergeConflicts(base, ours, theirs, cand) ==
  UNION {KeyConflicts(pk, base[pk], ours[pk], theirs[pk], cand[pk]) : pk \in PKs}

MergedTable(base, ours, theirs, cand) ==
  [pk \in PKs |-> MergedImage(base[pk], ours[pk], theirs[pk], cand[pk])]

AllCols == [pk \in PKs |-> Cols]
=============================================================================
