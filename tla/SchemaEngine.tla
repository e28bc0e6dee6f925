----------------------------- MODULE SchemaEngine -----------------------------
(***************************************************************************)
(* The schema engine, internal/schemaeng: what two versions of a table's   *)
(* schema differ in, how risky each difference is, how two versions merge  *)
(* over a third, and the plan of operations that a difference becomes.     *)
(* Pure functions, without state.                                          *)
(*                                                                         *)
(* A column is a record of its name, type and nullability.  A version maps *)
(* the ids of its columns to them, and remembers ids that were dropped.    *)
(***************************************************************************)
EXTENDS Integers, FiniteSets, Sequences, TLC

LOCAL INSTANCE SequencesExt

(* A column of a version as a set: empty when the version has none.        *)
At(v, id) == IF id \in DOMAIN v.columns THEN {v.columns[id]} ELSE {}

-----------------------------------------------------------------------------
(* Types.                                                                  *)

Additive == 0
Widening == 1
Narrowing == 2
Destructive == 3

(* Spellings of one type.                                                  *)
Synonyms ==
  ("decimal" :> "numeric") @@ ("int" :> "integer") @@ ("int4" :> "integer")
    @@ ("int8" :> "bigint") @@ ("varchar" :> "character varying")
    @@ ("char" :> "character") @@ ("double" :> "double precision")

BaseType(type) == IF type.base \in DOMAIN Synonyms THEN Synonyms[type.base] ELSE type.base

(* The transitions between types that are taken to lose nothing.           *)
Widens ==
  ("smallint" :> {"integer", "bigint", "numeric", "double precision"})
    @@ ("integer" :> {"bigint", "numeric", "double precision"})
    @@ ("bigint" :> {"numeric"}) @@ ("real" :> {"double precision"})
    @@ ("character varying" :> {"text"})
    @@ ("character" :> {"character varying", "text"})

(* Widths are compared where both types state one.                         *)
TypeClass(from, to) ==
  LET f == BaseType(from)
      t == BaseType(to)
  IN  IF f = t
      THEN IF from.width > 0 /\ to.width > 0 /\ to.width < from.width THEN Narrowing
           ELSE Widening
      ELSE IF f \in DOMAIN Widens /\ t \in Widens[f] THEN Widening
      ELSE Destructive

-----------------------------------------------------------------------------
(* Differences.  A column that changed in several ways is one change: the  *)
(* first kind that applies.                                                *)

KindOf(old, new) ==
  IF old.name # new.name /\ old.type = new.type THEN "rename_column"
  ELSE IF old.type # new.type THEN "alter_column_type"
  ELSE IF old.nullable /\ ~new.nullable THEN "set_not_null"
  ELSE IF ~old.nullable /\ new.nullable THEN "drop_not_null"
  ELSE "none"

ClassOf(kind, old, new) ==
  CASE kind = "rename_column" -> Destructive
    [] kind = "alter_column_type" -> TypeClass(old.type, new.type)
    [] kind = "set_not_null" -> Narrowing
    [] kind \in {"drop_not_null", "none"} -> Widening

Changed(from, to, id) ==
  LET old == from.columns[id]
      new == to.columns[id]
      kind == KindOf(old, new)
  IN  [kind |-> kind, col |-> id, from |-> old, to |-> new, class |-> ClassOf(kind, old, new)]

Changes(from, to) ==
  LET had == DOMAIN from.columns
      has == DOMAIN to.columns
  IN  {[kind |-> "add_column", col |-> id, from |-> to.columns[id], to |-> to.columns[id],
        class |-> Additive] : id \in has \ had}
        \cup {c \in {Changed(from, to, id) : id \in has \cap had} : c.kind # "none"}
        \cup {[kind |-> "drop_column", col |-> id, from |-> from.columns[id],
               to |-> from.columns[id], class |-> Destructive] : id \in had \ has}

(* Mutant: in the order of the column ids alone.                           *)
SchemaDiffById(from, to) ==
  SetToSortSeq(Changes(from, to), LAMBDA c, d : c.col < d.col)

(* The least risky first.                                                  *)
SchemaDiff(from, to) ==
  SetToSortSeq(Changes(from, to),
               LAMBDA c, d : c.class < d.class \/ (c.class = d.class /\ c.col < d.col))

-----------------------------------------------------------------------------
(* Plans: a sequence of operations on the live table.  Two of the changes  *)
(* take two steps.                                                         *)

Op(c, kind) == [kind |-> kind, col |-> c.from, to |-> c.to, class |-> c.class]

OpsOf(c) ==
  CASE c.kind = "set_not_null" -> <<Op(c, "preflight_not_null"), Op(c, c.kind)>>
    [] c.kind = "drop_column" -> <<Op(c, "deprecate_column"), Op(c, c.kind)>>
    [] OTHER -> <<Op(c, c.kind)>>

Plan(changes) == FlattenSeq([i \in DOMAIN changes |-> OpsOf(changes[i])])

RequiresConfirmation(ops) == \E i \in DOMAIN ops : ops[i].class >= Narrowing

-----------------------------------------------------------------------------
(* Merging two versions over a base, column by column.                     *)

(* Mutant: a column dropped by one side goes, whatever the other made of   *)
(* it.                                                                     *)
ClashesInBoth(b, a, t) ==
  a # {} /\ t # {} /\ a # t /\ ~(b # {} /\ a = b) /\ ~(b # {} /\ t = b)

(* Altered, or added, differently by both sides; dropped by one and        *)
(* altered by the other.                                                   *)
Clashes(b, a, t) ==
  \/ a # {} /\ t # {} /\ a # t /\ ~(b # {} /\ a = b) /\ ~(b # {} /\ t = b)
  \/ a # {} /\ t = {} /\ b # {} /\ a # b
  \/ a = {} /\ t # {} /\ b # {} /\ t # b

MergedColumn(b, a, t) ==
  CASE a # {} /\ t # {} -> IF a = t THEN a ELSE IF a = b THEN t ELSE a
    [] a # {} /\ t = {} -> IF b = {} THEN a ELSE {}
    [] a = {} /\ t # {} -> IF b = {} THEN t ELSE {}
    [] a = {} /\ t = {} -> {}

ColumnIds(base, ours, theirs) ==
  DOMAIN base.columns \cup DOMAIN ours.columns \cup DOMAIN theirs.columns

SchemaConflicts(base, ours, theirs) ==
  {id \in ColumnIds(base, ours, theirs) : Clashes(At(base, id), At(ours, id), At(theirs, id))}

(* Without conflicts.  Only what this very merge drops is remembered.      *)
MergeVersions(base, ours, theirs) ==
  LET kept(id) == MergedColumn(At(base, id), At(ours, id), At(theirs, id))
      ids == {id \in ColumnIds(base, ours, theirs) : kept(id) # {}}
  IN  [columns |-> [id \in ids |-> CHOOSE c \in kept(id) : TRUE],
       dropped |-> DOMAIN base.columns \ ids]

-----------------------------------------------------------------------------
(* Correctness: the merge of a column, against the definition of a         *)
(* three-way merge that takes the absence of a column for one more value.  *)

ThreeWayClash(b, a, t) == a # t /\ a # b /\ t # b
ThreeWay(b, a, t) == IF a = t THEN a ELSE IF a = b THEN t ELSE a
=============================================================================
