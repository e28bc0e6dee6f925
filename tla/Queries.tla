------------------------------- MODULE Queries -------------------------------
(***************************************************************************)
(* Reading and writing by predicate: the two-pass resolution query that    *)
(* filters and pages a branch, the predicate updates and deletes that are  *)
(* planned from it, and the constraints a merge is validated against.      *)
(*                                                                         *)
(* Both engines run the same two passes, but only PostgreSQL's first one   *)
(* looks at the key that a page starts after.                              *)
(***************************************************************************)
EXTENDS BranchStore, Integers, FiniteSets

CONSTANTS
  KeyOrder,   \* the keys in the order pages follow
  Filters,    \* the predicates in use, with their parts
  IntWidth,   \* bits of an integer column
  NotNull,    \* columns of the live table that refuse NULL
  Unique      \* its unique indexes: sets of columns

NoFilter == [kind |-> "none"]
NoKey == "none"

ASSUME QueriesAssumption ==
  /\ KeyOrder \in Seq(PKs) /\ NoFilter \notin Filters
  /\ {KeyOrder[i] : i \in DOMAIN KeyOrder} = PKs /\ Len(KeyOrder) = Cardinality(PKs)
  /\ \A e \in Filters : /\ e.kind \in {"and", "or", "not"} => e.terms \subseteq Filters
                        /\ e.kind = "compare" => e.value # Null
                        /\ e.kind = "in" => Null \notin e.values
  /\ NotNull \subseteq Cols

-----------------------------------------------------------------------------
(* Predicates.                                                             *)

Compare(x, op, y) ==
  CASE op = "eq" -> x = y
    [] op = "ne" -> x # y
    [] op = "lt" -> x < y
    [] op = "le" -> x <= y
    [] op = "gt" -> x > y
    [] op = "ge" -> x >= y

(* In SQL: a comparison with NULL is neither true nor false.               *)
Truth(filter, row) ==
  LET truth[e \in Filters] ==
        LET parts == IF e.kind \in {"and", "or", "not"} THEN {truth[t] : t \in e.terms} ELSE {}
            of(holds) == IF holds THEN "true" ELSE "false"
        IN  CASE e.kind = "compare" ->
                   IF row[e.col] = Null THEN "unknown" ELSE of(Compare(row[e.col], e.op, e.value))
              [] e.kind = "in" ->
                   IF row[e.col] = Null /\ e.values # {} THEN "unknown"
                   ELSE of(row[e.col] \in e.values)
              [] e.kind = "isnull" -> of(row[e.col] = Null)
              [] e.kind = "and" -> IF "false" \in parts THEN "false"
                                   ELSE IF "unknown" \in parts THEN "unknown" ELSE "true"
              [] e.kind = "or" -> IF "true" \in parts THEN "true"
                                  ELSE IF "unknown" \in parts THEN "unknown" ELSE "false"
              [] e.kind = "not" -> IF parts = {"unknown"} THEN "unknown" ELSE of("false" \in parts)
  IN  truth[filter]

Matches(filter, row) == filter = NoFilter \/ Truth(filter, row) = "true"

(* In Go, where the arms of CASE are decided: a NULL is a value, unequal   *)
(* to every other, but ordered with all of them at once.                   *)
Compared(x, op, y) ==
  IF x = Null THEN op \in {"ne", "le", "ge"} ELSE Compare(x, op, y)

Holds(filter, row) ==
  LET holds[e \in Filters] ==
        CASE e.kind = "compare" -> Compared(row[e.col], e.op, e.value)
          [] e.kind = "in" -> row[e.col] \in e.values
          [] e.kind = "isnull" -> row[e.col] = Null
          [] e.kind = "and" -> \A t \in e.terms : holds[t]
          [] e.kind = "or" -> \E t \in e.terms : holds[t]
          [] e.kind = "not" -> \A t \in e.terms : ~holds[t]
  IN  holds[filter]

-----------------------------------------------------------------------------
(* The resolution query.                                                   *)

Position(pk) == CHOOSE i \in DOMAIN KeyOrder : KeyOrder[i] = pk

(* A cursor is the text of a key: the canonical encoding of one, with its  *)
(* zero bytes, is neither text nor a number to the database.               *)
Beyond(keys, after) ==
  {pk \in keys : after = NoKey \/ Position(after) < Position(pk)}

(* ORDER BY key LIMIT n.                                                   *)
FirstOf(keys, n) ==
  {pk \in keys : Cardinality({q \in keys : Position(q) < Position(pk)}) < n}

(* Pass 1, with a filter: the keys with a version that matches in any      *)
(* segment.  A page takes twice its limit of them, past the key it starts  *)
(* after, in every arm and again of their union.                           *)
Candidates(chain, filter, limit, after) ==
  LET arm(i) == {pk \in PKs : \E v \in Hits(chain, i, pk) :
                                v.row # Absent /\ Matches(filter, v.row)}
  IN  IF limit = 0 THEN UNION {arm(i) : i \in DOMAIN chain}
      ELSE FirstOf(UNION {FirstOf(Beyond(arm(i), after), 2 * limit) : i \in DOMAIN chain},
                   2 * limit)

(* Mutant: the filter goes inside the arms, so that a version that does    *)
(* not match no longer hides an older one.                                 *)
ResolvedInArms(chain, filter, keys) ==
  {pk \in keys : \E i \in DOMAIN chain : \E v \in Hits(chain, i, pk) :
                   v.row # Absent /\ Matches(filter, v.row)}

(* Pass 2: the candidates resolved, tombstones and the filter outside.     *)
Resolved(chain, filter, keys) ==
  {pk \in keys : CurrentRow(chain, pk) # Absent /\ Matches(filter, CurrentRow(chain, pk))}

(* Without a filter there are no candidates, and nothing looks at the key  *)
(* that a page starts after.                                               *)
Read(chain, filter, limit, after) ==
  LET keys == IF filter = NoFilter THEN PKs ELSE Candidates(chain, filter, limit, after)
      found == Resolved(chain, filter, keys)
  IN  IF limit = 0 THEN found ELSE FirstOf(found, limit)

-----------------------------------------------------------------------------
(* Predicate updates and deletes.                                          *)

Wrap(n) ==
  LET half == 2 ^ (IntWidth - 1) IN ((n + half) % (2 * half)) - half

(* Division drops the fraction.                                            *)
Quotient(x, y) ==
  LET size(n) == IF n < 0 THEN -n ELSE n
      q == size(x) \div size(y)
  IN  IF (x < 0) = (y < 0) THEN q ELSE -q

Arith(x, op, y) ==
  IF Null \in {x, y} THEN Null
  ELSE CASE op = "+" -> Wrap(x + y)
         [] op = "-" -> Wrap(x - y)
         [] op = "*" -> Wrap(x * y)
         [] op = "/" -> IF y = 0 THEN Null ELSE Wrap(Quotient(x, y))

(* An expression over the columns of a row, one operator deep; taken says  *)
(* whether the condition of a CASE holds.  Concatenation is left out.      *)
Operand(a, row) == IF a.kind = "column" THEN row[a.col] ELSE a.value

Evaluated(expr, row, taken) ==
  CASE expr.kind \in {"column", "const"} -> Operand(expr, row)
    [] expr.kind = "arith" -> Arith(Operand(expr.left, row), expr.op, Operand(expr.right, row))
    [] expr.kind = "coalesce" ->
         IF Operand(expr.left, row) # Null THEN Operand(expr.left, row)
         ELSE Operand(expr.right, row)
    [] expr.kind = "case" ->
         IF taken THEN Operand(expr.left, row) ELSE Operand(expr.right, row)

Taken(expr, row) == expr.kind = "case" /\ Holds(expr.when, row)


(* The last assignment of a column counts; each sees the row as it was.    *)
LastFor(assigns, c) ==
  {i \in DOMAIN assigns : /\ assigns[i].col = c
                          /\ \A j \in i + 1 .. Len(assigns) : assigns[j].col # c}

Assigned(row, assigns) ==
  [c \in Cols |-> IF LastFor(assigns, c) = {} THEN row[c]
                  ELSE LET expr == assigns[CHOOSE i \in LastFor(assigns, c) : TRUE].expr
                       IN  Evaluated(expr, row, Taken(expr, row))]

(* Planned on an unlocked read of the branch: the rows that match, each as *)
(* a whole; those that stay the same are left out.                         *)
PlanUpdateWhere(b, filter, assigns) ==
  LET chain == refs[b].chain
      next(pk) == Assigned(CurrentRow(chain, pk), assigns)
  IN  [pk \in {k \in Read(chain, filter, 0, NoKey) : next(k) # CurrentRow(chain, k)} |-> next(pk)]

PlanDeleteWhere(b, filter) ==
  [pk \in Read(refs[b].chain, filter, 0, NoKey) |-> Absent]

-----------------------------------------------------------------------------
(* Constraints of the live table.                                          *)

NullKeys(table) ==
  {pk \in PKs : table[pk] # Absent /\ \E c \in NotNull : table[pk][c] = Null}

(* Of an index only the columns that the catalogue knows count.            *)
UniqueIndexes == {index \cap Cols : index \in Unique}

(* Rows that share their values under a unique index, NULLs excepted.      *)
DuplicateKeys(table) ==
  {pk \in PKs : \E q \in PKs \ {pk}, index \in UniqueIndexes :
     /\ Absent \notin {table[pk], table[q]}
     /\ \A c \in index : table[pk][c] # Null /\ table[pk][c] = table[q][c]}

Violations(table) == NullKeys(table) \cup DuplicateKeys(table)

(* Mutant: the rows that the merge writes, without those it leaves alone.  *)
ValidateChanges(r) == Violations(Apply(EmptyTable, req[r].changes))

(* ValidateMerge, on a read of the branch of its own.                      *)
ValidateMerge(r) ==
  Violations(Apply(ResolveMap(refs[req[r].branch].chain), req[r].changes))

(* The database refuses a row that its table's constraints forbid; on      *)
(* other branches nothing is checked.                                      *)
Fits(r) ==
  req[r].branch = Main =>
    Violations(Apply(live, [pk \in Effective(r) |-> req[r].changes[pk]])) = {}

LandFitting(r) == Fits(r) /\ Land(r)

(* Rows are written one by one: two that trade a unique value are refused  *)
(* on the way.                                                             *)
Forbid(r) ==
  /\ req[r].pc = "apply" /\ req[r].branch = Main
  /\ \E some \in SUBSET Effective(r) :
       Violations(Apply(live, [pk \in some |-> req[r].changes[pk]])) # {}
  /\ Finish(r)
  /\ UNCHANGED <<refs, commits, rows, live>>
=============================================================================
