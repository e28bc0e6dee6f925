------------------------------ MODULE Migrations ------------------------------
(***************************************************************************)
(* Schema evolution of one tracked table: branches alter their own version *)
(* of its schema, a schema merge turns the difference into a plan, and an  *)
(* applied plan changes the live table, operation by operation, under a    *)
(* journal that a crashed apply resumes from.                              *)
(***************************************************************************)
EXTENDS BranchStore, SchemaEngine, FiniteSets

LOCAL INSTANCE FiniteSetsExt

CONSTANTS
  InitialShape,  \* the live table's columns when it was tracked, in order
  MaxEpoch,      \* how often a branch's schema may change
  MaxPlans

ASSUME MigrationAssumption == MaxEpoch \in Nat /\ MaxPlans \in Nat

VARIABLES
  schemas,   \* datagit_schema_version: the newest version stored for a branch
  columns,   \* datagit_column: id -> name, type, nullable, dropped
  shape,     \* the live table: its columns in order
  sidecar,   \* the sidecar's columns: id -> type
  plans,     \* datagit_migration_plan, in order of insertion
  journal,   \* datagit_migration_journal: ordinal -> whether it is complete
  jobs       \* what each request does beside the store's own steps

schemaVars == <<schemas, columns, shape, sidecar, plans, journal, jobs>>

NoJob == [pc |-> "idle"]

Column(name, type, nullable) == [name |-> name, type |-> type, nullable |-> nullable]

MigrationsInit ==
  /\ schemas = [b \in {} |-> 0]
  /\ shape = InitialShape
  /\ columns = [i \in DOMAIN InitialShape |->
       [name |-> InitialShape[i].name, type |-> InitialShape[i].type,
        nullable |-> InitialShape[i].nullable, dropped |-> FALSE]]
  /\ sidecar = [i \in DOMAIN InitialShape |-> InitialShape[i].type]
  /\ plans = <<>>
  /\ journal = [o \in {} |-> FALSE]
  /\ jobs = [r \in Requests |-> NoJob]

(* A request's next step, with what it carries from the ones before.       *)
CarryOn(r, step) ==
  [f \in DOMAIN step \cup DOMAIN jobs[r] |-> IF f \in DOMAIN step THEN step[f] ELSE jobs[r][f]]

-----------------------------------------------------------------------------
(* Schema versions.                                                        *)

(* The table as a client loads it: the columns that are not dropped.       *)
Known ==
  [id \in {i \in DOMAIN columns : ~columns[i].dropped} |->
     Column(columns[id].name, columns[id].type, columns[id].nullable)]

(* The newest version of the first branch along the chain that has one; a  *)
(* branch that never changed shape stores nothing.  The segments' numbers  *)
(* are not looked at.                                                      *)
SchemaOf(b) ==
  LET chain == refs[b].chain
      stored == {i \in DOMAIN chain : chain[i].branch \in DOMAIN schemas}
  IN  IF stored = {} THEN [columns |-> Known, dropped |-> {}, epoch |-> 0]
      ELSE schemas[chain[Min(stored)].branch]

NextColId(v) == 1 + Max({0} \cup DOMAIN v.columns \cup v.dropped)

(* A version at or above the newest epoch is the newest from now on.       *)
WriteSchemaVersion(b, v) ==
  schemas' = IF b \in DOMAIN schemas /\ v.epoch < schemas[b].epoch THEN schemas
             ELSE (b :> v) @@ schemas

-----------------------------------------------------------------------------
(* Altering a branch's schema.                                             *)

(* The columns that a client asks for: the version it loaded, edited.      *)
Edited(v, e) ==
  LET ids == {i \in DOMAIN v.columns : v.columns[i].name = e.name}
  IN  CASE e.op = "add" -> (NextColId(v) :> Column(e.name, e.type, TRUE)) @@ v.columns
        [] e.op = "drop" -> [i \in DOMAIN v.columns \ ids |-> v.columns[i]]
        [] e.op = "rename" -> [i \in DOMAIN v.columns |->
             IF i \in ids THEN [v.columns[i] EXCEPT !.name = e.to] ELSE v.columns[i]]
        [] e.op = "retype" -> [i \in DOMAIN v.columns |->
             IF i \in ids THEN [v.columns[i] EXCEPT !.type = e.type] ELSE v.columns[i]]
        [] e.op = "require" -> [i \in DOMAIN v.columns |->
             IF i \in ids THEN [v.columns[i] EXCEPT !.nullable = FALSE] ELSE v.columns[i]]

(* Bound: edits that name a column the version has, or a new name.         *)
Editable(v, e) ==
  LET names == {v.columns[i].name : i \in DOMAIN v.columns}
  IN  /\ e.name \in names <=> e.op # "add"
      /\ e.op = "rename" => e.to \notin names

(* The columns whose change of type loses something go on under a new id:  *)
(* history is not coerced.                                                 *)
Forked(from, want) ==
  {i \in DOMAIN want \cap DOMAIN from.columns :
     /\ want[i].type # from.columns[i].type
     /\ TypeClass(from.columns[i].type, want[i].type) > Widening}

Altered(from, want) ==
  LET forked == Forked(from, want)
      id(i) == IF i \in forked
               THEN NextColId(from) + Cardinality({j \in forked : j < i}) ELSE i
      ids == {id(i) : i \in DOMAIN want}
  IN  [columns |-> [n \in ids |-> want[CHOOSE i \in DOMAIN want : id(i) = n]],
       dropped |-> from.dropped \cup forked \cup (DOMAIN from.columns \ ids),
       epoch |-> from.epoch + 1]

(* A client loads the table and the branch's schema, and asks for a change *)
(* of it.  The default branch is refused.                                  *)
BeginAlter(r, b, e) ==
  /\ jobs[r] = NoJob
  /\ b # Main /\ SchemaOf(b).epoch < MaxEpoch
  /\ Editable(SchemaOf(b), e)
  /\ jobs' = [jobs EXCEPT ![r] =
       [pc |-> "alter", branch |-> b, known |-> Known, from |-> SchemaOf(b),
        to |-> Altered(SchemaOf(b), Edited(SchemaOf(b), e))]]
  /\ UNCHANGED <<vars, schemas, columns, shape, sidecar, plans, journal>>

(* EvolveSidecar: a column that the loaded table does not know is added    *)
(* unless it exists; one that it knows under another type changes type.    *)
Evolved(known, wanted) ==
  LET added == {i \in DOMAIN wanted : i \notin DOMAIN known /\ i \notin DOMAIN sidecar}
      retyped == {i \in DOMAIN wanted \cap DOMAIN known : wanted[i].type # known[i].type}
  IN  [i \in DOMAIN sidecar \cup added |->
         IF i \in added \cup retyped THEN wanted[i].type ELSE sidecar[i]]

(* One transaction: the sidecar, then the version.  Nothing to do without  *)
(* a difference.                                                           *)
WriteAlter(r) ==
  LET job == jobs[r]
      none == SchemaDiff(job.from, job.to) = <<>>
  IN  /\ job.pc = "alter"
      /\ job.branch \in DOMAIN refs
      /\ IF none THEN UNCHANGED <<schemas, sidecar>>
         ELSE /\ sidecar' = Evolved(job.known, job.to.columns)
              /\ WriteSchemaVersion(job.branch, job.to)
      /\ jobs' = [jobs EXCEPT ![r] = NoJob]
      /\ UNCHANGED <<vars, columns, shape, plans, journal>>

-----------------------------------------------------------------------------
(* Merging schemas.                                                        *)

(* Three reads, each on its own: the target's schema, the source's, and    *)
(* the default branch's, which is taken for the base.                      *)
BeginSchemaMerge(r, from, into) ==
  /\ jobs[r] = NoJob
  /\ jobs' = [jobs EXCEPT ![r] =
       [pc |-> "theirs", proposal |-> 0, from |-> from, into |-> into,
        ours |-> SchemaOf(into)]]
  /\ UNCHANGED <<vars, schemas, columns, shape, sidecar, plans, journal>>

ReadTheirs(r) ==
  /\ jobs[r].pc = "theirs"
  /\ jobs' = [jobs EXCEPT ![r] =
       CarryOn(r, [pc |-> "base", theirs |-> SchemaOf(jobs[r].from)])]
  /\ UNCHANGED <<vars, schemas, columns, shape, sidecar, plans, journal>>

ReadBase(r) ==
  /\ jobs[r].pc = "base"
  /\ jobs' = [jobs EXCEPT ![r] = CarryOn(r, [pc |-> "record", base |-> SchemaOf(Main)])]
  /\ UNCHANGED <<vars, schemas, columns, shape, sidecar, plans, journal>>

SchemaClash(r) == SchemaConflicts(jobs[r].base, jobs[r].ours, jobs[r].theirs) # {}

(* The difference that the merge makes to the target.                      *)
MergeChanges(r) ==
  SchemaDiff(jobs[r].ours, MergeVersions(jobs[r].base, jobs[r].ours, jobs[r].theirs))

(* One transaction: the plan, and the merged version of the target branch, *)
(* so that the two do not drift apart.                                     *)
RecordPlan(r) ==
  LET merged == MergeVersions(jobs[r].base, jobs[r].ours, jobs[r].theirs)
      epoch == jobs[r].ours.epoch + 1
  IN  /\ plans' = Append(plans, [ops |-> Plan(MergeChanges(r)), into |-> jobs[r].into,
                                 state |-> "pending"])
      /\ WriteSchemaVersion(jobs[r].into, [columns |-> merged.columns,
                                           dropped |-> merged.dropped, epoch |-> epoch])

(* What is left of a request once its schemas are merged: the data, when   *)
(* it merges a proposal.                                                   *)
AfterSchema(r) ==
  IF jobs[r].proposal = 0 THEN NoJob
  ELSE [pc |-> "data", proposal |-> jobs[r].proposal, from |-> jobs[r].from,
        into |-> jobs[r].into, guard |-> jobs[r].guard]

(* A conflict changes no schema, and ends what the request was about.      *)
MergeSchema(r) ==
  LET job == jobs[r]
      changes == MergeChanges(r)
  IN  /\ job.pc = "record"
      /\ \/ /\ SchemaClash(r)
            /\ jobs' = [jobs EXCEPT ![r] =
                 IF job.proposal = 0 THEN NoJob
                 ELSE [pc |-> "conflict", proposal |-> job.proposal]]
            /\ UNCHANGED <<plans, schemas>>
         \/ /\ ~SchemaClash(r) /\ changes = <<>>
            /\ jobs' = [jobs EXCEPT ![r] = AfterSchema(r)]
            /\ UNCHANGED <<plans, schemas>>
         \/ /\ ~SchemaClash(r) /\ changes # <<>>
            /\ job.into \in DOMAIN refs /\ Len(plans) < MaxPlans
            /\ RecordPlan(r)
            /\ jobs' = [jobs EXCEPT ![r] = AfterSchema(r)]
      /\ UNCHANGED <<vars, columns, shape, sidecar, journal>>

-----------------------------------------------------------------------------
(* Operations on the live table, as PostgreSQL runs them.                  *)

HasColumn(table, name) == \E i \in DOMAIN table : table[i].name = name

(* Adding and dropping look first; the others need their column.           *)
CanRun(op, table) ==
  CASE op.kind \in {"add_column", "drop_column"} -> TRUE
    [] op.kind = "deprecate_column" -> HasColumn(table, op.col.name)
    [] op.kind = "rename_column" ->
         HasColumn(table, op.col.name) /\ ~HasColumn(table, op.to.name)
    [] OTHER -> HasColumn(table, op.to.name)

(* Rows that do not fit may make these fail.                               *)
MayFail(op) == op.kind \in {"preflight_not_null", "set_not_null"} \/ op.class >= Narrowing

Run(op, table) ==
  CASE op.kind = "add_column" ->
         IF HasColumn(table, op.to.name) THEN table
         ELSE Append(table, Column(op.to.name, op.to.type, TRUE))
    [] op.kind = "drop_column" -> SelectSeq(table, LAMBDA c : c.name # op.col.name)
    [] op.kind = "rename_column" ->
         [i \in DOMAIN table |-> IF table[i].name = op.col.name
                                 THEN [table[i] EXCEPT !.name = op.to.name] ELSE table[i]]
    [] op.kind = "alter_column_type" ->
         [i \in DOMAIN table |-> IF table[i].name = op.to.name
                                 THEN [table[i] EXCEPT !.type = op.to.type] ELSE table[i]]
    [] op.kind \in {"set_not_null", "drop_not_null"} ->
         [i \in DOMAIN table |-> IF table[i].name = op.to.name
                                 THEN [table[i] EXCEPT !.nullable = op.kind = "drop_not_null"]
                                 ELSE table[i]]
    [] op.kind \in {"preflight_not_null", "deprecate_column"} -> table

-----------------------------------------------------------------------------
(* Applying a plan.                                                        *)

(* Loaded: not applied yet, and confirmed when an operation narrows or     *)
(* destroys.                                                               *)
BeginApply(r, p, confirm) ==
  /\ jobs[r] = NoJob
  /\ plans[p].state # "applied"
  /\ RequiresConfirmation(plans[p].ops) => confirm
  /\ jobs' = [jobs EXCEPT ![r] = [pc |-> "applying", plan |-> p, confirm |-> confirm]]
  /\ UNCHANGED <<vars, schemas, columns, shape, sidecar, plans, journal>>

MarkApplying(r) ==
  /\ jobs[r].pc = "applying"
  /\ plans' = [plans EXCEPT ![jobs[r].plan].state = "applying"]
  /\ jobs' = [jobs EXCEPT ![r].pc = "journal"]
  /\ UNCHANGED <<vars, schemas, columns, shape, sidecar, journal>>

(* Journal.Begin: an ordinal that is there already stays as it is.  The    *)
(* journal belongs to the table, whichever of its plans is applied.        *)
JournalBegin(r) ==
  LET ops == plans[jobs[r].plan].ops
  IN  /\ jobs[r].pc = "journal"
      /\ journal' = journal @@ [o \in DOMAIN ops |-> FALSE]
      /\ jobs' = [jobs EXCEPT ![r].pc = "completed"]
      /\ UNCHANGED <<vars, schemas, columns, shape, sidecar, plans>>

(* Mutant: what was started is taken for done.                             *)
CompletedOrStarted == DOMAIN journal

Completed == {o \in DOMAIN journal : journal[o]}

ReadCompleted(r) ==
  /\ jobs[r].pc = "completed"
  /\ jobs' = [jobs EXCEPT ![r] = CarryOn(r, [pc |-> "run", done |-> Completed])]
  /\ UNCHANGED <<vars, schemas, columns, shape, sidecar, plans, journal>>

Left(r) == DOMAIN plans[jobs[r].plan].ops \ jobs[r].done

(* The next operation that the journal did not have for complete, outside  *)
(* of any transaction.  (When it was started is recorded and never read.)  *)
RunOp(r) ==
  /\ jobs[r].pc = "run" /\ Left(r) # {}
  /\ LET op == plans[jobs[r].plan].ops[Min(Left(r))]
     IN  CanRun(op, shape) /\ shape' = Run(op, shape)
  /\ jobs' = [jobs EXCEPT ![r].pc = "complete"]
  /\ UNCHANGED <<vars, schemas, columns, sidecar, plans, journal>>

MarkComplete(r) ==
  /\ jobs[r].pc = "complete"
  /\ journal' = [journal EXCEPT ![Min(Left(r))] = TRUE]
  /\ jobs' = [jobs EXCEPT ![r].pc = "run", ![r].done = @ \cup {Min(Left(r))}]
  /\ UNCHANGED <<vars, schemas, columns, shape, sidecar, plans>>

(* An operation fails: so does the apply, and the plan says so.            *)
FailPlan(r) ==
  /\ jobs[r].pc = "run" /\ Left(r) # {}
  /\ LET op == plans[jobs[r].plan].ops[Min(Left(r))]
     IN  ~CanRun(op, shape) \/ MayFail(op)
  /\ plans' = [plans EXCEPT ![jobs[r].plan].state = "failed"]
  /\ jobs' = [jobs EXCEPT ![r] = NoJob]
  /\ UNCHANGED <<vars, schemas, columns, shape, sidecar, journal>>

(* The catalogue follows the live table.  A column keeps the id its name   *)
(* has, a dropped one included; a new name gets the next id, in order; a   *)
(* name that is gone is marked, and a mark is never cleared.               *)
RefreshColumns(r) ==
  LET idOf(name) == CHOOSE id \in DOMAIN columns : columns[id].name = name
      fresh == {i \in DOMAIN shape : \A id \in DOMAIN columns : columns[id].name # shape[i].name}
      newId(i) == Max({0} \cup DOMAIN columns) + Cardinality({j \in fresh : j <= i})
      id(i) == IF i \in fresh THEN newId(i) ELSE idOf(shape[i].name)
      at(n) == shape[CHOOSE i \in DOMAIN shape : id(i) = n]
      seen == {id(i) : i \in DOMAIN shape}
  IN  /\ jobs[r].pc = "run" /\ Left(r) = {}
      /\ columns' = [n \in DOMAIN columns \cup seen |->
           IF n \notin seen THEN [columns[n] EXCEPT !.dropped = TRUE]
           ELSE [name |-> at(n).name, type |-> at(n).type, nullable |-> at(n).nullable,
                 dropped |-> n \in DOMAIN columns /\ columns[n].dropped]]
      /\ jobs' = [jobs EXCEPT ![r].pc = "applied"]
      /\ UNCHANGED <<vars, schemas, shape, sidecar, plans, journal>>

FinishPlan(r) ==
  /\ jobs[r].pc = "applied"
  /\ plans' = [plans EXCEPT ![jobs[r].plan].state = "applied"]
  /\ jobs' = [jobs EXCEPT ![r] = NoJob]
  /\ UNCHANGED <<vars, schemas, columns, shape, sidecar, journal>>

(* The process dies, or a transaction fails: what was committed stays.     *)
JobDies(r) ==
  /\ jobs[r] # NoJob /\ req[r] = Idle
  /\ jobs' = [jobs EXCEPT ![r] = NoJob]
  /\ UNCHANGED <<vars, schemas, columns, shape, sidecar, plans, journal>>
=============================================================================
