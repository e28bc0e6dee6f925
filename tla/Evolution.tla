------------------------------- MODULE Evolution -------------------------------
(***************************************************************************)
(* What is built on top of commits and merges: schemas that evolve on      *)
(* branches, proposals that merge them under review, plans applied to the  *)
(* live table, and personal data that is sealed and erased.  A behaviour   *)
(* runs one workload: the operations its clients use, and its size.        *)
(***************************************************************************)
EXTENDS Proposals, Erasure

CONSTANTS
  Workloads, Confirmations,
  Assignments  \* what predicate writes ask for: assignments, or none to delete

VARIABLE workload

evolutionVars == <<vars, schemaVars, proposalVars, erasureVars, workload>>

EvolutionInit ==
  /\ Init /\ MigrationsInit /\ ProposalsInit /\ ErasureInit
  /\ workload \in Workloads

ASSUME EvolutionAssumption ==
  \A w \in Workloads : /\ w.requests \subseteq Requests /\ w.branches \subseteq Branches
                        /\ w.changes \subseteq ChangeSets
                        /\ w.commits \in 1 .. MaxCommits /\ w.plans \in 0 .. MaxPlans

(* One table evolves, and whatever predicate writes assign, its columns    *)
(* can hold.                                                               *)
ASSUME TableAssumption ==
  /\ Tables = {PKs}
  /\ \A assigns \in Assignments \ {<<>>}, row \in Row : Assigned(row, assigns) \in Row

Runs(op) == op \in workload.ops

(* Bounds: a workload's own number of commits and of plans.                *)
Room == Len(commits) < workload.commits
PlanRoom == Len(plans) < workload.plans

-----------------------------------------------------------------------------
(* Commits on the branches, by requests that do nothing else.              *)
Data(r) ==
  /\ jobs[r] = NoJob
  /\ \/ /\ Runs("commit") /\ Room
        /\ \E b \in DOMAIN refs, changes \in workload.changes : SubmitCommit(r, b, changes, 0)
     \/ Lock(r) \/ (Room /\ LandFitting(r)) \/ Refuse(r) \/ Forbid(r)

(* A client plans a predicate write and commits what it planned, naming    *)
(* the head that it planned on or none.                                    *)
PlannedWhere(b, filter, assigns) ==
  IF assigns = <<>> THEN PlanDeleteWhere(b, filter) ELSE PlanUpdateWhere(b, filter, assigns)

WritingWhere(r) ==
  \/ /\ Runs("where") /\ Room /\ jobs[r] = NoJob
     /\ \E b \in DOMAIN refs, filter \in Filters, assigns \in Assignments, named \in BOOLEAN :
          LET changes == PlannedWhere(b, filter, assigns)
          IN  /\ DOMAIN changes # {}
              /\ SubmitCommit(r, b, changes, IF named THEN refs[b].head ELSE 0)
              /\ Set(r, [pc |-> "where", filter |-> filter, assigns |-> assigns,
                         planned |-> refs[b].head])
  \/ /\ jobs[r].pc = "where"
     /\ \/ Lock(r) /\ UNCHANGED schemaVars
        \/ ((Room /\ LandFitting(r)) \/ Refuse(r) \/ Forbid(r)) /\ Set(r, NoJob)

Branching ==
  /\ Runs("branch")
  /\ \E n \in workload.branches, from \in DOMAIN refs : CreateBranch(n, from)

Altering(r) ==
  /\ req[r] = Idle
  /\ \/ /\ Runs("alter")
        /\ \E b \in DOMAIN refs, e \in workload.edits : BeginAlter(r, b, e)
     \/ WriteAlter(r)

MergingSchemas(r) ==
  /\ req[r] = Idle
  /\ \/ /\ Runs("schema") /\ PlanRoom
        /\ \E from, into \in DOMAIN refs : from # into /\ BeginSchemaMerge(r, from, into)
     \/ ReadTheirs(r) \/ ReadBase(r) \/ MergeSchema(r)

Applying(r) ==
  /\ req[r] = Idle
  /\ \/ /\ Runs("apply")
        /\ \E p \in DOMAIN plans, confirm \in Confirmations : BeginApply(r, p, confirm)
     \/ MarkApplying(r) \/ JournalBegin(r) \/ ReadCompleted(r) \/ RunOp(r) \/ MarkComplete(r)
     \/ FailPlan(r) \/ RefreshColumns(r) \/ FinishPlan(r)

Proposing ==
  /\ Runs("propose")
  /\ \/ \E from, into \in DOMAIN refs, author \in Principals :
          from # into /\ CreateProposal(from, into, author)
     \/ \E d \in disputes : ResolveConflict(d)

Reviewing ==
  /\ Runs("review")
  /\ \/ \E p \in DOMAIN proposals, by \in Principals, kind \in {"approve", "request_changes"} :
          AddReview(p, by, kind)
     \/ \E on \in BOOLEAN : SetBranchProtection(Main, on, 1)

MergingProposals(r) ==
  \/ Runs("propose") /\ \E p \in DOMAIN proposals : BeginMergeProposal(r, p)
  \/ ReadProtection(r) \/ ReadReviews(r) \/ BeginData(r) \/ PlanData(r)
  \/ ValidateData(r) \/ RefuseData(r)
  \/ LandData(r) /\ Len(commits') <= workload.commits
  \/ ClearConflicts(r) \/ SaveConflicts(r) \/ MarkConflicted(r) \/ MarkMerged(r)

Dying(r) == Runs("crash") /\ (JobDies(r) \/ MergeDies(r))

PersonalData ==
  /\ Runs("erase")
  /\ \/ \E w \in Writers : \/ \E line \in Lines, k \in Keys, s \in Subjects, text \in Texts :
                                Put(w, line, k, s, text)
                           \/ \E k \in Keys : PutMerged(w, k)
                           \/ FetchKey(w) \/ LandPut(w) \/ WriterDies(w)
     \/ Designate \/ ScanStored \/ DesignationEnds \/ DesignationDies
     \/ \E v \in stored : SealExisting(v)
     \/ \E s \in Subjects : BeginErase(s)
     \/ EraseRows \/ DestroyKey \/ EraserDies

EvolutionNext ==
  /\ UNCHANGED workload
  /\ \/ /\ \E r \in workload.requests : Data(r)
        /\ UNCHANGED <<schemaVars, proposalVars, erasureVars>>
     \/ /\ \E r \in workload.requests : WritingWhere(r)
        /\ UNCHANGED <<proposalVars, erasureVars>>
     \/ Branching /\ UNCHANGED <<schemaVars, proposalVars, erasureVars>>
     \/ /\ \E r \in workload.requests : Altering(r) \/ MergingSchemas(r) \/ Applying(r)
        /\ UNCHANGED <<proposalVars, erasureVars>>
     \/ /\ Proposing \/ Reviewing \/ \E r \in workload.requests : MergingProposals(r)
        /\ UNCHANGED erasureVars
     \/ /\ \E r \in workload.requests : Dying(r)
        /\ UNCHANGED <<proposalVars, erasureVars>>
     \/ PersonalData /\ UNCHANGED <<vars, schemaVars, proposalVars>>

EvolutionSpec == EvolutionInit /\ [][EvolutionNext]_evolutionVars

-----------------------------------------------------------------------------
(* Correctness.                                                            *)

IsColumn(c) == DOMAIN c = {"name", "type", "nullable"} /\ c.nullable \in BOOLEAN

IsVersion(v) ==
  /\ DOMAIN v.columns \cup v.dropped \subseteq Nat /\ v.epoch \in Nat
  /\ \A i \in DOMAIN v.columns : IsColumn(v.columns[i])

(* Type invariant: the catalogue's tables of schema versions, columns,     *)
(* plans, journal, proposals and keys (catalog/schema.go:46-57, 136-175    *)
(* and 215-310).                                                           *)
EvolutionTypeOK ==
  /\ TypeOK
  /\ \A b \in DOMAIN schemas : b \in Branches /\ IsVersion(schemas[b])
  /\ \A i \in DOMAIN shape : IsColumn(shape[i])
  /\ \A i, j \in DOMAIN shape : shape[i].name = shape[j].name => i = j
  /\ DOMAIN columns \cup DOMAIN sidecar \cup DOMAIN journal \subseteq Nat
  /\ \A p \in DOMAIN plans : /\ plans[p].state \in {"pending", "applying", "failed", "applied"}
                             /\ plans[p].into \in Branches
  /\ \A p \in DOMAIN proposals : /\ proposals[p].state \in {"open", "conflicted", "merged"}
                                 /\ proposals[p].commit \in {0} \cup DOMAIN commits
  /\ \A v \in reviews : v.proposal \in DOMAIN proposals /\ v.by \in Principals
  /\ \A d \in disputes : d.proposal \in DOMAIN proposals /\ d.pk \in PKs
  /\ dek \in [Subjects -> {"none", "live", "destroyed"}]
  /\ \A v \in stored : v.line \in Lines /\ v.pk \in Keys /\ v.value.seals \in 0 .. 2

(* The merge of two schema versions is the three-way merge of each column, *)
(* where the absence of a column is one more value: it finds every clash,  *)
(* reports none that is not, and else takes the side that changed          *)
(* (schemaeng/schema.go:254-349).                                          *)
SchemaMergeExact ==
  \A r \in Requests : jobs[r].pc = "record" =>
    LET base == jobs[r].base
        ours == jobs[r].ours
        theirs == jobs[r].theirs
        merged == MergeVersions(base, ours, theirs)
    IN  \A id \in ColumnIds(base, ours, theirs) :
          LET b == At(base, id)
              a == At(ours, id)
              t == At(theirs, id)
          IN  IF ThreeWayClash(b, a, t) THEN id \in SchemaConflicts(base, ours, theirs)
              ELSE /\ id \notin SchemaConflicts(base, ours, theirs)
                   /\ At(merged, id) = ThreeWay(b, a, t)

(* A column that its plan changes in one way only, and names that are not  *)
(* given up and taken in one plan.                                         *)
OneWay(op) ==
  \/ op.kind \in {"drop_column", "deprecate_column"}
  \/ op.kind = "add_column" /\ op.to.nullable
  \/ \E field \in {"name", "type", "nullable"} :
       op.to = [op.col EXCEPT ![field] = op.to[field]]

Separate(ops) ==
  LET ran(kinds) == {i \in DOMAIN ops : ops[i].kind \in kinds}
  IN  \A i \in ran({"add_column", "rename_column"}), j \in ran({"drop_column", "rename_column"}) :
        ops[i].to.name # ops[j].col.name

(* The first plan of a table does what it was recorded for: once it counts *)
(* as applied the live table has the columns of the schema version that    *)
(* was recorded with it, wherever its apply crashed or failed and was      *)
(* resumed from the journal, even by two requests at a time; but for plans *)
(* that change a column in two ways or take a name that they give up       *)
(* (schema.go:335-360, 416-470, journal.go:12-67).                         *)
FirstPlanTakesEffect ==
  Len(plans) = 1 =>
    LET plan == plans[1]
        version == SchemaOf(Main).columns
    IN  (plan.state = "applied" /\ plan.into = Main /\ Separate(plan.ops)
          /\ \A i \in DOMAIN plan.ops : OneWay(plan.ops[i]))
        => {shape[i] : i \in DOMAIN shape} = {version[id] : id \in DOMAIN version}

(* A live column goes, takes another name, narrows or starts to refuse     *)
(* NULL only in a step of a plan that an operator confirmed, and only once *)
(* the journal has every riskless operation of that plan for complete:     *)
(* applications keep the columns they read until the last moment           *)
(* (schemaeng/schema.go:356-428, schema.go:416-470).                       *)
Loses(c, table) ==
  \A i \in DOMAIN table :
    \/ table[i].name # c.name
    \/ TypeClass(c.type, table[i].type) >= Narrowing
    \/ c.nullable /\ ~table[i].nullable

ReadersKept ==
  [][\A i \in DOMAIN shape : Loses(shape[i], shape') =>
       \E r \in Requests :
         /\ jobs[r].pc = "run" /\ jobs'[r].pc = "complete" /\ jobs[r].confirm
         /\ LET ops == plans[jobs[r].plan].ops
            IN  {o \in DOMAIN ops : ops[o].class < Narrowing} \subseteq Completed]_evolutionVars

(* Nobody changes a branch alone that is protected when the merge begins:  *)
(* the data of a proposal lands only with the approvals that the branch    *)
(* demanded, from as many principals, none of them the author, although    *)
(* the author could approve while the branch was open to it                *)
(* (proposal.go:106-134, 191-237).                                         *)
MergesReviewed ==
  [][\A r \in Requests :
       (jobs[r].pc = "landing" /\ jobs'[r].pc = "merged" /\ jobs[r].guard.on) =>
         LET p == jobs[r].proposal
         IN  Cardinality({q \in Principals \ {proposals[p].author} :
                            [proposal |-> p, by |-> q, kind |-> "approve"] \in reviews})
               >= jobs[r].guard.approvals]_evolutionVars

(* A proposal names the merge commit that it became: a commit of its       *)
(* target whose other parent is in the history of its source, and of       *)
(* nothing else, however many requests merged it at a time and whatever    *)
(* crashed between the commit and its recording (proposal.go:252-296).     *)
ProposalRecorded ==
  \A p \in DOMAIN proposals :
    LET c == proposals[p].commit
    IN  /\ proposals[p].state = "merged" => c # 0
        /\ c # 0 => /\ commits[c].branch = proposals[p].into
                    /\ commits[c].others # {}
                    /\ commits[c].others \subseteq Reach(refs[proposals[p].from].head)

(* A page of a filtered read has only rows that match, of the branch as it *)
(* is, in key order and without a gap; it comes out short only when more   *)
(* keys than its limit match in an old version alone.  A read without a    *)
(* limit has every match: a row that the branch took out of the filter's   *)
(* range, or deleted, does not come back from the parent (adapter/postgres *)
(* /postgres.go:207-221, 240-350).  (What a branch is changes in whole     *)
(* transactions: to ask while nobody is at work is enough.)                *)
PagesExact ==
  (Runs("where") /\ \A r \in Requests : req[r] = Idle) =>
  \A b \in DOMAIN refs, filter \in Filters, limit \in 0 .. 2, after \in PKs \cup {NoKey} :
    LET chain == refs[b].chain
        page == Read(chain, filter, limit, after)
        all == {pk \in PKs : CurrentRow(chain, pk) # Absent /\ Matches(filter, CurrentRow(chain, pk))}
        rest == IF limit = 0 THEN all ELSE Beyond(all, after)
        due == IF limit = 0 THEN rest ELSE FirstOf(rest, limit)
        stale == Candidates(chain, filter, 0, NoKey) \ all
    IN  /\ page \subseteq due
        /\ \A pk \in due \ page, q \in page : Position(q) < Position(pk)
        /\ page # due => limit > 0 /\ Cardinality(stale) > limit

(* A predicate write that lands on the head it was planned on writes each  *)
(* row that matches as the statement says, in one commit, and no other     *)
(* row; every assignment sees the row as it was (predicate.go:71-118).  In *)
(* SQL, that is: but for conditions of a CASE that come upon a NULL.       *)
Decided(row, assigns) ==
  \A i \in DOMAIN assigns :
    assigns[i].expr.kind = "case" => Truth(assigns[i].expr.when, row) # "unknown"

Meant(row, assigns) ==
  IF assigns = <<>> THEN Absent
  ELSE [c \in Cols |->
         IF LastFor(assigns, c) = {} THEN row[c]
         ELSE LET expr == assigns[CHOOSE i \in LastFor(assigns, c) : TRUE].expr
              IN  Evaluated(expr, row, expr.kind = "case" /\ Matches(expr.when, row))]


(* A merge that lands on the head it was validated against leaves a branch *)
(* whose rows the live table could hold: no NULL it refuses, no two rows   *)
(* with one unique value, though either side was free of them              *)
(* (merge.go:138-156, predicate.go:303-400).                               *)
MergesFit ==
  [][\A r \in Requests :
       (jobs[r].pc = "landing" /\ jobs'[r].pc = "merged"
         /\ refs[req[r].branch].head = jobs[r].validated)
         => Violations(StateAtCommit(Len(commits)))' = {}]_evolutionVars

(* Once every recorded plan is applied and nobody is at work, the live     *)
(* table has the columns of the default branch's schema (schema.go:346:    *)
(* "The live table catches up when the plan is applied").                  *)
LiveCatchesUp ==
  (/\ \A p \in DOMAIN plans : plans[p].into = Main /\ plans[p].state = "applied"
   /\ \A r \in Requests : jobs[r] = NoJob)
  => LET version == SchemaOf(Main).columns
     IN  {shape[i].name : i \in DOMAIN shape} = {version[id].name : id \in DOMAIN version}
=============================================================================
