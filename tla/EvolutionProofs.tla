--------------------------- MODULE EvolutionProofs ---------------------------
(***************************************************************************)
(* What is proved of what is built on commits.  Schema merges: whatever    *)
(* the columns, the three versions and the requests, internal/schemaeng    *)
(* merges column by column as a three-way merge that takes the absence of  *)
(* a column for one more value.  Personal data: what is erased stays       *)
(* erased, and sealing loses nothing else.  Proposals: a merge that lands  *)
(* under protection was approved, one that lands on the head it was        *)
(* validated against fits the live table, and a proposal names the merge   *)
(* that it became.  What the store promises of commits, branches and the   *)
(* live table it keeps under all that is built on it.  And the pages of    *)
(* filtered reads are exact.                                               *)
(***************************************************************************)
EXTENDS Evolution, ErasureProofs, ChainProofs

(* A column that is there in one way, or not at all (At of a version).     *)
AtMostOne(c) == c = {} \/ \E x : c = {x}

(* A version has a column in one way, or has not (schema.go:254-270).      *)
LEMMA AtIsAtMostOne ==
  ASSUME NEW v, NEW id
  PROVE  AtMostOne(At(v, id))
BY DEF At, AtMostOne

(* The engine's cases, by which of the three versions have the column      *)
(* (schema.go:271-349), find the clashes of the definition and no other.   *)
LEMMA ClashesAreThreeWay ==
  ASSUME NEW b, NEW a, NEW t
  PROVE  Clashes(b, a, t) <=> ThreeWayClash(b, a, t)
BY DEF Clashes, ThreeWayClash

(* Where the versions do not clash its cases keep what the definition      *)
(* keeps.                                                                  *)
LEMMA MergedColumnIsThreeWay ==
  ASSUME NEW b, NEW a, NEW t, ~ThreeWayClash(b, a, t)
  PROVE  MergedColumn(b, a, t) = ThreeWay(b, a, t)
<1>1. CASE a # {} /\ t # {}
  BY <1>1 DEF MergedColumn, ThreeWay, ThreeWayClash
<1>2. CASE a # {} /\ t = {}
  BY <1>2 DEF MergedColumn, ThreeWay, ThreeWayClash
<1>3. CASE a = {} /\ t # {}
  BY <1>3 DEF MergedColumn, ThreeWay, ThreeWayClash
<1>4. CASE a = {} /\ t = {}
  BY <1>4 DEF MergedColumn, ThreeWay, ThreeWayClash
<1>5. QED
  BY <1>1, <1>2, <1>3, <1>4

(* A merged column is there in one way, or not at all                      *)
(* (schema.go:271-349).                                                    *)
LEMMA MergedColumnIsAtMostOne ==
  ASSUME NEW b, NEW a, NEW t, AtMostOne(b), AtMostOne(a), AtMostOne(t),
         ~ThreeWayClash(b, a, t)
  PROVE  AtMostOne(MergedColumn(b, a, t))
BY MergedColumnIsThreeWay DEF ThreeWay

(* The merged version has a column as MergedColumn gives it: there is only *)
(* one to choose.                                                          *)
LEMMA MergedHasColumn ==
  ASSUME NEW base, NEW ours, NEW theirs, NEW id \in ColumnIds(base, ours, theirs),
         AtMostOne(MergedColumn(At(base, id), At(ours, id), At(theirs, id)))
  PROVE  At(MergeVersions(base, ours, theirs), id)
           = MergedColumn(At(base, id), At(ours, id), At(theirs, id))
<1> DEFINE kept(i) == MergedColumn(At(base, i), At(ours, i), At(theirs, i))
           ids == {i \in ColumnIds(base, ours, theirs) : kept(i) # {}}
           chosen == [i \in ids |-> CHOOSE c \in kept(i) : TRUE]
<1>1. MergeVersions(base, ours, theirs).columns = chosen
  BY DEF MergeVersions
<1>2. DOMAIN chosen = ids
  OBVIOUS
<1>3. At(MergeVersions(base, ours, theirs), id) = IF id \in ids THEN {chosen[id]} ELSE {}
  BY <1>1, <1>2 DEF At
<1>4. CASE id \in ids
  <2>1. PICK x : kept(id) = {x}
    BY <1>4 DEF AtMostOne
  <2>2. chosen[id] = x
    BY <1>4, <2>1
  <2>3. QED
    BY <1>3, <1>4, <2>1, <2>2
<1>5. CASE id \notin ids
  <2>1. kept(id) = {}
    BY <1>5
  <2>2. QED
    BY <1>3, <1>5, <2>1
<1>6. QED
  BY <1>4, <1>5

(* The merge of two schema versions finds every clash, reports none that   *)
(* is not, and else has each column as the side that changed it            *)
(* (schemaeng/schema.go:254-349).                                          *)
THEOREM MergeVersionsExact ==
  ASSUME NEW base, NEW ours, NEW theirs, NEW id \in ColumnIds(base, ours, theirs)
  PROVE  /\ id \in SchemaConflicts(base, ours, theirs)
              <=> ThreeWayClash(At(base, id), At(ours, id), At(theirs, id))
         /\ id \notin SchemaConflicts(base, ours, theirs) =>
              At(MergeVersions(base, ours, theirs), id)
                = ThreeWay(At(base, id), At(ours, id), At(theirs, id))
<1>1. id \in SchemaConflicts(base, ours, theirs)
        <=> ThreeWayClash(At(base, id), At(ours, id), At(theirs, id))
  BY ClashesAreThreeWay DEF SchemaConflicts
<1>2. ASSUME ~ThreeWayClash(At(base, id), At(ours, id), At(theirs, id))
      PROVE  At(MergeVersions(base, ours, theirs), id)
               = ThreeWay(At(base, id), At(ours, id), At(theirs, id))
  <2>1. AtMostOne(MergedColumn(At(base, id), At(ours, id), At(theirs, id)))
    BY <1>2, AtIsAtMostOne, MergedColumnIsAtMostOne
  <2>2. QED
    BY <1>2, <2>1, MergedHasColumn, MergedColumnIsThreeWay
<1>3. QED
  BY <1>1, <1>2

(* Whatever requests run, alter and die, what a schema merge is about to   *)
(* record is the three-way merge of what it read (schema.go:290-360).      *)
THEOREM SchemaMergesAreExact == EvolutionSpec => []SchemaMergeExact
<1>1. SchemaMergeExact
  BY MergeVersionsExact DEF SchemaMergeExact
<1>2. QED
  BY <1>1, PTL

-----------------------------------------------------------------------------
(* Personal data: only the operations of PersonalData touch what the       *)
(* invariant of ErasureProofs speaks of.                                   *)

(* Sealing, erasing and designating keep the invariant (pii.go:52-188,     *)
(* 465-528).                                                               *)
LEMMA PersonalDataKeeps == ErasureInv /\ PersonalData => ErasureInv'
<1> SUFFICES ASSUME ErasureInv, PersonalData  PROVE ErasureInv'
  OBVIOUS
<1>1. ASSUME NEW w \in Writers, NEW line \in Lines, NEW k \in Keys, NEW s \in Subjects,
             NEW text \in Texts, Put(w, line, k, s, text)
      PROVE  ErasureInv'
  BY <1>1, PutKeeps
<1>2. ASSUME NEW w \in Writers, NEW k \in Keys, PutMerged(w, k)  PROVE ErasureInv'
  BY <1>2, PutMergedKeeps
<1>3. ASSUME NEW w \in Writers, FetchKey(w) \/ LandPut(w) \/ WriterDies(w)
      PROVE  ErasureInv'
  BY <1>3, FetchKeyKeeps, LandPutKeeps, WriterDiesKeeps
<1>4. CASE Designate \/ ScanStored \/ DesignationEnds \/ DesignationDies
  BY <1>4, DesignateKeeps, ScanStoredKeeps, DesignationEndsKeeps
<1>5. ASSUME NEW v \in stored, SealExisting(v)  PROVE ErasureInv'
  BY <1>5, SealExistingKeeps
<1>6. ASSUME NEW s \in Subjects, BeginErase(s)  PROVE ErasureInv'
  BY <1>6, BeginEraseKeeps
<1>7. CASE EraseRows \/ DestroyKey \/ EraserDies
  BY <1>7, EraseRowsKeeps, DestroyKeyKeeps, EraserDiesKeeps
<1>8. QED
  BY <1>1, <1>2, <1>3, <1>4, <1>5, <1>6, <1>7, Zenon DEF PersonalData

(* Commits on their branches, designations and erasures, in any order and  *)
(* cut off anywhere, keep the invariant.                                   *)
THEOREM ErasureInvariance == EvolutionSpec => []ErasureInv
<1>1. EvolutionInit => ErasureInv
  BY ErasureBegins DEF EvolutionInit
<1>2. ErasureInv /\ [EvolutionNext]_evolutionVars => ErasureInv'
  <2> SUFFICES ASSUME ErasureInv, [EvolutionNext]_evolutionVars  PROVE ErasureInv'
    OBVIOUS
  <2>1. CASE UNCHANGED erasureVars
    BY <2>1, ErasureStutters
  <2>2. CASE PersonalData
    BY <2>2, PersonalDataKeeps
  <2>3. CASE UNCHANGED evolutionVars
    BY <2>3, ErasureStutters, Zenon DEF evolutionVars
  <2>4. QED
    BY <2>1, <2>2, <2>3, Zenon DEF EvolutionNext
<1>3. QED
  BY <1>1, <1>2, PTL DEF EvolutionSpec

(* An erased subject stays erased: no commit that was under way and no     *)
(* designation issues its key again or leaves in the clear what a          *)
(* completed designation found (pii.go:83-88, 243-289, 451-463).           *)
THEOREM ErasureIsFinal == EvolutionSpec => []ErasedStaysErased
BY ErasureInvariance, InvKeepsErased, PTL

(* Sealing loses nothing of a subject that is not erased, but for the rows *)
(* of which it rewrote several versions (pii.go:90-94, 393-398).           *)
THEOREM SealingIsLossless == EvolutionSpec => []HistoryReadable
BY ErasureInvariance, InvKeepsReadable, PTL

-----------------------------------------------------------------------------
(* Proposals: a merge that lands under protection was approved.            *)

Guards == [on : BOOLEAN, approvals : Nat]

(* Those who approve of a proposal, and those whose approval counts.       *)
Assenting(p) ==
  {q \in Principals : [proposal |-> p, by |-> q, kind |-> "approve"] \in reviews}

Approving(p) ==
  {q \in Principals \ {proposals[p].author} :
     [proposal |-> p, by |-> q, kind |-> "approve"] \in reviews}

Vetted(p, guard) ==
  p \in DOMAIN proposals /\ guard \in Guards
    /\ (guard.on => Cardinality(Approving(p)) >= guard.approvals)

(* Where a request is that merges schemas, and where only one is that      *)
(* merges a proposal.                                                      *)
OnSchemas == {"theirs", "base", "record"}
OnData == {"data", "merging", "validate", "landing"}

(* What a request carries on its way to the merge.                         *)
CarriesOn(j) ==
  /\ "pc" \in DOMAIN j
  /\ j.pc \in {"protection", "reviews"} \cup OnSchemas \cup OnData => "proposal" \in DOMAIN j
  /\ j.pc \in {"protection", "reviews"} => j.proposal \in DOMAIN proposals
  /\ j.pc = "reviews" => "guard" \in DOMAIN j /\ j.guard \in Guards
  /\ j.pc \in OnData => j.proposal # 0
  /\ j.pc \in OnSchemas \cup OnData /\ j.proposal # 0
       => "guard" \in DOMAIN j /\ Vetted(j.proposal, j.guard)

(* The rows of datagit_proposal, whatever else they have.                  *)
IsTable(s) ==
  \E S : /\ s \in Seq(S)
         /\ \A i \in DOMAIN s : {"author", "into"} \subseteq DOMAIN s[i] /\ s[i].into \in Branches

IsReview(v) ==
  v = [proposal |-> v.proposal, by |-> v.by, kind |-> v.kind] /\ v.by \in Principals

RefsNamed == DOMAIN refs \subseteq Branches

ReviewInv ==
  /\ workload \in Workloads
  /\ IsTable(proposals)
  /\ \A v \in reviews : IsReview(v)
  /\ \A p : IsFiniteSet(Assenting(p))
  /\ protection \in [Branches -> Guards]
  /\ jobs = [r \in Requests |-> jobs[r]]
  /\ \A r \in Requests : CarriesOn(jobs[r])

(* A longer table of proposals, and more reviews.                          *)
LEMMA MoreApprovals ==
  ASSUME ReviewInv, reviews \subseteq reviews', DOMAIN proposals \subseteq DOMAIN proposals',
         \A p \in DOMAIN proposals : proposals'[p].author = proposals[p].author,
         \A p : IsFiniteSet(Assenting(p))', NEW j, CarriesOn(j)
  PROVE  CarriesOn(j)'
<1>1. ASSUME NEW p, NEW guard, Vetted(p, guard)  PROVE Vetted(p, guard)'
  <2>1. p \in DOMAIN proposals /\ guard \in Guards /\ p \in DOMAIN proposals'
    BY <1>1 DEF Vetted
  <2>2. Approving(p) \in SUBSET Approving(p)'
    BY <2>1 DEF Approving
  <2>3. IsFiniteSet(Approving(p)') /\ IsFiniteSet(Approving(p))
    <3>1. Approving(p) \in SUBSET Assenting(p) /\ Approving(p)' \in SUBSET Assenting(p)'
      BY DEF Approving, Assenting
    <3>2. IsFiniteSet(Assenting(p)) /\ IsFiniteSet(Assenting(p)')
      BY DEF ReviewInv
    <3>3. QED
      BY <3>1, <3>2, FS_Subset
  <2>4. Cardinality(Approving(p)) <= Cardinality(Approving(p)')
    BY <2>2, <2>3, FS_Subset
  <2>5. Cardinality(Approving(p)) \in Nat /\ Cardinality(Approving(p)') \in Nat
    BY <2>3, FS_CardinalityType
  <2>6. guard.on => guard.approvals \in Nat /\ Cardinality(Approving(p)) >= guard.approvals
    BY <1>1, <2>1 DEF Vetted, Guards
  <2>7. guard.on => Cardinality(Approving(p)') >= guard.approvals
    BY <2>4, <2>5, <2>6
  <2>8. QED
    BY <2>1, <2>7 DEF Vetted
<1>2. QED
  BY <1>1 DEF CarriesOn

(* What a request becomes is all that a step of it changes.                *)
LEMMA JobTurns ==
  ASSUME ReviewInv, UNCHANGED <<workload, proposals, reviews, protection>>,
         NEW r \in Requests, NEW j, jobs' = [jobs EXCEPT ![r] = j], CarriesOn(j)
  PROVE  ReviewInv'
<1>1. \A x : CarriesOn(x)' <=> CarriesOn(x)
  BY DEF CarriesOn, Vetted, Approving
<1>2. jobs' = [x \in Requests |-> IF x = r THEN j ELSE jobs[x]]
  BY DEF ReviewInv
<1>3. \A x \in Requests : CarriesOn(jobs'[x])
  BY <1>2 DEF ReviewInv
<1>4. \A p : Assenting(p)' = Assenting(p)
  BY DEF Assenting
<1>5. jobs' = [x \in Requests |-> jobs'[x]]
  BY <1>2
<1>6. (\A x \in Requests : CarriesOn(jobs[x]))'
  BY <1>1, <1>3
<1>7. (\A p : IsFiniteSet(Assenting(p)))'
  BY <1>4 DEF ReviewInv
<1>8. QED
  BY <1>5, <1>6, <1>7 DEF ReviewInv

(* A request that is at something else carries nothing.                    *)
LEMMA ElsewhereCarriesOn ==
  ASSUME NEW j, "pc" \in DOMAIN j,
         j.pc \notin {"protection", "reviews"} \cup OnSchemas \cup OnData
  PROVE  CarriesOn(j)
BY DEF CarriesOn, OnSchemas, OnData

(* A request goes on to its next step, with what it carries.               *)
LEMMA GoesOn ==
  ASSUME NEW r, NEW step, NEW pc, "pc" \in DOMAIN jobs[r], "pc" \in DOMAIN step,
         step.pc = pc, "proposal" \notin DOMAIN step
  PROVE  /\ "pc" \in DOMAIN CarryOn(r, step) /\ CarryOn(r, step).pc = pc
         /\ "proposal" \in DOMAIN jobs[r] =>
              /\ "proposal" \in DOMAIN CarryOn(r, step)
              /\ CarryOn(r, step).proposal = jobs[r].proposal
         /\ "guard" \in DOMAIN step =>
              /\ "guard" \in DOMAIN CarryOn(r, step)
              /\ CarryOn(r, step).guard = step.guard
         /\ "guard" \in DOMAIN jobs[r] /\ "guard" \notin DOMAIN step =>
              /\ "guard" \in DOMAIN CarryOn(r, step)
              /\ CarryOn(r, step).guard = jobs[r].guard
BY DEF CarryOn

(* A new repository has no proposals (store.go:146-184).                   *)
LEMMA ReviewBegins == EvolutionInit => ReviewInv
<1> SUFFICES ASSUME EvolutionInit  PROVE ReviewInv
  OBVIOUS
<1>1. /\ workload \in Workloads /\ proposals = <<>> /\ reviews = {}
      /\ protection = [b \in Branches |-> [on |-> FALSE, approvals |-> 0]]
      /\ jobs = [r \in Requests |-> NoJob]
  BY DEF EvolutionInit, MigrationsInit, ProposalsInit
<1>2. IsTable(proposals)
  <2>1. <<>> \in Seq({}) /\ DOMAIN <<>> = {}
    OBVIOUS
  <2>2. QED
    BY <1>1, <2>1 DEF IsTable
<1>3. \A p : IsFiniteSet(Assenting(p))
  <2>1. \A p : Assenting(p) = {}
    BY <1>1 DEF Assenting
  <2>2. QED
    BY <2>1, FS_EmptySet
<1>4. protection \in [Branches -> Guards]
  BY <1>1 DEF Guards
<1>5. CarriesOn(NoJob)
  BY DEF CarriesOn, NoJob, OnSchemas, OnData
<1>6. QED
  BY <1>1, <1>2, <1>3, <1>4, <1>5 DEF ReviewInv

(* A step of a request that does not come near a proposal.                 *)
LEMMA ElsewhereKeeps ==
  ASSUME ReviewInv, UNCHANGED <<workload, proposals, reviews, protection>>,
         NEW r \in Requests, NEW j, jobs' = [jobs EXCEPT ![r] = j], "pc" \in DOMAIN j,
         j.pc \notin {"protection", "reviews"} \cup OnSchemas \cup OnData
  PROVE  ReviewInv'
BY JobTurns, ElsewhereCarriesOn

(* A request that is done carries nothing.                                 *)
LEMMA NoJobKeeps ==
  ASSUME ReviewInv, UNCHANGED <<workload, proposals, reviews, protection>>,
         NEW r \in Requests, jobs' = [jobs EXCEPT ![r] = NoJob]
  PROVE  ReviewInv'
<1>1. "pc" \in DOMAIN NoJob /\ NoJob.pc = "idle"
  BY DEF NoJob
<1>2. QED
  BY <1>1, ElsewhereKeeps DEF OnSchemas, OnData

(* A request that is at something else than the merge of a proposal.       *)
Aside(j) ==
  "pc" \in DOMAIN j /\ j.pc \notin {"protection", "reviews", "merged"} \cup OnSchemas \cup OnData

(* A request that is aside is on its way to no merge.                      *)
LEMMA AsideIsElsewhere ==
  ASSUME NEW j, Aside(j)
  PROVE  /\ "pc" \in DOMAIN j
         /\ j.pc \notin {"protection", "reviews"} \cup OnSchemas \cup OnData
BY DEF Aside

(* A request that is done is aside, and so is one that goes on at what is  *)
(* aside.                                                                  *)
LEMMA NoJobAside == Aside(NoJob)
BY DEF Aside, NoJob, OnSchemas, OnData

(* What a request's place alone says.                                      *)
LEMMA PcAside ==
  ASSUME ReviewInv, NEW r \in Requests, NEW pc, jobs' = [jobs EXCEPT ![r].pc = pc],
         pc \notin {"protection", "reviews", "merged"} \cup OnSchemas \cup OnData
  PROVE  \E j : jobs' = [jobs EXCEPT ![r] = j] /\ Aside(j)
<1>1. PICK j : j = [jobs[r] EXCEPT !.pc = pc]
  OBVIOUS
<1>2. "pc" \in DOMAIN jobs[r]
  BY DEF ReviewInv, CarriesOn
<1>3. "pc" \in DOMAIN j /\ j.pc = pc
  BY <1>1, <1>2
<1>4. jobs' = [jobs EXCEPT ![r] = j]
  BY <1>1 DEF ReviewInv
<1>5. QED
  BY <1>3, <1>4 DEF Aside

(* A request that alters a schema is aside (schema.go:118-212).            *)
LEMMA AlteringTurns ==
  ASSUME NEW r \in Requests, Altering(r)
  PROVE  \E j : jobs' = [jobs EXCEPT ![r] = j] /\ Aside(j)
<1>1. ASSUME NEW b, NEW e, BeginAlter(r, b, e)
      PROVE  \E j : jobs' = [jobs EXCEPT ![r] = j] /\ Aside(j)
  <2>1. PICK j : /\ jobs' = [jobs EXCEPT ![r] = j]
                 /\ j = [pc |-> "alter", branch |-> b, known |-> Known, from |-> SchemaOf(b),
                         to |-> Altered(SchemaOf(b), Edited(SchemaOf(b), e))]
    BY <1>1 DEF BeginAlter
  <2>2. "pc" \in DOMAIN j /\ j.pc = "alter"
    BY <2>1
  <2>3. QED
    BY <2>1, <2>2 DEF Aside, OnSchemas, OnData
<1>2. CASE WriteAlter(r)
  BY <1>2, NoJobAside DEF WriteAlter
<1>3. QED
  BY <1>1, <1>2 DEF Altering

(* It keeps what was approved.                                             *)
LEMMA AlteringKeeps ==
  ASSUME ReviewInv, UNCHANGED <<workload, proposals, reviews, protection>>,
         NEW r \in Requests, Altering(r)
  PROVE  ReviewInv'
BY AlteringTurns, AsideIsElsewhere, ElsewhereKeeps

(* The merge of schemas takes its proposal and its guard along to the      *)
(* data (schema.go:290-360).                                               *)
LEMMA MergingSchemasKeeps ==
  ASSUME ReviewInv, UNCHANGED <<workload, proposals, reviews, protection>>,
         NEW r \in Requests, MergingSchemas(r)
  PROVE  ReviewInv'
<1>1. CarriesOn(jobs[r])
  BY DEF ReviewInv
<1>2. ASSUME NEW from, NEW into, BeginSchemaMerge(r, from, into)  PROVE ReviewInv'
  <2>1. PICK j : /\ jobs' = [jobs EXCEPT ![r] = j]
                 /\ j = [pc |-> "theirs", proposal |-> 0, from |-> from, into |-> into,
                         ours |-> SchemaOf(into)]
    BY <1>2 DEF BeginSchemaMerge
  <2>2. CarriesOn(j)
    BY <2>1 DEF CarriesOn, OnSchemas, OnData
  <2>3. QED
    BY <2>1, <2>2, JobTurns
<1>3. CASE ReadTheirs(r)
  <2>1. PICK step : step = [pc |-> "base", theirs |-> SchemaOf(jobs[r].from)]
    OBVIOUS
  <2>2. jobs[r].pc = "theirs" /\ jobs' = [jobs EXCEPT ![r] = CarryOn(r, step)]
    BY <1>3, <2>1 DEF ReadTheirs
  <2>3. /\ "pc" \in DOMAIN step /\ step.pc = "base"
        /\ "proposal" \notin DOMAIN step /\ "guard" \notin DOMAIN step
    BY <2>1
  <2>4. CarriesOn(CarryOn(r, step))
    BY <1>1, <2>2, <2>3, GoesOn DEF CarriesOn, OnSchemas, OnData
  <2>5. QED
    BY <2>2, <2>4, JobTurns
<1>4. CASE ReadBase(r)
  <2>1. PICK step : step = [pc |-> "record", base |-> SchemaOf(Main)]
    OBVIOUS
  <2>2. jobs[r].pc = "base" /\ jobs' = [jobs EXCEPT ![r] = CarryOn(r, step)]
    BY <1>4, <2>1 DEF ReadBase
  <2>3. /\ "pc" \in DOMAIN step /\ step.pc = "record"
        /\ "proposal" \notin DOMAIN step /\ "guard" \notin DOMAIN step
    BY <2>1
  <2>4. CarriesOn(CarryOn(r, step))
    BY <1>1, <2>2, <2>3, GoesOn DEF CarriesOn, OnSchemas, OnData
  <2>5. QED
    BY <2>2, <2>4, JobTurns
<1>5. CASE MergeSchema(r)
  <2>1. jobs[r].pc = "record"
    BY <1>5 DEF MergeSchema
  <2>2. PICK j : jobs' = [jobs EXCEPT ![r] = j] /\
          (\/ j = NoJob \/ j = [pc |-> "conflict", proposal |-> jobs[r].proposal]
           \/ j = AfterSchema(r))
    BY <1>5 DEF MergeSchema
  <2>3. CASE j = NoJob
    BY <2>2, <2>3, NoJobKeeps
  <2>4. CASE j = [pc |-> "conflict", proposal |-> jobs[r].proposal]
    <3>1. "pc" \in DOMAIN j /\ j.pc = "conflict"
      BY <2>4
    <3>2. QED
      BY <2>2, <3>1, ElsewhereKeeps DEF OnSchemas, OnData
  <2>5. CASE j = AfterSchema(r) /\ jobs[r].proposal = 0
    BY <2>2, <2>5, NoJobKeeps DEF AfterSchema
  <2>6. CASE j = AfterSchema(r) /\ jobs[r].proposal # 0
    <3>1. j = [pc |-> "data", proposal |-> jobs[r].proposal, from |-> jobs[r].from,
               into |-> jobs[r].into, guard |-> jobs[r].guard]
      BY <2>6 DEF AfterSchema
    <3>2. Vetted(jobs[r].proposal, jobs[r].guard)
      BY <1>1, <2>1, <2>6 DEF CarriesOn, OnSchemas, OnData
    <3>3. CarriesOn(j)
      BY <2>6, <3>1, <3>2 DEF CarriesOn, OnSchemas, OnData
    <3>4. QED
      BY <2>2, <3>3, JobTurns
  <2>7. QED
    BY <2>2, <2>3, <2>4, <2>5, <2>6
<1>6. QED
  BY <1>2, <1>3, <1>4, <1>5 DEF MergingSchemas

(* Nothing changes that the invariant speaks of.                           *)
LEMMA JobsStand ==
  ASSUME ReviewInv, UNCHANGED <<workload, proposals, reviews, protection, jobs>>
  PROVE  ReviewInv'
<1>1. \A x : CarriesOn(x)' <=> CarriesOn(x)
  BY DEF CarriesOn, Vetted, Approving
<1>2. \A p : Assenting(p)' = Assenting(p)
  BY DEF Assenting
<1>3. QED
  BY <1>1, <1>2 DEF ReviewInv

(* A request that applies a plan is aside (schema.go:416-470).             *)
LEMMA ApplyingTurns ==
  ASSUME ReviewInv, NEW r \in Requests, Applying(r)
  PROVE  \E j : jobs' = [jobs EXCEPT ![r] = j] /\ Aside(j)
<1>1. ASSUME NEW p, NEW confirm, BeginApply(r, p, confirm)
      PROVE  \E j : jobs' = [jobs EXCEPT ![r] = j] /\ Aside(j)
  <2>1. PICK j : /\ jobs' = [jobs EXCEPT ![r] = j]
                 /\ j = [pc |-> "applying", plan |-> p, confirm |-> confirm]
    BY <1>1 DEF BeginApply
  <2>2. "pc" \in DOMAIN j /\ j.pc = "applying"
    BY <2>1
  <2>3. QED
    BY <2>1, <2>2 DEF Aside, OnSchemas, OnData
<1>2. CASE MarkApplying(r)
  BY <1>2, PcAside DEF MarkApplying, OnSchemas, OnData
<1>3. CASE JournalBegin(r)
  BY <1>3, PcAside DEF JournalBegin, OnSchemas, OnData
<1>4. CASE ReadCompleted(r)
  <2>1. PICK step : step = [pc |-> "run", done |-> Completed]
    OBVIOUS
  <2>2. jobs' = [jobs EXCEPT ![r] = CarryOn(r, step)]
    BY <1>4, <2>1 DEF ReadCompleted
  <2>3. "pc" \in DOMAIN jobs[r] /\ "pc" \in DOMAIN step /\ step.pc = "run"
    BY <2>1 DEF ReviewInv, CarriesOn
  <2>4. "proposal" \notin DOMAIN step
    BY <2>1
  <2>5. "pc" \in DOMAIN CarryOn(r, step) /\ CarryOn(r, step).pc = "run"
    BY <2>3, <2>4, GoesOn
  <2>6. QED
    BY <2>2, <2>5 DEF Aside, OnSchemas, OnData
<1>5. CASE RunOp(r)
  BY <1>5, PcAside DEF RunOp, OnSchemas, OnData
<1>6. CASE MarkComplete(r)
  <2>0. PICK op : jobs' = [jobs EXCEPT ![r].pc = "run", ![r].done = @ \cup {op}]
    BY <1>6 DEF MarkComplete
  <2>1. PICK j : j = [jobs[r] EXCEPT !.pc = "run", !.done = @ \cup {op}]
    OBVIOUS
  <2>2. jobs' = [jobs EXCEPT ![r] = j]
    BY <2>0, <2>1 DEF ReviewInv
  <2>3. "pc" \in DOMAIN j /\ j.pc = "run"
    BY <2>1 DEF ReviewInv, CarriesOn
  <2>4. QED
    BY <2>2, <2>3 DEF Aside, OnSchemas, OnData
<1>7. CASE FailPlan(r) \/ FinishPlan(r)
  BY <1>7, NoJobAside DEF FailPlan, FinishPlan
<1>8. CASE RefreshColumns(r)
  BY <1>8, PcAside DEF RefreshColumns, OnSchemas, OnData
<1>9. QED
  BY <1>1, <1>2, <1>3, <1>4, <1>5, <1>6, <1>7, <1>8, Zenon DEF Applying

(* It keeps what was approved.                                             *)
LEMMA ApplyingKeeps ==
  ASSUME ReviewInv, UNCHANGED <<workload, proposals, reviews, protection>>,
         NEW r \in Requests, Applying(r)
  PROVE  ReviewInv'
BY ApplyingTurns, AsideIsElsewhere, ElsewhereKeeps

(* A predicate write is aside (predicate.go:72-118).                       *)
LEMMA WritingWhereTurns ==
  ASSUME NEW r \in Requests, WritingWhere(r)
  PROVE  UNCHANGED jobs \/ \E j : jobs' = [jobs EXCEPT ![r] = j] /\ Aside(j)
<1>1. ASSUME NEW filter, NEW assigns, NEW b,
             Set(r, [pc |-> "where", filter |-> filter, assigns |-> assigns,
                     planned |-> refs[b].head])
      PROVE  \E j : jobs' = [jobs EXCEPT ![r] = j] /\ Aside(j)
  <2>1. PICK j : /\ jobs' = [jobs EXCEPT ![r] = j]
                 /\ j = [pc |-> "where", filter |-> filter, assigns |-> assigns,
                         planned |-> refs[b].head]
    BY <1>1 DEF Set
  <2>2. "pc" \in DOMAIN j /\ j.pc = "where"
    BY <2>1
  <2>3. QED
    BY <2>1, <2>2 DEF Aside, OnSchemas, OnData
<1>2. CASE Set(r, NoJob)
  BY <1>2, NoJobAside DEF Set
<1>3. QED
  BY <1>1, <1>2, Zenon DEF WritingWhere, schemaVars

(* It keeps what was approved.                                             *)
LEMMA WritingWhereKeeps ==
  ASSUME ReviewInv, UNCHANGED <<workload, proposals, reviews, protection>>,
         NEW r \in Requests, WritingWhere(r)
  PROVE  ReviewInv'
BY WritingWhereTurns, AsideIsElsewhere, ElsewhereKeeps, JobsStand

-----------------------------------------------------------------------------
(* The proposals and the reviews themselves.                               *)

(* Longer tables keep what a request carries.                              *)
LEMMA TablesKeep ==
  ASSUME ReviewInv, workload' = workload, reviews \subseteq reviews',
         DOMAIN proposals \subseteq DOMAIN proposals',
         \A p \in DOMAIN proposals : proposals'[p].author = proposals[p].author,
         \A v \in reviews' : IsReview(v), \A p : IsFiniteSet(Assenting(p))',
         IsTable(proposals'), protection' \in [Branches -> Guards],
         jobs' = [r \in Requests |-> jobs'[r]], \A r \in Requests : CarriesOn(jobs'[r])
  PROVE  ReviewInv'
<1>1. \A x : CarriesOn(x) => CarriesOn(x)'
  BY MoreApprovals
<1>2. (\A r \in Requests : CarriesOn(jobs[r]))'
  BY <1>1
<1>3. QED
  BY <1>2 DEF ReviewInv

(* Without reviews, approvals and protections stand.                       *)
LEMMA ReviewsStand ==
  ASSUME ReviewInv, reviews' = reviews
  PROVE  (\A v \in reviews' : IsReview(v)) /\ \A p : IsFiniteSet(Assenting(p))'
BY DEF ReviewInv, Assenting

(* A proposal is added at the end of its table (proposal.go:68-101).       *)
LEMMA CreateProposalKeeps ==
  ASSUME ReviewInv, RefsNamed, workload' = workload, NEW from, NEW into \in DOMAIN refs,
         NEW author, CreateProposal(from, into, author)
  PROVE  ReviewInv'
<1>1. PICK e : e = [from |-> from, into |-> into, author |-> author, state |-> "open",
                    commit |-> 0]
  OBVIOUS
<1>2. /\ proposals' = Append(proposals, e) /\ reviews' = reviews /\ protection' = protection
      /\ jobs' = jobs
  BY <1>1 DEF CreateProposal, schemaVars
<1>3. {"author", "into"} \subseteq DOMAIN e /\ e.into \in Branches
  BY <1>1 DEF RefsNamed
<1>4. PICK S : /\ proposals \in Seq(S)
               /\ \A i \in DOMAIN proposals :
                    {"author", "into"} \subseteq DOMAIN proposals[i] /\ proposals[i].into \in Branches
  BY DEF ReviewInv, IsTable
<1>5. /\ proposals' \in Seq(S \cup {e}) /\ DOMAIN proposals \subseteq DOMAIN proposals'
      /\ \A i \in DOMAIN proposals : proposals'[i] = proposals[i]
      /\ \A i \in DOMAIN proposals' \ DOMAIN proposals : proposals'[i] = e
  BY <1>2, <1>4
<1>6. IsTable(proposals')
  BY <1>3, <1>4, <1>5 DEF IsTable
<1>7. jobs' = [r \in Requests |-> jobs'[r]] /\ \A r \in Requests : CarriesOn(jobs'[r])
  BY <1>2 DEF ReviewInv
<1>8. protection' \in [Branches -> Guards]
  BY <1>2 DEF ReviewInv
<1>9. \A i \in DOMAIN proposals : proposals'[i].author = proposals[i].author
  BY <1>5
<1>10. QED
  BY <1>2, <1>5, <1>6, <1>7, <1>8, <1>9, ReviewsStand, TablesKeep

(* A new state is all that the outcome of a merge changes of a proposal.   *)
LEMMA OutcomeKeeps ==
  ASSUME ReviewInv, UNCHANGED <<workload, reviews, protection>>, NEW p, NEW state, NEW commit,
         SetState(p, state, commit), NEW r \in Requests, jobs' = [jobs EXCEPT ![r] = NoJob]
  PROVE  ReviewInv'
<1>1. PICK S : /\ proposals \in Seq(S)
               /\ \A i \in DOMAIN proposals :
                    {"author", "into"} \subseteq DOMAIN proposals[i] /\ proposals[i].into \in Branches
  BY DEF ReviewInv, IsTable
<1>2. PICK e : e = [proposals[p] EXCEPT !.state = state,
                                        !.commit = IF commit = 0 THEN @ ELSE commit]
  OBVIOUS
<1>3. proposals' = [proposals EXCEPT ![p] = e]
  <2>1. proposals' = [proposals EXCEPT ![p].state = state,
                                       ![p].commit = IF commit = 0 THEN @ ELSE commit]
    BY DEF SetState
  <2>2. QED
    BY <1>1, <1>2, <2>1
<1>4. /\ proposals' \in Seq(S \cup {e}) /\ DOMAIN proposals' = DOMAIN proposals
      /\ \A i \in DOMAIN proposals : proposals'[i] = IF i = p THEN e ELSE proposals[i]
  <2>1. /\ Len(proposals) \in Nat /\ DOMAIN proposals = 1 .. Len(proposals)
        /\ \A i \in 1 .. Len(proposals) : proposals[i] \in S
    BY <1>1
  <2>2. /\ proposals' = [i \in 1 .. Len(proposals) |-> IF i = p THEN e ELSE proposals[i]]
        /\ DOMAIN proposals' = DOMAIN proposals
        /\ \A i \in DOMAIN proposals : proposals'[i] = IF i = p THEN e ELSE proposals[i]
    BY <1>3, <2>1
  <2>3. \A i \in 1 .. Len(proposals) :
          (IF i = p THEN e ELSE proposals[i]) \in S \cup {e}
    BY <2>1
  <2>4. [i \in 1 .. Len(proposals) |-> IF i = p THEN e ELSE proposals[i]] \in Seq(S \cup {e})
    BY <2>1, <2>3
  <2>5. QED
    BY <2>2, <2>4
<1>5. p \in DOMAIN proposals =>
        /\ {"author", "into"} \subseteq DOMAIN e
        /\ e.into = proposals[p].into /\ e.author = proposals[p].author
  BY <1>1, <1>2
<1>6. \A i \in DOMAIN proposals : proposals'[i].author = proposals[i].author
  BY <1>4, <1>5
<1>7. IsTable(proposals')
  BY <1>1, <1>4, <1>5 DEF IsTable
<1>8. CarriesOn(NoJob)
  BY DEF CarriesOn, NoJob, OnSchemas, OnData
<1>9. /\ jobs' = [x \in Requests |-> jobs'[x]]
      /\ \A x \in Requests : CarriesOn(jobs'[x])
  BY <1>8 DEF ReviewInv
<1>10. protection' \in [Branches -> Guards]
  BY DEF ReviewInv
<1>11. QED
  BY <1>4, <1>6, <1>7, <1>9, <1>10, ReviewsStand, TablesKeep

(* A review is only added (proposal.go:103-134).                           *)
LEMMA ReviewingKeeps ==
  ASSUME ReviewInv, workload' = workload, Reviewing
  PROVE  ReviewInv'
<1>1. /\ proposals' = proposals /\ jobs' = jobs
  BY DEF Reviewing, AddReview, SetBranchProtection, schemaVars
<1>2. /\ jobs' = [r \in Requests |-> jobs'[r]] /\ \A r \in Requests : CarriesOn(jobs'[r])
      /\ IsTable(proposals')
  BY <1>1 DEF ReviewInv
<1>3. ASSUME NEW p, NEW by \in Principals, NEW kind, AddReview(p, by, kind)
      PROVE  ReviewInv'
  <2>1. PICK v : /\ v = [proposal |-> p, by |-> by, kind |-> kind]
                 /\ reviews' = reviews \cup {v} /\ protection' = protection
    BY <1>3 DEF AddReview
  <2>2. ASSUME NEW q  PROVE IsFiniteSet(Assenting(q))'
    <3>1. IsFiniteSet(Assenting(q) \cup {by})
      BY FS_AddElement DEF ReviewInv
    <3>2. Assenting(q)' \in SUBSET (Assenting(q) \cup {by})
      BY <2>1 DEF Assenting
    <3>3. QED
      BY <3>1, <3>2, FS_Subset
  <2>3. protection' \in [Branches -> Guards]
    BY <2>1 DEF ReviewInv
  <2>4. IsReview(v)
    BY <2>1 DEF IsReview
  <2>5. \A x \in reviews' : IsReview(x)
    BY <2>1, <2>4 DEF ReviewInv
  <2>6. QED
    BY <1>1, <1>2, <2>1, <2>2, <2>3, <2>5, TablesKeep
<1>4. ASSUME NEW on \in BOOLEAN, SetBranchProtection(Main, on, 1)  PROVE ReviewInv'
  <2>1. /\ protection' = [protection EXCEPT ![Main] = [on |-> on, approvals |-> 1]]
        /\ reviews' = reviews
    BY <1>4 DEF SetBranchProtection
  <2>2. [on |-> on, approvals |-> 1] \in Guards
    BY DEF Guards
  <2>3. protection' \in [Branches -> Guards]
    BY <2>1, <2>2 DEF ReviewInv
  <2>4. QED
    BY <1>1, <1>2, <2>1, <2>3, ReviewsStand, TablesKeep
<1>5. QED
  BY <1>3, <1>4 DEF Reviewing

(* Proposals and resolutions of conflicts (proposal.go:68-101).            *)
LEMMA ProposingKeeps ==
  ASSUME ReviewInv, RefsNamed, workload' = workload, Proposing
  PROVE  ReviewInv'
<1>1. ASSUME NEW from \in DOMAIN refs, NEW into \in DOMAIN refs, NEW author,
             CreateProposal(from, into, author)
      PROVE  ReviewInv'
  BY <1>1, CreateProposalKeeps
<1>2. ASSUME NEW d, ResolveConflict(d)  PROVE ReviewInv'
  <2>1. UNCHANGED <<proposals, reviews, protection, jobs>>
    BY <1>2 DEF ResolveConflict, schemaVars
  <2>2. QED
    BY <2>1, JobsStand
<1>3. QED
  BY <1>1, <1>2 DEF Proposing

-----------------------------------------------------------------------------
(* Merging a proposal, and dying of it.                                    *)

(* Those counted approve, and are not the author (proposal.go:213-237).    *)
LEMMA ApproversAreApproving ==
  ASSUME ReviewInv, NEW p
  PROVE  Approvers(p) = Approving(p)
<1>1. \A v \in reviews : IsReview(v)
  BY DEF ReviewInv
<1>2. ASSUME NEW q  PROVE q \in Of(p, "approve") <=> q \in Assenting(p)
  BY <1>1 DEF Of, Assenting, IsReview
<1>3. QED
  BY <1>2 DEF Approvers, Approving, Assenting

(* The guard is the target's protection as the merge begins.               *)
LEMMA ReadProtectionKeeps ==
  ASSUME ReviewInv, workload' = workload, NEW r \in Requests, ReadProtection(r)
  PROVE  ReviewInv'
<1>1. CarriesOn(jobs[r]) /\ jobs[r].pc = "protection"
  BY DEF ReviewInv, ReadProtection
<1>2. PICK p : p = jobs[r].proposal
  OBVIOUS
<1>3. "proposal" \in DOMAIN jobs[r] /\ p \in DOMAIN proposals /\ "pc" \in DOMAIN jobs[r]
  BY <1>1, <1>2 DEF CarriesOn
<1>4. PICK step : step = [pc |-> "reviews", guard |-> protection[proposals[p].into]]
  OBVIOUS
<1>5. /\ jobs' = [jobs EXCEPT ![r] = CarryOn(r, step)]
      /\ UNCHANGED <<proposals, reviews, protection>>
  BY <1>2, <1>4 DEF ReadProtection, Set, proposalVars
<1>6. proposals[p].into \in Branches
  BY <1>3 DEF ReviewInv, IsTable
<1>7. protection[proposals[p].into] \in Guards
  BY <1>6 DEF ReviewInv
<1>8. /\ "pc" \in DOMAIN step /\ step.pc = "reviews" /\ "proposal" \notin DOMAIN step
      /\ "guard" \in DOMAIN step /\ step.guard \in Guards
  BY <1>4, <1>7
<1>9. CarriesOn(CarryOn(r, step))
  BY <1>2, <1>3, <1>8, GoesOn DEF CarriesOn, OnSchemas, OnData
<1>10. QED
  BY <1>5, <1>9, JobTurns

(* Only a proposal that has its approvals goes on.                         *)
LEMMA ReadReviewsKeeps ==
  ASSUME ReviewInv, workload' = workload, NEW r \in Requests, ReadReviews(r)
  PROVE  ReviewInv'
<1>1. CarriesOn(jobs[r]) /\ jobs[r].pc = "reviews"
  BY DEF ReviewInv, ReadReviews
<1>2. PICK p, guard : p = jobs[r].proposal /\ guard = jobs[r].guard
  OBVIOUS
<1>3. p \in DOMAIN proposals /\ guard \in Guards
  BY <1>1, <1>2 DEF CarriesOn
<1>4. UNCHANGED <<workload, proposals, reviews, protection>>
  BY DEF ReadReviews, proposalVars
<1>5. CASE Approved(p, guard)
  <2>1. Vetted(p, guard)
    BY <1>3, <1>5, ApproversAreApproving DEF Approved, Vetted
  <2>2. PICK j : /\ jobs' = [jobs EXCEPT ![r] = j]
                 /\ j = [pc |-> "theirs", proposal |-> p, guard |-> guard,
                         from |-> proposals[p].from, into |-> proposals[p].into,
                         ours |-> SchemaOf(proposals[p].into)]
    BY <1>2, <1>5 DEF ReadReviews, Set
  <2>3. CarriesOn(j)
    BY <2>1, <2>2 DEF CarriesOn, OnSchemas, OnData
  <2>4. QED
    BY <1>4, <2>2, <2>3, JobTurns
<1>6. CASE ~Approved(p, guard)
  <2>1. jobs' = [jobs EXCEPT ![r] = NoJob]
    BY <1>2, <1>6 DEF ReadReviews, Set
  <2>2. QED
    BY <1>4, <2>1, NoJobKeeps
<1>7. QED
  BY <1>5, <1>6

(* A request goes on with the data of its proposal.                        *)
LEMMA DataGoesOn ==
  ASSUME NEW r, NEW step, CarriesOn(jobs[r]), jobs[r].pc \in OnData, "pc" \in DOMAIN step,
         step.pc \in OnData, {"proposal", "guard"} \cap DOMAIN step = {}
  PROVE  CarriesOn(CarryOn(r, step))
<1>1. PICK pc : pc = step.pc
  OBVIOUS
<1>2. /\ "pc" \in DOMAIN jobs[r] /\ "proposal" \in DOMAIN jobs[r] /\ "guard" \in DOMAIN jobs[r]
      /\ jobs[r].proposal # 0 /\ Vetted(jobs[r].proposal, jobs[r].guard)
  BY DEF CarriesOn
<1>3. "proposal" \notin DOMAIN step /\ "guard" \notin DOMAIN step
  OBVIOUS
<1>4. /\ "pc" \in DOMAIN CarryOn(r, step) /\ CarryOn(r, step).pc \in OnData
      /\ "proposal" \in DOMAIN CarryOn(r, step)
      /\ CarryOn(r, step).proposal = jobs[r].proposal
      /\ "guard" \in DOMAIN CarryOn(r, step) /\ CarryOn(r, step).guard = jobs[r].guard
  BY <1>1, <1>2, <1>3, GoesOn
<1>5. OnData \cap {"protection", "reviews"} = {}
  BY DEF OnData
<1>6. QED
  BY <1>2, <1>4, <1>5 DEF CarriesOn

(* A step of the data merge goes on with it, or leaves it for a step that  *)
(* has nothing to merge.                                                   *)
LEMMA DataStepKeeps ==
  ASSUME ReviewInv, UNCHANGED <<workload, proposals, reviews, protection>>,
         NEW r \in Requests, jobs[r].pc \in OnData, NEW j, jobs' = [jobs EXCEPT ![r] = j],
         \/ "pc" \in DOMAIN j /\ j.pc \in {"idle", "clear", "merged"}
         \/ \E step : /\ "pc" \in DOMAIN step /\ step.pc \in OnData
                      /\ {"proposal", "guard"} \cap DOMAIN step = {} /\ j = CarryOn(r, step)
  PROVE  ReviewInv'
<1>1. CASE "pc" \in DOMAIN j /\ j.pc \in {"idle", "clear", "merged"}
  BY <1>1, ElsewhereKeeps DEF OnSchemas, OnData
<1>2. ASSUME NEW step, "pc" \in DOMAIN step, step.pc \in OnData,
             {"proposal", "guard"} \cap DOMAIN step = {}, j = CarryOn(r, step)
      PROVE  ReviewInv'
  <2>1. CarriesOn(j)
    BY <1>2, DataGoesOn DEF ReviewInv
  <2>2. QED
    BY <2>1, JobTurns
<1>3. QED
  BY <1>1, <1>2

(* Every step of the data merge keeps what was approved                    *)
(* (proposal.go:252-296).                                                  *)
LEMMA DataKeeps ==
  ASSUME ReviewInv, workload' = workload, NEW r \in Requests,
         BeginData(r) \/ PlanData(r) \/ ValidateData(r) \/ LandData(r) \/ RefuseData(r)
  PROVE  ReviewInv'
<1>1. UNCHANGED <<workload, proposals, reviews, protection>>
  BY Zenon DEF BeginData, PlanData, ValidateData, LandData, RefuseData, proposalVars
<1>2. NoJob = [pc |-> "idle"]
  BY DEF NoJob
<1>3. CASE BeginData(r)
  <2>1. PICK step : step = [pc |-> "merging"]
    OBVIOUS
  <2>2. jobs[r].pc \in OnData /\ jobs' = [jobs EXCEPT ![r] = CarryOn(r, step)]
    BY <1>3, <2>1 DEF BeginData, Set, OnData
  <2>3. /\ "pc" \in DOMAIN step /\ step.pc \in OnData
        /\ {"proposal", "guard"} \cap DOMAIN step = {}
    BY <2>1 DEF OnData
  <2>4. QED
    BY <1>1, <2>2, <2>3, DataStepKeeps
<1>4. CASE PlanData(r)
  <2>1. PICK step, over : /\ step = [pc |-> "validate"]
                          /\ over = [pc |-> "clear", proposal |-> jobs[r].proposal,
                                     keys |-> Disputed(r)]
    OBVIOUS
  <2>2. PICK j : jobs' = [jobs EXCEPT ![r] = j]
                   /\ (j = CarryOn(r, step) \/ j = NoJob \/ j = over)
    BY <1>4, <2>1, Zenon DEF PlanData, Set
  <2>3. jobs[r].pc \in OnData
    BY <1>4 DEF PlanData, OnData
  <2>4. /\ "pc" \in DOMAIN step /\ step.pc \in OnData
        /\ {"proposal", "guard"} \cap DOMAIN step = {}
    BY <2>1 DEF OnData
  <2>5. "pc" \in DOMAIN over /\ over.pc = "clear" /\ "pc" \in DOMAIN NoJob /\ NoJob.pc = "idle"
    BY <1>2, <2>1
  <2>6. QED
    BY <1>1, <2>2, <2>3, <2>4, <2>5, DataStepKeeps
<1>5. CASE ValidateData(r)
  <2>1. PICK step, over : /\ step = [pc |-> "landing", validated |-> refs[req[r].branch].head]
                          /\ over = [pc |-> "clear", proposal |-> jobs[r].proposal,
                                     keys |-> ValidateMerge(r)]
    OBVIOUS
  <2>2. PICK j : jobs' = [jobs EXCEPT ![r] = j] /\ (j = CarryOn(r, step) \/ j = over)
    BY <1>5, <2>1, Zenon DEF ValidateData, Set
  <2>3. jobs[r].pc \in OnData
    BY <1>5 DEF ValidateData, OnData
  <2>4. /\ "pc" \in DOMAIN step /\ step.pc \in OnData
        /\ {"proposal", "guard"} \cap DOMAIN step = {}
    BY <2>1 DEF OnData
  <2>5. "pc" \in DOMAIN over /\ over.pc = "clear"
    BY <2>1
  <2>6. QED
    BY <1>1, <2>2, <2>3, <2>4, <2>5, DataStepKeeps
<1>6. CASE LandData(r)
  <2>1. CASE UNCHANGED schemaVars
    <3>1. jobs' = jobs
      BY <2>1 DEF schemaVars
    <3>2. QED
      BY <1>1, <3>1, JobsStand
  <2>2. CASE Set(r, [pc |-> "merged", proposal |-> jobs[r].proposal, commit |-> Len(commits) + 1])
    <3>1. PICK j : /\ jobs' = [jobs EXCEPT ![r] = j]
                   /\ j = [pc |-> "merged", proposal |-> jobs[r].proposal,
                           commit |-> Len(commits) + 1]
      BY <2>2 DEF Set
    <3>2. "pc" \in DOMAIN j /\ j.pc = "merged"
      BY <3>1
    <3>3. QED
      BY <1>1, <3>1, <3>2, ElsewhereKeeps DEF OnSchemas, OnData
  <2>3. QED
    BY <1>6, <2>1, <2>2, Zenon DEF LandData
<1>7. CASE RefuseData(r)
  BY <1>1, <1>7, NoJobKeeps DEF RefuseData, Set
<1>8. QED
  BY <1>3, <1>4, <1>5, <1>6, <1>7

(* And so does every step of the merge of a proposal                       *)
(* (proposal.go:196-296).                                                  *)
LEMMA MergingProposalsKeeps ==
  ASSUME ReviewInv, workload' = workload, NEW r \in Requests, MergingProposals(r)
  PROVE  ReviewInv'
<1>1. ASSUME NEW p \in DOMAIN proposals, BeginMergeProposal(r, p)  PROVE ReviewInv'
  <2>1. PICK j : jobs' = [jobs EXCEPT ![r] = j] /\ j = [pc |-> "protection", proposal |-> p]
    BY <1>1 DEF BeginMergeProposal, Set
  <2>2. CarriesOn(j)
    BY <2>1 DEF CarriesOn, OnSchemas, OnData
  <2>3. UNCHANGED <<proposals, reviews, protection>>
    BY <1>1 DEF BeginMergeProposal, proposalVars
  <2>4. QED
    BY <2>1, <2>2, <2>3, JobTurns
<1>2. CASE ClearConflicts(r)
  <2>1. PICK step : step = [pc |-> "save"]
    OBVIOUS
  <2>2. /\ jobs' = [jobs EXCEPT ![r] = CarryOn(r, step)]
        /\ UNCHANGED <<proposals, reviews, protection>>
    BY <1>2, <2>1 DEF ClearConflicts, Set
  <2>3. /\ "pc" \in DOMAIN jobs[r] /\ "pc" \in DOMAIN step /\ step.pc = "save"
        /\ "proposal" \notin DOMAIN step
    BY <2>1 DEF ReviewInv, CarriesOn
  <2>4. "pc" \in DOMAIN CarryOn(r, step) /\ CarryOn(r, step).pc = "save"
    BY <2>3, GoesOn
  <2>5. QED
    BY <2>2, <2>4, ElsewhereKeeps DEF OnSchemas, OnData
<1>3. CASE SaveConflicts(r)
  <2>1. PICK j : /\ jobs' = [jobs EXCEPT ![r] = j]
                 /\ j = [pc |-> "conflict", proposal |-> jobs[r].proposal]
    BY <1>3 DEF SaveConflicts, Set
  <2>2. "pc" \in DOMAIN j /\ j.pc = "conflict" /\ UNCHANGED <<proposals, reviews, protection>>
    BY <1>3, <2>1 DEF SaveConflicts
  <2>3. QED
    BY <2>1, <2>2, ElsewhereKeeps DEF OnSchemas, OnData
<1>4. CASE MarkConflicted(r)
  BY <1>4, OutcomeKeeps DEF MarkConflicted, Set
<1>5. CASE MarkMerged(r)
  BY <1>5, OutcomeKeeps DEF MarkMerged, Set
<1>6. QED
  BY <1>1, <1>2, <1>3, <1>4, <1>5, ReadProtectionKeeps, ReadReviewsKeeps, DataKeeps, Zenon
     DEF MergingProposals

(* A request that dies carries nothing on.                                 *)
LEMMA DyingKeeps ==
  ASSUME ReviewInv, UNCHANGED <<workload, proposalVars>>, NEW r \in Requests, Dying(r)
  PROVE  ReviewInv'
<1>1. jobs' = [jobs EXCEPT ![r] = NoJob]
  BY DEF Dying, JobDies, MergeDies, Set
<1>2. UNCHANGED <<workload, proposals, reviews, protection>>
  BY DEF proposalVars
<1>3. QED
  BY <1>1, <1>2, NoJobKeeps

(* Every step keeps what was approved.                                     *)
LEMMA EvolutionKeepsReview ==
  ASSUME ReviewInv, RefsNamed, EvolutionNext
  PROVE  ReviewInv'
<1>1. \A r \in workload.requests : r \in Requests
  BY EvolutionAssumption DEF ReviewInv
<1>2. workload' = workload
  BY DEF EvolutionNext
<1>3. ASSUME UNCHANGED schemaVars, UNCHANGED proposalVars  PROVE ReviewInv'
  <2>1. UNCHANGED <<proposals, reviews, protection, jobs>>
    BY <1>3 DEF schemaVars, proposalVars
  <2>2. QED
    BY <1>2, <2>1, JobsStand
<1>4. ASSUME NEW r \in workload.requests,
             WritingWhere(r) \/ Altering(r) \/ MergingSchemas(r) \/ Applying(r),
             UNCHANGED proposalVars
      PROVE  ReviewInv'
  <2>1. UNCHANGED <<proposals, reviews, protection>> /\ r \in Requests
    BY <1>1, <1>4 DEF proposalVars
  <2>2. QED
    BY <1>2, <1>4, <2>1, WritingWhereKeeps, AlteringKeeps, MergingSchemasKeeps, ApplyingKeeps
<1>5. ASSUME NEW r \in workload.requests, MergingProposals(r)  PROVE ReviewInv'
  BY <1>1, <1>2, <1>5, MergingProposalsKeeps
<1>6. ASSUME NEW r \in workload.requests, Dying(r), UNCHANGED proposalVars  PROVE ReviewInv'
  BY <1>1, <1>2, <1>6, DyingKeeps
<1>7. CASE Proposing \/ Reviewing
  BY <1>2, <1>7, ProposingKeeps, ReviewingKeeps
<1>8. QED
  BY <1>3, <1>4, <1>5, <1>6, <1>7, Zenon DEF EvolutionNext

(* Only branches that the workload names come to be.                       *)
LEMMA RefsStayNamed ==
  ASSUME ReviewInv, RefsNamed, EvolutionNext
  PROVE  RefsNamed'
<1>1. SUFFICES ASSUME refs' # refs  PROVE RefsNamed'
  BY DEF RefsNamed
<1>2. ASSUME NEW r, Land(r)  PROVE DOMAIN refs' = DOMAIN refs
  BY <1>2 DEF Land
<1>3. ASSUME NEW r, Lock(r) \/ Refuse(r) \/ Forbid(r) \/ Crash(r)
      PROVE  refs' = refs
  BY <1>3 DEF Lock, Refuse, Forbid, Crash
<1>4. ASSUME NEW r, Data(r)  PROVE DOMAIN refs' = DOMAIN refs
  BY <1>1, <1>2, <1>3, <1>4 DEF Data, SubmitCommit, LandFitting
<1>5. ASSUME NEW r, WritingWhere(r)  PROVE DOMAIN refs' = DOMAIN refs
  BY <1>1, <1>2, <1>3, <1>5 DEF WritingWhere, SubmitCommit, LandFitting
<1>6. ASSUME NEW r, Altering(r) \/ MergingSchemas(r) \/ Applying(r)  PROVE refs' = refs
  <2>1. CASE Altering(r)
    BY <2>1 DEF Altering, BeginAlter, WriteAlter, vars
  <2>2. CASE MergingSchemas(r)
    BY <2>2 DEF MergingSchemas, BeginSchemaMerge, ReadTheirs, ReadBase, MergeSchema, vars
  <2>3. CASE Applying(r)
    BY <2>3 DEF Applying, BeginApply, MarkApplying, JournalBegin, ReadCompleted, RunOp,
                MarkComplete, FailPlan, RefreshColumns, FinishPlan, vars
  <2>4. QED
    BY <1>6, <2>1, <2>2, <2>3
<1>7. CASE Proposing \/ Reviewing
  <2>1. refs' = refs
    BY <1>7 DEF Proposing, Reviewing, CreateProposal, ResolveConflict, AddReview,
                SetBranchProtection, vars
  <2>2. QED
    BY <1>1, <2>1
<1>8. ASSUME NEW r, MergingProposals(r)  PROVE DOMAIN refs' = DOMAIN refs
  <2>1. CASE LandData(r)
    BY <1>2, <1>3, <2>1, Zenon DEF LandData, LandFitting
  <2>2. CASE \/ (\E p : BeginMergeProposal(r, p)) \/ ReadProtection(r) \/ ReadReviews(r)
             \/ BeginData(r) \/ PlanData(r) \/ ValidateData(r)
    BY <2>2, Zenon DEF BeginMergeProposal, ReadProtection, ReadReviews, BeginData, PlanData,
                       ValidateData, SubmitMerge, PlanMerge, vars
  <2>3. CASE \/ RefuseData(r) \/ ClearConflicts(r) \/ SaveConflicts(r) \/ MarkConflicted(r)
             \/ MarkMerged(r)
    BY <1>3, <2>3, Zenon DEF RefuseData, ClearConflicts, SaveConflicts, MarkConflicted,
                             MarkMerged, vars
  <2>4. QED
    BY <1>8, <2>1, <2>2, <2>3, Zenon DEF MergingProposals
<1>9. ASSUME NEW r, Dying(r)  PROVE refs' = refs
  BY <1>3, <1>9 DEF Dying, JobDies, MergeDies, vars
<1>10. CASE Branching
  <2>1. workload.branches \subseteq Branches
    BY EvolutionAssumption DEF ReviewInv
  <2>2. PICK n \in workload.branches : DOMAIN refs' = DOMAIN refs \cup {n}
    BY <1>10 DEF Branching, CreateBranch
  <2>3. QED
    BY <2>1, <2>2 DEF RefsNamed
<1>11. CASE UNCHANGED <<vars, schemaVars, proposalVars>>
  <2>1. refs' = refs
    BY <1>11 DEF vars
  <2>2. QED
    BY <1>1, <2>1
<1>12. QED
  BY <1>1, <1>4, <1>5, <1>6, <1>7, <1>8, <1>9, <1>10, <1>11, Zenon DEF EvolutionNext, RefsNamed

(* Whoever proposes, reviews, protects, merges and dies in between: a      *)
(* request on its way to a merge has the approvals its target demanded.    *)
THEOREM ReviewInvariance == EvolutionSpec => [](ReviewInv /\ RefsNamed)
<1>1. EvolutionInit => ReviewInv /\ RefsNamed
  <2>1. Init => RefsNamed
    BY StoreAssumption DEF Init, RefsNamed
  <2>2. QED
    BY <2>1, ReviewBegins DEF EvolutionInit
<1>2. ReviewInv /\ RefsNamed /\ [EvolutionNext]_evolutionVars => (ReviewInv /\ RefsNamed)'
  <2> SUFFICES ASSUME ReviewInv, RefsNamed, [EvolutionNext]_evolutionVars
               PROVE  (ReviewInv /\ RefsNamed)'
    OBVIOUS
  <2>1. CASE EvolutionNext
    BY <2>1, EvolutionKeepsReview, RefsStayNamed
  <2>2. CASE UNCHANGED evolutionVars
    <3>1. UNCHANGED <<vars, schemaVars, proposalVars, workload>>
      BY <2>2, Zenon DEF evolutionVars
    <3>2. UNCHANGED <<refs, workload, proposals, reviews, protection, jobs>>
      BY <3>1, Zenon DEF vars, schemaVars, proposalVars
    <3>3. RefsNamed'
      BY <3>2 DEF RefsNamed
    <3>4. QED
      BY <3>2, <3>3, JobsStand
  <2>3. QED
    BY <2>1, <2>2
<1>3. QED
  BY <1>1, <1>2, PTL DEF EvolutionSpec

(* Nobody changes a protected branch alone: the data of a proposal lands   *)
(* only with the approvals that its target demanded as the merge began,    *)
(* none of them the author's (proposal.go:103-134, 191-237).               *)
THEOREM ProtectedMergesAreReviewed == EvolutionSpec => MergesReviewed
<1>1. ReviewInv => [\A r \in Requests :
        (jobs[r].pc = "landing" /\ jobs'[r].pc = "merged" /\ jobs[r].guard.on) =>
          LET p == jobs[r].proposal
          IN  Cardinality({q \in Principals \ {proposals[p].author} :
                             [proposal |-> p, by |-> q, kind |-> "approve"] \in reviews})
                >= jobs[r].guard.approvals]_evolutionVars
  <2> SUFFICES ASSUME ReviewInv, NEW r \in Requests, jobs[r].pc = "landing", jobs[r].guard.on
               PROVE  Cardinality(Approving(jobs[r].proposal)) >= jobs[r].guard.approvals
    BY DEF Approving
  <2>1. Vetted(jobs[r].proposal, jobs[r].guard)
    BY DEF ReviewInv, CarriesOn, OnData
  <2>2. QED
    BY <2>1 DEF Vetted
<1>2. QED
  BY <1>1, ReviewInvariance, PTL DEF MergesReviewed

-----------------------------------------------------------------------------
(* The store under all of it.                                              *)

(* What the operations on proposals, schemas and predicates do to the      *)
(* store: they submit commits and merges, and go on with them or give up.  *)
Submits(r) ==
  \/ \E b \in DOMAIN refs, changes \in ChangeSet, expected \in Nat :
       /\ \E t \in Tables : DOMAIN changes \subseteq t
       /\ SubmitCommit(r, b, changes, expected)
  \/ \E t \in Tables, from, into \in DOMAIN refs : SubmitMerge(r, "merge", from, into, t)

GivesUp(r) ==
  /\ Finish(r) \/ (req' = [req EXCEPT ![r] = Idle] /\ UNCHANGED lock)
  /\ UNCHANGED <<refs, commits, rows, live>>

StoreMoves ==
  \/ \E r \in Requests : Submits(r) \/ Lock(r) \/ PlanMerge(r) \/ Land(r) \/ GivesUp(r)
  \/ \E n \in Branches, from \in DOMAIN refs : CreateBranch(n, from)

(* A predicate write plans changes of the table (predicate.go:72-118).     *)
LEMMA PlannedType ==
  ASSUME TypeOK, NEW b, NEW filter, NEW assigns \in Assignments
  PROVE  PlannedWhere(b, filter, assigns) \in ChangeSet
<1> DEFINE chain == refs[b].chain
           keys == Read(chain, filter, 0, NoKey)
           next(pk) == Assigned(CurrentRow(chain, pk), assigns)
           changed == {k \in keys : next(k) # CurrentRow(chain, k)}
<1>1. keys \in SUBSET PKs /\ \A pk \in keys : CurrentRow(chain, pk) # Absent
  BY DEF Read, Resolved, Candidates, Hits
<1> HIDE DEF keys
<1>2. CASE assigns = <<>>
  <2>1. [pk \in keys |-> Absent] \in [keys -> Image]
    BY DEF Image
  <2>2. [pk \in keys |-> Absent] \in ChangeSet
    BY <1>1, <2>1, ChangeSetType
  <2>3. QED
    BY <1>2, <2>2 DEF PlannedWhere, PlanDeleteWhere, keys
<1>3. CASE assigns # <<>>
  <2>1. \A pk \in changed : next(pk) \in Image
    <3>1. \A pk \in changed : CurrentRow(chain, pk) \in Row
      BY <1>1, CurrentRowType DEF Image, TypeOK
    <3>2. QED
      BY <1>3, <3>1, TableAssumption DEF Image
  <2>2. changed \in SUBSET PKs
    BY <1>1
  <2> HIDE DEF next, changed
  <2>3. [pk \in changed |-> next(pk)] \in [changed -> Image]
    BY <2>1
  <2>4. [pk \in changed |-> next(pk)] \in ChangeSet
    BY <2>2, <2>3, ChangeSetType
  <2>5. QED
    BY <1>3, <2>4 DEF PlannedWhere, PlanUpdateWhere, keys, next, changed
<1>4. QED
  BY <1>2, <1>3

(* A request that has planned the data of its merge knows its branches.    *)
DataNamed ==
  \A r \in Requests : jobs[r].pc = "data" => {jobs[r].from, jobs[r].into} \subseteq DOMAIN refs

(* Commits by requests that do nothing else (store.go:348-403).            *)
LEMMA DataMoves ==
  ASSUME TypeOK, workload \in Workloads, NEW r \in Requests, Data(r)
  PROVE  StoreMoves
<1>1. ASSUME NEW b \in DOMAIN refs, NEW changes \in workload.changes,
             SubmitCommit(r, b, changes, 0)
      PROVE  StoreMoves
  <2>1. changes \in ChangeSets
    BY <1>1, EvolutionAssumption
  <2>2. changes \in ChangeSet /\ \E t \in Tables : DOMAIN changes \subseteq t
    BY <2>1, StoreAssumption
  <2>3. Submits(r)
    BY <1>1, <2>2 DEF Submits
  <2>4. QED
    BY <2>3 DEF StoreMoves
<1>2. CASE Lock(r)
  BY <1>2 DEF StoreMoves
<1>3. CASE LandFitting(r)
  BY <1>3 DEF LandFitting, StoreMoves
<1>4. CASE Refuse(r) \/ Forbid(r)
  BY <1>4 DEF Refuse, Forbid, GivesUp, StoreMoves
<1>5. QED
  BY <1>1, <1>2, <1>3, <1>4, Zenon DEF Data

(* A predicate write commits what it planned (predicate.go:72-118).        *)
LEMMA WritingWhereMoves ==
  ASSUME TypeOK, NEW r \in Requests, WritingWhere(r)
  PROVE  StoreMoves
<1>1. ASSUME NEW b \in DOMAIN refs, NEW filter, NEW assigns \in Assignments,
             NEW named \in BOOLEAN,
             SubmitCommit(r, b, PlannedWhere(b, filter, assigns),
                          IF named THEN refs[b].head ELSE 0)
      PROVE  StoreMoves
  <2>1. PICK changes, expected : /\ changes = PlannedWhere(b, filter, assigns)
                                 /\ expected = IF named THEN refs[b].head ELSE 0
    OBVIOUS
  <2>2. changes \in ChangeSet
    BY <2>1, PlannedType
  <2>3. DOMAIN changes \subseteq PKs
    BY <2>2 DEF ChangeSet
  <2>4. \E t \in Tables : DOMAIN changes \subseteq t
    BY <2>3, TableAssumption
  <2>5. expected \in Nat
    BY <2>1 DEF TypeOK, RefType
  <2>6. SubmitCommit(r, b, changes, expected)
    BY <1>1, <2>1
  <2>7. Submits(r)
    BY <2>2, <2>4, <2>5, <2>6 DEF Submits
  <2>8. QED
    BY <2>7 DEF StoreMoves
<1>2. CASE Lock(r)
  BY <1>2 DEF StoreMoves
<1>3. CASE LandFitting(r)
  BY <1>3 DEF LandFitting, StoreMoves
<1>4. CASE Refuse(r) \/ Forbid(r)
  BY <1>4 DEF Refuse, Forbid, GivesUp, StoreMoves
<1>5. QED
  BY <1>1, <1>2, <1>3, <1>4, Zenon DEF WritingWhere

(* The merge of a proposal's data (proposal.go:252-296).                   *)
LEMMA MergingProposalsMoves ==
  ASSUME DataNamed, NEW r \in Requests, MergingProposals(r)
  PROVE  UNCHANGED vars \/ StoreMoves
<1>1. CASE BeginData(r)
  <2>1. PICK t \in Tables : SubmitMerge(r, "merge", jobs[r].from, jobs[r].into, t)
    BY <1>1 DEF BeginData
  <2>2. jobs[r].from \in DOMAIN refs /\ jobs[r].into \in DOMAIN refs
    BY <1>1 DEF BeginData, DataNamed
  <2>3. Submits(r)
    BY <2>1, <2>2 DEF Submits
  <2>4. QED
    BY <2>3 DEF StoreMoves
<1>2. CASE PlanData(r)
  BY <1>2 DEF PlanData, StoreMoves
<1>3. CASE ValidateData(r)
  BY <1>3, Zenon DEF ValidateData, GivesUp, StoreMoves
<1>4. CASE LandData(r)
  BY <1>4, Zenon DEF LandData, LandFitting, StoreMoves
<1>5. CASE RefuseData(r)
  BY <1>5, Zenon DEF RefuseData, Refuse, Forbid, GivesUp, StoreMoves
<1>6. CASE (\E p : BeginMergeProposal(r, p)) \/ ReadProtection(r) \/ ReadReviews(r)
  BY <1>6 DEF BeginMergeProposal, ReadProtection, ReadReviews
<1>7. CASE ClearConflicts(r) \/ SaveConflicts(r) \/ MarkConflicted(r) \/ MarkMerged(r)
  BY <1>7 DEF ClearConflicts, SaveConflicts, MarkConflicted, MarkMerged
<1>8. QED
  BY <1>1, <1>2, <1>3, <1>4, <1>5, <1>6, <1>7, Zenon DEF MergingProposals

(* Every operation is a move of the store, or leaves it alone.             *)
LEMMA EvolutionMoves ==
  ASSUME TypeOK, workload \in Workloads, DataNamed, EvolutionNext
  PROVE  UNCHANGED vars \/ StoreMoves
<1>1. \A r \in workload.requests : r \in Requests
  BY EvolutionAssumption
<1>2. ASSUME NEW r \in workload.requests, Data(r)  PROVE StoreMoves
  BY <1>1, <1>2, DataMoves
<1>3. ASSUME NEW r \in workload.requests, WritingWhere(r)  PROVE StoreMoves
  BY <1>1, <1>3, WritingWhereMoves
<1>4. CASE Branching
  <2>1. workload.branches \subseteq Branches
    BY EvolutionAssumption
  <2>2. QED
    BY <1>4, <2>1 DEF Branching, StoreMoves
<1>5. ASSUME NEW r, Altering(r) \/ MergingSchemas(r) \/ Applying(r)  PROVE UNCHANGED vars
  <2>1. CASE Altering(r)
    BY <2>1 DEF Altering, BeginAlter, WriteAlter
  <2>2. CASE MergingSchemas(r)
    BY <2>2 DEF MergingSchemas, BeginSchemaMerge, ReadTheirs, ReadBase, MergeSchema
  <2>3. CASE Applying(r)
    BY <2>3 DEF Applying, BeginApply, MarkApplying, JournalBegin, ReadCompleted, RunOp,
                MarkComplete, FailPlan, RefreshColumns, FinishPlan
  <2>4. QED
    BY <1>5, <2>1, <2>2, <2>3
<1>6. CASE Proposing \/ Reviewing
  BY <1>6 DEF Proposing, Reviewing, CreateProposal, ResolveConflict, AddReview,
              SetBranchProtection
<1>7. ASSUME NEW r \in workload.requests, MergingProposals(r)
      PROVE  UNCHANGED vars \/ StoreMoves
  BY <1>1, <1>7, MergingProposalsMoves
<1>8. ASSUME NEW r \in workload.requests, Dying(r)  PROVE UNCHANGED vars \/ StoreMoves
  <2>1. CASE JobDies(r)
    BY <2>1 DEF JobDies
  <2>2. CASE MergeDies(r)
    BY <1>1, <2>2 DEF MergeDies, Crash, GivesUp, StoreMoves
  <2>3. QED
    BY <1>8, <2>1, <2>2 DEF Dying
<1>9. QED
  BY <1>2, <1>3, <1>4, <1>5, <1>6, <1>7, <1>8, Zenon DEF EvolutionNext

-----------------------------------------------------------------------------
(* What the moves of the store keep.                                       *)

(* A request that gives up, before or after its merge is refused, leaves   *)
(* nothing behind (merge.go:138-156, store.go:387-434).                    *)
LEMMA GivesUpKeeps ==
  ASSUME PlainInv, NEW r \in Requests, GivesUp(r)
  PROVE  /\ PlainInv' /\ UNCHANGED <<refs, commits, rows>>
         /\ \A q \in Requests : req'[q] \in {req[q], Idle}
<1>1. /\ req' = [req EXCEPT ![r] = Idle] /\ UNCHANGED <<refs, commits, rows, live>>
      /\ lock' \in [Branches -> Requests \cup {NoRequest}]
      /\ Inv /\ req \in [Requests -> RequestType] /\ Main \in DOMAIN refs
  BY ReleaseType DEF GivesUp, Finish, PlainInv, HistoryInv, Inv, TypeOK
<1>2. \A q \in Requests : req'[q] \in {req[q], Idle}
  BY <1>1
<1>3. /\ Idle \in RequestType /\ Idle.branch \in DOMAIN refs /\ Idle.pc = "idle"
      /\ Idle.ref = NoRef /\ Idle.source = NoRef
  BY <1>1, IdleType DEF Idle
<1>4. Inv'
  BY <1>1, <1>3, RequestStep
<1>5. HistoryInv'
  BY <1>1, <1>3, <1>4, IdleStep DEF PlainInv
<1>6. PlainInv'
  BY <1>1, <1>2, <1>5, PlainIdle, PlainStays
<1>7. QED
  BY <1>1, <1>2, <1>6

(* Whatever is built on commits, a branch shows what its head records, and *)
(* a request that is level with its branch read the ref of now.            *)
LEMMA MovesPlain ==
  ASSUME PlainInv, UNCHANGED vars \/ StoreMoves
  PROVE  PlainInv'
<1>1. HistoryInv /\ Inv
  BY DEF PlainInv, HistoryInv
<1>2. CASE UNCHANGED vars
  BY <1>1, <1>2, HistoryNext, PlainStays DEF vars
<1>3. ASSUME NEW r \in Requests, Submits(r)  PROVE PlainInv'
  <2>1. ASSUME NEW b \in DOMAIN refs, NEW changes \in ChangeSet, NEW expected \in Nat,
               \E t \in Tables : DOMAIN changes \subseteq t,
               SubmitCommit(r, b, changes, expected)
        PROVE  PlainInv'
    BY <1>1, <2>1, SubmitCommitInv, SubmitCommitHistory, PlainCommit, PlainStays
  <2>2. ASSUME NEW t \in Tables, NEW from \in DOMAIN refs, NEW into \in DOMAIN refs,
               SubmitMerge(r, "merge", from, into, t)
        PROVE  PlainInv'
    BY <1>1, <2>2, SubmitMergeInv, SubmitMergeHistory, PlainMerge, PlainStays
  <2>3. QED
    BY <1>3, <2>1, <2>2 DEF Submits
<1>4. ASSUME NEW r \in Requests, Lock(r) \/ PlanMerge(r)  PROVE PlainInv'
  <2>1. Inv'
    BY <1>1, <1>4, LockInv, PlanMergeInv
  <2>2. HistoryInv'
    BY <1>1, <1>4, <2>1, ReadHistory
  <2>3. QED
    BY <1>4, <2>2, PlainRequests, PlainStays
<1>5. ASSUME NEW r \in Requests, Land(r)  PROVE PlainInv'
  BY <1>1, <1>5, LandInv, LandHistory, PlainLand
<1>6. ASSUME NEW r \in Requests, GivesUp(r)  PROVE PlainInv'
  BY <1>6, GivesUpKeeps
<1>7. ASSUME NEW n \in Branches, NEW from \in DOMAIN refs, CreateBranch(n, from)
      PROVE  PlainInv'
  BY <1>1, <1>7, CreateBranchInv, CreateBranchHistory, PlainFork
<1>8. QED
  BY <1>2, <1>3, <1>4, <1>5, <1>6, <1>7 DEF StoreMoves

(* What else a move does to the store's tables.                            *)
LEMMA WhatMoves ==
  ASSUME PlainInv, UNCHANGED vars \/ StoreMoves
  PROVE  \/ UNCHANGED <<refs, commits, rows, live>>
         \/ \E r \in Requests : Land(r)
         \/ \E n \in Branches, from \in DOMAIN refs : CreateBranch(n, from)
<1>1. ASSUME NEW r \in Requests, Submits(r) \/ Lock(r) \/ PlanMerge(r) \/ GivesUp(r)
      PROVE  UNCHANGED <<refs, commits, rows, live>>
  BY <1>1 DEF Submits, SubmitCommit, SubmitMerge, Lock, PlanMerge, GivesUp
<1>2. QED
  BY <1>1, Zenon DEF StoreMoves, vars

(* No move changes what an existing commit resolves to.                    *)
LEMMA MovesKeepStates ==
  ASSUME PlainInv, UNCHANGED vars \/ StoreMoves, NEW c \in DOMAIN commits
  PROVE  StateAtCommit(c)' = StateAtCommit(c)
<1>1. CASE UNCHANGED <<commits, rows>>
  BY <1>1, StateIn
<1>2. ASSUME NEW r \in Requests, Land(r)  PROVE StateAtCommit(c)' = StateAtCommit(c)
  <2>1. commits'[c] = commits[c]
    BY <1>2, LandRefs DEF PlainInv, HistoryInv
  <2>2. HistoryInv /\ CoveredBy(refs, commits[c].chain)
    BY DEF PlainInv, HistoryInv, ChainsCovered
  <2>3. \A pk \in PKs : RowIn(rows', commits[c].chain, pk) = RowIn(rows, commits[c].chain, pk)
    BY <1>2, <2>2, ShownStays
  <2>4. QED
    BY <2>1, <2>3, StateIn
<1>3. QED
  BY <1>1, <1>2, WhatMoves DEF CreateBranch

-----------------------------------------------------------------------------
(* The commit graph under the moves.                                       *)

(* The commits that a request names exist.                                 *)
SourcesIn(log, x) ==
  /\ x.pc = "into" => x.source.head \in DOMAIN log
  /\ x.others \subseteq DOMAIN log

(* The invariant of the store: branches end at their heads, parents come   *)
(* before their commits, and requests name commits there are.              *)
StoreInv ==
  /\ PlainInv /\ RootedIn(commits)
  /\ \A r \in Requests : SourcesIn(commits, req[r])

(* What is in the history of a branch.                                     *)
BehindIn(log, heads, x, b) == x \in ReachIn(log, heads[b].head)

(* More commits, on branches whose heads keep what they had behind them.   *)
Later(log, heads, after, next) ==
  /\ RootedIn(log) /\ RootedIn(after) /\ Len(log) <= Len(after)
  /\ DOMAIN log = 1 .. Len(log) /\ DOMAIN after = 1 .. Len(after)
  /\ \A c \in DOMAIN log : after[c] = log[c]
  /\ \A b \in DOMAIN heads : /\ b \in DOMAIN next /\ heads[b].head \in DOMAIN log
                            /\ next[b].head \in DOMAIN after
                            /\ BehindIn(after, next, heads[b].head, b)

(* A commit reaches what its ancestors reach (branch.go:161-190).          *)
LEMMA ReachOn ==
  ASSUME NEW log, RootedIn(log), NEW h \in 1 .. Len(log), NEW c \in ReachIn(log, h),
         NEW x \in ReachIn(log, c)
  PROVE  c \in 1 .. Len(log) /\ x \in 1 .. Len(log) /\ x \in ReachIn(log, h)
<1>1. ReachIn(log, h) = Above(ParentsOf(log), Len(log), h)
  BY ReachAbove
<1>2. c \in 1 .. Len(log)
  BY <1>1 DEF Above
<1>3. ReachIn(log, c) = Above(ParentsOf(log), Len(log), c)
  BY <1>2, ReachAbove
<1>4. QED
  BY <1>1, <1>2, <1>3 DEF Above

(* More commits leave what a commit reaches as it is.                      *)
LEMMA ReachStays ==
  ASSUME NEW log, RootedIn(log), NEW after, RootedIn(after), Len(log) <= Len(after),
         \A d \in 1 .. Len(log) : after[d] = log[d], NEW c \in 1 .. Len(log)
  PROVE  ReachIn(after, c) = ReachIn(log, c)
<1>1. Len(log) \in Nat /\ Len(after) \in Nat /\ 1 .. Len(log) \subseteq 1 .. Len(after)
  BY DEF RootedIn, Graph
<1>2. \A x \in 1 .. Len(log) : ParentsOf(after)[x] = ParentsOf(log)[x]
  BY <1>1 DEF ParentsOf, ParentsIn
<1>3. ReachIn(after, c) = Above(ParentsOf(after), Len(after), c)
  BY <1>1, ReachAbove
<1>4. ReachIn(log, c) = Above(ParentsOf(log), Len(log), c)
  BY ReachAbove
<1>5. Above(ParentsOf(after), Len(after), c) = Above(ParentsOf(log), Len(log), c)
  BY <1>2, AboveStays DEF RootedIn
<1>6. QED
  BY <1>3, <1>4, <1>5

(* A commit is in its own history, and so are its parents.                 *)
LEMMA ReachStarts ==
  ASSUME NEW log, RootedIn(log), NEW c \in 1 .. Len(log)
  PROVE  /\ c \in ReachIn(log, c) /\ ParentsIn(log, c) \subseteq ReachIn(log, c)
         /\ ReachIn(log, c) \subseteq 1 .. Len(log)
<1>1. ReachIn(log, c) = Above(ParentsOf(log), Len(log), c)
  BY ReachAbove
<1>2. Graph(ParentsOf(log), Len(log)) /\ ParentsOf(log)[c] = ParentsIn(log, c)
  BY DEF RootedIn, ParentsOf
<1>3. \A S : c \in S /\ UpClosed(ParentsOf(log), S) => ParentsIn(log, c) \subseteq S
  BY <1>2 DEF UpClosed
<1>4. ParentsIn(log, c) \subseteq 1 .. Len(log)
  BY <1>2 DEF Graph
<1>5. QED
  BY <1>1, <1>3, <1>4 DEF Above

(* What was behind a branch stays behind it (branch.go:161-190).           *)
LEMMA BehindStays ==
  ASSUME NEW log, NEW heads, NEW after, NEW next, Later(log, heads, after, next),
         NEW b \in DOMAIN heads, NEW x, BehindIn(log, heads, x, b)
  PROVE  BehindIn(after, next, x, b) /\ x \in DOMAIN log
<1>1. PICK h : h = heads[b].head
  OBVIOUS
<1>2. /\ RootedIn(log) /\ RootedIn(after) /\ Len(log) <= Len(after)
      /\ \A d \in 1 .. Len(log) : after[d] = log[d]
      /\ h \in 1 .. Len(log) /\ DOMAIN log = 1 .. Len(log)
      /\ next[b].head \in 1 .. Len(after) /\ h \in ReachIn(after, next[b].head)
  BY <1>1 DEF Later, BehindIn
<1>3. x \in ReachIn(log, h)
  BY <1>1 DEF BehindIn
<1>4. ReachIn(after, h) = ReachIn(log, h)
  BY <1>2, ReachStays
<1>5. x \in ReachIn(after, next[b].head)
  BY <1>2, <1>3, <1>4, ReachOn
<1>6. x \in 1 .. Len(log)
  BY <1>2, <1>3, ReachStarts
<1>7. QED
  BY <1>2, <1>5, <1>6 DEF BehindIn

(* Every branch's head is a commit.                                        *)
LEMMA LogFacts ==
  ASSUME PlainInv
  PROVE  /\ DOMAIN commits = 1 .. Len(commits) /\ Len(commits) \in Nat
         /\ \A b \in DOMAIN refs : refs[b].head \in DOMAIN commits
         /\ Idle.branch \in DOMAIN refs /\ req \in [Requests -> RequestType]
<1>1. commits \in Seq(CommitType) /\ Main \in DOMAIN refs /\ req \in [Requests -> RequestType]
  BY DEF PlainInv, HistoryInv, Inv, TypeOK
<1>2. QED
  BY <1>1 DEF PlainInv, EndsAtHead, Idle

(* A commit that lands has its branch's head and what was merged as        *)
(* parents (store.go:418-446, merge.go:160-176).                           *)
LEMMA LandGraph ==
  ASSUME StoreInv, PlainInv', NEW r \in Requests, Land(r)
  PROVE  /\ Later(commits, refs, commits', refs')
         /\ DOMAIN refs' = DOMAIN refs
         /\ Len(commits) + 1 \in DOMAIN commits'
         /\ refs'[req[r].branch].head = Len(commits) + 1
         /\ commits'[Len(commits) + 1].branch = req[r].branch
         /\ commits'[Len(commits) + 1].others = req[r].others
<1>1. /\ PlainInv /\ Inv /\ req[r].branch \in DOMAIN refs /\ RootedIn(commits)
      /\ DOMAIN commits = 1 .. Len(commits) /\ Len(commits) \in Nat
      /\ \A b \in DOMAIN refs : refs[b].head \in DOMAIN commits
      /\ SourcesIn(commits, req[r])
  BY LogFacts DEF StoreInv, PlainInv, HistoryInv, Inv, TypeOK
<1>2. PICK b \in DOMAIN refs : b = req[r].branch
  BY <1>1
<1>3. PICK n, others, ours : /\ n = Len(commits) + 1 /\ n \in Nat
                             /\ others = req[r].others /\ ours = refs[b].head
  BY <1>1
<1>4. PICK log, heads : log = commits' /\ heads = refs'
  OBVIOUS
<1>5. /\ DOMAIN log = DOMAIN commits \cup {n} /\ n \notin DOMAIN commits
      /\ \A c \in DOMAIN commits : log[c] = commits[c]
      /\ log[n].first = ours /\ log[n].branch = b
      /\ DOMAIN heads = DOMAIN refs /\ heads[b].head = n
      /\ \A a \in DOMAIN refs \ {b} : heads[a] = refs[a]
  BY <1>1, <1>2, <1>3, <1>4, LandRefs
<1>6. log[n].others = others /\ Len(log) = n
  BY <1>1, <1>2, <1>3, <1>4 DEF Land, PlainInv, HistoryInv, Inv, TypeOK
<1>7. DOMAIN log = 1 .. Len(log)
  BY <1>1, <1>3, <1>5, <1>6
<1>8. RootedIn(log)
  <2>1. \A c \in 1 .. Len(commits) : ParentsIn(commits, c) \subseteq 1 .. c - 1
    BY <1>1 DEF RootedIn, Graph, ParentsOf
  <2>2. \A c \in 1 .. Len(commits) : ParentsIn(log, c) = ParentsIn(commits, c)
    BY <1>1, <1>5 DEF ParentsIn
  <2>3. ParentsIn(log, n) \subseteq 1 .. n - 1
    BY <1>1, <1>3, <1>5, <1>6 DEF ParentsIn, SourcesIn
  <2>4. 1 .. n = 1 .. Len(commits) \cup {n}
    BY <1>1, <1>3
  <2>5. QED
    BY <1>3, <1>6, <2>1, <2>2, <2>3, <2>4 DEF RootedIn, Graph, ParentsOf
<1>9. \A c \in DOMAIN log : c \in ReachIn(log, c) /\ ParentsIn(log, c) \subseteq ReachIn(log, c)
  BY <1>7, <1>8, ReachStarts
<1>10. ASSUME NEW a \in DOMAIN refs
       PROVE  heads[a].head \in DOMAIN log /\ BehindIn(log, heads, refs[a].head, a)
  <2>1. CASE a = b
    <3>1. ours \in ParentsIn(log, n)
      BY <1>1, <1>3, <1>5 DEF ParentsIn
    <3>2. QED
      BY <1>3, <1>5, <1>9, <2>1, <3>1 DEF BehindIn
  <2>2. CASE a # b
    BY <1>1, <1>5, <1>9, <2>2 DEF BehindIn
  <2>3. QED
    BY <2>1, <2>2
<1>11. Later(commits, refs, log, heads)
  BY <1>1, <1>3, <1>5, <1>6, <1>7, <1>8, <1>10 DEF Later
<1>12. QED
  BY <1>2, <1>3, <1>4, <1>5, <1>6, <1>11

(* Without a commit, on the branches there are.                            *)
LEMMA SameGraph ==
  ASSUME StoreInv, UNCHANGED commits, DOMAIN refs \subseteq DOMAIN refs',
         \A b \in DOMAIN refs : refs'[b] = refs[b]
  PROVE  Later(commits, refs, commits', refs')
<1>1. /\ RootedIn(commits) /\ DOMAIN commits = 1 .. Len(commits) /\ Len(commits) \in Nat
      /\ \A b \in DOMAIN refs : refs[b].head \in DOMAIN commits
  BY LogFacts DEF StoreInv
<1>2. \A c \in DOMAIN commits : c \in ReachIn(commits, c)
  BY <1>1, ReachStarts
<1>3. PICK log, heads : log = commits' /\ heads = refs' /\ log = commits
  OBVIOUS
<1>4. Later(commits, refs, log, heads)
  BY <1>1, <1>2, <1>3 DEF Later, BehindIn
<1>5. QED
  BY <1>3, <1>4

(* The history of the store only grows (store.go:392-446).                 *)
LEMMA MovesGrow ==
  ASSUME StoreInv, PlainInv', UNCHANGED vars \/ StoreMoves
  PROVE  Later(commits, refs, commits', refs')
<1>1. CASE UNCHANGED <<refs, commits, rows, live>>
  BY <1>1, SameGraph
<1>2. ASSUME NEW r \in Requests, Land(r)  PROVE Later(commits, refs, commits', refs')
  BY <1>2, LandGraph
<1>3. ASSUME NEW n \in Branches, NEW from \in DOMAIN refs, CreateBranch(n, from)
      PROVE  Later(commits, refs, commits', refs')
  <2>1. /\ UNCHANGED commits /\ DOMAIN refs \subseteq DOMAIN refs'
        /\ \A b \in DOMAIN refs : refs'[b] = refs[b]
    BY <1>3 DEF CreateBranch
  <2>2. QED
    BY <2>1, SameGraph
<1>4. QED
  BY <1>1, <1>2, <1>3, WhatMoves DEF StoreInv

(* What a request is about to merge is in the log (merge.go:52-66).        *)
LEMMA MovesNameCommits ==
  ASSUME StoreInv, UNCHANGED vars \/ StoreMoves, NEW q \in Requests
  PROVE  req'[q] = req[q] \/ SourcesIn(commits, req'[q])
<1>1. /\ req \in [Requests -> RequestType] /\ \A r \in Requests : SourcesIn(commits, req[r])
      /\ \A b \in DOMAIN refs : refs[b].head \in DOMAIN commits
      /\ SourcesIn(commits, Idle)
      /\ \A r \in Requests : Plain(req[r], refs)
  BY LogFacts DEF StoreInv, PlainInv, SourcesIn, Idle
<1>2. ASSUME NEW r \in Requests, NEW x, req' = [req EXCEPT ![r] = x], SourcesIn(commits, x)
      PROVE  req'[q] = req[q] \/ SourcesIn(commits, req'[q])
  BY <1>1, <1>2
<1>3. ASSUME NEW r \in Requests, Submits(r)
      PROVE  req'[q] = req[q] \/ SourcesIn(commits, req'[q])
  <2>1. ASSUME NEW b, NEW changes, NEW expected, SubmitCommit(r, b, changes, expected)
        PROVE  \E x : req' = [req EXCEPT ![r] = x] /\ SourcesIn(commits, x)
    <3> DEFINE x == [Idle EXCEPT !.pc = "begin", !.kind = "commit", !.branch = b,
                                 !.table = TableOf(changes), !.changes = changes,
                                 !.expected = expected]
    <3>1. x.pc = "begin" /\ x.others = {}
      BY DEF Idle
    <3>2. req' = [req EXCEPT ![r] = x]
      BY <2>1 DEF SubmitCommit
    <3> HIDE DEF x
    <3>3. QED
      BY <3>1, <3>2 DEF SourcesIn
  <2>2. ASSUME NEW t, NEW from \in DOMAIN refs, NEW into, SubmitMerge(r, "merge", from, into, t)
        PROVE  \E x : req' = [req EXCEPT ![r] = x] /\ SourcesIn(commits, x)
    <3> DEFINE x == [Idle EXCEPT !.pc = "into", !.kind = "merge", !.branch = into,
                                 !.table = t, !.source = refs[from]]
    <3>1. x.pc = "into" /\ x.others = {} /\ x.source.head = refs[from].head
      BY DEF Idle
    <3>2. req' = [req EXCEPT ![r] = x]
      BY <2>2 DEF SubmitMerge
    <3> HIDE DEF x
    <3>3. QED
      BY <1>1, <3>1, <3>2 DEF SourcesIn
  <2>3. QED
    BY <1>2, <1>3, <2>1, <2>2 DEF Submits
<1>4. ASSUME NEW r \in Requests, Lock(r)
      PROVE  req'[q] = req[q] \/ SourcesIn(commits, req'[q])
  <2> DEFINE x == [req[r] EXCEPT !.pc = "apply", !.ref = refs[req[r].branch]]
  <2>1. x.pc = "apply" /\ x.others = req[r].others
    BY <1>1 DEF RequestType
  <2>2. req' = [req EXCEPT ![r] = x]
    BY <1>4 DEF Lock
  <2> HIDE DEF x
  <2>3. QED
    BY <1>1, <1>2, <2>1, <2>2 DEF SourcesIn
<1>5. ASSUME NEW r \in Requests, PlanMerge(r)
      PROVE  req'[q] = req[q] \/ SourcesIn(commits, req'[q])
  <2>1. PICK x : /\ req' = [req EXCEPT ![r] = x]
                 /\ \/ x = Idle
                    \/ \E changes : x = [req[r] EXCEPT !.pc = "begin",
                         !.others = {req[r].source.head}, !.source = NoRef, !.changes = changes]
    BY <1>5 DEF PlanMerge
  <2>2. x # Idle => x.pc = "begin" /\ x.others = {req[r].source.head}
    BY <1>1, <2>1 DEF RequestType
  <2>3. req[r].source.head \in DOMAIN commits
    BY <1>1, <1>5 DEF PlanMerge, SourcesIn
  <2>4. SourcesIn(commits, x)
    BY <1>1, <2>2, <2>3 DEF SourcesIn
  <2>5. QED
    BY <1>2, <2>1, <2>4
<1>6. ASSUME NEW r \in Requests, Land(r)
      PROVE  req'[q] = req[q] \/ SourcesIn(commits, req'[q])
  <2>1. req[r].kind # "update"
    BY <1>1 DEF Plain
  <2>2. req' = [req EXCEPT ![r] = Idle]
    BY <1>1, <1>6, <2>1 DEF Land
  <2>3. QED
    BY <1>1, <1>2, <2>2
<1>7. ASSUME NEW r \in Requests, GivesUp(r)
      PROVE  req'[q] = req[q] \/ SourcesIn(commits, req'[q])
  BY <1>1, <1>2, <1>7 DEF GivesUp, Finish
<1>8. ASSUME NEW n, NEW from, CreateBranch(n, from)  PROVE req'[q] = req[q]
  BY <1>8 DEF CreateBranch
<1>9. QED
  BY <1>3, <1>4, <1>5, <1>6, <1>7, <1>8, Zenon DEF StoreMoves, vars

(* The store's invariant, whatever is built on it.                         *)
LEMMA StoreInvStays ==
  ASSUME StoreInv, UNCHANGED vars \/ StoreMoves
  PROVE  StoreInv' /\ Later(commits, refs, commits', refs')
<1>1. PlainInv'
  BY MovesPlain DEF StoreInv
<1>2. Later(commits, refs, commits', refs')
  BY <1>1, MovesGrow
<1>3. RootedIn(commits')
  BY <1>2 DEF Later
<1>4. DOMAIN commits \subseteq DOMAIN commits'
  <2>1. PICK log, heads : log = commits' /\ heads = refs'
    OBVIOUS
  <2>2. Later(commits, refs, log, heads)
    BY <1>2, <2>1
  <2>3. Len(commits) \in Nat /\ Len(log) \in Nat
    BY <2>2 DEF Later, RootedIn, Graph
  <2>4. DOMAIN commits \subseteq DOMAIN log
    BY <2>2, <2>3 DEF Later
  <2>5. QED
    BY <2>1, <2>4
<1>5. ASSUME NEW q \in Requests  PROVE SourcesIn(commits', req'[q])
  BY <1>4, MovesNameCommits DEF StoreInv, SourcesIn
<1>6. (\A q \in Requests : SourcesIn(commits, req[q]))'
  BY <1>5
<1>7. RootedIn(commits)'
  BY <1>3
<1>8. QED
  BY <1>1, <1>2, <1>6, <1>7 DEF StoreInv

-----------------------------------------------------------------------------
(* Proposals, and the requests on their way to merge one.                  *)

(* A merge commit of what is behind a proposal's source, on its target.    *)
Recorded(log, heads, props, p, c) ==
  /\ p \in DOMAIN props /\ c \in DOMAIN log
  /\ log[c].branch = props[p].into /\ log[c].others # {}
  /\ \A x \in log[c].others : BehindIn(log, heads, x, props[p].from)

(* A proposal is between branches, and names what it became.               *)
ProposalIn(log, heads, props, p) ==
  /\ {"from", "into", "author", "state", "commit"} \subseteq DOMAIN props[p]
  /\ props[p].from \in DOMAIN heads /\ props[p].into \in DOMAIN heads
  /\ props[p].state = "merged" => props[p].commit # 0
  /\ props[p].commit # 0 => Recorded(log, heads, props, p, props[p].commit)

(* A request on its way carries its proposal's branches; from the moment   *)
(* it read the source, what it merges is behind the source; and what it    *)
(* lands would fit the head it was validated against.                      *)
Course(log, heads, props, state, x, j) ==
  /\ j.pc \in OnSchemas \cup OnData =>
       /\ {"proposal", "from", "into"} \subseteq DOMAIN j
       /\ j.from \in DOMAIN heads /\ j.into \in DOMAIN heads
       /\ j.proposal # 0 => /\ j.proposal \in DOMAIN props
                            /\ j.from = props[j.proposal].from
                            /\ j.into = props[j.proposal].into
  /\ j.pc = "merging" =>
       x.pc = "into" /\ x.branch = j.into /\ BehindIn(log, heads, x.source.head, j.from)
  /\ j.pc \in {"validate", "landing"} =>
       /\ x.pc \in {"begin", "apply"} /\ x.branch = j.into /\ x.others # {}
       /\ \A y \in x.others : BehindIn(log, heads, y, j.from)
  /\ j.pc = "landing" =>
       j.validated \in DOMAIN log /\ Violations(Apply(state[j.validated], x.changes)) = {}
  /\ j.pc = "merged" => Recorded(log, heads, props, j.proposal, j.commit)

(* The inductive invariant.                                                *)
CourseInv ==
  /\ StoreInv
  /\ \A p \in DOMAIN proposals : ProposalIn(commits, refs, proposals, p)
  /\ \A r \in Requests : Course(commits, refs, proposals, States, req[r], jobs[r])

(* More proposals, and none moved to other branches.                       *)
Kept(props, more) ==
  \A p \in DOMAIN props : /\ p \in DOMAIN more /\ more[p].from = props[p].from
                          /\ more[p].into = props[p].into

(* A recorded merge stays one, as commits and proposals are added.         *)
LEMMA RecordedStays ==
  ASSUME NEW log, NEW heads, NEW after, NEW next, Later(log, heads, after, next),
         NEW props, NEW more, Kept(props, more), NEW p, NEW c,
         Recorded(log, heads, props, p, c), props[p].from \in DOMAIN heads
  PROVE  Recorded(after, next, more, p, c)
<1>1. /\ p \in DOMAIN more /\ more[p].from = props[p].from /\ more[p].into = props[p].into
      /\ c \in DOMAIN log
  BY DEF Recorded, Kept
<1>2. PICK from \in DOMAIN heads : from = props[p].from
  OBVIOUS
<1>3. c \in DOMAIN after /\ after[c] = log[c]
  <2>1. Len(log) \in Nat /\ Len(after) \in Nat
    BY DEF Later, RootedIn, Graph
  <2>2. QED
    BY <1>1, <2>1 DEF Later
<1>4. ASSUME NEW x \in after[c].others  PROVE BehindIn(after, next, x, from)
  <2>1. BehindIn(log, heads, x, from)
    BY <1>2, <1>3, <1>4 DEF Recorded
  <2>2. QED
    BY <2>1, BehindStays
<1>5. after[c].branch = more[p].into /\ after[c].others # {}
  BY <1>1, <1>3 DEF Recorded
<1>6. QED
  BY <1>1, <1>2, <1>3, <1>4, <1>5 DEF Recorded

(* A request stays on course as others add commits and proposals.          *)
LEMMA CourseStays ==
  ASSUME NEW log, NEW heads, NEW after, NEW next, Later(log, heads, after, next),
         NEW props, NEW more, Kept(props, more),
         \A p \in DOMAIN props : props[p].from \in DOMAIN heads,
         NEW state, NEW states, \A c \in DOMAIN log : states[c] = state[c],
         NEW x, NEW j, Course(log, heads, props, state, x, j)
  PROVE  Course(after, next, more, states, x, j)
<1>1. Len(log) \in Nat /\ Len(after) \in Nat
  BY DEF Later, RootedIn, Graph
<1>2. DOMAIN log \subseteq DOMAIN after /\ DOMAIN heads \subseteq DOMAIN next
  BY <1>1 DEF Later
<1>3. ASSUME j.pc \in OnSchemas \cup OnData
      PROVE  /\ {"proposal", "from", "into"} \subseteq DOMAIN j
             /\ j.from \in DOMAIN next /\ j.into \in DOMAIN next /\ j.from \in DOMAIN heads
             /\ j.proposal # 0 => /\ j.proposal \in DOMAIN more
                                  /\ j.from = more[j.proposal].from
                                  /\ j.into = more[j.proposal].into
  BY <1>2, <1>3 DEF Course, Kept
<1>4. ASSUME j.pc = "merging"  PROVE BehindIn(after, next, x.source.head, j.from)
  <2>1. j.from \in DOMAIN heads
    BY <1>3, <1>4 DEF OnData
  <2>2. BehindIn(log, heads, x.source.head, j.from)
    BY <1>4 DEF Course
  <2>3. QED
    BY <2>1, <2>2, BehindStays
<1>5. ASSUME j.pc \in {"validate", "landing"}, NEW y \in x.others
      PROVE  BehindIn(after, next, y, j.from)
  <2>1. j.from \in DOMAIN heads
    BY <1>3, <1>5 DEF OnData
  <2>2. BehindIn(log, heads, y, j.from)
    BY <1>5 DEF Course
  <2>3. QED
    BY <2>1, <2>2, BehindStays
<1>6. ASSUME j.pc = "landing"
      PROVE  j.validated \in DOMAIN after /\ Violations(Apply(states[j.validated], x.changes)) = {}
  BY <1>2, <1>6 DEF Course
<1>7. ASSUME j.pc = "merged"  PROVE Recorded(after, next, more, j.proposal, j.commit)
  <2>1. Recorded(log, heads, props, j.proposal, j.commit)
    BY <1>7 DEF Course
  <2>2. j.proposal \in DOMAIN props
    BY <2>1 DEF Recorded
  <2>3. QED
    BY <2>1, <2>2, RecordedStays
<1>8. QED
  BY <1>3, <1>4, <1>5, <1>6, <1>7 DEF Course

(* A request that is at something else is on no course.                    *)
LEMMA AsideCourse ==
  ASSUME NEW log, NEW heads, NEW props, NEW state, NEW x, NEW j, 
         j.pc \notin {"merged"} \cup OnSchemas \cup OnData
  PROVE  Course(log, heads, props, state, x, j)
BY DEF Course, OnData

(* A proposal that is left alone keeps what it says.                       *)
LEMMA ProposalStays ==
  ASSUME NEW log, NEW heads, NEW after, NEW next, Later(log, heads, after, next),
         NEW props, NEW more, Kept(props, more), NEW p \in DOMAIN props,
         ProposalIn(log, heads, props, p), more[p] = props[p]
  PROVE  ProposalIn(after, next, more, p)
<1>1. DOMAIN heads \subseteq DOMAIN next
  BY DEF Later
<1>2. props[p].from \in DOMAIN heads
  BY DEF ProposalIn
<1>3. props[p].commit # 0 => Recorded(after, next, more, p, props[p].commit)
  BY <1>2, RecordedStays DEF ProposalIn
<1>4. QED
  BY <1>1, <1>3 DEF ProposalIn

(* A request that goes on keeps its proposal and its branches.             *)
LEMMA BranchesGoOn ==
  ASSUME NEW r, NEW step, NEW pc, "pc" \in DOMAIN step, step.pc = pc,
         {"proposal", "from", "into"} \cap DOMAIN step = {},
         {"proposal", "from", "into"} \subseteq DOMAIN jobs[r]
  PROVE  /\ {"proposal", "from", "into"} \subseteq DOMAIN CarryOn(r, step)
         /\ CarryOn(r, step).pc = pc /\ CarryOn(r, step).proposal = jobs[r].proposal
         /\ CarryOn(r, step).from = jobs[r].from /\ CarryOn(r, step).into = jobs[r].into
<1>1. "proposal" \notin DOMAIN step /\ "from" \notin DOMAIN step /\ "into" \notin DOMAIN step
  OBVIOUS
<1>2. QED
  BY <1>1 DEF CarryOn

(* Every request is on course in what the tables were before the step.     *)
Straight ==
  \A q \in Requests : Course(commits, refs, proposals, States, req'[q], jobs'[q])

(* One request turns, the others stand.                                    *)
LEMMA TurnStraight ==
  ASSUME CourseInv, ReviewInv, NEW r \in Requests, NEW j, jobs' = [jobs EXCEPT ![r] = j],
         \A q \in Requests \ {r} : req'[q] = req[q],
         Course(commits, refs, proposals, States, req'[r], j)
  PROVE  Straight
<1>1. jobs'[r] = j /\ \A q \in Requests \ {r} : jobs'[q] = jobs[q]
  BY DEF ReviewInv
<1>2. QED
  BY <1>1 DEF Straight, CourseInv

(* Nobody moves.                                                           *)
LEMMA StandStraight ==
  ASSUME CourseInv, UNCHANGED <<req, jobs>>
  PROVE  Straight
BY DEF Straight, CourseInv

(* One request goes aside.                                                 *)
LEMMA AsideStraight ==
  ASSUME CourseInv, ReviewInv, NEW r \in Requests, NEW j, jobs' = [jobs EXCEPT ![r] = j], Aside(j),
         \A q \in Requests \ {r} : req'[q] = req[q]
  PROVE  Straight
<1>1. j.pc \notin {"merged"} \cup OnSchemas \cup OnData
  BY DEF Aside
<1>2. QED
  BY <1>1, AsideCourse, TurnStraight

(* Nobody else's request moves.                                            *)
LEMMA OthersStand ==
  ASSUME req \in [Requests -> RequestType], NEW r \in Requests,
         \/ \E b, changes, expected : SubmitCommit(r, b, changes, expected)
         \/ \E from, into, t : SubmitMerge(r, "merge", from, into, t)
         \/ Lock(r) \/ PlanMerge(r) \/ Land(r) \/ Finish(r)
         \/ req' = [req EXCEPT ![r] = Idle]
  PROVE  \A q \in Requests \ {r} : req'[q] = req[q]
<1>1. ASSUME NEW x, req' = [req EXCEPT ![r] = x]
      PROVE  \A q \in Requests \ {r} : req'[q] = req[q]
  BY <1>1
<1>2. \E x : req' = [req EXCEPT ![r] = x]
  <2>1. CASE Lock(r)
    BY <2>1 DEF Lock
  <2>2. CASE PlanMerge(r)
    BY <2>2 DEF PlanMerge
  <2>3. CASE Land(r)
    BY <2>3 DEF Land
  <2>4. QED
    BY <2>1, <2>2, <2>3 DEF SubmitCommit, SubmitMerge, Finish
<1>3. QED
  BY <1>1, <1>2

(* A request that has nothing to merge.                                    *)
LEMMA IdleStraight ==
  ASSUME CourseInv, ReviewInv, NEW r \in Requests, UNCHANGED jobs,
         jobs[r].pc \notin {"merged"} \cup OnSchemas \cup OnData,
         \A q \in Requests \ {r} : req'[q] = req[q]
  PROVE  Straight
<1>1. Course(commits, refs, proposals, States, req'[r], jobs[r])
  BY AsideCourse
<1>2. QED
  BY <1>1 DEF Straight, CourseInv

(* Commits and predicate writes (store.go:348-403, predicate.go:72-118).   *)
LEMMA WritersStraight ==
  ASSUME CourseInv, ReviewInv, NEW r \in Requests,
         (Data(r) /\ UNCHANGED jobs) \/ WritingWhere(r)
  PROVE  Straight
<1>1. req \in [Requests -> RequestType]
  BY LogFacts DEF CourseInv, StoreInv
<1>2. ASSUME \/ \E b, changes, expected : SubmitCommit(r, b, changes, expected)
             \/ Lock(r) \/ LandFitting(r) \/ Refuse(r) \/ Forbid(r)
      PROVE  \A q \in Requests \ {r} : req'[q] = req[q]
  BY <1>1, <1>2, OthersStand, Zenon DEF LandFitting, Refuse, Forbid
<1>3. CASE Data(r) /\ UNCHANGED jobs
  <2>1. \A q \in Requests \ {r} : req'[q] = req[q]
    BY <1>2, <1>3, Zenon DEF Data
  <2>2. jobs[r].pc \notin {"merged"} \cup OnSchemas \cup OnData
    BY <1>3, NoJobAside DEF Data, Aside
  <2>3. QED
    BY <1>3, <2>1, <2>2, IdleStraight
<1>4. CASE WritingWhere(r)
  <2>1. \A q \in Requests \ {r} : req'[q] = req[q]
    BY <1>2, <1>4, Zenon DEF WritingWhere
  <2>2. CASE \E j : jobs' = [jobs EXCEPT ![r] = j] /\ Aside(j)
    BY <2>1, <2>2, AsideStraight
  <2>3. CASE UNCHANGED jobs
    <3>1. jobs[r].pc = "where" \/ jobs[r] = NoJob
      BY <1>4 DEF WritingWhere
    <3>2. jobs[r].pc \notin {"merged"} \cup OnSchemas \cup OnData
      BY <3>1, NoJobAside DEF Aside, OnSchemas, OnData
    <3>3. QED
      BY <2>1, <2>3, <3>2, IdleStraight
  <2>4. QED
    BY <1>4, <2>2, <2>3, WritingWhereTurns
<1>5. QED
  BY <1>3, <1>4

(* The merge of the schemas, a proposal's too (proposal.go:216-237).       *)
LEMMA SchemasStraight ==
  ASSUME CourseInv, ReviewInv, NEW r \in Requests, MergingSchemas(r)
  PROVE  Straight
<1> DEFINE OnCourse(x, j) == Course(commits, refs, proposals, States, x, j)
<1>1. OnCourse(req[r], jobs[r])
  BY DEF CourseInv
<1>2. \A q \in Requests : req'[q] = req[q]
  BY DEF MergingSchemas, BeginSchemaMerge, ReadTheirs, ReadBase, MergeSchema, vars
<1>3. ASSUME NEW step, "pc" \in DOMAIN step, step.pc \in OnSchemas,
             {"proposal", "from", "into"} \cap DOMAIN step = {}, jobs[r].pc \in OnSchemas
      PROVE  OnCourse(req[r], CarryOn(r, step))
  <2>1. {"proposal", "from", "into"} \subseteq DOMAIN jobs[r]
    BY <1>1, <1>3 DEF Course
  <2>2. PICK pc, j : pc = step.pc /\ j = CarryOn(r, step)
    OBVIOUS
  <2>3. /\ {"proposal", "from", "into"} \subseteq DOMAIN j
        /\ j.pc \in OnSchemas /\ j.proposal = jobs[r].proposal
        /\ j.from = jobs[r].from /\ j.into = jobs[r].into
    BY <1>3, <2>1, <2>2, BranchesGoOn
  <2>4. j.pc \notin OnData \cup {"merged"}
    BY <2>3 DEF OnSchemas, OnData
  <2>5. QED
    BY <1>1, <1>3, <2>2, <2>3, <2>4 DEF Course, OnData
<1>4. ASSUME NEW from \in DOMAIN refs, NEW into \in DOMAIN refs, BeginSchemaMerge(r, from, into)
      PROVE  Straight
  <2>1. PICK j : /\ jobs' = [jobs EXCEPT ![r] = j]
                 /\ j = [pc |-> "theirs", proposal |-> 0, from |-> from, into |-> into,
                         ours |-> SchemaOf(into)]
    BY <1>4 DEF BeginSchemaMerge
  <2>2. OnCourse(req[r], j)
    BY <1>4, <2>1 DEF Course
  <2>3. QED
    BY <1>2, <2>1, <2>2, TurnStraight
<1>5. CASE ReadTheirs(r)
  <2>1. PICK step : step = [pc |-> "base", theirs |-> SchemaOf(jobs[r].from)]
    OBVIOUS
  <2>2. jobs[r].pc \in OnSchemas /\ jobs' = [jobs EXCEPT ![r] = CarryOn(r, step)]
    BY <1>5, <2>1 DEF ReadTheirs, OnSchemas
  <2>3. /\ "pc" \in DOMAIN step /\ step.pc \in OnSchemas
        /\ {"proposal", "from", "into"} \cap DOMAIN step = {}
    BY <2>1 DEF OnSchemas
  <2>4. QED
    BY <1>2, <1>3, <2>2, <2>3, TurnStraight
<1>6. CASE ReadBase(r)
  <2>1. PICK step : step = [pc |-> "record", base |-> SchemaOf(Main)]
    OBVIOUS
  <2>2. jobs[r].pc \in OnSchemas /\ jobs' = [jobs EXCEPT ![r] = CarryOn(r, step)]
    BY <1>6, <2>1 DEF ReadBase, OnSchemas
  <2>3. /\ "pc" \in DOMAIN step /\ step.pc \in OnSchemas
        /\ {"proposal", "from", "into"} \cap DOMAIN step = {}
    BY <2>1 DEF OnSchemas
  <2>4. QED
    BY <1>2, <1>3, <2>2, <2>3, TurnStraight
<1>7. CASE MergeSchema(r)
  <2>1. jobs[r].pc = "record"
    BY <1>7 DEF MergeSchema
  <2>2. PICK j : jobs' = [jobs EXCEPT ![r] = j] /\
          (\/ j = NoJob \/ j = [pc |-> "conflict", proposal |-> jobs[r].proposal]
           \/ j = AfterSchema(r))
    BY <1>7 DEF MergeSchema
  <2>3. CASE j = NoJob \/ j = [pc |-> "conflict", proposal |-> jobs[r].proposal]
    <3>1. Aside(j)
      BY <2>3, NoJobAside DEF Aside, OnSchemas, OnData
    <3>2. QED
      BY <1>2, <2>2, <3>1, AsideStraight
  <2>4. CASE j = AfterSchema(r) /\ jobs[r].proposal = 0
    BY <1>2, <2>2, <2>4, NoJobAside, AsideStraight DEF AfterSchema
  <2>5. CASE j = AfterSchema(r) /\ jobs[r].proposal # 0
    <3>1. j = [pc |-> "data", proposal |-> jobs[r].proposal, from |-> jobs[r].from,
               into |-> jobs[r].into, guard |-> jobs[r].guard]
      BY <2>5 DEF AfterSchema
    <3>2. OnCourse(req[r], j)
      BY <1>1, <2>1, <3>1 DEF Course, OnSchemas
    <3>3. QED
      BY <1>2, <2>2, <3>2, TurnStraight
  <2>6. QED
    BY <2>2, <2>3, <2>4, <2>5
<1>8. QED
  BY <1>4, <1>5, <1>6, <1>7 DEF MergingSchemas

(* A request goes on with the data of its proposal.                        *)
LEMMA DataGoesStraight ==
  ASSUME NEW r, NEW x, NEW y, NEW step,
         Course(commits, refs, proposals, States, x, jobs[r]), jobs[r].pc \in OnData,
         "pc" \in DOMAIN step, {"proposal", "from", "into"} \cap DOMAIN step = {},
         \/ /\ step.pc = "merging" /\ y.pc = "into" /\ y.branch = jobs[r].into
            /\ BehindIn(commits, refs, y.source.head, jobs[r].from)
         \/ /\ step.pc \in {"validate", "landing"} /\ y.pc \in {"begin", "apply"}
            /\ y.branch = jobs[r].into /\ y.others # {}
            /\ \A z \in y.others : BehindIn(commits, refs, z, jobs[r].from)
            /\ step.pc = "landing" =>
                 /\ "validated" \in DOMAIN step /\ step.validated \in DOMAIN commits
                 /\ Violations(Apply(States[step.validated], y.changes)) = {}
  PROVE  Course(commits, refs, proposals, States, y, CarryOn(r, step))
<1>1. {"proposal", "from", "into"} \subseteq DOMAIN jobs[r]
  BY DEF Course
<1>2. PICK pc, j : pc = step.pc /\ j = CarryOn(r, step)
  OBVIOUS
<1>3. /\ {"proposal", "from", "into"} \subseteq DOMAIN j
      /\ j.pc = pc /\ j.proposal = jobs[r].proposal
      /\ j.from = jobs[r].from /\ j.into = jobs[r].into
  BY <1>1, <1>2, BranchesGoOn
<1>4. pc \in {"merging", "validate", "landing"} /\ pc # "merged"
  BY <1>2
<1>5. "validated" \in DOMAIN step => j.validated = step.validated
  BY <1>2 DEF CarryOn
<1>6. /\ j.from \in DOMAIN refs /\ j.into \in DOMAIN refs
      /\ j.proposal # 0 => /\ j.proposal \in DOMAIN proposals
                           /\ j.from = proposals[j.proposal].from
                           /\ j.into = proposals[j.proposal].into
  BY <1>3 DEF Course
<1>7. j.pc = "landing" =>
        j.validated \in DOMAIN commits /\ Violations(Apply(States[j.validated], y.changes)) = {}
  BY <1>2, <1>3, <1>5
<1>8. Course(commits, refs, proposals, States, y, j)
  BY <1>2, <1>3, <1>4, <1>6, <1>7 DEF Course
<1>9. QED
  BY <1>2, <1>8

(* The source is read (merge.go:52-56).                                    *)
LEMMA BeginDataStraight ==
  ASSUME CourseInv, ReviewInv, NEW r \in Requests, BeginData(r)
  PROVE  Straight
<1>1. /\ req \in [Requests -> RequestType] /\ jobs[r].pc = "data"
      /\ Course(commits, refs, proposals, States, req[r], jobs[r])
  BY LogFacts DEF CourseInv, StoreInv, BeginData
<1>2. PICK from \in DOMAIN refs, into \in DOMAIN refs : from = jobs[r].from /\ into = jobs[r].into
  BY <1>1 DEF Course, OnData
<1>3. PICK t \in Tables : SubmitMerge(r, "merge", from, into, t)
  BY <1>2 DEF BeginData
<1>4. \A q \in Requests \ {r} : req'[q] = req[q]
  BY <1>1, <1>3, OthersStand
<1>5. PICK y : y = req'[r]
  OBVIOUS
<1>6. y.pc = "into" /\ y.branch = into /\ y.source.head = refs[from].head
  <2>1. y = [Idle EXCEPT !.pc = "into", !.kind = "merge", !.branch = into, !.table = t,
                         !.source = refs[from]]
    BY <1>1, <1>3, <1>5 DEF SubmitMerge
  <2>2. QED
    BY <2>1 DEF Idle
<1>7. BehindIn(commits, refs, refs[from].head, from)
  <2>1. /\ RootedIn(commits) /\ refs[from].head \in 1 .. Len(commits)
    BY LogFacts DEF CourseInv, StoreInv
  <2>2. QED
    BY <2>1, ReachStarts DEF BehindIn
<1>8. PICK step : step = [pc |-> "merging"]
  OBVIOUS
<1>9. "pc" \in DOMAIN step /\ step.pc = "merging" /\ DOMAIN step = {"pc"}
  BY <1>8
<1>10. jobs' = [jobs EXCEPT ![r] = CarryOn(r, step)]
  BY <1>8 DEF BeginData, Set
<1>11. jobs[r].pc \in OnData /\ {"proposal", "from", "into"} \cap DOMAIN step = {}
  BY <1>1, <1>9 DEF OnData
<1>12. BehindIn(commits, refs, y.source.head, jobs[r].from) /\ y.branch = jobs[r].into
  BY <1>2, <1>6, <1>7
<1>13. Course(commits, refs, proposals, States, y, CarryOn(r, step))
  BY <1>1, <1>6, <1>9, <1>11, <1>12, DataGoesStraight
<1>14. QED
  BY <1>4, <1>5, <1>10, <1>13, TurnStraight

(* The merge is planned, or its conflicts are to be saved (merge.go:57-    *)
(* 136).                                                                   *)
LEMMA PlanDataStraight ==
  ASSUME CourseInv, ReviewInv, NEW r \in Requests, PlanData(r)
  PROVE  Straight
<1>1. /\ req \in [Requests -> RequestType] /\ jobs[r].pc = "merging" /\ PlanMerge(r)
      /\ Course(commits, refs, proposals, States, req[r], jobs[r])
  BY LogFacts DEF CourseInv, StoreInv, PlanData
<1>2. \A q \in Requests \ {r} : req'[q] = req[q]
  BY <1>1, OthersStand
<1>3. CASE req'[r] = Idle
  <2>1. PICK over : over = [pc |-> "clear", proposal |-> jobs[r].proposal, keys |-> Disputed(r)]
    OBVIOUS
  <2>2. PICK j : jobs' = [jobs EXCEPT ![r] = j] /\ (j = NoJob \/ j = over)
    BY <1>3, <2>1, Zenon DEF PlanData, Set
  <2>3. "pc" \in DOMAIN over /\ over.pc = "clear"
    BY <2>1
  <2>4. Aside(j)
    BY <2>2, <2>3, NoJobAside DEF Aside, OnSchemas, OnData
  <2>5. QED
    BY <1>2, <2>2, <2>4, AsideStraight
<1>4. CASE req'[r] # Idle
  <2>1. PICK y : y = req'[r]
    OBVIOUS
  <2>2. PICK changes : y = [req[r] EXCEPT !.pc = "begin", !.others = {req[r].source.head},
                                          !.source = NoRef, !.changes = changes]
    BY <1>1, <1>4, <2>1 DEF PlanMerge
  <2>3. y.pc = "begin" /\ y.others = {req[r].source.head} /\ y.branch = req[r].branch
    BY <1>1, <2>2 DEF RequestType
  <2>4. req[r].branch = jobs[r].into /\ BehindIn(commits, refs, req[r].source.head, jobs[r].from)
    BY <1>1 DEF Course
  <2>5. PICK step : step = [pc |-> "validate"]
    OBVIOUS
  <2>6. jobs' = [jobs EXCEPT ![r] = CarryOn(r, step)]
    BY <1>4, <2>5 DEF PlanData, Set
  <2>7. "pc" \in DOMAIN step /\ step.pc = "validate" /\ DOMAIN step = {"pc"}
    BY <2>5
  <2>8. jobs[r].pc \in OnData /\ {"proposal", "from", "into"} \cap DOMAIN step = {}
    BY <1>1, <2>7 DEF OnData
  <2>9. /\ y.branch = jobs[r].into /\ y.others # {}
        /\ \A z \in y.others : BehindIn(commits, refs, z, jobs[r].from)
    BY <2>3, <2>4
  <2>10. Course(commits, refs, proposals, States, y, CarryOn(r, step))
    BY <1>1, <2>3, <2>7, <2>8, <2>9, DataGoesStraight
  <2>11. QED
    BY <1>2, <2>1, <2>6, <2>10, TurnStraight
<1>5. QED
  BY <1>3, <1>4

(* The constraints are checked on the branch as it is (merge.go:138-156).  *)
LEMMA ValidateDataStraight ==
  ASSUME CourseInv, ReviewInv, NEW r \in Requests, ValidateData(r)
  PROVE  Straight
<1>1. /\ req \in [Requests -> RequestType] /\ jobs[r].pc = "validate" /\ PlainInv
      /\ Course(commits, refs, proposals, States, req[r], jobs[r])
      /\ \A b \in DOMAIN refs : refs[b].head \in DOMAIN commits
      /\ req[r].branch \in DOMAIN refs
  BY LogFacts DEF CourseInv, StoreInv, PlainInv, HistoryInv, Inv, TypeOK, ValidateData
<1>2. CASE ValidateMerge(r) # {}
  <2>1. PICK j : /\ jobs' = [jobs EXCEPT ![r] = j]
                 /\ j = [pc |-> "clear", proposal |-> jobs[r].proposal,
                         keys |-> ValidateMerge(r)]
    BY <1>2 DEF ValidateData, Set
  <2>2. "pc" \in DOMAIN j /\ j.pc = "clear"
    BY <2>1
  <2>3. Aside(j)
    BY <2>2 DEF Aside, OnSchemas, OnData
  <2>4. \A q \in Requests \ {r} : req'[q] = req[q]
    BY <1>1, <1>2, OthersStand DEF ValidateData
  <2>5. QED
    BY <2>1, <2>3, <2>4, AsideStraight
<1>3. CASE ValidateMerge(r) = {}
  <2>1. PICK head : head = refs[req[r].branch].head /\ head \in DOMAIN commits
    BY <1>1
  <2>2. PICK step : step = [pc |-> "landing", validated |-> head]
    OBVIOUS
  <2>3. jobs' = [jobs EXCEPT ![r] = CarryOn(r, step)] /\ UNCHANGED vars
    BY <1>3, <2>1, <2>2 DEF ValidateData, Set
  <2>4. /\ "pc" \in DOMAIN step /\ step.pc = "landing" /\ DOMAIN step = {"pc", "validated"}
        /\ step.validated = head
    BY <2>2
  <2>5. jobs[r].pc \in OnData /\ {"proposal", "from", "into"} \cap DOMAIN step = {}
    BY <1>1, <2>4 DEF OnData
  <2>6. Violations(Apply(States[head], req[r].changes)) = {}
    <3>1. ResolveMap(refs[req[r].branch].chain) = StateAtCommit(head)
      BY <1>1, <2>1, HeadState
    <3>2. States[head] = StateAtCommit(head)
      BY <2>1 DEF States
    <3>3. QED
      BY <1>3, <3>1, <3>2 DEF ValidateMerge
  <2>7. /\ req[r].pc \in {"begin", "apply"} /\ req[r].branch = jobs[r].into
        /\ req[r].others # {} /\ \A z \in req[r].others : BehindIn(commits, refs, z, jobs[r].from)
    BY <1>1 DEF Course
  <2>8. step.validated \in DOMAIN commits
          /\ Violations(Apply(States[step.validated], req[r].changes)) = {}
    BY <2>1, <2>4, <2>6
  <2>9. "validated" \in DOMAIN step
    BY <2>4
  <2>10. Course(commits, refs, proposals, States, req[r], CarryOn(r, step))
    BY <1>1, <2>4, <2>5, <2>7, <2>8, <2>9, DataGoesStraight
  <2>11. \A q \in Requests : req'[q] = req[q]
    BY <2>3 DEF vars
  <2>12. QED
    BY <2>3, <2>10, <2>11, TurnStraight
<1>4. QED
  BY <1>2, <1>3

(* The merge waits for the ref lock, or lands (store.go:387-446).          *)
LEMMA LandDataOnCourse ==
  ASSUME CourseInv, ReviewInv, PlainInv', NEW r \in Requests, LandData(r)
  PROVE  \A q \in Requests :
           \/ Course(commits, refs, proposals, States, req'[q], jobs'[q])
           \/ Course(commits', refs', proposals, States', req'[q], jobs'[q])
<1>1. /\ req \in [Requests -> RequestType] /\ jobs[r].pc = "landing" /\ StoreInv
      /\ Course(commits, refs, proposals, States, req[r], jobs[r])
      /\ \A q \in Requests : Course(commits, refs, proposals, States, req[q], jobs[q])
      /\ \A p \in DOMAIN proposals : ProposalIn(commits, refs, proposals, p)
  BY LogFacts DEF CourseInv, StoreInv, LandData
<1>2. CASE Lock(r) /\ UNCHANGED schemaVars
  <2>1. \A q \in Requests \ {r} : req'[q] = req[q]
    BY <1>1, <1>2, OthersStand
  <2>2. PICK y : y = req'[r]
    OBVIOUS
  <2>3. y = [req[r] EXCEPT !.pc = "apply", !.ref = refs[req[r].branch]]
    BY <1>1, <1>2, <2>2 DEF Lock
  <2>4. /\ y.pc = "apply" /\ y.branch = req[r].branch /\ y.others = req[r].others
        /\ y.changes = req[r].changes
    BY <1>1, <2>3 DEF RequestType
  <2>5. Course(commits, refs, proposals, States, y, jobs[r])
    BY <1>1, <2>4 DEF Course
  <2>6. jobs' = jobs
    BY <1>2 DEF schemaVars
  <2>7. QED
    BY <1>1, <2>1, <2>2, <2>5, <2>6
<1>3. CASE /\ LandFitting(r)
           /\ Set(r, [pc |-> "merged", proposal |-> jobs[r].proposal, commit |-> Len(commits) + 1])
  <2>1. Land(r)
    BY <1>3 DEF LandFitting
  <2>2. \A q \in Requests \ {r} : req'[q] = req[q]
    BY <1>1, <2>1, OthersStand
  <2>3. PICK j : /\ jobs' = [jobs EXCEPT ![r] = j]
                 /\ j = [pc |-> "merged", proposal |-> jobs[r].proposal,
                         commit |-> Len(commits) + 1]
    BY <1>3 DEF Set
  <2>4. jobs'[r] = j /\ \A q \in Requests \ {r} : jobs'[q] = jobs[q]
    BY <2>3 DEF ReviewInv
  <2>5. PICK p, n : p = jobs[r].proposal /\ n = Len(commits) + 1
    OBVIOUS
  <2>6. j.pc = "merged" /\ j.proposal = p /\ j.commit = n
    BY <2>3, <2>5
  <2>7. /\ p \in DOMAIN proposals /\ jobs[r].from = proposals[p].from
        /\ jobs[r].into = proposals[p].into /\ req[r].branch = jobs[r].into
        /\ req[r].others # {}
        /\ \A x \in req[r].others : BehindIn(commits, refs, x, jobs[r].from)
    <3>1. p # 0
      BY <1>1, <2>5 DEF ReviewInv, CarriesOn, OnData
    <3>2. QED
      BY <1>1, <2>5, <3>1 DEF Course, OnData
  <2>8. PICK log, heads : log = commits' /\ heads = refs'
    OBVIOUS
  <2>9. /\ Later(commits, refs, log, heads) /\ n \in DOMAIN log
        /\ log[n].branch = req[r].branch /\ log[n].others = req[r].others
    BY <1>1, <2>1, <2>5, <2>8, LandGraph
  <2>10. proposals[p].from \in DOMAIN refs
    BY <1>1, <2>7 DEF ProposalIn
  <2>11. \A x \in log[n].others : BehindIn(log, heads, x, proposals[p].from)
    BY <2>7, <2>9, <2>10, BehindStays
  <2>12. Recorded(log, heads, proposals, p, n)
    BY <2>7, <2>9, <2>11 DEF Recorded
  <2>13. PICK states : states = States'
    OBVIOUS
  <2>14. \A x : Course(log, heads, proposals, states, x, j)
    BY <2>6, <2>12 DEF Course, OnSchemas, OnData
  <2>15. Course(commits', refs', proposals, States', req'[r], jobs'[r])
    BY <2>4, <2>8, <2>13, <2>14
  <2>16. \A q \in Requests \ {r} : Course(commits, refs, proposals, States, req'[q], jobs'[q])
    BY <1>1, <2>2, <2>4
  <2>17. QED
    BY <2>15, <2>16
<1>4. QED
  BY <1>2, <1>3, Zenon DEF LandData

(* The other steps of the merge of a proposal (proposal.go:196-296).       *)
LEMMA OtherStepsStraight ==
  ASSUME CourseInv, ReviewInv, NEW r \in Requests,
         \/ \E p \in DOMAIN proposals : BeginMergeProposal(r, p)
         \/ ReadProtection(r) \/ ReadReviews(r) \/ RefuseData(r)
         \/ ClearConflicts(r) \/ SaveConflicts(r) \/ MarkConflicted(r) \/ MarkMerged(r)
  PROVE  Straight
<1>1. /\ req \in [Requests -> RequestType] /\ CarriesOn(jobs[r])
      /\ \A p \in DOMAIN proposals : ProposalIn(commits, refs, proposals, p)
  BY LogFacts DEF CourseInv, StoreInv, ReviewInv
<1>2. \A q \in Requests \ {r} : req'[q] = req[q]
  <2>1. CASE RefuseData(r)
    BY <1>1, <2>1, OthersStand DEF RefuseData, Refuse, Forbid
  <2>2. CASE UNCHANGED vars
    BY <2>2 DEF vars
  <2>3. QED
    BY <2>1, <2>2, Zenon
       DEF BeginMergeProposal, ReadProtection, ReadReviews, ClearConflicts, SaveConflicts,
           MarkConflicted, MarkMerged
<1>3. ASSUME NEW j, jobs' = [jobs EXCEPT ![r] = j],
             j.pc \notin {"merged"} \cup OnSchemas \cup OnData
      PROVE  Straight
  BY <1>2, <1>3, AsideCourse, TurnStraight
<1>4. ASSUME NEW p \in DOMAIN proposals, BeginMergeProposal(r, p)  PROVE Straight
  <2>1. PICK j : jobs' = [jobs EXCEPT ![r] = j] /\ j = [pc |-> "protection", proposal |-> p]
    BY <1>4 DEF BeginMergeProposal, Set
  <2>2. j.pc \notin {"merged"} \cup OnSchemas \cup OnData
    BY <2>1 DEF OnSchemas, OnData
  <2>3. QED
    BY <1>3, <2>1, <2>2
<1>5. CASE ReadProtection(r)
  <2>1. PICK step : step = [pc |-> "reviews",
                            guard |-> protection[proposals[jobs[r].proposal].into]]
    OBVIOUS
  <2>2. jobs' = [jobs EXCEPT ![r] = CarryOn(r, step)]
    BY <1>5, <2>1 DEF ReadProtection, Set
  <2>3. /\ "pc" \in DOMAIN step /\ step.pc = "reviews" /\ "proposal" \notin DOMAIN step
        /\ "pc" \in DOMAIN jobs[r]
    BY <1>1, <2>1 DEF CarriesOn
  <2>4. CarryOn(r, step).pc = "reviews"
    BY <2>3, GoesOn
  <2>5. QED
    BY <1>3, <2>2, <2>4 DEF OnSchemas, OnData
<1>6. CASE ReadReviews(r)
  <2>1. PICK p : p = jobs[r].proposal
    OBVIOUS
  <2>2. p \in DOMAIN proposals
    BY <1>1, <1>6, <2>1 DEF CarriesOn, ReadReviews
  <2>3. PICK from \in DOMAIN refs, into \in DOMAIN refs :
          from = proposals[p].from /\ into = proposals[p].into
    BY <1>1, <2>2 DEF ProposalIn
  <2>4. CASE ~Approved(p, jobs[r].guard)
    <3>1. jobs' = [jobs EXCEPT ![r] = NoJob]
      BY <1>6, <2>1, <2>4 DEF ReadReviews, Set
    <3>2. QED
      BY <1>2, <3>1, NoJobAside, AsideStraight
  <2>5. CASE Approved(p, jobs[r].guard)
    <3>1. PICK j : /\ jobs' = [jobs EXCEPT ![r] = j]
                   /\ j = [pc |-> "theirs", proposal |-> p, guard |-> jobs[r].guard,
                           from |-> from, into |-> into, ours |-> SchemaOf(into)]
      BY <1>6, <2>1, <2>3, <2>5 DEF ReadReviews, Set
    <3>2. \A x : Course(commits, refs, proposals, States, x, j)
      BY <2>2, <2>3, <3>1 DEF Course
    <3>3. QED
      BY <1>2, <3>1, <3>2, TurnStraight
  <2>6. QED
    BY <2>4, <2>5
<1>7. CASE RefuseData(r) \/ MarkConflicted(r) \/ MarkMerged(r)
  <2>1. jobs' = [jobs EXCEPT ![r] = NoJob]
    BY <1>7 DEF RefuseData, MarkConflicted, MarkMerged, Set
  <2>2. QED
    BY <1>2, <2>1, NoJobAside, AsideStraight
<1>8. CASE ClearConflicts(r)
  <2>1. PICK step : step = [pc |-> "save"]
    OBVIOUS
  <2>2. jobs' = [jobs EXCEPT ![r] = CarryOn(r, step)]
    BY <1>8, <2>1 DEF ClearConflicts, Set
  <2>3. /\ "pc" \in DOMAIN step /\ step.pc = "save" /\ "proposal" \notin DOMAIN step
        /\ "pc" \in DOMAIN jobs[r]
    BY <1>1, <2>1 DEF CarriesOn
  <2>4. CarryOn(r, step).pc = "save"
    BY <2>3, GoesOn
  <2>5. QED
    BY <1>3, <2>2, <2>4 DEF OnSchemas, OnData
<1>9. CASE SaveConflicts(r)
  <2>1. PICK j : /\ jobs' = [jobs EXCEPT ![r] = j]
                 /\ j = [pc |-> "conflict", proposal |-> jobs[r].proposal]
    BY <1>9 DEF SaveConflicts, Set
  <2>2. j.pc \notin {"merged"} \cup OnSchemas \cup OnData
    BY <2>1 DEF OnSchemas, OnData
  <2>3. QED
    BY <1>3, <2>1, <2>2
<1>10. QED
  BY <1>4, <1>5, <1>6, <1>7, <1>8, <1>9

(* Whatever happens, every request stays on its course.                    *)
LEMMA AllOnCourse ==
  ASSUME CourseInv, ReviewInv, PlainInv', EvolutionNext
  PROVE  \A q \in Requests :
           \/ Course(commits, refs, proposals, States, req'[q], jobs'[q])
           \/ Course(commits', refs', proposals, States', req'[q], jobs'[q])
<1>1. \A r \in workload.requests : r \in Requests
  BY EvolutionAssumption DEF ReviewInv
<1>2. SUFFICES ASSUME ~Straight
               PROVE  \E r \in Requests : LandData(r)
  BY LandDataOnCourse DEF Straight
<1>3. ASSUME NEW r \in workload.requests, Data(r), UNCHANGED schemaVars  PROVE FALSE
  <2>1. r \in Requests /\ UNCHANGED jobs
    BY <1>1, <1>3 DEF schemaVars
  <2>2. QED
    BY <1>2, <1>3, <2>1, WritersStraight
<1>4. ASSUME NEW r \in workload.requests, WritingWhere(r)  PROVE FALSE
  BY <1>1, <1>2, <1>4, WritersStraight
<1>5. ASSUME UNCHANGED <<req, jobs>>  PROVE FALSE
  BY <1>2, <1>5, StandStraight
<1>6. CASE Branching /\ UNCHANGED schemaVars
  BY <1>5, <1>6 DEF Branching, CreateBranch, schemaVars
<1>7. ASSUME NEW r \in workload.requests, Altering(r) \/ Applying(r)  PROVE FALSE
  <2>1. \A q \in Requests : req'[q] = req[q]
    <3>1. CASE Altering(r)
      BY <3>1 DEF Altering, BeginAlter, WriteAlter, vars
    <3>2. CASE Applying(r)
      BY <3>2 DEF Applying, BeginApply, MarkApplying, JournalBegin, ReadCompleted, RunOp,
                  MarkComplete, FailPlan, RefreshColumns, FinishPlan, vars
    <3>3. QED
      BY <1>7, <3>1, <3>2
  <2>2. PICK j : jobs' = [jobs EXCEPT ![r] = j] /\ Aside(j)
    BY <1>1, <1>7, AlteringTurns, ApplyingTurns
  <2>3. QED
    BY <1>1, <1>2, <2>1, <2>2, AsideStraight
<1>8. ASSUME NEW r \in workload.requests, MergingSchemas(r)  PROVE FALSE
  BY <1>1, <1>2, <1>8, SchemasStraight
<1>9. CASE Proposing \/ Reviewing
  <2>1. UNCHANGED <<req, jobs>>
    BY <1>9 DEF Proposing, Reviewing, CreateProposal, ResolveConflict, AddReview,
                SetBranchProtection, vars, schemaVars
  <2>2. QED
    BY <1>5, <2>1
<1>10. ASSUME NEW r \in workload.requests, MergingProposals(r)
       PROVE  \E q \in Requests : LandData(q)
  <2>1. CASE BeginData(r) \/ PlanData(r) \/ ValidateData(r)
    BY <1>1, <1>2, <2>1, BeginDataStraight, PlanDataStraight, ValidateDataStraight
  <2>2. CASE LandData(r)
    BY <1>1, <2>2
  <2>3. CASE \/ \E p \in DOMAIN proposals : BeginMergeProposal(r, p)
             \/ ReadProtection(r) \/ ReadReviews(r) \/ RefuseData(r)
             \/ ClearConflicts(r) \/ SaveConflicts(r) \/ MarkConflicted(r) \/ MarkMerged(r)
    BY <1>1, <1>2, <2>3, OtherStepsStraight
  <2>4. QED
    BY <1>10, <2>1, <2>2, <2>3, Zenon DEF MergingProposals
<1>11. ASSUME NEW r \in workload.requests, Dying(r)  PROVE FALSE
  <2>1. jobs' = [jobs EXCEPT ![r] = NoJob]
    BY <1>11 DEF Dying, JobDies, MergeDies, Set
  <2>2. \A q \in Requests \ {r} : req'[q] = req[q]
    <3>1. CASE JobDies(r)
      BY <3>1 DEF JobDies, vars
    <3>2. CASE MergeDies(r)
      <4>1. req \in [Requests -> RequestType] /\ Finish(r)
        BY <3>2, LogFacts DEF CourseInv, StoreInv, MergeDies, Crash
      <4>2. QED
        BY <1>1, <4>1, OthersStand
    <3>3. QED
      BY <1>11, <3>1, <3>2 DEF Dying
  <2>3. QED
    BY <1>1, <1>2, <2>1, <2>2, NoJobAside, AsideStraight
<1>12. CASE UNCHANGED <<vars, schemaVars, proposalVars>>
  BY <1>5, <1>12, Zenon DEF vars, schemaVars
<1>13. QED
  BY <1>3, <1>4, <1>6, <1>7, <1>8, <1>9, <1>10, <1>11, <1>12, Zenon DEF EvolutionNext

(* Proposals are made, and merges record their outcome, and nothing else   *)
(* writes the table (proposal.go:68-101, 253-296).                         *)
LEMMA WhoRecords ==
  ASSUME ReviewInv, EvolutionNext
  PROVE  \/ proposals' = proposals
         \/ \E from, into \in DOMAIN refs : \E author : CreateProposal(from, into, author)
         \/ \E r \in Requests : MarkConflicted(r) \/ MarkMerged(r)
<1>1. \A r \in workload.requests : r \in Requests
  BY EvolutionAssumption DEF ReviewInv
<1>2. ASSUME UNCHANGED proposalVars  PROVE proposals' = proposals
  BY <1>2 DEF proposalVars
<1>3. ASSUME Proposing \/ Reviewing
      PROVE  \/ proposals' = proposals
             \/ \E from, into \in DOMAIN refs : \E author : CreateProposal(from, into, author)
  <2>1. CASE Reviewing
    BY <2>1 DEF Reviewing, AddReview, SetBranchProtection
  <2>2. CASE Proposing
    <3>1. ASSUME NEW d, ResolveConflict(d)  PROVE proposals' = proposals
      BY <3>1 DEF ResolveConflict
    <3>2. QED
      BY <2>2, <3>1, Zenon DEF Proposing
  <2>3. QED
    BY <1>3, <2>1, <2>2
<1>4. ASSUME NEW r \in workload.requests, MergingProposals(r)
      PROVE  proposals' = proposals \/ MarkConflicted(r) \/ MarkMerged(r)
  <2>1. CASE \/ \E p \in DOMAIN proposals : BeginMergeProposal(r, p)
             \/ ReadProtection(r) \/ ReadReviews(r) \/ BeginData(r) \/ PlanData(r)
             \/ ValidateData(r) \/ RefuseData(r) \/ LandData(r)
    BY <1>2, <2>1, Zenon DEF BeginMergeProposal, ReadProtection, ReadReviews, BeginData,
                             PlanData, ValidateData, RefuseData, LandData
  <2>2. CASE ClearConflicts(r) \/ SaveConflicts(r)
    BY <2>2 DEF ClearConflicts, SaveConflicts
  <2>3. QED
    BY <1>4, <2>1, <2>2, Zenon DEF MergingProposals
<1>5. QED
  BY <1>1, <1>2, <1>3, <1>4, Zenon DEF EvolutionNext

(* The outcome that a request records is the commit it landed              *)
(* (proposal.go:287-296).                                                  *)
LEMMA OutcomeRecorded ==
  ASSUME CourseInv, ReviewInv, NEW log, NEW heads, Later(commits, refs, log, heads),
         NEW r \in Requests, MarkConflicted(r) \/ MarkMerged(r)
  PROVE  /\ Kept(proposals, proposals') /\ DOMAIN proposals' = DOMAIN proposals
         /\ \A p \in DOMAIN proposals : ProposalIn(log, heads, proposals', p)
<1>1. /\ \A p \in DOMAIN proposals : ProposalIn(commits, refs, proposals, p)
      /\ Course(commits, refs, proposals, States, req[r], jobs[r])
  BY DEF CourseInv
<1>2. PICK S : proposals \in Seq(S)
  BY DEF ReviewInv, IsTable
<1>3. PICK p : p = jobs[r].proposal
  OBVIOUS
<1>4. PICK state, commit :
        /\ SetState(p, state, commit)
        /\ \/ state = "conflicted" /\ commit = 0
           \/ state = "merged" /\ Recorded(commits, refs, proposals, p, commit)
  <2>1. CASE MarkConflicted(r)
    BY <1>3, <2>1 DEF MarkConflicted
  <2>2. CASE MarkMerged(r)
    <3>1. Recorded(commits, refs, proposals, p, jobs[r].commit)
      BY <1>1, <1>3, <2>2 DEF MarkMerged, Course
    <3>2. SetState(p, "merged", jobs[r].commit)
      BY <1>3, <2>2 DEF MarkMerged
    <3>3. QED
      BY <3>1, <3>2
  <2>3. QED
    BY <2>1, <2>2
<1>5. PICK e : e = [proposals[p] EXCEPT !.state = state,
                                        !.commit = IF commit = 0 THEN @ ELSE commit]
  OBVIOUS
<1>6. PICK more : more = proposals'
  OBVIOUS
<1>7. /\ DOMAIN more = DOMAIN proposals
      /\ \A q \in DOMAIN proposals : more[q] = IF q = p THEN e ELSE proposals[q]
  <2>1. more = [proposals EXCEPT ![p].state = state,
                                 ![p].commit = IF commit = 0 THEN @ ELSE commit]
    BY <1>4, <1>6 DEF SetState
  <2>2. more = [proposals EXCEPT ![p] = e]
    BY <1>2, <1>5, <2>1
  <2>3. QED
    BY <1>2, <2>2
<1>8. p \in DOMAIN proposals =>
        /\ {"from", "into", "author", "state", "commit"} \subseteq DOMAIN e
        /\ e.from = proposals[p].from /\ e.into = proposals[p].into
        /\ e.state = state /\ e.commit = IF commit = 0 THEN proposals[p].commit ELSE commit
  BY <1>1, <1>5 DEF ProposalIn
<1>9. Kept(proposals, more)
  BY <1>7, <1>8 DEF Kept
<1>10. ASSUME NEW q \in DOMAIN proposals  PROVE ProposalIn(log, heads, more, q)
  <2>1. CASE q # p
    BY <1>1, <1>7, <1>9, <2>1, ProposalStays
  <2>2. CASE q = p
    <3>1. /\ proposals[p].from \in DOMAIN refs /\ proposals[p].into \in DOMAIN refs
          /\ proposals[p].commit # 0 => Recorded(commits, refs, proposals, p, proposals[p].commit)
      BY <1>1, <2>2 DEF ProposalIn
    <3>2. DOMAIN refs \subseteq DOMAIN heads
      BY DEF Later
    <3>3. \A c : Recorded(commits, refs, proposals, p, c) => Recorded(log, heads, more, p, c)
      BY <1>9, <3>1, RecordedStays
    <3>4. e.commit # 0 => Recorded(log, heads, more, p, e.commit)
      BY <1>4, <1>8, <2>2, <3>1, <3>3
    <3>5. \A c : Recorded(commits, refs, proposals, p, c) => c # 0
      <4>1. DOMAIN commits = 1 .. Len(commits) /\ Len(commits) \in Nat
        BY LogFacts DEF CourseInv, StoreInv
      <4>2. QED
        BY <4>1 DEF Recorded
    <3>6. state = "merged" => e.commit # 0
      BY <1>4, <1>8, <2>2, <3>5
    <3>7. more[q] = e
      BY <1>7, <2>2
    <3>8. QED
      BY <1>8, <2>2, <3>1, <3>2, <3>4, <3>6, <3>7 DEF ProposalIn
  <2>3. QED
    BY <2>1, <2>2
<1>11. QED
  BY <1>6, <1>7, <1>9, <1>10

(* The table of proposals stays what it should be (proposal.go:68-101,     *)
(* 253-296).                                                               *)
LEMMA ProposalsStayIn ==
  ASSUME CourseInv, ReviewInv, EvolutionNext, Later(commits, refs, commits', refs')
  PROVE  /\ Kept(proposals, proposals')
         /\ \A p \in DOMAIN proposals' : ProposalIn(commits', refs', proposals', p)
<1>1. PICK log, heads, more : log = commits' /\ heads = refs' /\ more = proposals'
  OBVIOUS
<1>2. Later(commits, refs, log, heads)
  BY <1>1
<1>3. \A p \in DOMAIN proposals : ProposalIn(commits, refs, proposals, p)
  BY DEF CourseInv
<1>4. SUFFICES Kept(proposals, more) /\ \A p \in DOMAIN more : ProposalIn(log, heads, more, p)
  BY <1>1
<1>5. CASE proposals' = proposals
  <2>1. more = proposals /\ Kept(proposals, more)
    BY <1>1, <1>5 DEF Kept
  <2>2. QED
    BY <1>2, <1>3, <2>1, ProposalStays
<1>6. ASSUME NEW from \in DOMAIN refs, NEW into \in DOMAIN refs, NEW author,
             CreateProposal(from, into, author)
      PROVE  Kept(proposals, more) /\ \A p \in DOMAIN more : ProposalIn(log, heads, more, p)
  <2>1. PICK S : proposals \in Seq(S)
    BY DEF ReviewInv, IsTable
  <2>2. PICK e : e = [from |-> from, into |-> into, author |-> author, state |-> "open",
                      commit |-> 0]
    OBVIOUS
  <2>3. more = Append(proposals, e)
    BY <1>1, <1>6, <2>2 DEF CreateProposal
  <2>4. /\ DOMAIN proposals \subseteq DOMAIN more
        /\ \A p \in DOMAIN proposals : more[p] = proposals[p]
        /\ \A p \in DOMAIN more \ DOMAIN proposals : more[p] = e
    BY <2>1, <2>3
  <2>5. Kept(proposals, more)
    BY <2>4 DEF Kept
  <2>6. DOMAIN refs \subseteq DOMAIN heads
    BY <1>2 DEF Later
  <2>7. ASSUME NEW p \in DOMAIN more \ DOMAIN proposals  PROVE ProposalIn(log, heads, more, p)
    BY <2>2, <2>4, <2>6 DEF ProposalIn
  <2>8. QED
    BY <1>2, <1>3, <2>4, <2>5, <2>7, ProposalStays
<1>7. ASSUME NEW r \in Requests, MarkConflicted(r) \/ MarkMerged(r)
      PROVE  Kept(proposals, more) /\ \A p \in DOMAIN more : ProposalIn(log, heads, more, p)
  BY <1>1, <1>2, <1>7, OutcomeRecorded
<1>8. QED
  BY <1>5, <1>6, <1>7, WhoRecords

(* What a step is to the store.                                            *)
LEMMA StepMoves ==
  ASSUME CourseInv, ReviewInv, [EvolutionNext]_evolutionVars
  PROVE  UNCHANGED vars \/ StoreMoves
<1>1. TypeOK /\ workload \in Workloads
  BY DEF CourseInv, StoreInv, PlainInv, HistoryInv, Inv, ReviewInv
<1>2. DataNamed
  BY DEF CourseInv, Course, DataNamed, OnData
<1>3. CASE EvolutionNext
  BY <1>1, <1>2, <1>3, EvolutionMoves
<1>4. CASE UNCHANGED evolutionVars
  BY <1>4, Zenon DEF evolutionVars
<1>5. QED
  BY <1>3, <1>4

(* What is built on commits keeps the store's invariant, and every request *)
(* that merges a proposal stays on its course.                             *)
LEMMA CourseNext ==
  ASSUME CourseInv, ReviewInv, EvolutionNext
  PROVE  CourseInv'
<1>1. PlainInv /\ StoreInv
  BY DEF CourseInv, StoreInv
<1>2. UNCHANGED vars \/ StoreMoves
  BY StepMoves
<1>4. StoreInv' /\ Later(commits, refs, commits', refs') /\ PlainInv'
  <2>1. StoreInv' /\ Later(commits, refs, commits', refs')
    BY <1>1, <1>2, StoreInvStays
  <2>2. QED
    BY <2>1 DEF StoreInv
<1>5. \A c \in DOMAIN commits : StateAtCommit(c)' = StateAtCommit(c)
  BY <1>1, <1>2, MovesKeepStates
<1>6. /\ Kept(proposals, proposals')
      /\ \A p \in DOMAIN proposals' : ProposalIn(commits', refs', proposals', p)
  BY <1>4, ProposalsStayIn
<1>7. PICK log, heads, more, states :
        log = commits' /\ heads = refs' /\ more = proposals' /\ states = States'
  OBVIOUS
<1>8. Later(commits, refs, log, heads) /\ Kept(proposals, more)
  BY <1>4, <1>6, <1>7
<1>9. DOMAIN commits \subseteq DOMAIN log
  <2>1. Len(commits) \in Nat /\ Len(log) \in Nat
    BY <1>8 DEF Later, RootedIn, Graph
  <2>2. QED
    BY <1>8, <2>1 DEF Later
<1>10. \A c \in DOMAIN commits : states[c] = States[c]
  BY <1>5, <1>7, <1>9 DEF States
<1>11. \A p \in DOMAIN proposals : proposals[p].from \in DOMAIN refs
  BY DEF CourseInv, ProposalIn
<1>12. ASSUME NEW q \in Requests
       PROVE  Course(log, heads, more, states, req'[q], jobs'[q])
  <2>1. PICK x, j : x = req'[q] /\ j = jobs'[q]
    OBVIOUS
  <2>2. \/ Course(commits, refs, proposals, States, x, j)
        \/ Course(log, heads, proposals, states, x, j)
    BY <1>1, <1>4, <1>7, <2>1, AllOnCourse
  <2>3. CASE Course(commits, refs, proposals, States, x, j)
    BY <1>8, <1>10, <1>11, <2>1, <2>3, CourseStays
  <2>4. CASE Course(log, heads, proposals, states, x, j)
    <3>1. \A p \in DOMAIN proposals : p \in DOMAIN more /\ more[p].from = proposals[p].from
                                        /\ more[p].into = proposals[p].into
      BY <1>8 DEF Kept
    <3>2. \A p, c : Recorded(log, heads, proposals, p, c) => Recorded(log, heads, more, p, c)
      BY <3>1 DEF Recorded
    <3>3. QED
      BY <2>1, <2>4, <3>1, <3>2 DEF Course
  <2>5. QED
    BY <2>2, <2>3, <2>4
<1>13. (\A q \in Requests : Course(commits, refs, proposals, States, req[q], jobs[q]))'
  BY <1>7, <1>12
<1>14. (\A p \in DOMAIN proposals : ProposalIn(commits, refs, proposals, p))'
  BY <1>6
<1>15. QED
  BY <1>4, <1>13, <1>14 DEF CourseInv

(* A new repository (store.go:146-184).                                    *)
LEMMA CourseInit == EvolutionInit => CourseInv
<1> SUFFICES ASSUME EvolutionInit  PROVE CourseInv
  OBVIOUS
<1>1. /\ PlainInv /\ commits = <<RootCommit>> /\ proposals = <<>>
      /\ req = [r \in Requests |-> Idle] /\ jobs = [r \in Requests |-> NoJob]
  BY PlainInit DEF EvolutionInit, Init, MigrationsInit, ProposalsInit
<1>2. RootedIn(commits)
  <2>1. Len(commits) = 1 /\ commits[1] = RootCommit
    BY <1>1
  <2>2. 1 .. Len(commits) = {1} /\ ParentsIn(commits, 1) = {}
    BY <2>1 DEF ParentsIn, RootCommit
  <2>3. QED
    BY <2>1, <2>2 DEF RootedIn, Graph, ParentsOf
<1>3. \A r \in Requests : SourcesIn(commits, req[r])
  BY <1>1 DEF SourcesIn, Idle
<1>4. \A r \in Requests : Course(commits, refs, proposals, States, req[r], jobs[r])
  BY <1>1, AsideCourse, NoJobAside DEF Aside
<1>5. DOMAIN proposals = {}
  BY <1>1
<1>6. QED
  BY <1>1, <1>2, <1>3, <1>4, <1>5 DEF CourseInv, StoreInv

(* A step of nobody.                                                       *)
LEMMA CourseStutters ==
  ASSUME CourseInv, ReviewInv, UNCHANGED evolutionVars
  PROVE  CourseInv'
<1>1. UNCHANGED <<vars, schemaVars, proposalVars>>
  BY Zenon DEF evolutionVars
<1>2. UNCHANGED <<commits, refs, rows, req, jobs, proposals>> /\ UNCHANGED vars
  BY <1>1, Zenon DEF vars, schemaVars, proposalVars
<1>3. StoreInv'
  BY <1>2, StoreInvStays DEF CourseInv
<1>4. States' = States
  BY <1>2, StateIn DEF States
<1>5. (\A r \in Requests : Course(commits, refs, proposals, States, req[r], jobs[r]))'
  BY <1>2, <1>4 DEF CourseInv
<1>6. (\A p \in DOMAIN proposals : ProposalIn(commits, refs, proposals, p))'
  BY <1>2 DEF CourseInv
<1>7. QED
  BY <1>3, <1>5, <1>6 DEF CourseInv

(* Whatever is built on it, the store keeps its own invariant, and what a  *)
(* request is about to land is a merge of its proposal.                    *)
THEOREM CourseInvariance == EvolutionSpec => []CourseInv
<1>1. CourseInv /\ ReviewInv /\ [EvolutionNext]_evolutionVars => CourseInv'
  BY CourseNext, CourseStutters
<1>2. QED
  BY <1>1, CourseInit, ReviewInvariance, PTL DEF EvolutionSpec

-----------------------------------------------------------------------------
(* What the invariant says of proposals.                                   *)

(* The history of a commit, as a function of the log (branch.go:161-190).  *)
LEMMA ReachIsReachIn ==
  ASSUME NEW c
  PROVE  Reach(c) = ReachIn(commits, c)
BY DEF Reach, ReachIn, Parents, ParentsIn

(* A proposal names the merge commit that it became: a commit of its       *)
(* target whose other parent is in the history of its source (proposal.go: *)
(* 253-296).                                                               *)
THEOREM ProposalsNameTheirMerges == EvolutionSpec => []ProposalRecorded
<1>1. CourseInv => ProposalRecorded
  <2> SUFFICES ASSUME CourseInv, NEW p \in DOMAIN proposals
               PROVE  LET c == proposals[p].commit
                      IN  /\ proposals[p].state = "merged" => c # 0
                          /\ c # 0 => /\ commits[c].branch = proposals[p].into
                                      /\ commits[c].others # {}
                                      /\ commits[c].others
                                           \subseteq Reach(refs[proposals[p].from].head)
    BY DEF ProposalRecorded
  <2>1. ProposalIn(commits, refs, proposals, p)
    BY DEF CourseInv
  <2>2. PICK c, from : c = proposals[p].commit /\ from = proposals[p].from
    OBVIOUS
  <2>3. c # 0 => Recorded(commits, refs, proposals, p, c)
    BY <2>1, <2>2 DEF ProposalIn
  <2>4. Reach(refs[from].head) = ReachIn(commits, refs[from].head)
    BY ReachIsReachIn
  <2>5. proposals[p].state = "merged" => c # 0
    BY <2>1, <2>2 DEF ProposalIn
  <2>6. c # 0 => /\ commits[c].branch = proposals[p].into /\ commits[c].others # {}
                 /\ commits[c].others \subseteq Reach(refs[from].head)
    BY <2>2, <2>3, <2>4 DEF Recorded, BehindIn
  <2>7. QED
    BY <2>2, <2>5, <2>6
<1>2. QED
  BY <1>1, CourseInvariance, PTL

-----------------------------------------------------------------------------
(* What the invariant says of steps.                                       *)

(* A request that merges schemas writes down where it is, alone            *)
(* (schema.go:290-360).                                                    *)
LEMMA MergingSchemasTurns ==
  ASSUME NEW r, MergingSchemas(r)
  PROVE  /\ jobs[r] = NoJob \/ jobs[r].pc \in OnSchemas
         /\ \E j : jobs' = [jobs EXCEPT ![r] = j]
BY DEF MergingSchemas, BeginSchemaMerge, ReadTheirs, ReadBase, MergeSchema, OnSchemas

(* Only a request that lands the data of its proposal has merged it        *)
(* (proposal.go:253-279).                                                  *)
LEMMA MergedByLanding ==
  ASSUME ReviewInv, EvolutionNext, NEW q \in Requests,
         jobs[q].pc = "landing", jobs'[q].pc = "merged"
  PROVE  Land(q)
<1>1. \A r \in workload.requests : r \in Requests
  BY EvolutionAssumption DEF ReviewInv
<1>2. jobs = [r \in Requests |-> jobs[r]]
  BY DEF ReviewInv
<1>3. NoJob.pc # "landing" /\ NoJob.pc # "merged"
  BY DEF NoJob
<1>4. ASSUME UNCHANGED jobs  PROVE FALSE
  BY <1>4
<1>5. ASSUME NEW r \in Requests, NEW j, jobs' = [jobs EXCEPT ![r] = j],
             r # q \/ j.pc # "merged"
      PROVE  FALSE
  BY <1>2, <1>5
<1>6. ASSUME NEW r \in workload.requests, Data(r), UNCHANGED schemaVars  PROVE FALSE
  BY <1>4, <1>6 DEF schemaVars
<1>7. ASSUME NEW r \in workload.requests,
             WritingWhere(r) \/ Altering(r) \/ Applying(r)
      PROVE  FALSE
  <2>1. PICK j : jobs' = [jobs EXCEPT ![r] = j] /\ Aside(j)
    BY <1>1, <1>7, WritingWhereTurns, AlteringTurns, ApplyingTurns
  <2>2. QED
    BY <1>1, <1>5, <2>1 DEF Aside
<1>8. ASSUME NEW r \in workload.requests, MergingSchemas(r)  PROVE FALSE
  <2>1. r # q /\ \E j : jobs' = [jobs EXCEPT ![r] = j]
    BY <1>3, <1>8, MergingSchemasTurns DEF OnSchemas
  <2>2. QED
    BY <1>1, <1>5, <2>1
<1>9. CASE Branching /\ UNCHANGED schemaVars
  BY <1>4, <1>9 DEF schemaVars
<1>10. CASE Proposing \/ Reviewing
  BY <1>4, <1>10 DEF Proposing, Reviewing, CreateProposal, ResolveConflict, AddReview,
                     SetBranchProtection, schemaVars
<1>11. ASSUME NEW r \in workload.requests, MergingProposals(r)  PROVE Land(q)
  <2>1. CASE \/ \E p \in DOMAIN proposals : BeginMergeProposal(r, p)
             \/ ReadProtection(r) \/ ReadReviews(r) \/ BeginData(r) \/ PlanData(r)
             \/ ValidateData(r)
             \/ ClearConflicts(r) \/ SaveConflicts(r) \/ MarkConflicted(r) \/ MarkMerged(r)
    <3>1. r # q
      BY <1>3, <2>1 DEF BeginMergeProposal, ReadProtection, ReadReviews, BeginData, PlanData,
                        ValidateData, ClearConflicts, SaveConflicts, MarkConflicted, MarkMerged
    <3>2. \E j : jobs' = [jobs EXCEPT ![r] = j]
      BY <2>1 DEF BeginMergeProposal, ReadProtection, ReadReviews, BeginData, PlanData,
                  ValidateData, ClearConflicts, SaveConflicts, MarkConflicted, MarkMerged, Set
    <3>3. QED
      BY <1>1, <1>5, <3>1, <3>2
  <2>2. CASE RefuseData(r)
    <3>1. jobs' = [jobs EXCEPT ![r] = NoJob]
      BY <2>2 DEF RefuseData, Set
    <3>2. QED
      BY <1>1, <1>3, <1>5, <3>1
  <2>3. CASE LandData(r)
    <3>1. CASE UNCHANGED schemaVars
      BY <1>4, <3>1 DEF schemaVars
    <3>2. CASE LandFitting(r) /\ \E j : jobs' = [jobs EXCEPT ![r] = j]
      BY <1>1, <1>5, <3>2 DEF LandFitting
    <3>3. QED
      BY <2>3, <3>1, <3>2, Zenon DEF LandData, Set
  <2>4. QED
    BY <1>11, <2>1, <2>2, <2>3, Zenon DEF MergingProposals
<1>12. ASSUME NEW r \in workload.requests, Dying(r)  PROVE FALSE
  <2>1. jobs' = [jobs EXCEPT ![r] = NoJob]
    BY <1>12 DEF Dying, JobDies, MergeDies, Set
  <2>2. QED
    BY <1>1, <1>3, <1>5, <2>1
<1>13. CASE UNCHANGED <<vars, schemaVars, proposalVars>>
  BY <1>4, <1>13, Zenon DEF schemaVars
<1>14. QED
  BY <1>6, <1>7, <1>8, <1>9, <1>10, <1>11, <1>12, <1>13, Zenon DEF EvolutionNext

(* A merge that lands on the head it was validated against leaves rows     *)
(* that the live table could hold (merge.go:138-156, predicate.go:303-     *)
(* 400).                                                                   *)
THEOREM ValidatedMergesFit == EvolutionSpec => MergesFit
<1>1. CourseInv /\ ReviewInv /\ [EvolutionNext]_evolutionVars =>
        [\A r \in Requests :
           (jobs[r].pc = "landing" /\ jobs'[r].pc = "merged"
             /\ refs[req[r].branch].head = jobs[r].validated)
             => Violations(StateAtCommit(Len(commits)))' = {}]_evolutionVars
  <2> SUFFICES ASSUME CourseInv, ReviewInv, EvolutionNext, NEW r \in Requests,
                      jobs[r].pc = "landing", jobs'[r].pc = "merged",
                      refs[req[r].branch].head = jobs[r].validated
               PROVE  Violations(StateAtCommit(Len(commits)))' = {}
    OBVIOUS
  <2>1. Land(r) /\ PlainInv
    BY MergedByLanding DEF CourseInv, StoreInv
  <2>2. Course(commits, refs, proposals, States, req[r], jobs[r])
    BY DEF CourseInv
  <2>3. PICK head : head = jobs[r].validated /\ head = refs[req[r].branch].head
    OBVIOUS
  <2>4. head \in DOMAIN commits /\ Violations(Apply(States[head], req[r].changes)) = {}
    BY <2>2, <2>3 DEF Course
  <2>5. States[head] = StateAtCommit(head)
    BY <2>4 DEF States
  <2>6. PICK c \in Nat : c = Len(commits) + 1
    BY <2>1, LogFacts
  <2>7. StateAtCommit(c)' = Apply(StateAtCommit(head), req[r].changes)
    <3>1. c \in DOMAIN commits' \ DOMAIN commits
      BY <2>1, <2>6, LogFacts DEF Land
    <3>2. QED
      BY <2>1, <2>3, <3>1, LandOnHead
  <2>8. Len(commits') = c
    BY <2>1, <2>6 DEF Land, PlainInv, HistoryInv, Inv, TypeOK
  <2>9. Violations(StateAtCommit(c)') = {}
    BY <2>4, <2>5, <2>7
  <2>10. QED
    BY <2>8, <2>9
<1>2. QED
  BY <1>1, CourseInvariance, ReviewInvariance, PTL DEF MergesFit, EvolutionSpec

-----------------------------------------------------------------------------
(* The promises of the store, whatever is built on it.                     *)

(* No step of anything that is built on commits changes what an existing   *)
(* commit resolves to (read.go:57-66).                                     *)
THEOREM HistoryIsStableUnderAll == EvolutionSpec => HistoryStable
<1>1. CourseInv /\ ReviewInv /\ [EvolutionNext]_evolutionVars
        => [\A c \in DOMAIN commits : StateAtCommit(c)' = StateAtCommit(c)]_vars
  BY StepMoves, MovesKeepStates DEF CourseInv, StoreInv
<1>2. QED
  BY <1>1, CourseInvariance, ReviewInvariance, PTL DEF HistoryStable, EvolutionSpec

(* A branch shows what its head records (merge.go:424-434).                *)
THEOREM HeadsShownUnderAll == EvolutionSpec => []RefMatchesHead
<1>1. CourseInv => RefMatchesHead
  BY HeadState DEF RefMatchesHead, CourseInv, StoreInv
<1>2. QED
  BY <1>1, CourseInvariance, PTL

(* A commit of whatever origin lands on the head of that moment, with what *)
(* was submitted or merged over it (store.go:387-434).                     *)
THEOREM CommitsBuildOnHeadsUnderAll == EvolutionSpec => CommitsBuildOnHead
<1>1. CourseInv /\ ReviewInv /\ [EvolutionNext]_evolutionVars =>
        [\A c \in DOMAIN commits' \ DOMAIN commits :
           \E r \in Requests :
             LET head == refs[req[r].branch].head
             IN  /\ req[r].pc = "apply" /\ req'[r].pc # "apply"
                 /\ commits'[c].branch = req[r].branch
                 /\ commits'[c].first = head
                 /\ StateAtCommit(c)' = Apply(StateAtCommit(head), req[r].changes)
                 /\ req[r].expected \in {0, head}]_vars
  <2> SUFFICES ASSUME CourseInv, ReviewInv, [EvolutionNext]_evolutionVars,
                      NEW c \in DOMAIN commits' \ DOMAIN commits
               PROVE  \E r \in Requests :
                        LET head == refs[req[r].branch].head
                        IN  /\ req[r].pc = "apply" /\ req'[r].pc # "apply"
                            /\ commits'[c].branch = req[r].branch
                            /\ commits'[c].first = head
                            /\ StateAtCommit(c)' = Apply(StateAtCommit(head), req[r].changes)
                            /\ req[r].expected \in {0, head}
    OBVIOUS
  <2>1. PlainInv /\ (UNCHANGED vars \/ StoreMoves)
    BY StepMoves DEF CourseInv, StoreInv
  <2>2. commits' # commits
    OBVIOUS
  <2>3. PICK r \in Requests : Land(r)
    BY <2>1, <2>2, WhatMoves DEF CreateBranch
  <2>4. QED
    BY <2>1, <2>3, LandOnHead, Zenon
<1>2. QED
  BY <1>1, CourseInvariance, ReviewInvariance, PTL DEF CommitsBuildOnHead, EvolutionSpec

(* The live table of the store stays what the default branch is.           *)
LEMMA MovesKeepLive ==
  ASSUME LiveInv, PlainInv, PlainInv', UNCHANGED vars \/ StoreMoves
  PROVE  LiveInv'
<1>1. HistoryInv' /\ HistoryInv
  BY DEF PlainInv, LiveInv
<1>2. OnMain(Idle, refs[Main]) /\ Main \in DOMAIN refs
  BY DEF OnMain, Idle, LiveInv, HistoryInv, Inv, TypeOK
<1>3. CASE UNCHANGED vars
  BY <1>1, <1>3, LiveStays DEF vars
<1>4. ASSUME NEW r \in Requests, Submits(r) \/ Lock(r) \/ PlanMerge(r)  PROVE LiveInv'
  <2>1. \/ \E b, changes, expected : SubmitCommit(r, b, changes, expected)
        \/ \E kind, from, into, table : /\ kind = "update" => into # Main
                                        /\ SubmitMerge(r, kind, from, into, table)
        \/ Lock(r) \/ PlanMerge(r)
    BY <1>4, Zenon DEF Submits
  <2>2. QED
    BY <1>1, <2>1, LiveRequests, LiveStays
<1>5. ASSUME NEW r \in Requests, Land(r)  PROVE LiveInv'
  BY <1>1, <1>5, LiveLand
<1>6. ASSUME NEW r \in Requests, GivesUp(r)  PROVE LiveInv'
  <2>1. /\ UNCHANGED <<refs, commits, rows>> /\ UNCHANGED live
        /\ \A q \in Requests : req'[q] \in {req[q], Idle}
    BY <1>6, GivesUpKeeps DEF GivesUp
  <2>2. QED
    BY <1>1, <1>2, <2>1, LiveStays
<1>7. ASSUME NEW n, NEW from, CreateBranch(n, from)  PROVE LiveInv'
  <2>1. refs'[Main] = refs[Main] /\ UNCHANGED <<rows, live, req>>
    BY <1>2, <1>7 DEF CreateBranch
  <2>2. QED
    BY <1>1, <2>1, LiveStays
<1>8. QED
  BY <1>3, <1>4, <1>5, <1>6, <1>7, Zenon DEF StoreMoves

(* The application's table is the default branch at its head, whether      *)
(* commits, predicate writes or the merges of proposals changed it         *)
(* (DESIGN.md 6.1, store.go:454-458).                                      *)
THEOREM LiveFollowsMainUnderAll == EvolutionSpec => []LiveIsMain
<1>1. LiveInv => LiveIsMain
  BY DEF LiveInv
<1>2. EvolutionInit => LiveInv
  BY LiveInvInit DEF EvolutionInit
<1>3. CourseInv /\ CourseInv' /\ ReviewInv /\ LiveInv /\ [EvolutionNext]_evolutionVars
        => LiveInv'
  BY StepMoves, MovesKeepLive DEF CourseInv, StoreInv
<1>4. QED
  BY <1>1, <1>2, <1>3, CourseInvariance, ReviewInvariance, PTL DEF EvolutionSpec

-----------------------------------------------------------------------------
(* Pages of keys.                                                          *)

(* The keys are finitely many and stand in an order.                       *)
LEMMA KeysStandInOrder ==
  /\ IsFiniteSet(PKs)
  /\ \A pk \in PKs : Position(pk) \in Nat
  /\ \A pk, q \in PKs : Position(pk) = Position(q) => pk = q
<1>1. KeyOrder \in Seq(PKs) /\ DOMAIN KeyOrder = 1 .. Len(KeyOrder) /\ Len(KeyOrder) \in Nat
  BY QueriesAssumption
<1>2. \A pk \in PKs : \E i \in DOMAIN KeyOrder : KeyOrder[i] = pk
  BY QueriesAssumption
<1>3. \A pk \in PKs : Position(pk) \in DOMAIN KeyOrder /\ KeyOrder[Position(pk)] = pk
  BY <1>2 DEF Position
<1>4. IsFiniteSet(PKs)
  <2>1. KeyOrder \in Seq(PKs) /\ \A pk \in PKs : \E i \in 1 .. Len(KeyOrder) : KeyOrder[i] = pk
    BY <1>1, <1>2
  <2>2. \E s \in Seq(PKs) : \A pk \in PKs : \E i \in 1 .. Len(s) : s[i] = pk
    BY <2>1
  <2>3. QED
    BY ONLY <2>2, Zenon DEF IsFiniteSet
<1>5. \A pk \in PKs : Position(pk) \in Nat
  <2>1. \A i \in DOMAIN KeyOrder : i \in Nat
    BY <1>1
  <2>2. QED
    BY ONLY <2>1, <1>3
<1>6. \A pk, q \in PKs : Position(pk) = Position(q) => pk = q
  BY <1>3
<1>7. QED
  BY <1>4, <1>5, <1>6

(* The keys before one.                                                    *)
Before(keys, pk) == {q \in keys : Position(q) < Position(pk)}

LEMMA BeforeFinite ==
  ASSUME NEW keys \in SUBSET PKs, NEW some \in SUBSET keys
  PROVE  /\ IsFiniteSet(keys) /\ IsFiniteSet(some)
         /\ Cardinality(keys) \in Nat /\ Cardinality(some) \in Nat
         /\ Cardinality(some) <= Cardinality(keys)
<1>1. IsFiniteSet(keys)
  BY KeysStandInOrder, FS_Subset
<1>2. IsFiniteSet(some) /\ Cardinality(some) <= Cardinality(keys)
  BY <1>1, FS_Subset
<1>3. QED
  BY <1>1, <1>2, FS_CardinalityType

(* Keys of which there are any have a first one.                           *)
LEMMA FirstKey ==
  ASSUME NEW keys \in SUBSET PKs, keys # {}
  PROVE  \E pk \in keys : \A q \in keys : Position(pk) <= Position(q)
<1> DEFINE T == {Position(pk) : pk \in keys}
<1>1. T \in SUBSET Nat /\ T # {}
  BY KeysStandInOrder
<1>2. PICK n \in T : \A m \in T : n <= m
  <2> HIDE DEF T
  <2>1. QED
    BY <1>1, NatLeast
<1>3. QED
  BY <1>2

(* The first n of some keys: their predecessors are among them.            *)
LEMMA FirstAreFirst ==
  ASSUME NEW keys \in SUBSET PKs, NEW n \in Nat, NEW pk \in FirstOf(keys, n), NEW q \in keys,
         Position(q) <= Position(pk)
  PROVE  q \in FirstOf(keys, n)
<1>1. pk \in keys /\ Cardinality(Before(keys, pk)) < n
  BY DEF FirstOf, Before
<1>2. Position(q) \in Nat /\ Position(pk) \in Nat /\ \A k \in keys : Position(k) \in Nat
  BY <1>1, KeysStandInOrder
<1>3. Before(keys, q) \subseteq Before(keys, pk)
  BY <1>2 DEF Before
<1>4. PICK less, more : less = Before(keys, q) /\ more = Before(keys, pk)
  OBVIOUS
<1>5. more \in SUBSET PKs /\ less \in SUBSET more
  BY <1>3, <1>4 DEF Before
<1>6. Cardinality(less) <= Cardinality(more) /\ Cardinality(less) \in Nat
        /\ Cardinality(more) \in Nat
  BY <1>5, BeforeFinite
<1>7. QED
  BY <1>1, <1>4, <1>6 DEF FirstOf, Before

(* And they are n, unless these are all.                                   *)
LEMMA FirstAreMany ==
  ASSUME NEW keys \in SUBSET PKs, NEW n \in Nat, FirstOf(keys, n) # keys
  PROVE  Cardinality(FirstOf(keys, n)) >= n
<1>1. FirstOf(keys, n) \in SUBSET keys
  BY DEF FirstOf
<1>2. PICK first : first = FirstOf(keys, n)
  OBVIOUS
<1>3. keys \ first \in SUBSET PKs /\ keys \ first # {}
  BY <1>1, <1>2
<1>4. PICK pk \in keys \ first : \A q \in keys \ first : Position(pk) <= Position(q)
  BY <1>3, FirstKey
<1>5. Before(keys, pk) \subseteq first
  <2>1. \A q \in keys : Position(q) \in Nat
    BY KeysStandInOrder
  <2>2. QED
    BY <1>4, <2>1 DEF Before
<1>6. PICK less : less = Before(keys, pk)
  OBVIOUS
<1>7. first \in SUBSET PKs /\ less \in SUBSET first
  BY <1>1, <1>2, <1>5, <1>6
<1>8. /\ Cardinality(less) <= Cardinality(first)
      /\ Cardinality(less) \in Nat /\ Cardinality(first) \in Nat
  BY <1>7, BeforeFinite
<1>9. ~(Cardinality(less) < n)
  BY <1>2, <1>4, <1>6 DEF FirstOf, Before
<1>10. QED
  BY <1>2, <1>8, <1>9

(* Some keys are the first of all of them, and n if they are not all.      *)
StartOf(some, all, n) ==
  /\ some \subseteq all
  /\ \A pk \in some, q \in all : Position(q) <= Position(pk) => q \in some
  /\ some # all => Cardinality(some) >= n

(* The keys of several lists, and of the first n of each.                  *)
InAny(arms) == UNION {arms[i] : i \in DOMAIN arms}
FirstInAny(arms, n) == UNION {FirstOf(arms[i], n) : i \in DOMAIN arms}

(* The first of the first of several lists, as pass 1 takes them in every  *)
(* arm and of the union (postgres.go:240-300): the first of all of them.   *)
LEMMA FirstOfArms ==
  ASSUME NEW arms, \A i \in DOMAIN arms : arms[i] \in SUBSET PKs, NEW n \in Nat
  PROVE  StartOf(FirstOf(FirstInAny(arms, n), n), InAny(arms), n)
<1> DEFINE union == FirstInAny(arms, n)
           I == DOMAIN arms
<1>0. PICK all, some : all = InAny(arms) /\ some = FirstOf(FirstInAny(arms, n), n)
  OBVIOUS
<1>1. /\ \A i \in I : arms[i] \in SUBSET PKs /\ FirstOf(arms[i], n) \subseteq arms[i]
      /\ all \in SUBSET PKs /\ \A i \in I : arms[i] \subseteq all
      /\ \A q \in all : \E i \in I : q \in arms[i]
  BY <1>0 DEF FirstOf, InAny
<1>2. PICK both : both = union
  OBVIOUS
<1>3. /\ both \in SUBSET PKs /\ both \subseteq all
      /\ \A i \in I : FirstOf(arms[i], n) \subseteq both
  <2>1. \A q \in both : \E i \in I : q \in FirstOf(arms[i], n)
    BY <1>2 DEF FirstInAny
  <2>2. \A i \in I : FirstOf(arms[i], n) \subseteq both
    BY <1>2 DEF FirstInAny
  <2>3. QED
    BY <1>1, <2>1, <2>2
<1>4. some = FirstOf(both, n) /\ some \subseteq both
  BY <1>0, <1>2 DEF FirstOf
<1> HIDE DEF union
<1>5. \A pk \in PKs : Position(pk) \in Nat
  BY KeysStandInOrder
<1>6. ASSUME NEW i \in I, NEW q \in arms[i], q \notin both
      PROVE  \E first \in SUBSET both : /\ Cardinality(first) >= n
                                        /\ \A f \in first : Position(f) < Position(q)
  <2>1. PICK arm, first : arm = arms[i] /\ first = FirstOf(arm, n)
    OBVIOUS
  <2>2. /\ arm \in SUBSET PKs /\ first \subseteq arm /\ first \subseteq both
        /\ q \in arm /\ q \notin first
    BY <1>1, <1>3, <1>6, <2>1
  <2>3. Cardinality(first) >= n
    <3>1. FirstOf(arm, n) # arm
      BY <2>1, <2>2
    <3>2. QED
      BY <2>1, <2>2, <3>1, FirstAreMany
  <2>4. ASSUME NEW f \in first  PROVE Position(f) < Position(q)
    <3>1. ~(Position(q) <= Position(f))
      BY <2>1, <2>2, <2>4, FirstAreFirst
    <3>2. QED
      BY <1>5, <2>2, <3>1
  <2>5. QED
    BY <2>2, <2>3, <2>4
<1>7. ASSUME NEW pk \in some, NEW q \in all, Position(q) <= Position(pk)  PROVE q \in some
  <2>1. CASE q \in both
    BY <1>3, <1>4, <1>7, <2>1, FirstAreFirst
  <2>2. CASE q \notin both
    <3>1. PICK i \in I : q \in arms[i]
      BY <1>1, <1>7
    <3>2. PICK first \in SUBSET both : /\ Cardinality(first) >= n
                                       /\ \A f \in first : Position(f) < Position(q)
      BY <1>6, <2>2, <3>1
    <3>3. PICK before : before = Before(both, pk)
      OBVIOUS
    <3>4. before \in SUBSET PKs /\ Cardinality(before) < n
      BY <1>3, <1>4, <1>7, <3>3 DEF FirstOf, Before
    <3>5. first \in SUBSET before
      <4>1. \A f \in first : f \in PKs /\ q \in PKs /\ pk \in PKs
        BY <1>1, <1>3, <1>4, <1>7, <3>2
      <4>2. \A f \in first : Position(f) < Position(pk)
        BY <1>5, <1>7, <3>2, <4>1
      <4>3. QED
        BY <3>2, <3>3, <4>2 DEF Before
    <3>6. Cardinality(first) <= Cardinality(before) /\ Cardinality(first) \in Nat
            /\ Cardinality(before) \in Nat
      BY <3>4, <3>5, BeforeFinite
    <3>7. QED
      BY <3>2, <3>4, <3>6
  <2>3. QED
    BY <2>1, <2>2
<1>8. ASSUME some # all  PROVE Cardinality(some) >= n
  <2>1. CASE some # both
    BY <1>3, <1>4, <2>1, FirstAreMany
  <2>2. CASE some = both
    <3>1. PICK q \in all : q \notin both
      BY <1>3, <1>8, <2>2
    <3>2. PICK i \in I : q \in arms[i]
      BY <1>1
    <3>3. PICK first \in SUBSET both : Cardinality(first) >= n
      BY <1>6, <3>1, <3>2
    <3>4. Cardinality(first) <= Cardinality(both) /\ Cardinality(first) \in Nat
            /\ Cardinality(both) \in Nat
      BY <1>3, BeforeFinite
    <3>5. QED
      BY <2>2, <3>3, <3>4
  <2>3. QED
    BY <2>1, <2>2
<1>9. QED
  BY <1>0, <1>3, <1>4, <1>7, <1>8 DEF StartOf

(* A page shows what is due in order, and comes out short only when more   *)
(* keys than its limit are stale.                                          *)
IsPage(page, due, limit, stale) ==
  /\ page \subseteq due
  /\ \A pk \in due \ page, q \in page : Position(q) < Position(pk)
  /\ page # due => limit > 0 /\ Cardinality(stale) > limit

(* A page of what matches among the candidates.                            *)
LEMMA PageOf ==
  ASSUME NEW all \in SUBSET PKs, NEW some, NEW limit \in Nat, NEW good,
         StartOf(some, all, 2 * limit)
  PROVE  IsPage(FirstOf(some \cap good, limit), FirstOf(all \cap good, limit), limit,
                all \ good)
<1> DEFINE page == FirstOf(some \cap good, limit)
           due == FirstOf(all \cap good, limit)
<1>0. /\ some \in SUBSET all
      /\ \A pk \in some, q \in all : Position(q) <= Position(pk) => q \in some
      /\ some # all => Cardinality(some) >= 2 * limit
  BY DEF StartOf
<1>1. PICK found, rest : found = some \cap good /\ rest = all \cap good
  OBVIOUS
<1>2. /\ found \in SUBSET PKs /\ rest \in SUBSET PKs /\ found \subseteq rest
      /\ page = FirstOf(found, limit) /\ due = FirstOf(rest, limit)
      /\ page \subseteq found /\ due \subseteq rest
  BY <1>0, <1>1 DEF FirstOf
<1> HIDE DEF page, due
<1>3. \A pk \in PKs : Position(pk) \in Nat
  BY KeysStandInOrder
<1>4. ASSUME NEW pk \in found  PROVE Before(found, pk) = Before(rest, pk)
  <2>1. \A q \in rest : Position(q) < Position(pk) => q \in found
    BY <1>0, <1>1, <1>3
  <2>2. QED
    BY <1>2, <2>1 DEF Before
<1>5. \A pk \in found : pk \in page <=> pk \in due
  <2>1. \A pk \in found : /\ pk \in page <=> Cardinality(Before(found, pk)) < limit
                          /\ pk \in due <=> Cardinality(Before(rest, pk)) < limit
    BY <1>2 DEF FirstOf, Before
  <2>2. QED
    BY <1>4, <2>1
<1>6. page \subseteq due
  BY <1>2, <1>5
<1>7. ASSUME NEW pk \in due \ page, NEW q \in page  PROVE Position(q) < Position(pk)
  <2>1. pk \in all /\ pk \in good /\ pk \notin found /\ q \in some
    BY <1>0, <1>1, <1>2, <1>5, <1>7
  <2>2. ~(Position(pk) <= Position(q))
    BY <1>0, <1>1, <2>1
  <2>3. QED
    BY <1>0, <1>3, <2>1, <2>2
<1>8. ASSUME page # due  PROVE limit > 0 /\ Cardinality(all \ good) > limit
  <2>1. PICK pk \in due : pk \notin page
    BY <1>6, <1>8
  <2>2. pk \in all /\ pk \in good /\ pk \in rest /\ pk \notin some
    BY <1>0, <1>1, <1>2, <1>5, <2>1
  <2>3. PICK before : before = Before(rest, pk)
    OBVIOUS
  <2>4. Cardinality(before) < limit
    BY <1>2, <2>1, <2>3 DEF FirstOf, Before
  <2>5. found \in SUBSET before
    <3>1. \A q \in found : Position(q) < Position(pk)
      BY <1>0, <1>1, <1>3, <2>2
    <3>2. QED
      BY <1>2, <2>3, <3>1 DEF Before
  <2>6. before \in SUBSET PKs
    BY <1>2, <2>3 DEF Before
  <2>7. Cardinality(found) <= Cardinality(before) /\ Cardinality(found) \in Nat
          /\ Cardinality(before) \in Nat
    BY <2>5, <2>6, BeforeFinite
  <2>8. Cardinality(some) >= 2 * limit
    BY <1>0, <2>2
  <2>9. PICK bad, stale : bad = some \ good /\ stale = all \ good
    OBVIOUS
  <2>10. IsFiniteSet(some) /\ Cardinality(some) \in Nat
    BY <1>0, BeforeFinite
  <2>11. Cardinality(bad) = Cardinality(some) - Cardinality(found)
    BY <1>1, <2>9, <2>10, FS_Difference
  <2>12. bad \in SUBSET stale /\ stale \in SUBSET PKs
    BY <1>0, <2>9
  <2>13. Cardinality(bad) <= Cardinality(stale) /\ Cardinality(bad) \in Nat
           /\ Cardinality(stale) \in Nat
    BY <2>12, BeforeFinite
  <2>14. QED
    BY <2>4, <2>7, <2>8, <2>9, <2>10, <2>11, <2>13
<1>9. QED
  BY <1>6, <1>7, <1>8 DEF IsPage, page, due

(* What a branch shows that matches has a version that matches.            *)
LEMMA MatchesAreCandidates ==
  ASSUME NEW chain, NEW filter, NEW pk \in PKs, CurrentRow(chain, pk) # Absent,
         Matches(filter, CurrentRow(chain, pk))
  PROVE  \E i \in DOMAIN chain : \E v \in Hits(chain, i, pk) :
           v.row # Absent /\ Matches(filter, v.row)
<1>1. PICK found : found = FirstHits(chain, pk)
  OBVIOUS
<1>2. found # {} /\ CurrentRow(chain, pk) = (CHOOSE v \in found : TRUE).row
  BY <1>1 DEF CurrentRow
<1>3. PICK v \in found : v.row = CurrentRow(chain, pk)
  BY <1>2
<1>4. PICK i \in DOMAIN chain : v \in Hits(chain, i, pk)
  BY <1>1, <1>3 DEF FirstHits
<1>5. QED
  BY <1>3, <1>4

(* What a filtered read is to show, and the page of it that is asked for.  *)
Good(chain, filter) ==
  {pk \in PKs : CurrentRow(chain, pk) # Absent /\ Matches(filter, CurrentRow(chain, pk))}
Due(chain, filter, limit, after) ==
  IF limit = 0 THEN Good(chain, filter)
  ELSE FirstOf(Beyond(Good(chain, filter), after), limit)

(* Whatever the versions and the chain, a filtered read shows what         *)
(* matches, and a page of it comes out short only when the versions that   *)
(* no longer count use up its candidates (postgres.go:207-350).            *)
LEMMA ReadsArePages ==
  ASSUME NEW chain, NEW filter, filter # NoFilter, NEW limit \in Nat, NEW after
  PROVE  IsPage(Read(chain, filter, limit, after),
                Due(chain, filter, limit, after), limit,
                Candidates(chain, filter, 0, NoKey) \ Good(chain, filter))
<1>0. PICK page, good, due, stale :
        /\ page = Read(chain, filter, limit, after)
        /\ good = Good(chain, filter)
        /\ due = Due(chain, filter, limit, after)
        /\ stale = Candidates(chain, filter, 0, NoKey) \ good
  OBVIOUS
<1> DEFINE arm(i) == {pk \in PKs : \E v \in Hits(chain, i, pk) :
                                     v.row # Absent /\ Matches(filter, v.row)}
<1>1. PICK all : all = UNION {arm(i) : i \in DOMAIN chain}
  OBVIOUS
<1>2. Candidates(chain, filter, 0, NoKey) = all
  BY <1>1 DEF Candidates
<1>3. good \subseteq all /\ all \in SUBSET PKs
  BY <1>0, <1>1, MatchesAreCandidates DEF Good
<1>4. \A keys \in SUBSET PKs : Resolved(chain, filter, keys) = keys \cap good
  BY <1>0 DEF Resolved, Good
<1>5. CASE limit = 0
  <2>1. page = Resolved(chain, filter, all)
    <3>1. Candidates(chain, filter, 0, after) = all
      BY <1>1, <1>5 DEF Candidates
    <3>2. QED
      BY <1>0, <1>5, <3>1 DEF Read
  <2>2. page = good /\ due = good
    BY <1>0, <1>3, <1>4, <1>5, <2>1 DEF Due
  <2>3. IsPage(page, due, limit, stale)
    BY <2>2 DEF IsPage
  <2>4. QED
    BY <1>0, <2>3
<1>6. CASE limit # 0
  <2>1. PICK arms : arms = [i \in DOMAIN chain |-> Beyond(arm(i), after)]
    OBVIOUS
  <2>2. PICK beyond, some, n : /\ beyond = InAny(arms)
                               /\ some = Candidates(chain, filter, limit, after)
                               /\ n = 2 * limit
    OBVIOUS
  <2>3. n \in Nat
    BY <2>2
  <2>4. some = FirstOf(FirstInAny(arms, n), n)
    <3>1. FirstInAny(arms, n)
            = UNION {FirstOf(Beyond(arm(i), after), 2 * limit) : i \in DOMAIN chain}
      <4>1. DOMAIN arms = DOMAIN chain
        BY <2>1
      <4>2. \A i \in DOMAIN chain : FirstOf(arms[i], n) = FirstOf(Beyond(arm(i), after), 2 * limit)
        <5>1. \A i \in DOMAIN chain : arms[i] = Beyond(arm(i), after)
          BY <2>1
        <5>2. QED
          BY <2>2, <5>1
      <4>3. {FirstOf(arms[i], n) : i \in DOMAIN arms}
              = {FirstOf(Beyond(arm(i), after), 2 * limit) : i \in DOMAIN chain}
        BY <4>1, <4>2
      <4>4. QED
        BY ONLY <4>3, Zenon DEF FirstInAny
    <3>2. QED
      BY <1>6, <2>2, <3>1 DEF Candidates
  <2>5. \A i \in DOMAIN arms : arms[i] \in SUBSET PKs
    BY <2>1 DEF Beyond
  <2>6. beyond = Beyond(all, after)
    BY <1>1, <2>1, <2>2 DEF Beyond, InAny
  <2> HIDE DEF arm
  <2>7. StartOf(some, beyond, n)
    <3>1. StartOf(FirstOf(FirstInAny(arms, n), n), InAny(arms), n)
      BY <2>3, <2>5, FirstOfArms
    <3>2. QED
      BY <2>2, <2>4, <3>1
  <2>8. /\ beyond \in SUBSET PKs /\ beyond \subseteq all
        /\ Beyond(good, after) = beyond \cap good
    BY <1>3, <2>6 DEF Beyond
  <2>9. page = FirstOf(some \cap good, limit)
    <3>1. some \in SUBSET PKs
      BY <2>7, <2>8 DEF StartOf
    <3>2. QED
      BY <1>0, <1>4, <1>6, <2>2, <3>1 DEF Read
  <2>10. due = FirstOf(beyond \cap good, limit)
    BY <1>0, <1>6, <2>8 DEF Due
  <2>11. StartOf(some, beyond, 2 * limit)
    BY <2>2, <2>7
  <2>12. PICK old : old = beyond \ good
    OBVIOUS
  <2>13. IsPage(page, due, limit, old)
    <3>1. IsPage(FirstOf(some \cap good, limit), FirstOf(beyond \cap good, limit), limit,
                 beyond \ good)
      BY <2>8, <2>11, PageOf
    <3>2. QED
      BY <2>9, <2>10, <2>12, <3>1
  <2>14. old \in SUBSET stale /\ stale \in SUBSET PKs
    BY <1>0, <1>2, <1>3, <2>8, <2>12
  <2>15. Cardinality(old) <= Cardinality(stale) /\ Cardinality(old) \in Nat
           /\ Cardinality(stale) \in Nat
    BY <2>14, BeforeFinite
  <2>16. IsPage(page, due, limit, stale)
    <3>1. page # due => limit > 0 /\ Cardinality(stale) > limit
      BY <2>13, <2>15 DEF IsPage
    <3>2. QED
      BY <2>13, <3>1, Zenon DEF IsPage
  <2>17. QED
    BY <1>0, <2>16
<1>7. QED
  BY <1>5, <1>6

(* A page of a filtered read has only rows that match, in key order and    *)
(* without a gap; it comes out short only when more keys than its limit    *)
(* match in an old version alone; without a limit it is what matches       *)
(* (adapter/postgres/postgres.go:207-221, 240-350).                        *)
THEOREM PagesAreExact == EvolutionSpec => []PagesExact
<1>1. PagesExact
  <2>1. ASSUME NEW b \in DOMAIN refs, NEW filter \in Filters, NEW limit \in 0 .. 2,
               NEW after \in PKs \cup {NoKey}
        PROVE  LET chain == refs[b].chain
                   page == Read(chain, filter, limit, after)
                   all == {pk \in PKs : /\ CurrentRow(chain, pk) # Absent
                                        /\ Matches(filter, CurrentRow(chain, pk))}
                   rest == IF limit = 0 THEN all ELSE Beyond(all, after)
                   due == IF limit = 0 THEN rest ELSE FirstOf(rest, limit)
                   stale == Candidates(chain, filter, 0, NoKey) \ all
               IN  /\ page \subseteq due
                   /\ \A pk \in due \ page, q \in page : Position(q) < Position(pk)
                   /\ page # due => limit > 0 /\ Cardinality(stale) > limit
    <3>1. limit \in Nat /\ filter # NoFilter
      BY QueriesAssumption
    <3>2. PICK chain : chain = refs[b].chain
      OBVIOUS
    <3>3. IsPage(Read(chain, filter, limit, after), Due(chain, filter, limit, after), limit,
                 Candidates(chain, filter, 0, NoKey) \ Good(chain, filter))
      BY <3>1, ReadsArePages
    <3>4. Due(chain, filter, limit, after)
            = IF limit = 0 THEN IF limit = 0 THEN Good(chain, filter)
                                ELSE Beyond(Good(chain, filter), after)
              ELSE FirstOf(IF limit = 0 THEN Good(chain, filter)
                           ELSE Beyond(Good(chain, filter), after), limit)
      BY DEF Due
    <3>5. QED
      BY <3>2, <3>3, <3>4, Zenon DEF IsPage, Good
  <2>2. QED
    BY <2>1, Zenon DEF PagesExact
<1>2. QED
  BY <1>1, PTL
=============================================================================
