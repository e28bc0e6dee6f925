----------------------------- MODULE BranchStore -----------------------------
(***************************************************************************)
(* Commits, forks, merges and updates of internal/store, run by concurrent *)
(* requests against one database.                                          *)
(*                                                                         *)
(* A transaction runs at READ COMMITTED (PostgreSQL's default, which the   *)
(* pool keeps): every statement sees what has been committed so far, and   *)
(* the transaction's own writes appear together when it commits.  A step   *)
(* of a request is therefore one read of a ref, or the reads and the       *)
(* writes of a transaction from its last ref read to its commit.           *)
(*                                                                         *)
(* A key stands for a key of one table: Tables partitions the keys.  Every *)
(* request names one table, while the refs and the commits belong to the   *)
(* repository and are shared by all of them.                               *)
(***************************************************************************)
EXTENDS Rows

CONSTANTS
  Branches, Main, ChangeSets, MaxCommits, MaxSeq,
  MaxChainDepth,  \* the longest chain a fork may have
  Tables,         \* the tracked tables, each the set of its keys
  AuditTables,    \* those tracked in audit mode: their commits take no lock
  Requests,       \* requests served at the same time
  Kinds,          \* what requests may ask: "commit", "expect" (a commit that
                  \* names the head it expects), "merge", "update"
  NoRequest,      \* holder of a free ref lock
  SessionIds,     \* sessions that may stage versions (module StoreSessions)
  NoSession       \* the session of a version that is not staged

ASSUME StoreAssumption ==
  /\ Main \in Branches
  /\ AuditTables \subseteq Tables
  /\ UNION Tables = PKs
  /\ Kinds \subseteq {"commit", "expect", "merge", "update"}
  /\ \A t, u \in Tables : t # u => t \cap u = {}
  /\ ChangeSets \subseteq ChangeSet
  /\ \A cs \in ChangeSets : \E t \in Tables : DOMAIN cs \subseteq t
  /\ {MaxCommits, MaxChainDepth} \subseteq Nat \ {0}
  /\ MaxSeq \in Nat /\ MaxSeq > MaxCommits
  /\ NoRequest \notin Requests
  /\ NoSession \notin SessionIds

VARIABLES
  refs,      \* datagit_ref: branch -> head, headSeq, parent, stored chain
  commits,   \* datagit_commit, in order of insertion
  rows,      \* the sidecar: row versions
  live,      \* the application's own table
  lock,      \* holder of each branch's ref lock
  req        \* what each request is doing

vars == <<refs, commits, rows, live, lock, req>>

Segment(b, seq) == [branch |-> b, seq |-> seq]

RootCommit == [first |-> 0, others |-> {}, branch |-> Main, seq |-> 0,
               chain |-> <<Segment(Main, 0)>>]

NoRef == [head |-> 0, headSeq |-> 0, parent |-> Main, chain |-> <<>>]

(* A request: where it is, what it was asked, the ref it read of the       *)
(* branch it writes and the one it read of the branch it takes from.       *)
Idle == [pc |-> "idle", kind |-> "none", branch |-> Main, table |-> {},
         changes |-> <<>>, others |-> {}, expected |-> 0, ref |-> NoRef, source |-> NoRef]

Init ==
  /\ refs = [b \in {Main} |->
       [head |-> 1, headSeq |-> 0, parent |-> Main, chain |-> <<Segment(Main, 0)>>]]
  /\ commits = <<RootCommit>>
  /\ rows = {}
  /\ live = EmptyTable
  /\ lock = [b \in Branches |-> NoRequest]
  /\ req = [r \in Requests |-> Idle]

-----------------------------------------------------------------------------
(* Resolution: the stored chain, its own branch first, as it stands.       *)

Hits(chain, i, pk) ==
  {v \in rows : /\ v.pk = pk /\ v.branch = chain[i].branch /\ v.session = NoSession
                /\ v.from <= chain[i].seq /\ chain[i].seq < v.to}

(* The versions of pk in the highest-priority segment that has one.        *)
FirstHits(chain, pk) ==
  UNION {Hits(chain, i, pk) : i \in {k \in DOMAIN chain :
                                      \A j \in 1 .. k - 1 : Hits(chain, j, pk) = {}}}

CurrentRow(chain, pk) ==
  LET found == FirstHits(chain, pk)
  IN  IF found = {} THEN Absent ELSE (CHOOSE v \in found : TRUE).row

ResolveMap(chain) == [pk \in PKs |-> CurrentRow(chain, pk)]

StateAtCommit(c) == ResolveMap(commits[c].chain)

Apply(table, changes) ==
  [pk \in PKs |-> IF pk \in DOMAIN changes THEN changes[pk] ELSE table[pk]]

-----------------------------------------------------------------------------
(* Commit.                                                                 *)

TableOf(changes) == CHOOSE t \in Tables : DOMAIN changes \subseteq t

(* A client may name the head it last saw, and does so for the head of now *)
(* or not at all.                                                          *)
SubmitCommit(r, b, changes, expected) ==
  /\ req[r] = Idle
  /\ req' = [req EXCEPT ![r] =
       [Idle EXCEPT !.pc = "begin", !.kind = "commit", !.branch = b,
                    !.table = TableOf(changes), !.changes = changes, !.expected = expected]]
  /\ UNCHANGED <<refs, commits, rows, live, lock>>

Audit(r) == req[r].table \in AuditTables

(* Mutant: the advisory lock excludes nobody.                              *)
LockUnguarded(r) ==
  /\ req[r].pc = "begin" /\ ~Audit(r)
  /\ lock' = [lock EXCEPT ![req[r].branch] = r]
  /\ req' = [req EXCEPT ![r].pc = "apply", ![r].ref = refs[req[r].branch]]
  /\ UNCHANGED <<refs, commits, rows, live>>

(* A versioned table: queue for the ref lock, then read the ref under it.  *)
(* (The read before queueing only learns the branch's id.)                 *)
Lock(r) ==
  /\ req[r].pc = "begin" /\ ~Audit(r)
  /\ lock[req[r].branch] = NoRequest
  /\ lock' = [lock EXCEPT ![req[r].branch] = r]
  /\ req' = [req EXCEPT ![r].pc = "apply", ![r].ref = refs[req[r].branch]]
  /\ UNCHANGED <<refs, commits, rows, live>>

(* An audit-mode table: no lock; the ref as it is now.                     *)
ReadUnlocked(r) ==
  /\ req[r].pc = "begin" /\ Audit(r)
  /\ req' = [req EXCEPT ![r].pc = "apply", ![r].ref = refs[req[r].branch]]
  /\ UNCHANGED <<refs, commits, rows, live, lock>>

(* Mutant: the lock outlives the transaction.                              *)
ReleaseNothing(r) == UNCHANGED lock

(* The end of r's transaction, whatever its outcome, frees its locks.      *)
Release(r) == lock' = [b \in Branches |-> IF lock[b] = r THEN NoRequest ELSE lock[b]]

Finish(r) == Release(r) /\ req' = [req EXCEPT ![r] = Idle]

NextSeq(r) == req[r].ref.headSeq + 1

(* Mutant: the current row is looked up in the branch's own segment only.  *)
EffectiveInOwnSegment(r) ==
  {pk \in DOMAIN req[r].changes :
     req[r].changes[pk] # CurrentRow(<<Head(req[r].ref.chain)>>, pk)}

(* The keys the transaction writes: the rest of the changes are no-ops.    *)
Effective(r) ==
  {pk \in DOMAIN req[r].changes :
     req[r].changes[pk] # CurrentRow(req[r].ref.chain, pk)}

(* Mutant: datagit_commit does not keep (branch, seq) unique.              *)
CollidesOnKeysOnly(r) ==
  \E v \in rows : v.branch = req[r].branch /\ v.from = NextSeq(r) /\ v.pk \in Effective(r)

(* The unique keys of datagit_commit (branch, seq) and of the sidecar      *)
(* (branch, key, seq_from).                                                *)
Collides(r) ==
  \/ \E c \in DOMAIN commits : commits[c].branch = req[r].branch /\ commits[c].seq = NextSeq(r)
  \/ \E v \in rows : v.branch = req[r].branch /\ v.from = NextSeq(r) /\ v.pk \in Effective(r)

(* Mutant: the expected head is ignored.                                   *)
MovedIgnored(r) == FALSE

Moved(r) == req[r].expected \notin {0, req[r].ref.head}

(* Bound: no commit beyond MaxCommits.                                     *)
Full == Len(commits) = MaxCommits

(* A client that named another head, or a key that another request took.   *)
(* Requests that deadlock over the ref row and a key end the same way: one *)
(* of them is refused.                                                     *)
Refuse(r) ==
  /\ req[r].pc = "apply"
  /\ Moved(r) \/ Collides(r) \/ Full
  /\ Finish(r)
  /\ UNCHANGED <<refs, commits, rows, live>>

-----------------------------------------------------------------------------
(* Mutants: a version is closed one too early; the live table follows      *)
(* every branch.                                                           *)
CloseOpenEarly(b, keys, seq) ==
  {IF v.branch = b /\ v.pk \in keys /\ v.session = NoSession /\ v.to = MaxSeq
   THEN [v EXCEPT !.to = seq - 1] ELSE v : v \in rows}
ApplyLiveAlways(b, changes) == live' = Apply(live, changes)

CloseOpen(b, keys, seq) ==
  {IF v.branch = b /\ v.pk \in keys /\ v.session = NoSession /\ v.to = MaxSeq
   THEN [v EXCEPT !.to = seq] ELSE v : v \in rows}

(* The live table is the default branch's.                                 *)
ApplyLive(b, changes) ==
  IF b = Main THEN live' = Apply(live, changes) ELSE UNCHANGED live

Version(b, pk, seq, changed, row) ==
  [branch |-> b, pk |-> pk, from |-> seq, to |-> MaxSeq, session |-> NoSession,
   changed |-> changed, row |-> row]

(* One transaction: live rows, versions, commit record and ref together.   *)
(* An update goes on to advance the fork point; a commit or a merge is     *)
(* done.                                                                   *)
Land(r) ==
  LET b == req[r].branch
      seq == NextSeq(r)
      keys == Effective(r)
      changes == [pk \in keys |-> req[r].changes[pk]]
      chain == <<Segment(b, seq)>> \o Tail(req[r].ref.chain)
  IN  /\ req[r].pc = "apply"
      /\ ~(Moved(r) \/ Collides(r) \/ Full)
      /\ ApplyLive(b, changes)
      /\ rows' = CloseOpen(b, keys, seq) \cup
           {Version(b, pk, seq, MaskOf(CurrentRow(req[r].ref.chain, pk), changes[pk]),
                    changes[pk]) : pk \in keys}
      /\ commits' = Append(commits,
           [first |-> req[r].ref.head, others |-> req[r].others, branch |-> b,
            seq |-> seq, chain |-> chain])
      /\ refs' = [refs EXCEPT ![b].head = Len(commits) + 1, ![b].headSeq = seq,
                              ![b].chain = chain]
      /\ Release(r)
      /\ req' = [req EXCEPT ![r] =
           IF @.kind = "update" THEN [Idle EXCEPT !.pc = "parent", !.branch = b] ELSE Idle]

(* The process dies, or its client gives up: what is not committed is      *)
(* rolled back.                                                            *)
Crash(r) ==
  /\ req[r] # Idle
  /\ Finish(r)
  /\ UNCHANGED <<refs, commits, rows, live>>

-----------------------------------------------------------------------------
(* Branches.                                                               *)

(* Mutant: the stored chain leaves out the branch itself.                  *)
ForkChainInherited(n, from) ==
  <<Segment(from, refs[from].headSeq)>> \o Tail(refs[from].chain)

(* Mutant: what the parent inherits is left out.                           *)
ForkChainShallow(n, from) == <<Segment(n, 0), Segment(from, refs[from].headSeq)>>

(* The child's tail is the parent pinned at its head and what the parent   *)
(* inherits.                                                               *)
ForkChain(n, from) ==
  <<Segment(n, 0), Segment(from, refs[from].headSeq)>> \o Tail(refs[from].chain)

CreateBranch(n, from) ==
  /\ n \notin DOMAIN refs
  /\ Len(ForkChain(n, from)) <= MaxChainDepth
  /\ refs' = [b \in DOMAIN refs \cup {n} |->
       IF b = n THEN [head |-> refs[from].head, headSeq |-> 0, parent |-> from,
                      chain |-> ForkChain(n, from)]
                ELSE refs[b]]
  /\ UNCHANGED <<commits, rows, live, lock, req>>

-----------------------------------------------------------------------------
(* Merging.                                                                *)

Parents(c) == commits[c].others \cup ({commits[c].first} \ {0})

(* Breadth-first reach over the commit graph: n rounds from commit c.      *)
Reach(c) ==
  LET level[n \in 0 .. Len(commits)] ==
        IF n = 0 THEN {c} ELSE level[n - 1] \cup UNION {Parents(d) : d \in level[n - 1]}
  IN  level[Len(commits)]

MergeBases(c, d) ==
  LET common == Reach(c) \cap Reach(d)
  IN  {x \in common : \A y \in common \ {x} : x \notin Reach(y)}

(* What a chain covers of branch b: 0 when it has no segment of b.         *)
Upper(chain, b) ==
  IF \E i \in DOMAIN chain : chain[i].branch = b
  THEN chain[CHOOSE i \in DOMAIN chain : chain[i].branch = b].seq ELSE 0

(* Mutant: only what the chain gained since the base.                      *)
MaskSinceForward(chain, base, pk) ==
  UNION {v.changed : v \in {w \in rows : /\ w.pk = pk /\ w.session = NoSession
                                        /\ Upper(base, w.branch) < w.from
                                        /\ w.from <= Upper(chain, w.branch)}}

(* The columns of pk that may differ between two chains: the masks of the  *)
(* versions that one of them covers and the other does not.                *)
MaskSince(chain, base, pk) ==
  LET between(v) ==
        \/ Upper(base, v.branch) < v.from /\ v.from <= Upper(chain, v.branch)
        \/ Upper(chain, v.branch) < v.from /\ v.from <= Upper(base, v.branch)
  IN  UNION {v.changed : v \in {w \in rows : w.pk = pk /\ w.session = NoSession /\ between(w)}}

(* A merge reads the ref it takes from, then the ref it writes, neither    *)
(* under a lock.  (A chain resolves to the same state whenever it is read, *)
(* so the reads that follow are those of the moment the chain was read.)   *)
SubmitMerge(r, kind, from, into, table) ==
  /\ req[r] = Idle
  /\ req' = [req EXCEPT ![r] =
       [Idle EXCEPT !.pc = "into", !.kind = kind, !.branch = into, !.table = table,
                    !.source = refs[from]]]
  /\ UNCHANGED <<refs, commits, rows, live, lock>>

(* An update is a merge of the branch's parent into it.                    *)
SubmitUpdate(r, b, table) ==
  b # Main /\ SubmitMerge(r, "update", refs[b].parent, b, table)

(* What r's merge makes of its table, from the ref ours.                   *)
MergeOf(r, ours, base) ==
  LET baseChain == commits[base].chain
      theirs == req[r].source
      cand == [pk \in PKs |-> MaskSince(ours.chain, baseChain, pk)
                                \cup MaskSince(theirs.chain, baseChain, pk)]
      b == ResolveMap(baseChain)
      a == ResolveMap(ours.chain)
      t == ResolveMap(theirs.chain)
      merged == MergedTable(b, a, t, cand)
  IN  [clean |-> \A c \in MergeConflicts(b, a, t, cand) : c.pk \notin req[r].table,
       changes |-> [pk \in {k \in req[r].table : merged[k] # a[k]} |-> merged[pk]]]

(* Refused without exactly one merge base or with a conflict; else the     *)
(* changes go to a commit with both parents that expects no head.          *)
PlanMerge(r) ==
  LET ours == refs[req[r].branch]
      bases == MergeBases(ours.head, req[r].source.head)
  IN  /\ req[r].pc = "into"
      /\ req' = [req EXCEPT ![r] =
           IF \E base \in bases : bases = {base} /\ MergeOf(r, ours, base).clean
           THEN [@ EXCEPT !.pc = "begin", !.others = {req[r].source.head}, !.source = NoRef,
                          !.changes = MergeOf(r, ours, CHOOSE x \in bases : TRUE).changes]
           ELSE Idle]
      /\ UNCHANGED <<refs, commits, rows, live, lock>>

(* The second transaction of an update: the parent's ref, the branch's     *)
(* ref, then the fork point and the chain of the branch.                   *)
ReadParent(r) ==
  /\ req[r].pc = "parent"
  /\ req' = [req EXCEPT ![r].pc = "child", ![r].source = refs[refs[req[r].branch].parent]]
  /\ UNCHANGED <<refs, commits, rows, live, lock>>

ReadChild(r) ==
  /\ req[r].pc = "child"
  /\ req' = [req EXCEPT ![r].pc = "advance", ![r].ref = refs[req[r].branch]]
  /\ UNCHANGED <<refs, commits, rows, live, lock>>

(* The branch as r read it, over its parent as r read it.                  *)
AdvancedChain(r) ==
  <<Segment(req[r].branch, req[r].ref.headSeq),
    Segment(refs[req[r].branch].parent, req[r].source.headSeq)>> \o Tail(req[r].source.chain)

(* The update of the ref row waits for a commit that holds it.             *)
Advance(r) ==
  /\ req[r].pc = "advance"
  /\ lock[req[r].branch] = NoRequest
  /\ refs' = [refs EXCEPT ![req[r].branch].chain = AdvancedChain(r)]
  /\ req' = [req EXCEPT ![r] = Idle]
  /\ UNCHANGED <<commits, rows, live, lock>>

-----------------------------------------------------------------------------
Step(r) ==
  \/ Lock(r) \/ ReadUnlocked(r) \/ Land(r) \/ Refuse(r)
  \/ PlanMerge(r) \/ ReadParent(r) \/ ReadChild(r) \/ Advance(r)

Submit(r) ==
  \/ \E b \in DOMAIN refs, changes \in ChangeSets :
       \/ "commit" \in Kinds /\ SubmitCommit(r, b, changes, 0)
       \/ "expect" \in Kinds /\ SubmitCommit(r, b, changes, refs[b].head)
  \/ \E table \in Tables, from, into \in DOMAIN refs :
       "merge" \in Kinds /\ SubmitMerge(r, "merge", from, into, table)
  \/ \E table \in Tables, b \in DOMAIN refs :
       "update" \in Kinds /\ SubmitUpdate(r, b, table)

Next ==
  \/ \E r \in Requests : Submit(r) \/ Step(r) \/ Crash(r)
  \/ \E n \in Branches, from \in DOMAIN refs : CreateBranch(n, from)

(* Requests are scheduled fairly, and the ref lock queues its waiters, so  *)
(* a request that can take it time and again eventually does.              *)
Fairness == \A r \in Requests : SF_vars(Step(r))

Spec == Init /\ [][Next]_vars
FairSpec == Spec /\ Fairness

-----------------------------------------------------------------------------
(* Correctness.                                                            *)

SegmentType == [branch : Branches, seq : Nat]
ChainType == Seq(SegmentType)
RefType == [head : Nat, headSeq : Nat, parent : Branches, chain : ChainType]
CommitType == [first : Nat, others : SUBSET Nat, branch : Branches, seq : Nat,
               chain : ChainType]
VersionType == [branch : Branches, pk : PKs, from : Nat, to : Nat,
                session : SessionIds \cup {NoSession}, changed : Mask, row : Image]
RequestType ==
  [pc : {"idle", "begin", "apply", "into", "parent", "child", "advance"},
   kind : {"none", "commit", "merge", "update"}, branch : Branches,
   table : SUBSET PKs, changes : ChangeSet, others : SUBSET Nat, expected : Nat,
   ref : RefType, source : RefType]

(* A stored chain always starts with its own branch.                       *)
RefOK(b) ==
  /\ refs[b].parent \in DOMAIN refs
  /\ refs[b].chain # <<>> /\ refs[b].chain[1].branch = b

(* Type invariant: the rows of datagit_ref, datagit_commit and the sidecar *)
(* and the locals of a request (branch.go:51-57, read.go:32-55).           *)
TypeOK ==
  /\ Main \in DOMAIN refs /\ DOMAIN refs \subseteq Branches
  /\ refs \in [DOMAIN refs -> RefType]
  /\ \A b \in DOMAIN refs : RefOK(b)
  /\ commits \in Seq(CommitType)
  /\ \A c \in DOMAIN commits : commits[c].branch \in DOMAIN refs
  /\ rows \subseteq VersionType
  /\ live \in Table
  /\ lock \in [Branches -> Requests \cup {NoRequest}]
  /\ req \in [Requests -> RequestType]
  /\ \A r \in Requests : req[r].branch \in DOMAIN refs

On(b) == {c \in DOMAIN commits : commits[c].branch = b}

(* Every branch has a linear history (store.go:392-402): the commits made  *)
(* on it carry the sequence numbers up to its head's, each once, each      *)
(* follows its predecessor as its first parent, and the ref names the last *)
(* one.  Two writers that both read a head would break any of these.       *)
LinearHistory ==
  \A b \in DOMAIN refs :
    /\ \A c, d \in On(b) : commits[c].seq = commits[d].seq => c = d
    /\ {commits[c].seq : c \in On(b)} \cup {0} = 0 .. refs[b].headSeq
    /\ \A c \in On(b) :
         /\ commits[c].seq = refs[b].headSeq => refs[b].head = c
         /\ commits[c].seq > 1 => /\ commits[c].first \in On(b)
                                  /\ commits[commits[c].first].seq = commits[c].seq - 1

(* The application's table is the default branch at its head at every      *)
(* instant, for readers that bypass the store (DESIGN.md 6.1 and           *)
(* store.go:454-458): tombstones, merges and refused commits included.     *)
LiveIsMain == live = ResolveMap(refs[Main].chain)

(* Time travel: no step changes what an existing commit resolves to, not a *)
(* close of an open version, an advanced fork point or a commit that raced *)
(* with another (read.go:57-66, finding F1).                               *)
HistoryStable ==
  [][\A c \in DOMAIN commits : StateAtCommit(c)' = StateAtCommit(c)]_vars

(* A commit lands on the branch's head of that moment: its first parent is *)
(* the head, its state the head's with the request's changes applied, and  *)
(* a client that named a head finds its commit right after it, whatever    *)
(* landed between its submission and its lock (store.go:387-434).          *)
CommitsBuildOnHead ==
  [][\A c \in DOMAIN commits' \ DOMAIN commits :
       \E r \in Requests :
         LET head == refs[req[r].branch].head
         IN  /\ req[r].pc = "apply" /\ req'[r].pc # "apply"
             /\ commits'[c].branch = req[r].branch
             /\ commits'[c].first = head
             /\ StateAtCommit(c)' = Apply(StateAtCommit(head), req[r].changes)
             /\ req[r].expected \in {0, head}]_vars

(* While a versioned commit works under the ref lock, only an audit-mode   *)
(* commit, which takes no lock, moves its branch: neither another commit   *)
(* nor the second half of an update slips in between its read of the ref   *)
(* and its commit (store.go:392-402, merge.go:461-479).                    *)
LockProtectsRef ==
  [][\A r \in Requests :
       req[r].pc = "apply" /\ ~Audit(r) /\ req'[r] = req[r]
         => \/ refs'[req[r].branch] = refs[req[r].branch]
            \/ \E q \in Requests : Audit(q) /\ Land(q)]_vars

(* Every request ends, in success, refusal or a crash: nobody waits for a  *)
(* ref lock that is never freed (store.go:395-398, postgres.go:511-526).   *)
RequestsFinish == \A r \in Requests : (req[r] # Idle) ~> (req[r] = Idle)

(* What a branch shows at its head is what its head commit records, so a   *)
(* branch never shows a change that no commit of its history accounts for, *)
(* nor hides one that a commit of it made (merge.go:424-434, 459-479).     *)
RefMatchesHead ==
  \A b \in DOMAIN refs : ResolveMap(refs[b].chain) = StateAtCommit(refs[b].head)

(* A merge commit holds the three-way merge of its two parents over their  *)
(* merge base, by the values of whole states, and that merge has no        *)
(* conflict: no edit of either parent is lost, although the merge looks    *)
(* only at the columns its masks name and writes only the keys that differ *)
(* (merge.go:49-176).                                                      *)
MergeCommitExact ==
  \A c \in DOMAIN commits :
    commits[c].others # {} =>
      LET ours == commits[c].first
          theirs == CHOOSE x \in commits[c].others : TRUE
          a == StateAtCommit(ours)
          t == StateAtCommit(theirs)
      IN  \E base \in MergeBases(ours, theirs) :
            LET b == StateAtCommit(base)
            IN  /\ MergeConflicts(b, a, t, AllCols) = {}
                /\ StateAtCommit(c) = MergedTable(b, a, t, AllCols)

(* The masks between a branch and any commit name every column in which    *)
(* the two differ: a column they missed would keep the base's value in a   *)
(* merge and lose an edit silently (merge.go:300-314, findings F4 and F5). *)
MasksCoverDivergence ==
  \A b \in DOMAIN refs, base \in DOMAIN commits, pk \in PKs :
    MaskOf(CurrentRow(commits[base].chain, pk), CurrentRow(refs[b].chain, pk))
      \subseteq MaskSince(refs[b].chain, commits[base].chain, pk)
=============================================================================
