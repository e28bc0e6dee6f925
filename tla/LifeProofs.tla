------------------------------ MODULE LifeProofs ------------------------------
(***************************************************************************)
(* What is proved of the store under every mix of operations: requests,    *)
(* sessions and their leases, imports, writers past the store, chunked     *)
(* merges, reverts, tags, prunes, collections, purges and partitions.      *)
(*                                                                         *)
(* First type correctness, by groups of tables (Typed), for any workloads. *)
(* Then that staged versions have owners: versions and sessions are        *)
(* related by SessionInv, which needs what the calls on a session and the  *)
(* reaper are about to do.  Then that branches keep linear histories: a    *)
(* ref read earlier is not ahead of its branch (LinearInv).  Last that     *)
(* the versions of a key never overlap: a commit at the head of a branch   *)
(* closes what it replaces (StageInv, SpanInv).                            *)
(***************************************************************************)
EXTENDS StoreLife, BranchStoreProofs, FiniteSetTheorems

-----------------------------------------------------------------------------
(* Type correctness, by groups of tables.                                  *)

LifeRequest ==
  [pc : {"idle", "begin", "apply", "into", "parent", "child", "advance"},
   kind : {"none", "commit", "merge", "update", "large"}, branch : Branches,
   table : SUBSET PKs, changes : ChangeSet, others : SUBSET Nat, expected : Nat,
   ref : RefType, source : RefType]

(* A request, with the refs it has read by now.                            *)
Fits(x) ==
  /\ x \in LifeRequest
  /\ x.pc = "apply" => x.ref.chain # <<>>
  /\ x.pc \in {"child", "advance"} => x.source.chain # <<>>

(* The catalogue: refs of branches that were not deleted, whose heads are  *)
(* recorded, and the commits.                                              *)
Ledger ==
  /\ Main \in DOMAIN refs /\ DOMAIN refs \subseteq Branches \ deleted
  /\ refs \in [DOMAIN refs -> RefType] /\ refs[Main].parent = Main
  /\ \A b \in DOMAIN refs : RefOK(b) /\ refs[b].head \in DOMAIN commits
  /\ commits \in Seq(CommitType)

(* The sidecar.                                                            *)
Versions == rows \subseteq VersionType

(* The requests of clients.                                                *)
Asked == req \in [Requests -> LifeRequest] /\ \A r \in Requests : Fits(req[r])

(* A session is on a branch, never the default one, which is kept for it;  *)
(* a call has its session.                                                 *)
Opened ==
  /\ DOMAIN sessions \subseteq SessionIds
  /\ \A s \in DOMAIN sessions : /\ sessions[s] \in SessionType
                                /\ sessions[s].branch \in DOMAIN refs \ {Main}

Called ==
  /\ calls \in [Callers -> CallType]
  /\ \A k \in Callers : calls[k] # NoCall =>
       /\ calls[k].session \in DOMAIN sessions
       /\ calls[k].pc = "stamp" => calls[k].ref.chain # <<>>

(* A ref is locked by a request, by a call on a session, or by nobody.     *)
Locked == lock \in [Branches -> Requests \cup Callers \cup {NoRequest}]

(* Tracked tables, their writers and the backfill at work on one.          *)
Imports ==
  /\ tracking \in [Tables -> {"untracked", "backfilling", "active"}]
  /\ mode \in [Tables -> {"open", "guarded", "capture"}]
  /\ importer.pc \in {"registered", "read"} => importer.table \in Tables
  /\ importer.pc = "read" => importer.seq \in Nat
  /\ live \in Table

(* A merge that applies its changes in chunks, at work.                    *)
AtWork ==
  [pc : {"plan", "apply", "commit"}, from : Branches, keys : SUBSET PKs, left : SUBSET PKs]

ChunkType ==
  {NoChunk} \cup AtWork
    \cup [pc : {"landed", "refused"}, into : Branches, keys : SUBSET PKs]

(* A chunked merge has its request's changes left to write.                *)
ChunkOK(r) ==
  /\ chunk[r] \in ChunkType
  /\ chunk[r].pc = "apply" => chunk[r].left \subseteq DOMAIN req[r].changes

(* Every request has the place of a chunked merge.                         *)
Chunked == DOMAIN chunk = Requests /\ \A r \in Requests : ChunkOK(r)

(* The branches under a repair flag, and the keys off the store.           *)
Flags == flagged \subseteq Branches /\ touched \cup debris \cup shed \subseteq PKs

(* Tags and purged commits name commits.                                   *)
Marks == tags \cup purged \subseteq DOMAIN commits

(* All of it: inductive.                                                   *)
Typed ==
  /\ workload \in Workloads
  /\ Ledger /\ Versions /\ Asked /\ Opened /\ Called /\ Locked /\ Imports /\ Chunked /\ Flags /\ Marks

-----------------------------------------------------------------------------
(* The steps, by what they do to the tables.                               *)

(* The tables that most steps leave alone.                                 *)
Untouched == UNCHANGED <<refs, commits, rows, deleted>>

(* Versions go, and nothing else of the ledger changes.                    *)
Drops == rows' \subseteq rows /\ UNCHANGED <<refs, commits, deleted>>

(* What a step does to refs, commits and versions.                         *)
LEMMA LedgerMoves ==
  ASSUME workload \in Workloads, LifeNext
  PROVE  \/ Untouched
         \/ Drops
         \/ \E r \in Requests : (Land(r) \/ Advance(r)) /\ ~Lost(r) /\ UNCHANGED deleted
         \/ \E k \in Callers : (SessionWrite(k) \/ PublishStamp(k)) /\ UNCHANGED deleted
         \/ Backfill /\ UNCHANGED deleted
         \/ \E t \in Tables, cutoff \in Nat : Prune(t, cutoff) /\ UNCHANGED deleted
         \/ \E n \in Branches \ deleted, from \in DOMAIN refs :
              CreateBranch(n, from) /\ UNCHANGED deleted
         \/ \E b \in DOMAIN refs : DeleteBranch(b)
<1>1. workload.requests \subseteq Requests /\ workload.callers \subseteq Callers
  BY LifeAssumption
<1>2. ASSUME NEW r \in Requests, StoreStep(r)
      PROVE  Untouched \/ (Advance(r) /\ ~Lost(r) /\ UNCHANGED deleted)
  BY <1>2 DEF StoreStep, Working, Untouched, retentionVars, Lock, ReadUnlocked, ReadParent, ReadChild, PlanMerge
<1>3. ASSUME NEW r \in Requests, StoreLand(r)
      PROVE  Land(r) /\ ~Lost(r) /\ UNCHANGED deleted
  BY <1>3 DEF StoreLand, Working, retentionVars
<1>4. ASSUME NEW r \in Requests, StoreRefuse(r) \/ LostFails(r) \/ StoreCrash(r)
      PROVE  Untouched
  BY <1>4 DEF StoreRefuse, LostFails, StoreCrash, Refuse, Crash, Untouched, retentionVars
<1>5. ASSUME NEW r \in Requests, Submits(r), OthersUnchanged
      PROVE  Untouched
  BY <1>5 DEF Submits, OthersUnchanged, Commits, Merges, UpdatesFromParent, LargeMerges, Reverts,
       SubmitCommit, SubmitMerge, SubmitUpdate, SubmitLarge, SubmitRevert, Untouched, retentionVars
<1>6. ASSUME NEW r \in Requests, Chunks(r), OthersUnchanged
      PROVE  Untouched
  BY <1>6 DEF Chunks, OthersUnchanged, MergeAtOnce, RefuseLarge, BeginChunks, ApplyChunk, ChunkFails,
       EndChunks, Untouched, retentionVars
<1>7. ASSUME Branching, OthersUnchanged
      PROVE  \E n \in Branches \ deleted, from \in DOMAIN refs :
               CreateBranch(n, from) /\ UNCHANGED deleted
  BY <1>7 DEF Branching, OthersUnchanged, retentionVars
<1>8. ASSUME LiveSteps, OthersUnchanged
      PROVE  Untouched \/ Drops \/ (Backfill /\ UNCHANGED deleted)
  <2>1. UNCHANGED deleted
    BY <1>8 DEF OthersUnchanged, retentionVars
  <2>2. CASE Tracks
    BY <2>1, <2>2 DEF Tracks, Track, ReadHead, TrackDies, Untouched
  <2>3. CASE Untracks
    BY <2>1, <2>3 DEF Untracks, Untrack, Drops
  <2>4. CASE Bypasses
    BY <2>1, <2>4 DEF Bypasses, SetWriteMode, AppWrite, Untouched
  <2>5. QED
    BY <1>8, <2>2, <2>3, <2>4 DEF LiveSteps
<1>9. ASSUME Sessions
      PROVE  Untouched \/ Drops
               \/ \E k \in Callers : (SessionWrite(k) \/ PublishStamp(k)) /\ UNCHANGED deleted
  <2>1. UNCHANGED deleted
    BY <1>9 DEF Sessions, retentionVars
  <2>2. CASE Opens
    BY <2>1, <2>2 DEF Opens, OpenSession, Untouched
  <2>3. CASE Writes
    BY <1>1, <2>1, <2>3 DEF Writes, BeginWrite, BeginCall, CallFails, Untouched
  <2>4. CASE Publishes
    BY <1>1, <2>1, <2>4 DEF Publishes, BeginPublish, BeginCall, PublishRead, CallFails, Untouched
  <2>5. CASE Abandons
    BY <2>1, <2>5 DEF Abandons, AbandonSession, Drops
  <2>6. QED
    BY <1>9, <2>2, <2>3, <2>4, <2>5 DEF Sessions
<1>10. ASSUME Leases  PROVE Untouched \/ Drops
  BY <1>10 DEF Leases, LeaseLapses, ReapRows, ReapList, ReapState, ReaperDies, Untouched, Drops,
       retentionVars
<1>11. ASSUME Removals
       PROVE  \/ Untouched \/ Drops
              \/ \E t \in Tables, cutoff \in Nat : Prune(t, cutoff) /\ UNCHANGED deleted
              \/ \E b \in DOMAIN refs : DeleteBranch(b)
  <2>1. CASE Tagging
    BY <2>1 DEF Tagging, CreateTag, storeVars, Untouched
  <2>2. CASE Pruning
    BY <2>2 DEF Pruning, Prune, retentionVars
  <2>3. CASE RunGC
    BY <2>3 DEF RunGC, CollectList, CollectScan, CollectDelete, storeVars, Untouched, Drops
  <2>4. CASE Purging
    BY <2>4 DEF Purging, Purge, Drops
  <2>5. CASE Partitioning
    BY <2>5 DEF Partitioning, AddPartition, DropPartition, storeVars, Untouched, Drops
  <2>6. CASE Deleting
    BY <2>6 DEF Deleting
  <2>7. QED
    BY <1>11, <2>1, <2>2, <2>3, <2>4, <2>5, <2>6 DEF Removals
<1>12. QED
  <2>1. CASE \E r \in workload.requests : StoreStep(r) \/ StoreLand(r) \/ StoreRefuse(r) \/ LostFails(r)
    BY <1>1, <1>2, <1>3, <1>4, <2>1
  <2>2. CASE \E r \in workload.requests : Runs("crash") /\ StoreCrash(r)
    BY <1>1, <1>4, <2>2
  <2>3. CASE \E r \in workload.requests : (Submits(r) \/ Chunks(r)) /\ OthersUnchanged
    BY <1>1, <1>5, <1>6, <2>3
  <2>4. QED
    BY <1>7, <1>8, <1>9, <1>10, <1>11, <2>1, <2>2, <2>3 DEF LifeNext

-----------------------------------------------------------------------------
(* A commit, of a request or of a session, appends to the log and moves    *)
(* its branch (store.go:456-485, branch.go:500-530).                       *)
LEMMA CommitKeepsLedger ==
  ASSUME Ledger, UNCHANGED deleted, NEW b \in DOMAIN refs, NEW c, NEW seq \in Nat,
         NEW chain \in ChainType, chain # <<>>,
         NEW x, x = <<Segment(b, seq)>> \o Tail(chain),
         c \in CommitType,
         commits' = Append(commits, c),
         refs' = [refs EXCEPT ![b].head = Len(commits) + 1, ![b].headSeq = seq, ![b].chain = x]
  PROVE  Ledger'
<1>1. b \in Branches
  BY DEF Ledger
<1>2. x \in ChainType /\ x # <<>> /\ x[1] = Segment(b, seq)
  BY <1>1, ChainOverTail
<1>3. commits \in Seq(CommitType)
  BY DEF Ledger
<1>4. /\ commits' \in Seq(CommitType)
      /\ DOMAIN commits' = DOMAIN commits \cup {Len(commits) + 1}
      /\ Len(commits) + 1 \in Nat
  BY <1>3
<1>5. /\ DOMAIN refs' = DOMAIN refs
      /\ refs' \in [DOMAIN refs -> RefType]
      /\ \A a \in DOMAIN refs : refs'[a].parent = refs[a].parent
      /\ refs'[b].head = Len(commits) + 1 /\ refs'[b].chain = x
      /\ \A a \in DOMAIN refs \ {b} : refs'[a] = refs[a]
  BY <1>2, <1>4 DEF Ledger, RefType
<1>6. ASSUME NEW a \in DOMAIN refs
      PROVE  RefOK(a)' /\ refs'[a].head \in DOMAIN commits'
  <2>1. RefOK(a) /\ refs[a].head \in DOMAIN commits
    BY DEF Ledger
  <2>2. CASE a = b
    <3>1. x[1].branch = b
      BY <1>2 DEF Segment
    <3>2. QED
      BY <1>2, <1>4, <1>5, <2>1, <2>2, <3>1 DEF RefOK
  <2>3. CASE a # b
    BY <1>4, <1>5, <2>1, <2>3 DEF RefOK
  <2>4. QED
    BY <2>2, <2>3
<1>7. QED
  BY <1>4, <1>5, <1>6 DEF Ledger

(* A request's commit (store.go:456-485).                                  *)
LEMMA LandKeepsLedger ==
  ASSUME Ledger, Asked, NEW r \in Requests, Land(r), ~Lost(r), UNCHANGED deleted
  PROVE  Ledger'
<1> DEFINE b == req[r].branch
           x == <<Segment(b, NextSeq(r))>> \o Tail(req[r].ref.chain)
           c == [first |-> req[r].ref.head, others |-> req[r].others, branch |-> b,
                 seq |-> NextSeq(r), chain |-> x]
<1>1. /\ req[r] \in LifeRequest /\ req[r].ref.chain # <<>>
      /\ b \in DOMAIN refs /\ b \in Branches
  BY DEF Asked, Fits, Land, Lost, Ledger
<1>2. req[r].ref \in RefType
  BY <1>1 DEF LifeRequest
<1>3. NextSeq(r) \in Nat /\ req[r].ref.chain \in ChainType
  BY <1>2 DEF NextSeq, RefType
<1>4. x \in ChainType
  BY <1>1, <1>3, ChainOverTail
<1>5. c \in CommitType
  <2> HIDE DEF x
  <2>1. QED
    BY <1>1, <1>2, <1>3, <1>4 DEF CommitType, LifeRequest, RefType
<1>6. /\ commits' = Append(commits, c)
      /\ refs' = [refs EXCEPT ![b].head = Len(commits) + 1, ![b].headSeq = NextSeq(r),
                              ![b].chain = x]
  BY DEF Land
<1>7. PICK y : y = x
  OBVIOUS
<1> HIDE DEF x, c
<1>8. QED
  BY <1>1, <1>3, <1>5, <1>6, <1>7, CommitKeepsLedger DEF x

(* A session's commit (branch.go:500-530).                                 *)
LEMMA PublishKeepsLedger ==
  ASSUME Ledger, Opened, Called, NEW k \in Callers, PublishStamp(k), UNCHANGED deleted
  PROVE  Ledger'
<1> DEFINE b == sessions[calls[k].session].branch
           seq == calls[k].ref.headSeq + 1
           x == <<Segment(b, seq)>> \o Tail(calls[k].ref.chain)
           c == [first |-> calls[k].ref.head, others |-> {}, branch |-> b, seq |-> seq,
                 chain |-> x]
<1>1. calls[k].pc = "stamp" /\ calls[k] \in CallType
  BY DEF PublishStamp, Called
<1>2. calls[k].ref \in RefType /\ calls[k] # NoCall
  BY <1>1 DEF CallType, NoCall
<1>3. calls[k].ref.chain # <<>> /\ b \in DOMAIN refs /\ b \in Branches
  BY <1>1, <1>2 DEF Called, Opened, Ledger
<1>4. seq \in Nat /\ calls[k].ref.chain \in ChainType /\ calls[k].ref.head \in Nat
  BY <1>2 DEF RefType
<1>5. x \in ChainType
  BY <1>3, <1>4, ChainOverTail
<1>6. c \in CommitType
  <2> HIDE DEF x, seq, b
  <2>1. QED
    BY <1>3, <1>4, <1>5 DEF CommitType
<1>7. /\ commits' = Append(commits, c)
      /\ refs' = [refs EXCEPT ![b].head = Len(commits) + 1, ![b].headSeq = seq,
                              ![b].chain = x]
  BY DEF PublishStamp
<1> HIDE DEF x, c
<1>8. QED
  BY <1>3, <1>4, <1>6, <1>7, CommitKeepsLedger DEF x

(* A fork (branch.go:42-90).                                               *)
LEMMA CreateKeepsLedger ==
  ASSUME Ledger, NEW n \in Branches \ deleted, NEW from \in DOMAIN refs,
         CreateBranch(n, from), UNCHANGED deleted
  PROVE  Ledger'
<1> DEFINE new == [head |-> refs[from].head, headSeq |-> 0, parent |-> from,
                   chain |-> ForkChain(n, from)]
<1>1. /\ from \in Branches /\ refs[from] \in RefType /\ refs[from].chain # <<>>
  BY DEF Ledger, RefOK
<1>2. Tail(refs[from].chain) \in Seq(SegmentType)
  BY <1>1, HeadTailProperties DEF RefType, ChainType
<1>3. Segment(n, 0) \in SegmentType /\ Segment(from, refs[from].headSeq) \in SegmentType
  BY <1>1 DEF Segment, SegmentType, RefType
<1>4. /\ ForkChain(n, from) \in ChainType /\ ForkChain(n, from) # <<>>
      /\ ForkChain(n, from)[1] = Segment(n, 0)
  BY <1>2, <1>3 DEF ForkChain, ChainType
<1>5. new \in RefType
  BY <1>1, <1>4 DEF RefType
<1>6. /\ n \notin DOMAIN refs /\ DOMAIN refs' = DOMAIN refs \cup {n}
      /\ refs'[n] = new /\ \A a \in DOMAIN refs : refs'[a] = refs[a]
      /\ refs' = [a \in DOMAIN refs \cup {n} |-> IF a = n THEN new ELSE refs[a]]
  BY DEF CreateBranch
<1>7. refs' \in [DOMAIN refs' -> RefType]
  BY <1>5, <1>6 DEF Ledger
<1>8. ASSUME NEW a \in DOMAIN refs'  PROVE RefOK(a)'
  <2>1. CASE a = n
    <3>1. ForkChain(n, from)[1].branch = n
      BY <1>4 DEF Segment
    <3>2. QED
      BY <1>4, <1>6, <2>1, <3>1 DEF RefOK
  <2>2. CASE a # n
    <3>1. RefOK(a)
      BY <1>6, <2>2 DEF Ledger
    <3>2. QED
      BY <1>6, <2>2, <3>1 DEF RefOK
  <2>3. QED
    BY <2>1, <2>2
<1>9. QED
  BY <1>6, <1>7, <1>8 DEF Ledger, CreateBranch

(* An advanced fork point (merge.go:456-480).                              *)
LEMMA AdvanceKeepsLedger ==
  ASSUME Ledger, Asked, NEW r \in Requests, Advance(r), ~Lost(r), UNCHANGED deleted
  PROVE  Ledger'
<1> DEFINE b == req[r].branch
           p == refs[b].parent
           source == req[r].source
<1>1. /\ req[r] \in LifeRequest /\ b \in DOMAIN refs /\ b \in Branches
      /\ p \in DOMAIN refs /\ p \in Branches
  BY DEF Asked, Ledger, Lost, RefOK
<1>2. source \in RefType /\ source.chain # <<>> /\ req[r].ref.headSeq \in Nat
  BY <1>1 DEF Advance, Asked, Fits, LifeRequest, RefType
<1>3. Tail(source.chain) \in Seq(SegmentType)
  BY <1>2, HeadTailProperties DEF RefType, ChainType
<1>4. Segment(b, req[r].ref.headSeq) \in SegmentType /\ Segment(p, source.headSeq) \in SegmentType
  BY <1>1, <1>2 DEF Segment, SegmentType, RefType
<1>5. /\ AdvancedChain(r) \in ChainType /\ AdvancedChain(r) # <<>>
      /\ AdvancedChain(r)[1] = Segment(b, req[r].ref.headSeq)
  BY <1>3, <1>4 DEF AdvancedChain, ChainType
<1>6. /\ DOMAIN refs' = DOMAIN refs
      /\ refs' \in [DOMAIN refs -> RefType]
      /\ \A a \in DOMAIN refs : /\ refs'[a].head = refs[a].head
                              /\ refs'[a].parent = refs[a].parent
      /\ refs'[b].chain = AdvancedChain(r)
      /\ \A a \in DOMAIN refs \ {b} : refs'[a] = refs[a]
  BY <1>1, <1>5 DEF Advance, Ledger, RefType
<1>7. ASSUME NEW a \in DOMAIN refs  PROVE RefOK(a)'
  <2>1. RefOK(a)
    BY DEF Ledger
  <2>2. CASE a = b
    BY <1>5, <1>6, <2>1, <2>2 DEF RefOK, Segment
  <2>3. CASE a # b
    BY <1>6, <2>1, <2>3 DEF RefOK
  <2>4. QED
    BY <2>2, <2>3
<1>8. QED
  BY <1>6, <1>7 DEF Ledger, Advance

(* A deleted branch: nobody's parent, and never the default one            *)
(* (branch.go:130-151).                                                    *)
LEMMA DeleteKeepsLedger ==
  ASSUME Ledger, NEW b \in DOMAIN refs, DeleteBranch(b)
  PROVE  Ledger'
<1>1. /\ b # Main /\ DOMAIN refs' = DOMAIN refs \ {b} /\ deleted' = deleted \cup {b}
      /\ \A a \in DOMAIN refs \ {b} : refs'[a] = refs[a]
      /\ refs' = [x \in DOMAIN refs \ {b} |-> refs[x]]
      /\ commits' = commits
  BY DEF DeleteBranch
<1>2. refs' \in [DOMAIN refs' -> RefType]
  BY <1>1 DEF Ledger
<1>3. ASSUME NEW a \in DOMAIN refs'  PROVE RefOK(a)'
  <2>1. RefOK(a) /\ refs'[a] = refs[a] /\ refs[a].parent # b
    BY <1>1 DEF Ledger, DeleteBranch
  <2>2. QED
    BY <1>1, <2>1 DEF RefOK
<1>4. QED
  BY <1>1, <1>2, <1>3 DEF Ledger

(* No step breaks the refs and the log.                                    *)
LEMMA LedgerKept ==
  ASSUME workload \in Workloads, Ledger, Asked, Opened, Called, LifeNext
  PROVE  Ledger'
<1>1. CASE Untouched \/ Drops
  BY <1>1 DEF Untouched, Drops, Ledger, RefOK
<1>2. ASSUME UNCHANGED <<refs, commits, deleted>>  PROVE Ledger'
  BY <1>2 DEF Ledger, RefOK
<1>3. CASE \E k \in Callers : (SessionWrite(k) \/ PublishStamp(k)) /\ UNCHANGED deleted
  BY <1>2, <1>3, PublishKeepsLedger DEF SessionWrite
<1>4. CASE Backfill /\ UNCHANGED deleted
  BY <1>2, <1>4 DEF Backfill
<1>5. CASE \E t \in Tables, cutoff \in Nat : Prune(t, cutoff) /\ UNCHANGED deleted
  BY <1>2, <1>5 DEF Prune
<1>6. QED
  BY <1>1, <1>3, <1>4, <1>5, LedgerMoves, LandKeepsLedger, AdvanceKeepsLedger, CreateKeepsLedger,
     DeleteKeepsLedger

-----------------------------------------------------------------------------
(* What a prune leaves of a key: what it found, or its oldest version,     *)
(* extended to where the last one ended (retention.go:94-163).             *)
LEMMA Thinned ==
  ASSUME Versions, NEW pk, NEW cutoff \in Nat, NEW closed, closed = ClosedBy(pk, cutoff)
  PROVE  \/ Thin(pk, cutoff) = closed
         \/ \E first, last \in closed :
              /\ \A w \in closed : first.from <= w.from /\ w.to <= last.to
              /\ Thin(pk, cutoff) = {[first EXCEPT !.to = last.to]}
<1>1. CASE Cardinality(closed) <= 1
  BY <1>1 DEF Thin
<1>2. CASE ~(Cardinality(closed) <= 1)
  <2>1. closed # {}
    BY <1>2, FS_EmptySet
  <2>2. \A v \in closed : v.from \in Nat /\ v.to \in Nat /\ v.to <= cutoff
    BY DEF ClosedBy, Versions, VersionType
  <2>3. \E first \in closed : \A w \in closed : first.from <= w.from
    <3>1. PICK T : T = {v.from : v \in closed}
      OBVIOUS
    <3>2. T \in SUBSET Nat /\ T # {}
      BY <2>1, <2>2, <3>1
    <3>3. PICK n \in T : \A m \in T : n <= m
      BY <3>2, NatLeast
    <3>4. QED
      BY <3>1, <3>3
  <2>4. \E last \in closed : \A w \in closed : w.to <= last.to
    <3>1. PICK T : T = {cutoff - v.to : v \in closed}
      OBVIOUS
    <3>2. T \in SUBSET Nat /\ T # {}
      BY <2>1, <2>2, <3>1
    <3>3. PICK n \in T : \A m \in T : n <= m
      BY <3>2, NatLeast
    <3>4. PICK last \in closed : n = cutoff - last.to
      BY <3>1, <3>3
    <3>5. \A w \in closed : cutoff - last.to <= cutoff - w.to
      BY <3>1, <3>3, <3>4
    <3>6. QED
      BY <2>2, <3>5
  <2>5. PICK first \in closed : /\ first = Oldest(closed)
                               /\ \A w \in closed : first.from <= w.from
    BY <2>3 DEF Oldest
  <2>6. PICK last \in closed : /\ last.to = LastTo(closed)
                              /\ \A w \in closed : w.to <= last.to
    BY <2>4 DEF LastTo
  <2>7. Thin(pk, cutoff) = {[first EXCEPT !.to = last.to]}
    BY <1>2, <2>5, <2>6 DEF Thin
  <2>8. QED
    BY <2>5, <2>6, <2>7
<1>3. QED
  BY <1>1, <1>2

(* Every version after a prune was there, or is the oldest of a key,       *)
(* extended (retention.go:94-163).                                         *)
LEMMA Pruned ==
  ASSUME Versions, NEW t \in Tables, NEW cutoff \in Nat, Prune(t, cutoff), NEW v \in rows'
  PROVE  \/ v \in rows
         \/ \E pk \in t : \E first, last \in ClosedBy(pk, cutoff) :
              /\ \A w \in ClosedBy(pk, cutoff) : first.from <= w.from /\ w.to <= last.to
              /\ v = [first EXCEPT !.to = last.to]
<1>1. SUFFICES ASSUME v \notin rows
               PROVE  \E pk \in t : \E first, last \in ClosedBy(pk, cutoff) :
                        /\ \A w \in ClosedBy(pk, cutoff) : first.from <= w.from /\ w.to <= last.to
                        /\ v = [first EXCEPT !.to = last.to]
  OBVIOUS
<1>2. PICK pk \in t : v \in Thin(pk, cutoff)
  BY <1>1 DEF Prune
<1>3. v \notin ClosedBy(pk, cutoff)
  BY <1>1 DEF ClosedBy
<1>4. QED
  BY <1>2, <1>3, Thinned

(* Versions closed by a commit are versions (store.go:428-446).            *)
LEMMA CloseType ==
  ASSUME Versions, NEW b, NEW keys, NEW seq \in Nat
  PROVE  CloseOpen(b, keys, seq) \subseteq VersionType
<1>1. \A v \in VersionType : [v EXCEPT !.to = seq] \in VersionType
  BY DEF VersionType
<1>2. QED
  BY <1>1 DEF CloseOpen, Versions

(* What a write stages (branch.go:303-385).                                *)
LEMMA StagedType ==
  ASSUME Ledger, Opened, Called, NEW k \in Callers, calls[k].pc = "write",
         NEW pk \in ToStage(calls[k].session, calls[k].changes)
  PROVE  StagedVersion(calls[k].session, pk,
           MaskOf(SessionView(calls[k].session)[pk], calls[k].changes[pk]), calls[k].changes[pk])
           \in VersionType
<1> DEFINE s == calls[k].session
           changes == calls[k].changes
           mask == MaskOf(SessionView(s)[pk], changes[pk])
<1>1. calls[k] \in CallType /\ calls[k] # NoCall
  BY DEF Called, NoCall
<1>2. s \in SessionIds /\ changes \in ChangeSet /\ s \in DOMAIN sessions
  BY <1>1 DEF CallType, Called
<1>3. pk \in PKs /\ changes[pk] \in Image
  BY <1>2 DEF ToStage, ChangeSet
<1>4. sessions[s].branch \in Branches /\ sessions[s].baseSeq + 1 \in Nat
  BY <1>2 DEF Opened, SessionType
<1>5. mask \in Mask
  BY DEF MaskOf, Mask
<1>6. MaxSeq \in Nat
  BY StoreAssumption
<1> HIDE DEF s, changes, mask
<1>7. StagedVersion(s, pk, mask, changes[pk]) \in VersionType
  BY <1>2, <1>3, <1>4, <1>5, <1>6 DEF StagedVersion, VersionType
<1>8. QED
  BY <1>7 DEF s, changes, mask

(* No step breaks the versions.                                            *)
LEMMA VersionsKept ==
  ASSUME workload \in Workloads, Ledger, Versions, Asked, Opened, Called, Imports, LifeNext
  PROVE  Versions'
<1>1. CASE Untouched \/ Drops
  BY <1>1 DEF Untouched, Drops, Versions
<1>2. ASSUME NEW r \in Requests, Land(r), ~Lost(r)  PROVE Versions'
  <2> DEFINE b == req[r].branch
             seq == NextSeq(r)
             keys == Effective(r)
             changes == [pk \in keys |-> req[r].changes[pk]]
             mask(pk) == MaskOf(CurrentRow(req[r].ref.chain, pk), changes[pk])
  <2>1. req[r] \in LifeRequest /\ b \in Branches /\ seq \in Nat /\ MaxSeq \in Nat
    <3>1. req[r] \in LifeRequest
      BY DEF Asked
    <3>2. QED
      BY <3>1, StoreAssumption DEF LifeRequest, NextSeq, RefType
  <2>2. keys \subseteq PKs /\ \A pk \in keys : changes[pk] \in Image
    BY <2>1 DEF LifeRequest, ChangeSet, Effective
  <2>3. ASSUME NEW pk \in keys
        PROVE  Version(b, pk, seq, mask(pk), changes[pk]) \in VersionType
    <3>1. mask(pk) \in Mask
      BY DEF MaskOf, Mask
    <3> HIDE DEF mask, changes, seq, b, keys
    <3>2. QED
      BY <2>1, <2>2, <3>1 DEF Version, VersionType
  <2>4. rows' = CloseOpen(b, keys, seq)
                  \cup {Version(b, pk, seq, mask(pk), changes[pk]) : pk \in keys}
    BY <1>2 DEF Land
  <2> HIDE DEF mask, changes, seq, b, keys
  <2>5. QED
    BY <2>1, <2>3, <2>4, CloseType DEF Versions
<1>3. ASSUME NEW r \in Requests, Advance(r)  PROVE Versions'
  BY <1>3 DEF Advance, Versions
<1>4. ASSUME NEW k \in Callers, SessionWrite(k)  PROVE Versions'
  <2> DEFINE s == calls[k].session
             changes == calls[k].changes
             keys == ToStage(s, changes)
             staged(pk) == StagedVersion(s, pk, MaskOf(SessionView(s)[pk], changes[pk]), changes[pk])
  <2>1. \A pk \in keys : staged(pk) \in VersionType
    BY <1>4, StagedType DEF SessionWrite
  <2>2. rows' = {v \in rows : ~(v.session = s /\ v.pk \in keys)} \cup {staged(pk) : pk \in keys}
    BY <1>4 DEF SessionWrite
  <2> HIDE DEF staged, keys, s
  <2>3. QED
    BY <2>1, <2>2 DEF Versions
<1>5. ASSUME NEW k \in Callers, PublishStamp(k)  PROVE Versions'
  <2>1. calls[k] \in CallType /\ calls[k].pc = "stamp"
    BY <1>5 DEF PublishStamp, Called
  <2>2. calls[k].ref.headSeq + 1 \in Nat
    BY <2>1 DEF CallType, NoCall, RefType
  <2>3. \A v \in VersionType, n \in Nat :
          [v EXCEPT !.session = NoSession, !.from = n] \in VersionType
    BY DEF VersionType
  <2> DEFINE mine == {v \in Staged(calls[k].session) : v.pk \in calls[k].table}
             seq == calls[k].ref.headSeq + 1
             b == sessions[calls[k].session].branch
             keys == calls[k].keys
  <2>4. mine \subseteq rows
    BY DEF Staged
  <2>5. rows' = (CloseOpen(b, keys, seq) \ mine) \cup
                  {[v EXCEPT !.session = NoSession, !.from = seq] : v \in mine}
    BY <1>5 DEF PublishStamp
  <2> HIDE DEF mine, b, seq, keys
  <2>6. CloseOpen(b, keys, seq) \subseteq VersionType
    BY <2>2, CloseType DEF seq
  <2>7. \A v \in mine : [v EXCEPT !.session = NoSession, !.from = seq] \in VersionType
    BY <2>2, <2>3, <2>4 DEF Versions, seq
  <2>8. QED
    BY <2>5, <2>6, <2>7 DEF Versions
<1>6. CASE Backfill
  <2>1. importer.table \in Tables /\ importer.seq \in Nat /\ live \in Table
    BY <1>6 DEF Backfill, Imports
  <2>2. Importable \subseteq PKs /\ Main \in Branches /\ MaxSeq \in Nat
    BY <2>1, StoreAssumption DEF Importable
  <2>3. \A pk \in Importable : Version(Main, pk, importer.seq, {}, live[pk]) \in VersionType
    BY <2>1, <2>2 DEF Version, VersionType, Table, Mask
  <2>4. QED
    BY <1>6, <2>3 DEF Backfill, Versions
<1>7. ASSUME NEW t \in Tables, NEW cutoff \in Nat, Prune(t, cutoff)  PROVE Versions'
  <2>1. \A v, w \in VersionType : [v EXCEPT !.to = w.to] \in VersionType
    BY DEF VersionType
  <2>2. ASSUME NEW v \in rows'  PROVE v \in VersionType
    BY <1>7, <2>1, <2>2, Pruned DEF Versions, ClosedBy
  <2>3. QED
    BY <2>2 DEF Versions
<1>8. ASSUME NEW n, NEW from, CreateBranch(n, from)  PROVE Versions'
  BY <1>8 DEF CreateBranch, Versions
<1>9. ASSUME NEW b, DeleteBranch(b)  PROVE Versions'
  BY <1>9 DEF DeleteBranch, Versions
<1>10. QED
  BY <1>1, <1>2, <1>3, <1>4, <1>5, <1>6, <1>7, <1>8, <1>9, LedgerMoves

-----------------------------------------------------------------------------
(* What requests are doing.                                                *)

(* A request with nothing to do.                                           *)
LEMMA IdleFits == Fits(Idle) /\ Idle \in LifeRequest
<1>1. Idle \in LifeRequest
  BY IdleType DEF RequestType, LifeRequest
<1>2. QED
  BY <1>1 DEF Fits, Idle

(* One request moves.                                                      *)
LEMMA AskedStep ==
  ASSUME Asked, NEW r \in Requests, NEW x, Fits(x), req' = [req EXCEPT ![r] = x]
  PROVE  Asked'
<1>1. x \in LifeRequest
  BY DEF Fits
<1>2. req' \in [Requests -> LifeRequest]
  BY <1>1 DEF Asked
<1>3. \A q \in Requests : req'[q] = IF q = r THEN x ELSE req[q]
  BY DEF Asked
<1>4. \A q \in Requests : Fits(req'[q])
  BY <1>3 DEF Asked
<1>5. QED
  BY <1>2, <1>4 DEF Asked

(* What a revert plans is a change set (revert.go:31-106).                 *)
LEMMA UndoType ==
  ASSUME Versions, NEW b, NEW target
  PROVE  UndoOf(b, target) \in ChangeSet
<1> DEFINE seq == commits[target].seq
           entries == Diff(b, seq - 1, seq)
           keys == {e.pk : e \in entries}
           undo == [pk \in keys |-> (CHOOSE e \in entries : e.pk = pk).before]
<1>1. \A e \in entries : e.pk \in PKs /\ e.before \in Image
  BY CurrentRowType DEF Diff, Touched, Versions
<1> HIDE DEF entries
<1>2. keys \in SUBSET PKs
  BY <1>1
<1>3. undo \in [keys -> Image]
  BY <1>1
<1>4. undo \in ChangeSet
  BY <1>2, <1>3, ChangeSetType
<1>5. QED
  BY <1>4 DEF UndoOf, entries

(* A commit is asked for (store.go:350-366).                               *)
LEMMA CommitFits ==
  ASSUME Asked, NEW r \in Requests, NEW b \in Branches, NEW changes \in ChangeSet,
         \E t \in Tables : DOMAIN changes \subseteq t, SubmitCommit(r, b, changes, 0)
  PROVE  Asked'
<1> DEFINE x == [Idle EXCEPT !.pc = "begin", !.kind = "commit", !.branch = b,
                             !.table = TableOf(changes), !.changes = changes, !.expected = 0]
<1>1. TableOf(changes) \in Tables
  BY DEF TableOf
<1>2. TableOf(changes) \in SUBSET PKs
  BY <1>1, StoreAssumption
<1>3. x \in LifeRequest /\ x.pc = "begin"
  BY <1>2, IdleFits DEF LifeRequest, Idle
<1>4. req' = [req EXCEPT ![r] = x]
  BY DEF SubmitCommit
<1> HIDE DEF x
<1>5. QED
  BY <1>3, <1>4, AskedStep DEF Fits

(* A merge or an update is (merge.go:52-56).                               *)
LEMMA MergeFits ==
  ASSUME Ledger, Asked, NEW r \in Requests, NEW kind \in {"merge", "update", "large"},
         NEW from \in DOMAIN refs, NEW into \in DOMAIN refs, NEW t \in Tables,
         SubmitMerge(r, kind, from, into, t)
  PROVE  Asked'
<1> DEFINE x == [Idle EXCEPT !.pc = "into", !.kind = kind, !.branch = into, !.table = t,
                             !.source = refs[from]]
<1>1. t \in SUBSET PKs /\ into \in Branches /\ refs[from] \in RefType
  BY StoreAssumption DEF Ledger
<1>2. x \in LifeRequest /\ x.pc = "into"
  BY <1>1, IdleFits DEF LifeRequest, Idle
<1>3. req' = [req EXCEPT ![r] = x]
  BY DEF SubmitMerge
<1> HIDE DEF x
<1>4. QED
  BY <1>2, <1>3, AskedStep DEF Fits

(* Whatever clients submit.                                                *)
LEMMA SubmitsFit ==
  ASSUME Ledger, Versions, Asked, NEW r \in Requests, Submits(r)
  PROVE  Asked'
<1>1. DOMAIN refs \subseteq Branches
  BY DEF Ledger
<1>2. CASE Commits(r)
  BY <1>1, <1>2, CommitFits, StoreAssumption DEF Commits
<1>3. CASE Merges(r)
  BY <1>3, MergeFits DEF Merges
<1>4. CASE UpdatesFromParent(r)
  BY <1>4, MergeFits DEF UpdatesFromParent, SubmitUpdate, Ledger, RefOK
<1>5. CASE LargeMerges(r)
  BY <1>5, MergeFits DEF LargeMerges, SubmitLarge
<1>6. CASE Reverts(r)
  BY <1>1, <1>6, CommitFits, UndoType DEF Reverts, SubmitRevert
<1>7. QED
  BY <1>2, <1>3, <1>4, <1>5, <1>6 DEF Submits

(* A request's ref, when it reads it (store.go:387-402).                   *)
LEMMA ReadFits ==
  ASSUME Ledger, Asked, NEW r \in Requests, ~Lost(r), Lock(r) \/ ReadUnlocked(r)
  PROVE  Asked'
<1> DEFINE b == req[r].branch
           x == [req[r] EXCEPT !.pc = "apply", !.ref = refs[b]]
<1>1. /\ req[r] \in LifeRequest /\ Fits(req[r])
      /\ refs[b] \in RefType /\ refs[b].chain # <<>>
  BY DEF Asked, Lost, Ledger, RefOK
<1>2. x \in LifeRequest /\ x.pc = "apply" /\ x.ref = refs[b]
  BY <1>1 DEF LifeRequest
<1>3. req' = [req EXCEPT ![r] = x]
  BY DEF Lock, ReadUnlocked
<1> HIDE DEF x
<1>4. QED
  BY <1>1, <1>2, <1>3, AskedStep DEF Fits

(* What a merge plans (merge.go:57-161).                                   *)
LEMMA PlanFits ==
  ASSUME Ledger, Versions, Asked, NEW r \in Requests, PlanMerge(r)
  PROVE  Asked'
<1> DEFINE ours == refs[req[r].branch]
           bases == MergeBases(ours.head, req[r].source.head)
           changes == MergeOf(r, ours, CHOOSE y \in bases : TRUE).changes
           x == [req[r] EXCEPT !.pc = "begin", !.others = {req[r].source.head},
                               !.source = NoRef, !.changes = changes]
<1>1. req[r] \in LifeRequest
  BY DEF Asked
<1>2. changes \in ChangeSet
  BY <1>1, MergeOfType DEF LifeRequest, Versions
<1>3. NoRef \in RefType
  BY IdleFits DEF LifeRequest, Idle
<1> HIDE DEF changes
<1>4. req[r].source.head \in Nat
  BY <1>1 DEF LifeRequest, RefType
<1>5. x \in LifeRequest /\ x.pc = "begin"
  BY <1>1, <1>2, <1>3, <1>4 DEF LifeRequest
<1>6. req' = [req EXCEPT ![r] = x] \/ req' = [req EXCEPT ![r] = Idle]
  BY DEF PlanMerge, changes, bases, ours, Asked
<1> HIDE DEF x
<1>7. QED
  BY <1>5, <1>6, IdleFits, AskedStep DEF Fits

(* The second transaction of an update (merge.go:440-480).                 *)
LEMMA SecondFits ==
  ASSUME Ledger, Asked, NEW r \in Requests, ~Lost(r), ReadParent(r) \/ ReadChild(r)
  PROVE  Asked'
<1> DEFINE b == req[r].branch
           p == refs[b].parent
           x == [req[r] EXCEPT !.pc = "child", !.source = refs[p]]
           y == [req[r] EXCEPT !.pc = "advance", !.ref = refs[b]]
<1>1. /\ req[r] \in LifeRequest /\ Fits(req[r]) /\ b \in DOMAIN refs /\ p \in DOMAIN refs
      /\ refs[b] \in RefType /\ refs[p] \in RefType /\ refs[p].chain # <<>>
  BY DEF Asked, Lost, Ledger, RefOK
<1>2. CASE ReadParent(r)
  <2>1. x \in LifeRequest /\ x.pc = "child" /\ x.source = refs[p]
    BY <1>1 DEF LifeRequest
  <2>2. req' = [req EXCEPT ![r] = x]
    BY <1>2 DEF ReadParent
  <2> HIDE DEF x
  <2>3. QED
    BY <1>1, <2>1, <2>2, AskedStep DEF Fits
<1>3. CASE ReadChild(r)
  <2>1. y \in LifeRequest /\ y.pc = "advance" /\ y.source = req[r].source
    BY <1>1 DEF LifeRequest
  <2>2. req' = [req EXCEPT ![r] = y]
    BY <1>3 DEF ReadChild
  <2>3. req[r].source.chain # <<>>
    BY <1>1, <1>3 DEF Fits, ReadChild
  <2> HIDE DEF y
  <2>4. QED
    BY <2>1, <2>2, <2>3, AskedStep DEF Fits
<1>4. QED
  BY <1>2, <1>3

(* An update goes on after its commit (merge.go:424-434).                  *)
LEMMA LandFits ==
  ASSUME Asked, NEW r \in Requests, Land(r)
  PROVE  Asked'
<1> DEFINE x == [Idle EXCEPT !.pc = "parent", !.branch = req[r].branch]
<1>1. req[r] \in LifeRequest
  BY DEF Asked
<1>2. x \in LifeRequest /\ x.pc = "parent"
  BY <1>1, IdleFits DEF LifeRequest, Idle
<1>3. req' = [req EXCEPT ![r] = x] \/ req' = [req EXCEPT ![r] = Idle]
  BY DEF Land, Asked
<1> HIDE DEF x
<1>4. QED
  BY <1>2, <1>3, IdleFits, AskedStep DEF Fits

(* A large merge, once planned (chunked.go:145-168).                       *)
LEMMA ChunksFit ==
  ASSUME Ledger, Asked, NEW r \in Requests, Chunks(r)
  PROVE  Asked'
<1>1. req[r] \in LifeRequest /\ Fits(req[r])
  BY DEF Asked
<1>2. CASE UNCHANGED req
  BY <1>2 DEF Asked
<1>3. CASE req' = [req EXCEPT ![r] = Idle]
  BY <1>3, IdleFits, AskedStep
<1>4. CASE ~Lost(r) /\ MergeAtOnce(r)
  <2> DEFINE x == [Idle EXCEPT !.pc = "into", !.kind = "merge", !.branch = req[r].branch,
                               !.table = req[r].table, !.source = refs[chunk[r].from]]
  <2>1. refs[chunk[r].from] \in RefType
    BY <1>4 DEF Lost, MergeAtOnce, Planned, Ledger
  <2>2. x \in LifeRequest /\ x.pc = "into"
    BY <1>1, <2>1, IdleFits DEF LifeRequest, Idle
  <2>3. req' = [req EXCEPT ![r] = x]
    BY <1>4 DEF MergeAtOnce
  <2> HIDE DEF x
  <2>4. QED
    BY <2>2, <2>3, AskedStep DEF Fits
<1>5. CASE ~Lost(r) /\ BeginChunks(r)
  <2> DEFINE x == [req[r] EXCEPT !.others = {refs[chunk[r].from].head}]
  <2>1. refs[chunk[r].from].head \in Nat
    BY <1>5 DEF Lost, BeginChunks, Planned, Ledger, RefType
  <2>2. x \in LifeRequest /\ x.pc = "begin"
    BY <1>1, <1>5, <2>1 DEF LifeRequest, BeginChunks, Planned
  <2>3. req' = [req EXCEPT ![r] = x]
    BY <1>5 DEF BeginChunks
  <2> HIDE DEF x
  <2>4. QED
    BY <2>2, <2>3, AskedStep DEF Fits
<1>6. QED
  BY <1>2, <1>3, <1>4, <1>5 DEF Chunks, RefuseLarge, ApplyChunk, ChunkFails, EndChunks

(* No step breaks the requests.                                            *)
LEMMA AskedKept ==
  ASSUME workload \in Workloads, Ledger, Versions, Asked, LifeNext
  PROVE  Asked'
<1>1. workload.requests \subseteq Requests
  BY LifeAssumption
<1>2. ASSUME UNCHANGED req  PROVE Asked'
  BY <1>2 DEF Asked
<1>3. ASSUME NEW r \in Requests, req' = [req EXCEPT ![r] = Idle]  PROVE Asked'
  BY <1>3, IdleFits, AskedStep
<1>4. ASSUME NEW r \in Requests, StoreStep(r) \/ StoreLand(r) \/ StoreRefuse(r) \/ LostFails(r)
      PROVE  Asked'
  BY <1>3, <1>4, ReadFits, PlanFits, SecondFits, LandFits
     DEF StoreStep, StoreLand, StoreRefuse, LostFails, Working, Advance, Refuse, Finish
<1>5. ASSUME NEW r \in Requests, StoreCrash(r)  PROVE Asked'
  BY <1>3, <1>5 DEF StoreCrash, Crash, Finish
<1>6. ASSUME Branching  PROVE Asked'
  BY <1>2, <1>6 DEF Branching, CreateBranch
<1>7. ASSUME LiveSteps  PROVE Asked'
  BY <1>2, <1>7 DEF LiveSteps, Tracks, Untracks, Bypasses, Track, ReadHead, Backfill, TrackDies,
     Untrack, SetWriteMode, AppWrite
<1>8. ASSUME Sessions \/ Leases  PROVE Asked'
  BY <1>2, <1>8 DEF Sessions, Leases
<1>9. ASSUME Removals  PROVE Asked'
  BY <1>2, <1>9 DEF Removals, Tagging, CreateTag, Deleting, DeleteBranch, Pruning, Prune, RunGC,
     CollectList, CollectScan, CollectDelete, Purging, Purge, Partitioning, AddPartition,
     DropPartition, storeVars
<1>10. QED
  BY <1>1, <1>4, <1>5, <1>6, <1>7, <1>8, <1>9, SubmitsFit, ChunksFit DEF LifeNext

-----------------------------------------------------------------------------
(* Sessions and calls.                                                     *)

(* The sessions that are there stay, on their branches, and their branches *)
(* stay with them.                                                         *)
Kept ==
  /\ \A s \in DOMAIN sessions : s \in DOMAIN sessions' /\ sessions'[s].branch = sessions[s].branch
  /\ \A s \in DOMAIN sessions : sessions[s].branch \in DOMAIN refs'
  /\ DOMAIN commits \subseteq DOMAIN commits'

(* Sessions are opened, and change their state or their lease              *)
(* (branch.go:230-300, 540-625).                                           *)
LEMMA SessionSteps ==
  ASSUME workload \in Workloads, Ledger, Opened, Called, LifeNext
  PROVE  \/ UNCHANGED sessions
         \/ \E s \in SessionIds, b \in DOMAIN refs : OpenSession(s, b)
         \/ \E s : \E state \in {"committed", "abandoned", "expired"} :
              sessions' = [sessions EXCEPT ![s].state = state]
         \/ \E s : \E lapsed \in BOOLEAN : sessions' = [sessions EXCEPT ![s].lapsed = lapsed]
<1>1. workload.sessions \subseteq SessionIds /\ workload.callers \subseteq Callers
  BY LifeAssumption
<1>2. CASE Sessions
  <2>1. CASE Opens
    BY <1>1, <2>1 DEF Opens
  <2>2. CASE Writes
    <3>1. CASE UNCHANGED sessions
      BY <3>1
    <3>2. ASSUME NEW k, SessionWrite(k)
          PROVE  sessions' = [sessions EXCEPT ![calls[k].session].lapsed = FALSE]
      BY <3>2 DEF SessionWrite
    <3>3. QED
      BY <2>2, <3>1, <3>2 DEF Writes, BeginWrite, BeginCall, CallFails
  <2>3. CASE Publishes
    <3>1. CASE UNCHANGED sessions
      BY <3>1
    <3>2. ASSUME NEW k, PublishStamp(k)
          PROVE  sessions' = [sessions EXCEPT ![calls[k].session].state = "committed"]
      BY <3>2 DEF PublishStamp
    <3>3. QED
      BY <2>3, <3>1, <3>2 DEF Publishes, BeginPublish, BeginCall, PublishRead, CallFails
  <2>4. CASE Abandons
    <3>1. PICK s, t : AbandonSession(s, t)
      BY <2>4 DEF Abandons
    <3>2. sessions' = [sessions EXCEPT ![s].state = "abandoned"]
      BY <3>1 DEF AbandonSession
    <3>3. QED
      BY <3>2
  <2>5. QED
    BY <1>2, <2>1, <2>2, <2>3, <2>4 DEF Sessions
<1>3. CASE Leases
  <2>1. ASSUME NEW s, LeaseLapses(s)  PROVE sessions' = [sessions EXCEPT ![s].lapsed = TRUE]
    BY <2>1 DEF LeaseLapses
  <2>2. ASSUME ReapState
        PROVE  sessions' = [sessions EXCEPT ![reaper.current].state = "expired"]
    BY <2>2 DEF ReapState
  <2>3. CASE UNCHANGED sessions
    BY <2>3
  <2>4. QED
    BY <1>3, <2>1, <2>2, <2>3 DEF Leases, ReapRows, ReapList, ReaperDies
<1>4. CASE Removals
  BY <1>4 DEF Removals, Tagging, CreateTag, Deleting, DeleteBranch, Pruning, Prune, RunGC,
     CollectList, CollectScan, CollectDelete, Purging, Purge, Partitioning, AddPartition,
     DropPartition, sessionVars
<1>5. ASSUME OthersUnchanged  PROVE UNCHANGED sessions
  BY <1>5 DEF OthersUnchanged, sessionVars
<1>6. ASSUME NEW r, StoreStep(r) \/ StoreLand(r) \/ StoreRefuse(r) \/ LostFails(r) \/ StoreCrash(r)
      PROVE  UNCHANGED sessions
  BY <1>6 DEF StoreStep, StoreLand, StoreRefuse, LostFails, StoreCrash, sessionVars
<1>7. QED
  BY <1>2, <1>3, <1>4, <1>5, <1>6 DEF LifeNext

(* A branch goes only when no session is on it (branch.go:130-151), and a  *)
(* commit never goes.                                                      *)
LEMMA RefsGo ==
  ASSUME workload \in Workloads, Ledger, LifeNext
  PROVE  /\ \/ DOMAIN refs \subseteq DOMAIN refs'
            \/ \E b \in DOMAIN refs : DeleteBranch(b)
         /\ DOMAIN commits \subseteq DOMAIN commits'
<1>1. commits \in Seq(CommitType)
  BY DEF Ledger
<1>2. ASSUME NEW c  PROVE DOMAIN commits \subseteq DOMAIN Append(commits, c)
  BY <1>1
<1>3. CASE UNCHANGED <<refs, commits>>
  BY <1>3
<1>4. ASSUME NEW r \in Requests, Land(r) \/ Advance(r)
      PROVE  DOMAIN refs' = DOMAIN refs /\ DOMAIN commits \subseteq DOMAIN commits'
  BY <1>2, <1>4 DEF Land, Advance
<1>5. ASSUME NEW k \in Callers, SessionWrite(k) \/ PublishStamp(k)
      PROVE  DOMAIN refs' = DOMAIN refs /\ DOMAIN commits \subseteq DOMAIN commits'
  BY <1>2, <1>5 DEF SessionWrite, PublishStamp
<1>6. ASSUME NEW n, NEW from, CreateBranch(n, from)
      PROVE  DOMAIN refs \subseteq DOMAIN refs' /\ commits' = commits
  BY <1>6 DEF CreateBranch
<1>7. ASSUME NEW b \in DOMAIN refs, DeleteBranch(b)  PROVE commits' = commits
  BY <1>7 DEF DeleteBranch
<1>8. QED
  BY <1>3, <1>4, <1>5, <1>6, <1>7, LedgerMoves DEF Untouched, Drops, Backfill, Prune

(* No step loses a session, or the branch of one.                          *)
LEMMA KeptStep ==
  ASSUME workload \in Workloads, Ledger, Opened, Called, LifeNext
  PROVE  Kept
<1>1. ASSUME NEW s \in DOMAIN sessions
      PROVE  s \in DOMAIN sessions' /\ sessions'[s].branch = sessions[s].branch
  <2>1. sessions[s] \in SessionType
    BY DEF Opened
  <2>2. ASSUME NEW x \in SessionIds, NEW b, OpenSession(x, b)
        PROVE  s \in DOMAIN sessions' /\ sessions'[s] = sessions[s]
    BY <2>2 DEF OpenSession
  <2>3. ASSUME NEW x, NEW state, sessions' = [sessions EXCEPT ![x].state = state]
        PROVE  s \in DOMAIN sessions' /\ sessions'[s].branch = sessions[s].branch
    BY <2>1, <2>3 DEF SessionType
  <2>4. ASSUME NEW x, NEW lapsed, sessions' = [sessions EXCEPT ![x].lapsed = lapsed]
        PROVE  s \in DOMAIN sessions' /\ sessions'[s].branch = sessions[s].branch
    BY <2>1, <2>4 DEF SessionType
  <2>5. QED
    BY <2>2, <2>3, <2>4, SessionSteps
<1>2. ASSUME NEW s \in DOMAIN sessions  PROVE sessions[s].branch \in DOMAIN refs'
  <2>1. sessions[s].branch \in DOMAIN refs
    BY DEF Opened
  <2>2. CASE DOMAIN refs \subseteq DOMAIN refs'
    BY <2>1, <2>2
  <2>3. CASE \E b \in DOMAIN refs : DeleteBranch(b)
    BY <2>1, <2>3 DEF DeleteBranch
  <2>4. QED
    BY <2>2, <2>3, RefsGo
<1>3. QED
  BY <1>1, <1>2, RefsGo DEF Kept

(* No step breaks the sessions.                                            *)
LEMMA OpenedKept ==
  ASSUME workload \in Workloads, Ledger, Opened, Called, LifeNext
  PROVE  Opened'
<1>1. Kept
  BY KeptStep
<1>2. ASSUME NEW s \in DOMAIN sessions', s \in DOMAIN sessions, sessions'[s] \in SessionType'
      PROVE  sessions'[s].branch \in DOMAIN refs' \ {Main}
  BY <1>1, <1>2 DEF Kept, Opened
<1>3. \A s \in DOMAIN sessions : sessions[s] \in SessionType'
  BY <1>1 DEF Kept, Opened, SessionType
<1>4. CASE UNCHANGED sessions
  BY <1>2, <1>3, <1>4 DEF Opened
<1>5. ASSUME NEW s \in SessionIds, NEW b \in DOMAIN refs, OpenSession(s, b)
      PROVE  Opened'
  <2> DEFINE new == [state |-> "open", branch |-> b, base |-> refs[b].head,
                     baseSeq |-> refs[b].headSeq, lapsed |-> FALSE]
  <2>1. refs' = refs /\ commits' = commits /\ b # Main
    BY <1>5 DEF OpenSession
  <2>2. b \in Branches /\ refs[b].headSeq \in Nat /\ refs[b].head \in DOMAIN commits
    BY DEF Ledger, RefType
  <2>3. new \in SessionType' /\ new.branch = b
    BY <2>1, <2>2 DEF SessionType
  <2>4. /\ DOMAIN sessions' = DOMAIN sessions \cup {s}
        /\ \A x \in DOMAIN sessions \cup {s} : sessions'[x] = IF x = s THEN new ELSE sessions[x]
    BY <1>5 DEF OpenSession
  <2> HIDE DEF new
  <2>5. QED
    BY <1>3, <2>1, <2>3, <2>4 DEF Opened
<1>6. ASSUME NEW s, NEW state \in {"committed", "abandoned", "expired"},
             sessions' = [sessions EXCEPT ![s].state = state]
      PROVE  Opened'
  <2>1. \A x \in SessionType' : [x EXCEPT !.state = state] \in SessionType'
    BY DEF SessionType
  <2>2. DOMAIN sessions' = DOMAIN sessions
    BY <1>6
  <2>3. \A x \in DOMAIN sessions :
          sessions'[x] = sessions[x] \/ sessions'[x] = [sessions[x] EXCEPT !.state = state]
    BY <1>6
  <2>4. \A x \in DOMAIN sessions : sessions'[x] \in SessionType'
    BY <1>3, <2>1, <2>3
  <2>5. QED
    BY <1>2, <2>2, <2>4 DEF Opened
<1>7. ASSUME NEW s, NEW lapsed \in BOOLEAN,
             sessions' = [sessions EXCEPT ![s].lapsed = lapsed]
      PROVE  Opened'
  <2>1. \A x \in SessionType' : [x EXCEPT !.lapsed = lapsed] \in SessionType'
    BY DEF SessionType
  <2>2. DOMAIN sessions' = DOMAIN sessions
    BY <1>7
  <2>3. \A x \in DOMAIN sessions :
          sessions'[x] = sessions[x] \/ sessions'[x] = [sessions[x] EXCEPT !.lapsed = lapsed]
    BY <1>7
  <2>4. \A x \in DOMAIN sessions : sessions'[x] \in SessionType'
    BY <1>3, <2>1, <2>3
  <2>5. QED
    BY <1>2, <2>2, <2>4 DEF Opened
<1>8. QED
  BY <1>4, <1>5, <1>6, <1>7, SessionSteps

(* One caller begins, goes on or ends.                                     *)
LEMMA CalledStep ==
  ASSUME Called, Kept, NEW k \in Callers, NEW call \in CallType,
         call # NoCall => /\ call.session \in DOMAIN sessions
                          /\ call.pc = "stamp" => call.ref.chain # <<>>,
         calls' = [calls EXCEPT ![k] = call]
  PROVE  Called'
<1>1. \A j \in Callers : calls'[j] = IF j = k THEN call ELSE calls[j]
  BY DEF Called
<1>2. calls' \in [Callers -> CallType]
  BY DEF Called
<1>3. QED
  BY <1>1, <1>2 DEF Called, Kept

(* No step breaks the calls.                                               *)
LEMMA CalledKept ==
  ASSUME workload \in Workloads, Ledger, Versions, Opened, Called, LifeNext
  PROVE  Called'
<1>1. Kept
  BY KeptStep
<1>2. workload.callers \subseteq Callers
  BY LifeAssumption
<1>3. CASE UNCHANGED calls
  BY <1>1, <1>3 DEF Called, Kept
<1>4. ASSUME NEW k \in Callers, EndCall(k)  PROVE Called'
  <2>1. NoCall \in CallType
    BY DEF CallType
  <2>2. QED
    BY <1>1, <1>4, <2>1, CalledStep DEF EndCall
<1>5. ASSUME NEW k \in Callers, NEW s \in DOMAIN sessions, NEW changes \in ChangeSets,
             BeginWrite(k, s, changes)
      PROVE  Called'
  <2> DEFINE call == [pc |-> "write", session |-> s, changes |-> changes]
  <2>1. s \in SessionIds /\ changes \in ChangeSet
    BY StoreAssumption DEF Opened
  <2>2. call \in CallType
    BY <2>1 DEF CallType
  <2>3. QED
    BY <1>1, <1>5, <2>2, CalledStep DEF BeginWrite, BeginCall
<1>6. ASSUME NEW k \in Callers, NEW s \in DOMAIN sessions, NEW t \in Tables,
             BeginPublish(k, s, t)
      PROVE  Called'
  <2> DEFINE call == [pc |-> "publish", session |-> s, table |-> t]
  <2>1. s \in SessionIds
    BY DEF Opened
  <2>2. call \in CallType
    BY <2>1 DEF CallType
  <2>3. QED
    BY <1>1, <1>6, <2>2, CalledStep DEF BeginPublish, BeginCall
<1>7. ASSUME NEW k \in Callers, PublishRead(k)  PROVE Called'
  <2> DEFINE s == calls[k].session
             b == sessions[s].branch
             call == [pc |-> "stamp", session |-> s, table |-> calls[k].table,
                      ref |-> refs[b], keys |-> StagedKeys(s, calls[k].table)]
  <2>1. calls[k] \in CallType /\ calls[k].pc = "publish" /\ calls[k] # NoCall
    BY <1>7 DEF PublishRead, Called, NoCall
  <2>2. s \in DOMAIN sessions /\ s \in SessionIds /\ calls[k].table \in Tables
    BY <2>1 DEF Called, CallType, Opened
  <2>3. refs[b] \in RefType /\ refs[b].chain # <<>>
    BY <2>2 DEF Opened, Ledger, RefOK
  <2>4. StagedKeys(s, calls[k].table) \subseteq PKs
    BY DEF StagedKeys, Staged, Versions, VersionType
  <2>5. calls' = [calls EXCEPT ![k] = call]
    BY <1>7 DEF PublishRead, Called
  <2> HIDE DEF s, b
  <2>6. call \in CallType /\ call.session = s /\ call.ref = refs[b]
    BY <2>2, <2>3, <2>4 DEF CallType
  <2> HIDE DEF call
  <2>7. QED
    BY <1>1, <2>2, <2>3, <2>5, <2>6, CalledStep
<1>8. CASE Sessions
  BY <1>2, <1>3, <1>4, <1>5, <1>6, <1>7, <1>8 DEF Sessions, Opens, Writes, Publishes, Abandons,
     SessionWrite, PublishStamp, CallFails, AbandonSession, OpenSession
<1>9. CASE Leases
  BY <1>3, <1>9 DEF Leases, LeaseLapses, ReapRows, ReapList, ReapState, ReaperDies
<1>10. CASE Removals
  BY <1>3, <1>10 DEF Removals, Tagging, CreateTag, Deleting, DeleteBranch, Pruning, Prune, RunGC,
     CollectList, CollectScan, CollectDelete, Purging, Purge, Partitioning, AddPartition,
     DropPartition, sessionVars
<1>11. CASE OthersUnchanged
  BY <1>3, <1>11 DEF OthersUnchanged, sessionVars
<1>12. ASSUME NEW r, StoreStep(r) \/ StoreLand(r) \/ StoreRefuse(r) \/ LostFails(r) \/ StoreCrash(r)
       PROVE  UNCHANGED calls
  BY <1>12 DEF StoreStep, StoreLand, StoreRefuse, LostFails, StoreCrash, sessionVars
<1>13. QED
  BY <1>3, <1>8, <1>9, <1>10, <1>11, <1>12 DEF LifeNext

-----------------------------------------------------------------------------
(* Locks.                                                                  *)

(* Locks are taken by requests and by calls, for themselves.               *)
LEMMA LockedKept ==
  ASSUME workload \in Workloads, Locked, Called, LifeNext
  PROVE  Locked'
<1>1. workload.requests \subseteq Requests /\ workload.callers \subseteq Callers
  BY LifeAssumption
<1>2. CASE UNCHANGED lock
  BY <1>2 DEF Locked
<1>3. ASSUME NEW r \in Requests, Release(r)  PROVE Locked'
  BY <1>3 DEF Release, Locked
<1>4. ASSUME NEW k \in Callers, Unlock(k)  PROVE Locked'
  BY <1>4 DEF Unlock, Locked
<1>5. ASSUME NEW x \in Requests \cup Callers, NEW b, lock' = [lock EXCEPT ![b] = x]  PROVE Locked'
  BY <1>5 DEF Locked
<1>6. ASSUME NEW r \in Requests, StoreStep(r)  PROVE Locked'
  BY <1>2, <1>5, <1>6 DEF StoreStep, Lock, ReadUnlocked, ReadParent, ReadChild, Advance, PlanMerge
<1>7. ASSUME NEW r \in Requests, StoreLand(r) \/ StoreRefuse(r) \/ LostFails(r) \/ StoreCrash(r)
      PROVE  Locked'
  BY <1>3, <1>7 DEF StoreLand, StoreRefuse, LostFails, StoreCrash, Land, Refuse, Crash, Finish
<1>8. ASSUME NEW r, Submits(r) \/ Chunks(r)  PROVE UNCHANGED lock
  BY <1>8 DEF Submits, Commits, Merges, UpdatesFromParent, LargeMerges, Reverts, SubmitCommit,
     SubmitMerge, SubmitUpdate, SubmitLarge, SubmitRevert, Chunks, MergeAtOnce, RefuseLarge,
     BeginChunks, ApplyChunk, ChunkFails, EndChunks
<1>9. CASE Sessions
  <2>1. ASSUME NEW k \in Callers, PublishRead(k)  PROVE Locked'
    BY <1>5, <2>1 DEF PublishRead
  <2>2. ASSUME NEW k \in Callers, PublishStamp(k) \/ CallFails(k)  PROVE Locked'
    BY <1>4, <2>2 DEF PublishStamp, CallFails
  <2>3. QED
    BY <1>1, <1>2, <1>9, <2>1, <2>2 DEF Sessions, Opens, Writes, Publishes, Abandons, BeginWrite,
       BeginPublish, BeginCall, SessionWrite, AbandonSession, OpenSession
<1>10. CASE Leases
  BY <1>2, <1>10 DEF Leases, LeaseLapses, ReapRows, ReapList, ReapState, ReaperDies
<1>11. CASE Removals
  BY <1>2, <1>11 DEF Removals, Tagging, CreateTag, Deleting, DeleteBranch, Pruning, Prune, RunGC,
     CollectList, CollectScan, CollectDelete, Purging, Purge, Partitioning, AddPartition,
     DropPartition, storeVars
<1>12. CASE LiveSteps
  BY <1>2, <1>12 DEF LiveSteps, Tracks, Untracks, Bypasses, Track, ReadHead, Backfill, TrackDies,
     Untrack, SetWriteMode, AppWrite
<1>13. CASE Branching
  BY <1>2, <1>13 DEF Branching, CreateBranch
<1>14. QED
  BY <1>1, <1>2, <1>6, <1>7, <1>8, <1>9, <1>10, <1>11, <1>12, <1>13 DEF LifeNext

-----------------------------------------------------------------------------
(* Chunked merges and the tables they write.                               *)

(* One request's chunked merge moves.                                      *)
LEMMA ChunkStep ==
  ASSUME Asked, Chunked, NEW r \in Requests, NEW c, NEW x,
         \/ chunk' = chunk /\ c = chunk[r]
         \/ chunk' = [chunk EXCEPT ![r] = c],
         \/ req' = req /\ x = req[r]
         \/ req' = [req EXCEPT ![r] = x],
         c \in ChunkType,
         c.pc = "apply" => c.left \subseteq DOMAIN x.changes
  PROVE  Chunked'
<1>1. /\ DOMAIN chunk' = Requests /\ chunk'[r] = c /\ req'[r] = x
      /\ \A q \in Requests \ {r} : chunk'[q] = chunk[q] /\ req'[q] = req[q]
  BY DEF Chunked, Asked
<1>2. ASSUME NEW q \in Requests  PROVE ChunkOK(q)'
  <2>1. CASE q = r
    BY <1>1, <2>1 DEF ChunkOK
  <2>2. CASE q # r
    BY <1>1, <2>2 DEF ChunkOK, Chunked
  <2>3. QED
    BY <2>1, <2>2
<1>3. QED
  BY <1>1, <1>2 DEF Chunked

(* A request that does not work through chunks keeps what its merge has,   *)
(* forgets it, or goes on to the flag (chunked.go:84-101).                 *)
LEMMA ChunkRests ==
  ASSUME Asked, Chunked, NEW r \in Requests, NEW x, NEW how \in {"landed", "refused"},
         chunk[r].pc # "apply",
         \/ UNCHANGED chunk \/ Forget(r) \/ CommitEnds(r, how),
         \/ req' = req /\ x = req[r]
         \/ req' = [req EXCEPT ![r] = x]
  PROVE  Chunked'
<1>1. ChunkOK(r)
  BY DEF Chunked
<1>2. CASE UNCHANGED chunk
  BY <1>1, <1>2, ChunkStep DEF ChunkOK
<1>3. CASE Forget(r)
  <2>1. chunk' = [chunk EXCEPT ![r] = NoChunk] /\ NoChunk.pc = "idle" /\ NoChunk \in ChunkType
    BY <1>3 DEF Forget, NoChunk, ChunkType
  <2>2. QED
    BY <2>1, ChunkStep
<1>4. CASE CommitEnds(r, how)
  <2>1. CASE chunk[r].pc = "commit"
    <3> DEFINE c == [pc |-> how, into |-> req[r].branch, keys |-> chunk[r].keys]
    <3>1. chunk' = [chunk EXCEPT ![r] = c]
      BY <1>4, <2>1 DEF CommitEnds, Chunked
    <3>2. c \in ChunkType /\ c.pc # "apply"
      <4>1. chunk[r].keys \subseteq PKs /\ req[r].branch \in Branches
        BY <1>1, <2>1 DEF ChunkOK, ChunkType, AtWork, NoChunk, Asked, LifeRequest
      <4>2. QED
        BY <4>1 DEF ChunkType
    <3> HIDE DEF c
    <3>3. QED
      BY <3>1, <3>2, ChunkStep
  <2>2. CASE chunk[r].pc # "commit"
    <3>1. chunk' = [chunk EXCEPT ![r] = chunk[r]]
      BY <1>4, <2>2 DEF CommitEnds, Chunked
    <3>2. QED
      BY <1>1, <3>1, ChunkStep DEF ChunkOK
  <2>3. QED
    BY <2>1, <2>2
<1>5. QED
  BY <1>2, <1>3, <1>4

(* The steps of a chunked merge itself (chunked.go:55-124, 145-168).       *)
LEMMA ChunksKeepChunked ==
  ASSUME Asked, Chunked, NEW r \in Requests, Chunks(r)
  PROVE  Chunked'
<1>1. req[r] \in LifeRequest /\ ChunkOK(r)
  BY DEF Asked, Chunked
<1>2. NoChunk.pc = "idle" /\ NoChunk \in ChunkType
  BY DEF NoChunk, ChunkType, AtWork
<1>3. CASE MergeAtOnce(r)
  BY <1>2, <1>3, ChunkStep DEF MergeAtOnce
<1>4. CASE RefuseLarge(r)
  BY <1>2, <1>4, ChunkStep DEF RefuseLarge
<1>5. CASE BeginChunks(r)
  <2> DEFINE c == [chunk[r] EXCEPT !.pc = "apply", !.keys = DOMAIN req[r].changes,
                                   !.left = DOMAIN req[r].changes]
             x == [req[r] EXCEPT !.others = {refs[chunk[r].from].head}]
  <2>1. DOMAIN req[r].changes \subseteq PKs
    BY <1>1 DEF LifeRequest, ChangeSet
  <2>2. chunk' = [chunk EXCEPT ![r] = c] /\ req' = [req EXCEPT ![r] = x]
    BY <1>5 DEF BeginChunks
  <2>3. x.changes = req[r].changes
    BY <1>1 DEF LifeRequest
  <2>4. c \in ChunkType /\ c.left = DOMAIN req[r].changes
    <3>1. chunk[r] \in ChunkType /\ chunk[r].pc = "plan"
      BY <1>1, <1>5 DEF ChunkOK, BeginChunks, Planned
    <3>2. chunk[r] \in AtWork
      BY <3>1 DEF ChunkType, NoChunk, AtWork
    <3>3. c \in AtWork /\ c.left = DOMAIN req[r].changes
      BY <2>1, <3>2 DEF AtWork
    <3>4. QED
      BY <3>3 DEF ChunkType
  <2> HIDE DEF c, x
  <2>5. QED
    BY <2>2, <2>3, <2>4, ChunkStep
<1>6. ASSUME NEW pk, ApplyChunk(r, pk)  PROVE Chunked'
  <2> DEFINE c == [chunk[r] EXCEPT !.left = @ \ {pk},
                                   !.pc = IF chunk[r].left = {pk} THEN "commit" ELSE "apply"]
  <2>1. chunk[r] \in ChunkType /\ chunk[r].pc = "apply" /\ chunk[r].left \subseteq DOMAIN req[r].changes
    BY <1>1, <1>6 DEF ChunkOK, ApplyChunk
  <2>2. c \in ChunkType /\ c.left \subseteq DOMAIN req[r].changes
    <3>1. chunk[r] \in AtWork
      BY <2>1 DEF ChunkType, NoChunk, AtWork
    <3>2. c \in AtWork /\ c.left = chunk[r].left \ {pk}
      BY <3>1 DEF AtWork
    <3>3. QED
      BY <2>1, <3>2 DEF ChunkType
  <2>3. chunk' = [chunk EXCEPT ![r] = c] /\ req' = req
    BY <1>6 DEF ApplyChunk, Chunked
  <2> HIDE DEF c
  <2>4. QED
    BY <2>2, <2>3, ChunkStep
<1>7. CASE ChunkFails(r)
  BY <1>2, <1>7, ChunkStep DEF ChunkFails
<1>8. CASE EndChunks(r)
  BY <1>2, <1>8, ChunkStep DEF EndChunks
<1>9. QED
  BY <1>3, <1>4, <1>5, <1>6, <1>7, <1>8 DEF Chunks

(* A request that ends as its branch goes leaves its chunks refused.       *)
LEMMA LostKeepsChunked ==
  ASSUME Asked, Chunked, NEW r \in Requests, LostFails(r)
  PROVE  Chunked'
<1>1. req' = [req EXCEPT ![r] = Idle] /\ ChunkOK(r) /\ req[r].branch \in Branches
  BY DEF LostFails, Finish, Chunked, Asked, LifeRequest
<1>2. CASE chunk[r].pc = "apply"
  <2> DEFINE c == [pc |-> "refused", into |-> req[r].branch, keys |-> chunk[r].keys]
  <2>1. chunk' = [chunk EXCEPT ![r] = c]
    BY <1>2 DEF LostFails, Chunked
  <2>2. c \in ChunkType /\ c.pc # "apply"
    BY <1>1, <1>2 DEF ChunkOK, ChunkType, AtWork, NoChunk
  <2> HIDE DEF c
  <2>3. QED
    BY <1>1, <2>1, <2>2, ChunkStep
<1>3. CASE chunk[r].pc # "apply"
  BY <1>1, <1>3, ChunkRests DEF LostFails
<1>4. QED
  BY <1>2, <1>3

(* No step breaks the chunked merges.                                      *)
LEMMA ChunkedKept ==
  ASSUME workload \in Workloads, Ledger, Asked, Chunked, LifeNext
  PROVE  Chunked'
<1>1. workload.requests \subseteq Requests /\ DOMAIN refs \subseteq Branches
  BY LifeAssumption DEF Ledger
<1>2. CASE UNCHANGED <<req, chunk>>
  BY <1>2 DEF Chunked, ChunkOK
<1>3. ASSUME NEW r \in Requests, StoreStep(r)  PROVE Chunked'
  <2>1. PICK x : req' = [req EXCEPT ![r] = x]
    BY <1>3 DEF StoreStep, Lock, ReadUnlocked, ReadParent, ReadChild, Advance, PlanMerge
  <2>2. UNCHANGED chunk \/ Forget(r)
    BY <1>3 DEF StoreStep
  <2>3. QED
    BY <1>3, <2>1, <2>2, ChunkRests DEF StoreStep, Working
<1>4. ASSUME NEW r \in Requests, StoreLand(r)  PROVE Chunked'
  <2>1. PICK x : req' = [req EXCEPT ![r] = x]
    BY <1>4 DEF StoreLand, Land
  <2>2. QED
    BY <1>4, <2>1, ChunkRests DEF StoreLand, Working
<1>5. ASSUME NEW r \in Requests, StoreRefuse(r)  PROVE Chunked'
  BY <1>5, ChunkRests DEF StoreRefuse, Working, Refuse, Finish
<1>6. ASSUME NEW r \in Requests, StoreCrash(r)  PROVE Chunked'
  <2>1. NoChunk.pc = "idle" /\ NoChunk \in ChunkType
    BY DEF NoChunk, ChunkType, AtWork
  <2>2. QED
    BY <1>6, <2>1, ChunkStep DEF StoreCrash, Forget, Crash, Finish
<1>7. ASSUME NEW r \in Requests, Submits(r)  PROVE Chunked'
  <2>1. chunk[r].pc = "idle"
    BY <1>7 DEF Submits
  <2>2. PICK x : req' = [req EXCEPT ![r] = x]
    BY <1>7 DEF Submits, Commits, Merges, UpdatesFromParent, LargeMerges, Reverts, SubmitCommit,
       SubmitMerge, SubmitUpdate, SubmitLarge, SubmitRevert
  <2>3. CASE UNCHANGED chunk
    BY <2>1, <2>2, <2>3, ChunkRests
  <2>4. CASE LargeMerges(r)
    <3>1. PICK from \in DOMAIN refs :
             chunk' = [chunk EXCEPT ![r] = [pc |-> "plan", from |-> from, keys |-> {}, left |-> {}]]
      BY <2>4 DEF LargeMerges, SubmitLarge
    <3>2. [pc |-> "plan", from |-> from, keys |-> {}, left |-> {}] \in ChunkType
      BY <1>1 DEF ChunkType, AtWork
    <3>3. QED
      BY <2>2, <3>1, <3>2, ChunkStep
  <2>5. QED
    BY <1>7, <2>3, <2>4 DEF Submits, Commits, Merges, UpdatesFromParent, Reverts, liveVars
<1>8. CASE Sessions \/ Leases
  BY <1>2, <1>8 DEF Sessions, Leases, liveVars
<1>9. CASE Removals
  BY <1>2, <1>9 DEF Removals, Tagging, CreateTag, Deleting, DeleteBranch, Pruning, Prune, RunGC,
     CollectList, CollectScan, CollectDelete, Purging, Purge, Partitioning, AddPartition,
     DropPartition, storeVars, liveVars
<1>10. CASE LiveSteps
  BY <1>2, <1>10 DEF LiveSteps, Tracks, Untracks, Bypasses, Track, ReadHead, Backfill, TrackDies,
     Untrack, SetWriteMode, AppWrite
<1>11. CASE Branching
  BY <1>2, <1>11 DEF Branching, CreateBranch, liveVars
<1>12. QED
  BY <1>1, <1>3, <1>4, <1>5, <1>6, <1>7, <1>8, <1>9, <1>10, <1>11, LostKeepsChunked,
     ChunksKeepChunked DEF LifeNext

(* Rows written to the live table leave a table (store.go:454-458).        *)
LEMMA LiveWritten ==
  ASSUME live \in Table, NEW b, NEW changes, ApplyLive(b, changes),
         \A pk \in DOMAIN changes \cap PKs : changes[pk] \in Image
  PROVE  live' \in Table
<1>1. Apply(live, changes) \in Table
  BY DEF Apply, Table
<1>2. QED
  BY <1>1 DEF ApplyLive

(* No step breaks the live tables.                                         *)
LEMMA LiveTyped ==
  ASSUME workload \in Workloads, Asked, Chunked, live \in Table, LifeNext
  PROVE  live' \in Table
<1>1. workload.requests \subseteq Requests
  BY LifeAssumption
<1>2. \A changes \in ChangeSet : \A pk \in DOMAIN changes : pk \in PKs /\ changes[pk] \in Image
  BY DEF ChangeSet
<1>3. ASSUME NEW r \in Requests, Land(r)  PROVE live' \in Table
  <2> DEFINE changes == [pk \in Effective(r) |-> req[r].changes[pk]]
  <2>1. req[r].changes \in ChangeSet
    BY DEF Asked, LifeRequest
  <2>2. \A pk \in DOMAIN changes : changes[pk] \in Image
    BY <1>2, <2>1 DEF Effective
  <2>3. ApplyLive(req[r].branch, changes)
    BY <1>3 DEF Land
  <2> HIDE DEF changes
  <2>4. QED
    BY <2>2, <2>3, LiveWritten
<1>4. ASSUME NEW r \in Requests, NEW pk, ApplyChunk(r, pk)  PROVE live' \in Table
  <2> DEFINE changes == [k \in {pk} |-> req[r].changes[k]]
  <2>1. req[r].changes \in ChangeSet /\ pk \in DOMAIN req[r].changes
    BY <1>4 DEF ApplyChunk, Asked, LifeRequest, Chunked, ChunkOK
  <2>2. \A k \in DOMAIN changes : changes[k] \in Image
    BY <1>2, <2>1
  <2>3. ApplyLive(req[r].branch, changes)
    BY <1>4 DEF ApplyChunk
  <2> HIDE DEF changes
  <2>4. QED
    BY <2>2, <2>3, LiveWritten
<1>5. ASSUME NEW pk \in PKs, NEW image \in Image, live' = [live EXCEPT ![pk] = image]
      PROVE  live' \in Table
  BY <1>5 DEF Table
<1>6. ASSUME NEW r \in Requests, Chunks(r)  PROVE live' \in Table
  BY <1>4, <1>6 DEF Chunks, MergeAtOnce, RefuseLarge, BeginChunks, ChunkFails, EndChunks
<1>7. ASSUME NEW r, Submits(r)  PROVE UNCHANGED live
  BY <1>7 DEF Submits, Commits, Merges, UpdatesFromParent, LargeMerges, Reverts, SubmitCommit,
     SubmitMerge, SubmitUpdate, SubmitLarge, SubmitRevert
<1>8. ASSUME NEW r \in Requests,
             StoreStep(r) \/ StoreLand(r) \/ StoreRefuse(r) \/ LostFails(r) \/ StoreCrash(r)
      PROVE  live' \in Table
  BY <1>3, <1>8 DEF StoreStep, StoreLand, StoreRefuse, LostFails, StoreCrash, Refuse, Crash, Lock,
     ReadUnlocked, ReadParent, ReadChild, Advance, PlanMerge
<1>9. ASSUME Sessions  PROVE UNCHANGED live
  BY <1>9 DEF Sessions, Opens, Writes, Publishes, Abandons, BeginWrite, BeginPublish, BeginCall,
     SessionWrite, PublishRead, PublishStamp, CallFails, AbandonSession, OpenSession
<1>10. ASSUME Leases  PROVE UNCHANGED live
  BY <1>10 DEF Leases, LeaseLapses, ReapRows, ReapList, ReapState, ReaperDies
<1>11. CASE Removals
  <2>1. ASSUME NEW pk \in PKs, Purge(pk)  PROVE live' \in Table
    BY <1>5, <2>1 DEF Purge, Image
  <2>2. QED
    BY <1>11, <2>1 DEF Removals, Tagging, CreateTag, Deleting, DeleteBranch, Pruning, Prune, RunGC,
       CollectList, CollectScan, CollectDelete, Purging, Partitioning, AddPartition,
       DropPartition, storeVars
<1>12. CASE LiveSteps
  <2>1. ASSUME NEW changes \in ChangeSets, NEW pk, pk \in DOMAIN changes,
               AppWrite(pk, changes[pk])
        PROVE  live' \in Table
    BY <1>2, <1>5, <2>1, StoreAssumption DEF AppWrite
  <2>2. QED
    BY <1>12, <2>1 DEF LiveSteps, Tracks, Untracks, Bypasses, Track, ReadHead, Backfill, TrackDies,
       Untrack, SetWriteMode
<1>13. CASE Branching
  BY <1>13 DEF Branching, CreateBranch
<1>14. QED
  BY <1>1, <1>6, <1>7, <1>8, <1>9, <1>10, <1>11, <1>12, <1>13 DEF LifeNext

(* A step of a request, of a session or of what removes history leaves     *)
(* tracking, modes and imports alone.                                      *)
LEMMA OnlyLiveSteps ==
  ASSUME LifeNext
  PROVE  LiveSteps \/ UNCHANGED <<tracking, mode, importer>>
<1>1. ASSUME NEW r, StoreStep(r) \/ StoreLand(r) \/ StoreRefuse(r) \/ LostFails(r) \/ StoreCrash(r)
      PROVE  UNCHANGED <<tracking, mode, importer>>
  BY <1>1 DEF StoreStep, StoreLand, StoreRefuse, LostFails, StoreCrash
<1>2. ASSUME NEW r, Submits(r)  PROVE UNCHANGED <<tracking, mode, importer>>
  BY <1>2 DEF Submits, Commits, Merges, UpdatesFromParent, LargeMerges, Reverts, SubmitLarge, liveVars
<1>3. ASSUME NEW r, Chunks(r)  PROVE UNCHANGED <<tracking, mode, importer>>
  BY <1>3 DEF Chunks, MergeAtOnce, RefuseLarge, BeginChunks, ApplyChunk, ChunkFails, EndChunks
<1>4. ASSUME Sessions \/ Leases \/ Branching  PROVE UNCHANGED <<tracking, mode, importer>>
  BY <1>4 DEF Sessions, Leases, Branching, liveVars
<1>5. ASSUME Removals  PROVE UNCHANGED <<tracking, mode, importer>>
  BY <1>5 DEF Removals, Tagging, CreateTag, Deleting, DeleteBranch, Pruning, Prune, RunGC,
     CollectList, CollectScan, CollectDelete, Purging, Purge, Partitioning, AddPartition,
     DropPartition, liveVars
<1>6. QED
  BY <1>1, <1>2, <1>3, <1>4, <1>5 DEF LifeNext

(* No step breaks what is tracked.                                         *)
LEMMA ImportsKept ==
  ASSUME workload \in Workloads, Ledger, Asked, Chunked, Imports, LifeNext
  PROVE  Imports'
<1>1. live' \in Table
  BY LiveTyped DEF Imports
<1>2. CASE UNCHANGED <<tracking, mode, importer>>
  BY <1>1, <1>2 DEF Imports
<1>3. CASE LiveSteps
  <2>1. CASE Tracks
    <3>1. ASSUME NEW t \in Tables, Track(t)  PROVE Imports'
      BY <1>1, <3>1 DEF Track, Imports
    <3>2. CASE ReadHead
      <4>1. refs[Main].headSeq \in Nat
        BY DEF Ledger, RefType
      <4>2. QED
        BY <1>1, <3>2, <4>1 DEF ReadHead, Imports
    <3>3. CASE Backfill
      BY <1>1, <3>3 DEF Backfill, Imports
    <3>4. CASE TrackDies
      BY <1>1, <3>4 DEF TrackDies, Imports
    <3>5. QED
      BY <2>1, <3>1, <3>2, <3>3, <3>4 DEF Tracks
  <2>2. ASSUME NEW t \in Tables, Untrack(t)  PROVE Imports'
    BY <1>1, <2>2 DEF Untrack, Imports
  <2>3. ASSUME NEW t \in Tables, NEW m \in WriteModes, SetWriteMode(t, m)  PROVE Imports'
    BY <1>1, <2>3, LifeAssumption DEF SetWriteMode, Imports
  <2>4. ASSUME NEW pk, NEW image, AppWrite(pk, image)  PROVE Imports'
    BY <1>1, <2>4 DEF AppWrite, Imports
  <2>5. QED
    BY <1>3, <2>1, <2>2, <2>3, <2>4 DEF LiveSteps, Untracks, Bypasses
<1>4. QED
  BY <1>2, <1>3, OnlyLiveSteps

(* What chunked merges leave half done are keys.                           *)
LEMMA DebrisKeys ==
  ASSUME Chunked
  PROVE  /\ \A r \in Requests : \A b : HalfDone(r, b) \subseteq PKs
         /\ \A b : AllHalfDone(b) \subseteq PKs
<1>1. ASSUME NEW r \in Requests, NEW b  PROVE HalfDone(r, b) \subseteq PKs
  <2>1. chunk[r] \in ChunkType
    BY DEF Chunked, ChunkOK
  <2>2. chunk[r].pc \in {"apply", "commit", "refused"} => chunk[r].keys \subseteq PKs
    BY <2>1 DEF ChunkType, AtWork, NoChunk
  <2>3. QED
    BY <2>2 DEF HalfDone
<1>2. QED
  BY <1>1 DEF AllHalfDone

(* No step breaks the flags and the auxiliary sets of keys.                *)
LEMMA FlagsKept ==
  ASSUME workload \in Workloads, Versions, Asked, Chunked, Flags, LifeNext
  PROVE  Flags'
<1>1. workload.requests \subseteq Requests
  BY LifeAssumption
<1>2. ASSUME UNCHANGED flagged, UNCHANGED touched, UNCHANGED debris, UNCHANGED shed  PROVE Flags'
  BY <1>2 DEF Flags
<1>3. ASSUME NEW r \in Requests,
             StoreStep(r) \/ StoreLand(r) \/ StoreRefuse(r) \/ LostFails(r) \/ StoreCrash(r)
      PROVE  Flags'
  BY <1>3, DebrisKeys DEF StoreStep, StoreLand, StoreRefuse, LostFails, StoreCrash, retentionVars, Flags
<1>4. ASSUME NEW r \in Requests, Submits(r), OthersUnchanged  PROVE Flags'
  BY <1>2, <1>4 DEF Submits, Commits, Merges, UpdatesFromParent, LargeMerges, Reverts, SubmitLarge,
     liveVars, OthersUnchanged, retentionVars
<1>5. ASSUME NEW r \in Requests, Chunks(r), OthersUnchanged  PROVE Flags'
  <2>1. req[r].branch \in Branches
    BY DEF Asked, LifeRequest
  <2>2. UNCHANGED shed
    BY <1>5 DEF OthersUnchanged, retentionVars
  <2>3. CASE MergeAtOnce(r) \/ RefuseLarge(r) \/ \E pk \in PKs : ApplyChunk(r, pk)
    BY <1>2, <2>2, <2>3 DEF MergeAtOnce, RefuseLarge, ApplyChunk
  <2>4. CASE BeginChunks(r)
    BY <2>1, <2>2, <2>4 DEF BeginChunks, RaiseFlag, Flags
  <2>5. CASE ChunkFails(r) \/ EndChunks(r)
    BY <2>2, <2>5, DebrisKeys DEF ChunkFails, EndChunks, LowerFlag, Flags
  <2>6. QED
    BY <1>5, <2>3, <2>4, <2>5 DEF Chunks
<1>6. CASE Branching /\ OthersUnchanged
  BY <1>2, <1>6 DEF Branching, liveVars, OthersUnchanged, retentionVars
<1>7. CASE LiveSteps /\ OthersUnchanged
  <2>1. UNCHANGED shed
    BY <1>7 DEF OthersUnchanged, retentionVars
  <2>2. ASSUME NEW changes \in ChangeSets, NEW pk, pk \in DOMAIN changes,
               AppWrite(pk, changes[pk])
        PROVE  Flags'
    <3>1. pk \in PKs
      BY <2>2, StoreAssumption DEF ChangeSet
    <3>2. QED
      BY <2>1, <2>2, <3>1 DEF AppWrite, Flags
  <2>3. CASE Untracks
    BY <2>1, <2>3 DEF Untracks, Untrack, Flags
  <2>4. QED
    BY <1>2, <1>7, <2>1, <2>2, <2>3 DEF LiveSteps, Tracks, Bypasses, Track, ReadHead, Backfill,
       TrackDies, SetWriteMode
<1>8. CASE Sessions \/ Leases
  BY <1>2, <1>8 DEF Sessions, Leases, liveVars, retentionVars
<1>9. CASE Removals
  <2>1. ASSUME NEW p, DropPartition(p)  PROVE Flags'
    <3>1. {v.pk : v \in {w \in rows : InRange(w, p) /\ w.to = MaxSeq}} \subseteq PKs
      BY DEF Versions, VersionType
    <3>2. QED
      BY <2>1, <3>1 DEF DropPartition, liveVars, Flags
  <2>2. QED
    BY <1>2, <1>9, <2>1 DEF Removals, Tagging, CreateTag, Deleting, DeleteBranch, Pruning, Prune,
       RunGC, CollectList, CollectScan, CollectDelete, Purging, Purge, Partitioning,
       AddPartition, liveVars, retentionVars
<1>10. QED
  BY <1>1, <1>3, <1>4, <1>5, <1>6, <1>7, <1>8, <1>9 DEF LifeNext

(* No step breaks tags and purge marks.                                    *)
LEMMA MarksKept ==
  ASSUME workload \in Workloads, Ledger, Marks, LifeNext
  PROVE  Marks'
<1>1. DOMAIN commits \subseteq DOMAIN commits'
  BY RefsGo
<1>2. CASE UNCHANGED <<tags, purged>>
  BY <1>1, <1>2 DEF Marks
<1>3. CASE OthersUnchanged \/ Sessions \/ Leases
  BY <1>2, <1>3 DEF OthersUnchanged, Sessions, Leases, retentionVars
<1>4. ASSUME NEW r, StoreStep(r) \/ StoreLand(r) \/ StoreRefuse(r) \/ LostFails(r) \/ StoreCrash(r)
      PROVE  UNCHANGED <<tags, purged>>
  BY <1>4 DEF StoreStep, StoreLand, StoreRefuse, LostFails, StoreCrash, Crash, retentionVars
<1>5. CASE Removals
  <2>1. ASSUME NEW c \in DOMAIN commits, CreateTag(c)  PROVE Marks'
    BY <1>1, <2>1 DEF CreateTag, Marks
  <2>2. ASSUME NEW pk, Purge(pk)  PROVE Marks'
    BY <1>1, <2>2 DEF Purge, CommitsOf, Marks
  <2>3. QED
    BY <1>2, <1>5, <2>1, <2>2 DEF Removals, Tagging, Deleting, DeleteBranch, Pruning, Prune,
       RunGC, CollectList, CollectScan, CollectDelete, Purging, Partitioning, AddPartition,
       DropPartition, retentionVars
<1>6. QED
  BY <1>2, <1>3, <1>4, <1>5 DEF LifeNext

-----------------------------------------------------------------------------
(* Type correctness.                                                       *)

(* A new repository.                                                       *)
LEMMA TypedInit == LifeInit => Typed
<1> SUFFICES ASSUME LifeInit PROVE Typed
  OBVIOUS
<1>1. TypeOK
  BY InitInv DEF LifeInit, Inv
<1>2. /\ Init /\ SessionsInit /\ LiveInit /\ RetentionInit
      /\ Main \in Branches
  BY StoreAssumption DEF LifeInit
<1>3. Ledger
  <2>1. DOMAIN refs = {Main} /\ refs[Main].parent = Main /\ refs[Main].head = 1
    BY <1>2 DEF Init
  <2>2. DOMAIN commits = {1}
    BY <1>2 DEF Init
  <2>3. QED
    BY <1>1, <1>2, <2>1, <2>2 DEF Ledger, TypeOK, RetentionInit
<1>4. Asked
  BY <1>2, IdleFits DEF Init, Asked
<1>5. Opened /\ Called
  BY <1>2 DEF SessionsInit, Opened, Called, CallType
<1>6. Locked
  BY <1>2 DEF Init, Locked
<1>7. Imports
  BY <1>1, <1>2 DEF TypeOK, LiveInit, Imports
<1>8. Chunked /\ Flags /\ Marks
  BY <1>2 DEF LiveInit, RetentionInit, Chunked, ChunkOK, ChunkType, NoChunk, Flags, Marks
<1>9. Versions /\ workload \in Workloads
  BY <1>1 DEF TypeOK, Versions, LifeInit
<1>10. QED
  BY <1>3, <1>4, <1>5, <1>6, <1>7, <1>8, <1>9 DEF Typed

(* Every step.                                                             *)
LEMMA TypedNext == Typed /\ [LifeNext]_lifeVars => Typed'
<1> SUFFICES ASSUME Typed, [LifeNext]_lifeVars PROVE Typed'
  OBVIOUS
<1>1. CASE LifeNext
  <2>1. workload' = workload
    BY <1>1 DEF LifeNext, StoreStep, StoreLand, StoreRefuse, LostFails, StoreCrash, OthersUnchanged,
       Sessions, Leases, Removals
  <2>2. QED
    BY <1>1, <2>1, LedgerKept, VersionsKept, AskedKept, OpenedKept, CalledKept, LockedKept,
       ImportsKept, ChunkedKept, FlagsKept, MarksKept DEF Typed
<1>2. CASE UNCHANGED lifeVars
  <2>1. UNCHANGED <<refs, commits, rows, live, lock, req, sessions, calls, workload>>
    BY <1>2 DEF lifeVars, storeVars, sessionVars
  <2>2. UNCHANGED <<tracking, mode, importer, chunk, flagged, touched, debris>>
    BY <1>2 DEF lifeVars, liveVars
  <2>3. UNCHANGED <<tags, deleted, purged, shed>>
    BY <1>2 DEF lifeVars, retentionVars
  <2>4. QED
    BY <2>1, <2>2, <2>3 DEF Typed, Ledger, RefOK, Versions, Asked, Opened, SessionType, Called, Locked,
       Imports, Chunked, ChunkOK, Flags, Marks
<1>3. QED
  BY <1>1, <1>2

(* What the other theorems build on.                                       *)
LEMMA AlwaysTyped == LifeSpec => []Typed
<1>1. QED
  BY TypedInit, TypedNext, PTL DEF LifeSpec

(* Type correctness under every mix of operations: the catalogue's tables  *)
(* behind refs, sessions, tracked tables and tags, and the locals of every *)
(* process (catalog/schema.go:25-125).                                     *)
THEOREM LifeTypeCorrect == LifeSpec => []LifeTypeOK
<1>1. Typed => LifeTypeOK
  <2> SUFFICES ASSUME Typed PROVE LifeTypeOK
    OBVIOUS
  <2>1. QED
    BY DEF Typed, Ledger, Versions, Asked, Opened, Called, Locked, Imports, Chunked, Flags, Marks, LifeTypeOK
<1>2. QED
  BY <1>1, AlwaysTyped, PTL

-----------------------------------------------------------------------------
(* Staged versions and their sessions.                                     *)

(* A call publishes or abandons what its session staged in one table: with *)
(* several, the rest stays behind.                                         *)
OneTable == \A t, u \in Tables : t = u

(* A staged version has a session that is open on its branch.              *)
Owned(v) ==
  /\ v.session \in DOMAIN sessions
  /\ sessions[v.session].state = "open" /\ sessions[v.session].branch = v.branch

(* What is proved.                                                         *)
StagedOwned == \A v \in rows : v.session # NoSession => Owned(v)

(* A session serves one call at a time, and is usable while it does.       *)
OneCall ==
  /\ \A j, k \in Callers :
       calls[j] # NoCall /\ calls[k] # NoCall /\ calls[j].session = calls[k].session => j = k
  /\ \A k \in Callers : calls[k] # NoCall => Usable(calls[k].session)

(* The reaper works on sessions that no client can use again, and has      *)
(* dropped the rows of the one whose state it is about to change.          *)
Reaping ==
  /\ reaper.pc \in {"rows", "state"} =>
       \A s \in reaper.ids : s \in DOMAIN sessions /\ ~Usable(s)
  /\ reaper.pc = "state" => /\ reaper.current \in reaper.ids
                            /\ Staged(reaper.current) = {}

(* The inductive invariant of sessions.                                    *)
SessionInv == StagedOwned /\ OneCall /\ Reaping

(* A staged version is new only where its session writes.                  *)
LEMMA NewStaged ==
  ASSUME workload \in Workloads, Versions, LifeNext, NEW v \in rows', v.session # NoSession, v \notin rows
  PROVE  \E k \in Callers : /\ SessionWrite(k)
                            /\ v.session = calls[k].session
                            /\ v.branch = sessions[calls[k].session].branch
<1>1. ASSUME NEW b, NEW keys, NEW seq  PROVE v \notin CloseOpen(b, keys, seq)
  <2>1. \A w \in rows : [w EXCEPT !.to = seq].session = w.session
    BY DEF Versions, VersionType
  <2>2. QED
    BY <2>1 DEF CloseOpen
<1>2. ASSUME NEW b, NEW pk, NEW seq, NEW changed, NEW row
      PROVE  v # Version(b, pk, seq, changed, row)
  BY DEF Version
<1>3. ASSUME NEW r, Land(r)  PROVE FALSE
  <2> DEFINE b == req[r].branch
             seq == NextSeq(r)
             keys == Effective(r)
             changes == [pk \in keys |-> req[r].changes[pk]]
             mask(pk) == MaskOf(CurrentRow(req[r].ref.chain, pk), changes[pk])
  <2>1. rows' = CloseOpen(b, keys, seq)
                  \cup {Version(b, pk, seq, mask(pk), changes[pk]) : pk \in keys}
    BY <1>3 DEF Land
  <2> HIDE DEF mask, changes, seq, b, keys
  <2>2. QED
    BY <1>1, <1>2, <2>1
<1>4. ASSUME NEW k, PublishStamp(k)  PROVE FALSE
  <2> DEFINE mine == {w \in Staged(calls[k].session) : w.pk \in calls[k].table}
             seq == calls[k].ref.headSeq + 1
             b == sessions[calls[k].session].branch
             keys == calls[k].keys
  <2>1. mine \subseteq VersionType
    BY DEF Staged, Versions
  <2>2. rows' = (CloseOpen(b, keys, seq) \ mine) \cup
                  {[w EXCEPT !.session = NoSession, !.from = seq] : w \in mine}
    BY <1>4 DEF PublishStamp
  <2> HIDE DEF mine, b, seq, keys
  <2>3. \A w \in mine : [w EXCEPT !.session = NoSession, !.from = seq].session = NoSession
    BY <2>1 DEF VersionType
  <2>4. QED
    BY <1>1, <2>2, <2>3
<1>5. CASE Backfill
  BY <1>2, <1>5 DEF Backfill
<1>6. ASSUME NEW t \in Tables, NEW cutoff \in Nat, Prune(t, cutoff)  PROVE FALSE
  <2>1. PICK pk : \E first, last \in ClosedBy(pk, cutoff) : v = [first EXCEPT !.to = last.to]
    BY <1>6, Pruned
  <2>2. \A w \in ClosedBy(pk, cutoff) : w \in VersionType /\ w.session = NoSession
    BY DEF ClosedBy, Versions
  <2>3. QED
    BY <2>1, <2>2 DEF VersionType
<1>7. ASSUME NEW k \in Callers, SessionWrite(k)
      PROVE  v.session = calls[k].session /\ v.branch = sessions[calls[k].session].branch
  <2> DEFINE s == calls[k].session
             changes == calls[k].changes
             keys == ToStage(s, changes)
             mask(pk) == MaskOf(SessionView(s)[pk], changes[pk])
  <2>1. rows' = {w \in rows : ~(w.session = s /\ w.pk \in keys)} \cup
                  {StagedVersion(s, pk, mask(pk), changes[pk]) : pk \in keys}
    BY <1>7 DEF SessionWrite
  <2> HIDE DEF mask, changes, keys, s
  <2>2. PICK pk \in keys : v = StagedVersion(s, pk, mask(pk), changes[pk])
    BY <2>1
  <2>3. QED
    BY <2>2 DEF StagedVersion, s
<1>8. QED
  BY <1>3, <1>4, <1>5, <1>6, <1>7, LedgerMoves DEF Untouched, Drops, Advance, CreateBranch, DeleteBranch

(* Whatever is staged after a step belonged to its session before it.      *)
LEMMA OwnedBefore ==
  ASSUME workload \in Workloads, Versions, Called, SessionInv, LifeNext, NEW v \in rows', v.session # NoSession
  PROVE  Owned(v) /\ (v \notin rows => Usable(v.session))
<1>1. CASE v \in rows
  BY <1>1 DEF SessionInv, StagedOwned
<1>2. CASE v \notin rows
  <2>1. PICK k \in Callers : /\ SessionWrite(k) /\ v.session = calls[k].session
                            /\ v.branch = sessions[calls[k].session].branch
    BY <1>2, NewStaged
  <2>2. calls[k] # NoCall
    BY <2>1 DEF SessionWrite, NoCall
  <2>3. QED
    BY <2>1, <2>2 DEF SessionInv, OneCall, Usable, Called, Owned
<1>3. QED
  BY <1>1, <1>2

(* What is left to show of a step: the sessions of staged versions stay    *)
(* open, calls stay on usable sessions, and the reaper's stay unusable.    *)
LEMMA SessionStep ==
  ASSUME Typed, SessionInv, LifeNext,
         \A v \in rows' : v.session # NoSession => sessions'[v.session].state = "open",
         OneCall',
         reaper' = reaper,
         \A s \in DOMAIN sessions : ~Usable(s) => ~Usable(s)'
  PROVE  SessionInv'
<1>1. Kept
  BY KeptStep DEF Typed
<1>2. StagedOwned'
  <2>1. ASSUME NEW v \in rows', v.session # NoSession  PROVE Owned(v)'
    BY <1>1, <2>1, OwnedBefore DEF Typed, Owned, Kept
  <2>2. QED
    BY <2>1 DEF StagedOwned
<1>3. Reaping'
  <2>1. ASSUME reaper.pc = "state"  PROVE Staged(reaper.current)' = {}
    <3>1. reaper.current \in DOMAIN sessions /\ ~Usable(reaper.current) /\ Staged(reaper.current) = {}
      BY <2>1 DEF SessionInv, Reaping
    <3>2. reaper.current # NoSession
      BY <3>1, StoreAssumption DEF Typed, Opened
    <3>3. ASSUME NEW v \in rows', v.session = reaper.current  PROVE FALSE
      <4>1. v \in rows
        BY <3>1, <3>2, <3>3, OwnedBefore DEF Typed
      <4>2. QED
        BY <3>1, <3>3, <4>1 DEF Staged
    <3>4. QED
      BY <3>3 DEF Staged
  <2>2. \A s \in reaper.ids : reaper.pc \in {"rows", "state"} => s \in DOMAIN sessions' /\ ~Usable(s)'
    BY <1>1 DEF SessionInv, Reaping, Kept
  <2>3. QED
    BY <2>1, <2>2 DEF SessionInv, Reaping, Staged
<1>4. QED
  BY <1>2, <1>3 DEF SessionInv

(* All that a session staged is in the one table.                          *)
LEMMA AllInTable ==
  ASSUME Versions, OneTable, NEW t \in Tables, NEW v \in rows
  PROVE  v.pk \in t
<1>1. v.pk \in UNION Tables
  BY StoreAssumption DEF Versions, VersionType
<1>2. QED
  BY <1>1 DEF OneTable

(* A step that leaves sessions and calls alone.                            *)
LEMMA SessionRests ==
  ASSUME Typed, SessionInv, LifeNext, UNCHANGED <<sessions, calls, reaper>>
  PROVE  SessionInv'
<1>1. \A v \in rows' : v.session # NoSession => sessions[v.session].state = "open"
  BY OwnedBefore DEF Typed, Owned
<1>2. OneCall'
  BY DEF SessionInv, OneCall, Usable
<1>3. \A s \in DOMAIN sessions : Usable(s)' = Usable(s)
  BY DEF Usable
<1>4. QED
  BY <1>1, <1>2, <1>3, SessionStep

(* A call begins: no other is on its session (branch.go:230-260).          *)
LEMMA BeginKeeps ==
  ASSUME Typed, SessionInv, LifeNext, ~SharedSessions,
         NEW k \in Callers, NEW s \in DOMAIN sessions, NEW call, call.session = s, BeginCall(k, s, call)
  PROVE  SessionInv'
<1>1. sessions' = sessions /\ reaper' = reaper /\ Usable(s) /\ ~Calling(s) /\ calls[k] = NoCall
  BY DEF BeginCall
<1>2. \A j \in Callers : calls'[j] = IF j = k THEN call ELSE calls[j]
  BY DEF BeginCall, Typed, Called
<1>3. \A x : Usable(x)' = Usable(x)
  BY <1>1 DEF Usable
<1>4. OneCall'
  <2>1. ASSUME NEW i \in Callers, NEW j \in Callers, calls'[i] # NoCall, calls'[j] # NoCall,
               calls'[i].session = calls'[j].session
        PROVE  i = j
    BY <1>1, <1>2, <2>1 DEF Calling, SessionInv, OneCall
  <2>2. ASSUME NEW j \in Callers, calls'[j] # NoCall  PROVE Usable(calls'[j].session)
    BY <1>1, <1>2, <2>2 DEF SessionInv, OneCall
  <2>3. QED
    BY <1>3, <2>1, <2>2 DEF OneCall
<1>5. \A v \in rows' : v.session # NoSession => sessions'[v.session].state = "open"
  BY <1>1, OwnedBefore DEF Typed, Owned
<1>6. QED
  BY <1>1, <1>3, <1>4, <1>5, SessionStep

(* A call ends, and the other calls keep their sessions as they were.      *)
LEMMA EndKeeps ==
  ASSUME Typed, SessionInv, NEW k \in Callers, EndCall(k),
         \A s \in DOMAIN sessions : s # calls[k].session => sessions'[s] = sessions[s],
         calls[k] # NoCall
  PROVE  OneCall'
<1>1. \A j \in Callers : calls'[j] = IF j = k THEN NoCall ELSE calls[j]
  BY DEF EndCall, Typed, Called
<1>2. ASSUME NEW j \in Callers, calls'[j] # NoCall
      PROVE  /\ j # k /\ calls'[j] = calls[j] /\ calls[j].session # calls[k].session
             /\ calls[j].session \in DOMAIN sessions
  BY <1>1, <1>2 DEF SessionInv, OneCall, Typed, Called
<1>3. ASSUME NEW j \in Callers, calls'[j] # NoCall  PROVE Usable(calls[j].session)'
  <2>1. Usable(calls[j].session) /\ sessions'[calls[j].session] = sessions[calls[j].session]
    BY <1>2, <1>3 DEF SessionInv, OneCall
  <2>2. QED
    BY <1>2, <1>3, <2>1 DEF Usable
<1>4. QED
  BY <1>1, <1>2, <1>3 DEF SessionInv, OneCall

(* A session is opened (branch.go:180-228).                                *)
LEMMA OpenKeeps ==
  ASSUME Typed, SessionInv, LifeNext, NEW s, NEW b, OpenSession(s, b)
  PROVE  SessionInv'
<1>1. /\ calls' = calls /\ reaper' = reaper /\ rows' = rows /\ s \notin DOMAIN sessions
      /\ \A x \in DOMAIN sessions : sessions'[x] = sessions[x]
  BY DEF OpenSession
<1>2. \A x \in DOMAIN sessions : Usable(x)' = Usable(x)
  BY <1>1 DEF Usable
<1>3. OneCall'
  BY <1>1, <1>2 DEF SessionInv, OneCall, Typed, Called
<1>4. \A v \in rows' : v.session # NoSession => sessions'[v.session].state = "open"
  BY <1>1 DEF SessionInv, StagedOwned, Owned
<1>5. QED
  BY <1>1, <1>2, <1>3, <1>4, SessionStep

(* A write renews the lease of a session that has one                      *)
(* (branch.go:303-385).                                                    *)
LEMMA WriteKeeps ==
  ASSUME Typed, SessionInv, LifeNext, NEW k \in Callers, SessionWrite(k)
  PROVE  SessionInv'
<1> DEFINE s == calls[k].session
<1>1. calls[k] # NoCall /\ EndCall(k) /\ reaper' = reaper
  BY DEF SessionWrite, NoCall
<1>2. s \in DOMAIN sessions /\ Usable(s) /\ sessions[s] \in SessionType
  BY <1>1 DEF Typed, Called, SessionInv, OneCall, Opened
<1>3. sessions' = [sessions EXCEPT ![s].lapsed = FALSE]
  BY DEF SessionWrite
<1>4. sessions'[s].state = "open"
  BY <1>2, <1>3 DEF SessionType, Usable
<1>5. DOMAIN sessions' = DOMAIN sessions /\ \A x \in DOMAIN sessions \ {s} : sessions'[x] = sessions[x]
  BY <1>3
<1>6. \A x \in DOMAIN sessions : ~Usable(x) => ~Usable(x)'
  BY <1>2, <1>5 DEF Usable
<1>7. OneCall'
  BY <1>1, <1>5, EndKeeps DEF s
<1>8. \A v \in rows' : v.session # NoSession => sessions'[v.session].state = "open"
  BY <1>4, <1>5, OwnedBefore DEF Typed, Owned
<1>9. QED
  BY <1>1, <1>6, <1>7, <1>8, SessionStep

(* A publication takes all that its session staged (branch.go:427-530).    *)
LEMMA PublishKeeps ==
  ASSUME Typed, SessionInv, LifeNext, OneTable, NEW k \in Callers, PublishStamp(k)
  PROVE  SessionInv'
<1>0. EndCall(k) /\ reaper' = reaper /\ calls[k].pc = "stamp"
  BY DEF PublishStamp
<1>1. calls[k] # NoCall
  BY <1>0 DEF NoCall
<1>2. calls[k].session \in DOMAIN sessions /\ calls[k].table \in Tables
  BY <1>0, <1>1 DEF Typed, Called, CallType, NoCall
<1> PICK s \in DOMAIN sessions : s = calls[k].session
  BY <1>2
<1>3. sessions' = [sessions EXCEPT ![s].state = "committed"]
  BY DEF PublishStamp
<1>4. DOMAIN sessions' = DOMAIN sessions /\ \A x \in DOMAIN sessions \ {s} : sessions'[x] = sessions[x]
  BY <1>3
<1>5. ~Usable(s)'
  BY <1>3 DEF SessionType, Usable, Typed, Opened
<1>6. \A x \in DOMAIN sessions : ~Usable(x) => ~Usable(x)'
  BY <1>4, <1>5 DEF Usable
<1>7. OneCall'
  BY <1>0, <1>1, <1>4, EndKeeps
<1>8. ASSUME NEW v \in rows', v.session # NoSession  PROVE v.session # s
  <2> DEFINE mine == {w \in Staged(s) : w.pk \in calls[k].table}
             seq == calls[k].ref.headSeq + 1
             b == sessions[s].branch
             keys == calls[k].keys
  <2>1. rows' = (CloseOpen(b, keys, seq) \ mine) \cup
                  {[w EXCEPT !.session = NoSession, !.from = seq] : w \in mine}
    BY DEF PublishStamp
  <2>2. mine = Staged(s)
    BY <1>2, AllInTable DEF Typed, Staged
  <2>3. Staged(s) \subseteq VersionType
    BY DEF Staged, Typed, Versions
  <2> HIDE DEF mine, seq, b, keys
  <2>4. \A w \in mine : [w EXCEPT !.session = NoSession, !.from = seq].session = NoSession
    BY <2>2, <2>3 DEF VersionType
  <2>5. v \in CloseOpen(b, keys, seq) /\ v \notin mine
    BY <1>8, <2>1, <2>4
  <2>6. v \in rows
    <3>1. \A w \in rows : [w EXCEPT !.to = seq].session = w.session
      BY DEF Typed, Versions, VersionType
    <3>2. QED
      BY <1>8, <2>5, <3>1 DEF CloseOpen
  <2>7. QED
    BY <2>2, <2>5, <2>6 DEF Staged
<1>9. \A v \in rows' : v.session # NoSession => sessions'[v.session].state = "open"
  BY <1>4, <1>8, OwnedBefore DEF Typed, Owned
<1>10. QED
  BY <1>0, <1>6, <1>7, <1>9, SessionStep

(* An abandoned session keeps nothing (branch.go:540-590).                 *)
LEMMA AbandonKeeps ==
  ASSUME Typed, SessionInv, LifeNext, ~SharedSessions, OneTable,
         NEW s \in DOMAIN sessions, NEW t \in Tables, AbandonSession(s, t)
  PROVE  SessionInv'
<1>1. /\ ~Calling(s) /\ calls' = calls /\ reaper' = reaper
      /\ sessions' = [sessions EXCEPT ![s].state = "abandoned"]
      /\ rows' = {v \in rows : ~(v.session = s /\ v.pk \in t)}
  BY DEF AbandonSession
<1>2. sessions[s] \in SessionType
  BY DEF Typed, Opened
<1>3. DOMAIN sessions' = DOMAIN sessions /\ \A x \in DOMAIN sessions \ {s} : sessions'[x] = sessions[x]
  BY <1>1
<1>4. ~Usable(s)'
  BY <1>1, <1>2 DEF SessionType, Usable
<1>5. \A x \in DOMAIN sessions : ~Usable(x) => ~Usable(x)'
  BY <1>3, <1>4 DEF Usable
<1>6. OneCall'
  BY <1>1, <1>3 DEF SessionInv, OneCall, Calling, Usable, Typed, Called
<1>7. \A v \in rows' : v.session # s
  BY <1>1, AllInTable DEF Typed
<1>8. \A v \in rows' : v.session # NoSession => sessions'[v.session].state = "open"
  BY <1>3, <1>7, OwnedBefore DEF Typed, Owned
<1>9. QED
  BY <1>1, <1>5, <1>6, <1>8, SessionStep

(* A lease lapses while nobody calls.                                      *)
LEMMA LapseKeeps ==
  ASSUME Typed, SessionInv, LifeNext, ~SharedSessions, NEW s \in DOMAIN sessions, LeaseLapses(s)
  PROVE  SessionInv'
<1>1. /\ ~Calling(s) /\ calls' = calls /\ reaper' = reaper /\ rows' = rows
      /\ sessions' = [sessions EXCEPT ![s].lapsed = TRUE]
  BY DEF LeaseLapses
<1>2. sessions[s] \in SessionType
  BY DEF Typed, Opened
<1>3. DOMAIN sessions' = DOMAIN sessions /\ \A x \in DOMAIN sessions \ {s} : sessions'[x] = sessions[x]
  BY <1>1
<1>4. ~Usable(s)' /\ sessions'[s].state = sessions[s].state
  BY <1>1, <1>2 DEF SessionType, Usable
<1>5. \A x \in DOMAIN sessions : ~Usable(x) => ~Usable(x)'
  BY <1>3, <1>4 DEF Usable
<1>6. OneCall'
  BY <1>1, <1>3 DEF SessionInv, OneCall, Calling, Usable, Typed, Called
<1>7. \A v \in rows' : v.session # NoSession => sessions'[v.session].state = "open"
  BY <1>1, <1>3, <1>4 DEF SessionInv, StagedOwned, Owned
<1>8. QED
  BY <1>1, <1>5, <1>6, <1>7, SessionStep

(* The reaper works on sessions that nobody calls (branch.go:593-625).     *)
LEMMA ReapKeeps ==
  ASSUME Typed, SessionInv, LifeNext,
         \/ \E s \in DOMAIN sessions : ReapRows(s)
         \/ ReapList \/ ReapState \/ ReaperDies
  PROVE  SessionInv'
<1>1. Kept
  BY KeptStep DEF Typed
<1>2. CASE ReapState
  <2> PICK s : s = reaper.current
    OBVIOUS
  <2>1. reaper.pc = "state" /\ s \in reaper.ids /\ Staged(s) = {} /\ s \in DOMAIN sessions /\ ~Usable(s)
    BY <1>2 DEF ReapState, SessionInv, Reaping
  <2>2. sessions' = [sessions EXCEPT ![s].state = "expired"] /\ rows' = rows /\ calls' = calls
    BY <1>2 DEF ReapState
  <2>3. sessions[s] \in SessionType
    BY <2>1 DEF Typed, Opened
  <2>4. DOMAIN sessions' = DOMAIN sessions /\ \A x \in DOMAIN sessions \ {s} : sessions'[x] = sessions[x]
    BY <2>2
  <2>5. ~Usable(s)'
    BY <2>1, <2>2, <2>3 DEF SessionType, Usable
  <2>6. \A x \in DOMAIN sessions : ~Usable(x) => ~Usable(x)'
    BY <2>4, <2>5 DEF Usable
  <2>7. reaper'.pc \in {"idle", "rows"} /\ reaper'.ids \subseteq reaper.ids
    BY <1>2 DEF ReapState
  <2>8. Reaping'
    BY <2>1, <2>4, <2>6, <2>7 DEF Reaping, SessionInv
  <2>9. OneCall'
    BY <2>1, <2>2, <2>4 DEF SessionInv, OneCall, Usable, Typed, Called
  <2>10. StagedOwned'
    <3>1. ASSUME NEW v \in rows, v.session # NoSession  PROVE Owned(v)'
      <4>1. v.session # s /\ Owned(v)
        BY <2>1, <3>1 DEF Staged, SessionInv, StagedOwned
      <4>2. QED
        BY <2>4, <4>1 DEF Owned
    <3>2. QED
      BY <2>2, <3>1 DEF StagedOwned
  <2>11. QED
    BY <2>8, <2>9, <2>10 DEF SessionInv
<1>3. ASSUME UNCHANGED <<sessions, calls>>, rows' \subseteq rows, Reaping'  PROVE SessionInv'
  BY <1>3 DEF SessionInv, StagedOwned, Owned, OneCall, Usable
<1>4. ASSUME NEW s \in DOMAIN sessions, ReapRows(s)  PROVE SessionInv'
  <2>1. Reaping'
    BY <1>4 DEF ReapRows, Reaping, SessionInv, Staged, Usable
  <2>2. QED
    BY <1>3, <1>4, <2>1 DEF ReapRows
<1>5. CASE ReapList
  <2>1. Reaping'
    BY <1>5 DEF ReapList, Reaping, Expired, Usable
  <2>2. QED
    BY <1>3, <1>5, <2>1 DEF ReapList
<1>6. CASE ReaperDies
  <2>1. Reaping'
    BY <1>6 DEF ReaperDies, Reaping
  <2>2. QED
    BY <1>3, <1>6, <2>1 DEF ReaperDies
<1>7. QED
  BY <1>2, <1>4, <1>5, <1>6

(* Only sessions, their leases and the reaper change a session.            *)
LEMMA SessionMoves == LifeNext => Sessions \/ Leases \/ UNCHANGED <<sessions, calls, reaper>>
<1>1. ASSUME NEW r, StoreStep(r) \/ StoreLand(r) \/ StoreRefuse(r) \/ LostFails(r) \/ StoreCrash(r)
      PROVE  UNCHANGED <<sessions, calls, reaper>>
  BY <1>1 DEF StoreStep, StoreLand, StoreRefuse, LostFails, StoreCrash, sessionVars
<1>2. ASSUME Removals  PROVE UNCHANGED <<sessions, calls, reaper>>
  BY <1>2 DEF Removals, Tagging, CreateTag, Deleting, DeleteBranch, Pruning, Prune, RunGC,
     CollectList, CollectScan, CollectDelete, Purging, Purge, Partitioning, AddPartition,
     DropPartition, sessionVars
<1>3. QED
  BY <1>1, <1>2 DEF LifeNext, OthersUnchanged, sessionVars

(* Every step keeps the invariant.                                         *)
LEMMA SessionNext ==
  ASSUME ~SharedSessions, OneTable, Typed, SessionInv, LifeNext
  PROVE  SessionInv'
<1>1. workload.callers \subseteq Callers
  BY LifeAssumption DEF Typed
<1>2. CASE Sessions
  <2>1. ASSUME NEW k \in Callers, calls[k] # NoCall, CallFails(k) \/ PublishRead(k)
        PROVE  SessionInv'
    <3>1. sessions' = sessions /\ reaper' = reaper /\ rows' = rows
      BY <2>1 DEF CallFails, PublishRead
    <3>2. OneCall'
      <4>1. CASE CallFails(k)
        BY <2>1, <3>1, <4>1, EndKeeps DEF CallFails
      <4>2. CASE PublishRead(k)
        <5>1. /\ \A j \in Callers \ {k} : calls'[j] = calls[j]
              /\ calls'[k].session = calls[k].session
          BY <4>2 DEF PublishRead, Typed, Called
        <5>2. \A j \in Callers : calls'[j] # NoCall =>
                calls[j] # NoCall /\ calls'[j].session = calls[j].session
          BY <2>1, <5>1
        <5>3. \A x : Usable(x)' = Usable(x)
          BY <3>1 DEF Usable
        <5>4. QED
          BY <5>2, <5>3 DEF SessionInv, OneCall
      <4>3. QED
        BY <2>1, <4>1, <4>2
    <3>3. \A v \in rows' : v.session # NoSession => sessions'[v.session].state = "open"
      BY <3>1 DEF SessionInv, StagedOwned, Owned
    <3>4. \A x : Usable(x)' = Usable(x)
      BY <3>1 DEF Usable
    <3>5. QED
      BY <3>1, <3>2, <3>3, <3>4, SessionStep
  <2>2. CASE Opens
    BY <2>2, OpenKeeps DEF Opens
  <2>3. CASE Writes
    <3>1. ASSUME NEW k \in Callers, NEW s \in DOMAIN sessions, NEW changes, BeginWrite(k, s, changes)
          PROVE  SessionInv'
      BY <3>1, BeginKeeps DEF BeginWrite
    <3>2. ASSUME NEW k \in Callers, calls[k].pc = "write", CallFails(k)  PROVE SessionInv'
      BY <2>1, <3>2 DEF CallFails
    <3>3. QED
      BY <1>1, <2>3, <3>1, <3>2, WriteKeeps DEF Writes
  <2>4. CASE Publishes
    <3>1. ASSUME NEW k \in Callers, NEW s \in DOMAIN sessions, NEW t, BeginPublish(k, s, t)
          PROVE  SessionInv'
      BY <3>1, BeginKeeps DEF BeginPublish
    <3>2. ASSUME NEW k \in Callers, CallFails(k)  PROVE SessionInv'
      BY <2>1, <3>2 DEF CallFails
    <3>3. ASSUME NEW k \in Callers, PublishRead(k)  PROVE SessionInv'
      <4>1. calls[k].pc = "publish"
        BY <3>3 DEF PublishRead
      <4>2. QED
        BY <2>1, <3>3, <4>1 DEF NoCall
    <3>4. QED
      BY <1>1, <2>4, <3>1, <3>2, <3>3, PublishKeeps DEF Publishes
  <2>5. CASE Abandons
    BY <2>5, AbandonKeeps DEF Abandons
  <2>6. QED
    BY <1>2, <2>2, <2>3, <2>4, <2>5 DEF Sessions
<1>3. CASE Leases
  BY <1>3, LapseKeeps, ReapKeeps DEF Leases
<1>4. QED
  BY <1>2, <1>3, SessionMoves, SessionRests

(* Staged versions belong to an open session of their branch, never the    *)
(* default one, whatever commits, other sessions, prunes and collections   *)
(* do meanwhile: publication, abandonment and the reaper leave none        *)
(* behind.  For one table, and for clients that make one call at a time on *)
(* a session and within its lease (branch.go:427-625).                     *)
THEOREM StagedVersionsHaveOwners ==
  ASSUME ~SharedSessions, OneTable
  PROVE  LifeSpec => []StagedVersionsOwned
<1>1. LifeInit => SessionInv
  BY DEF LifeInit, Init, SessionsInit, SessionInv, StagedOwned, OneCall, Reaping
<1>2. Typed /\ SessionInv /\ [LifeNext]_lifeVars => SessionInv'
  <2> SUFFICES ASSUME Typed, SessionInv, [LifeNext]_lifeVars PROVE SessionInv'
    OBVIOUS
  <2>1. CASE UNCHANGED lifeVars
    <3>1. UNCHANGED <<rows, sessions, calls, reaper>>
      BY <2>1 DEF lifeVars, storeVars, sessionVars
    <3>2. QED
      BY <3>1 DEF SessionInv, StagedOwned, Owned, OneCall, Reaping, Usable, Staged
  <2>2. QED
    BY <2>1, SessionNext
<1>3. Typed /\ SessionInv => StagedVersionsOwned
  BY DEF Typed, Opened, SessionInv, StagedOwned, Owned, StagedVersionsOwned
<1>4. QED
  BY <1>1, <1>2, <1>3, AlwaysTyped, PTL DEF LifeSpec

-----------------------------------------------------------------------------
(* The linear history of every branch, while sessions and requests commit  *)
(* to it and branches come and go.                                         *)

(* A ref that was read of b is not ahead of b, and names its head if it is *)
(* not behind.                                                             *)
ReadAt(x, b) ==
  /\ x.headSeq <= refs[b].headSeq
  /\ x.headSeq = refs[b].headSeq => x.head = refs[b].head

(* The branch of a commit or a request was never any other's: names of     *)
(* deleted branches are not used again.                                    *)
Named ==
  /\ \A c \in DOMAIN commits : commits[c].branch \in DOMAIN refs \cup deleted
  /\ \A r \in Requests : req[r].branch \in DOMAIN refs \cup deleted

(* What the processes about to commit have read.                           *)
Reads ==
  /\ \A r \in Requests :
       req[r].pc = "apply" /\ req[r].branch \in DOMAIN refs => ReadAt(req[r].ref, req[r].branch)
  /\ \A k \in Callers :
       calls[k].pc = "stamp" => ReadAt(calls[k].ref, sessions[calls[k].session].branch)

(* A request changes keys of its table.                                    *)
InTable(x) == x.table \in Tables \cup {{}} /\ DOMAIN x.changes \subseteq x.table

(* The inductive invariant of histories.                                   *)
LinearInv ==
  /\ LinearHistory /\ Named /\ Reads /\ HeadsBounded
  /\ \A r \in Requests : InTable(req[r])

(* What a step makes of a request.                                         *)
Carried(q) ==
  /\ InTable(req'[q])
  /\ req'[q].branch \in {Main, req[q].branch} \cup DOMAIN refs
  /\ req'[q].pc = "apply" =>
       /\ req'[q].branch = req[q].branch
       /\ \/ req[q].pc = "apply" /\ req'[q].ref = req[q].ref
          \/ /\ req[q].branch \in DOMAIN refs /\ req'[q].ref = refs[req[q].branch]
             /\ UNCHANGED refs

(* Requests at rest carry what they have.                                  *)
LEMMA CarriedRest ==
  ASSUME \A r \in Requests : InTable(req[r]), UNCHANGED req
  PROVE  \A q \in Requests : Carried(q)
BY DEF Carried

(* One request moves.                                                      *)
LEMMA CarriedStep ==
  ASSUME Asked, \A r \in Requests : InTable(req[r]), NEW r \in Requests, NEW x,
         req' = [req EXCEPT ![r] = x], InTable(x),
         x.branch \in {Main, req[r].branch} \cup DOMAIN refs,
         x.pc = "apply" => /\ x.branch = req[r].branch /\ req[r].branch \in DOMAIN refs
                           /\ x.ref = refs[req[r].branch] /\ UNCHANGED refs
  PROVE  \A q \in Requests : Carried(q)
<1>1. \A q \in Requests : req'[q] = IF q = r THEN x ELSE req[q]
  BY DEF Asked
<1>2. QED
  BY <1>1 DEF Carried

(* A request ends.                                                         *)
LEMMA CarriedEnd ==
  ASSUME Asked, \A r \in Requests : InTable(req[r]), NEW r \in Requests,
         req' = [req EXCEPT ![r] = Idle]
  PROVE  \A q \in Requests : Carried(q)
<1>1. InTable(Idle) /\ Idle.branch = Main /\ Idle.pc # "apply"
  BY DEF InTable, Idle
<1>2. QED
  BY <1>1, CarriedStep

(* A request begins (store.go:350-366, merge.go:52-56).                    *)
LEMMA CarriedSubmit ==
  ASSUME Ledger, Versions, Asked, \A r \in Requests : InTable(req[r]), NEW r \in Requests, Submits(r)
  PROVE  \A q \in Requests : Carried(q)
<1>1. ASSUME NEW b \in DOMAIN refs, NEW changes, \E t \in Tables : DOMAIN changes \subseteq t,
             SubmitCommit(r, b, changes, 0)
      PROVE  \A q \in Requests : Carried(q)
  <2> DEFINE x == [Idle EXCEPT !.pc = "begin", !.kind = "commit", !.branch = b,
                               !.table = TableOf(changes), !.changes = changes, !.expected = 0]
  <2>1. TableOf(changes) \in Tables /\ DOMAIN changes \subseteq TableOf(changes)
    BY <1>1 DEF TableOf
  <2>2. x.pc = "begin" /\ x.branch = b /\ InTable(x)
    BY <2>1 DEF Idle, InTable
  <2>3. req' = [req EXCEPT ![r] = x]
    BY <1>1 DEF SubmitCommit
  <2> HIDE DEF x
  <2>4. QED
    BY <2>2, <2>3, CarriedStep
<1>2. ASSUME NEW kind, NEW from, NEW into \in DOMAIN refs, NEW t \in Tables,
             SubmitMerge(r, kind, from, into, t)
      PROVE  \A q \in Requests : Carried(q)
  <2> DEFINE x == [Idle EXCEPT !.pc = "into", !.kind = kind, !.branch = into, !.table = t,
                               !.source = refs[from]]
  <2>1. x.pc = "into" /\ x.branch = into /\ InTable(x)
    BY DEF Idle, InTable
  <2>2. req' = [req EXCEPT ![r] = x]
    BY <1>2 DEF SubmitMerge
  <2> HIDE DEF x
  <2>3. QED
    BY <2>1, <2>2, CarriedStep
<1>3. CASE Commits(r)
  BY <1>1, <1>3, StoreAssumption DEF Commits
<1>4. CASE Merges(r)
  BY <1>2, <1>4 DEF Merges
<1>5. CASE UpdatesFromParent(r)
  BY <1>2, <1>5 DEF UpdatesFromParent, SubmitUpdate
<1>6. CASE LargeMerges(r)
  BY <1>2, <1>6 DEF LargeMerges, SubmitLarge
<1>7. CASE Reverts(r)
  BY <1>1, <1>7 DEF Reverts, SubmitRevert
<1>8. QED
  BY <1>3, <1>4, <1>5, <1>6, <1>7 DEF Submits

(* A request goes on (store.go:376-515, merge.go:52-480).                  *)
LEMMA CarriedOn ==
  ASSUME Ledger, Asked, \A r \in Requests : InTable(req[r]), NEW r \in Requests, ~Lost(r),
         Lock(r) \/ ReadUnlocked(r) \/ Land(r) \/ PlanMerge(r) \/ ReadParent(r) \/ ReadChild(r)
  PROVE  \A q \in Requests : Carried(q)
<1> DEFINE b == req[r].branch
<1>1. req[r] \in LifeRequest /\ b \in DOMAIN refs /\ InTable(req[r])
  BY DEF Asked, Lost
<1>2. ASSUME NEW x, req' = [req EXCEPT ![r] = x], InTable(x), x.branch = b,
             x.pc = "apply" => x.ref = refs[b] /\ UNCHANGED refs
      PROVE  \A q \in Requests : Carried(q)
  BY <1>1, <1>2, CarriedStep
<1>3. CASE Lock(r) \/ ReadUnlocked(r)
  <2> DEFINE x == [req[r] EXCEPT !.pc = "apply", !.ref = refs[b]]
  <2>1. /\ x.branch = b /\ x.ref = refs[b] /\ x.table = req[r].table
        /\ x.changes = req[r].changes
    BY <1>1 DEF LifeRequest
  <2>2. req' = [req EXCEPT ![r] = x] /\ UNCHANGED refs
    BY <1>3 DEF Lock, ReadUnlocked
  <2> HIDE DEF x
  <2>3. QED
    BY <1>1, <1>2, <2>1, <2>2 DEF InTable
<1>4. CASE Land(r)
  <2> DEFINE x == [Idle EXCEPT !.pc = "parent", !.branch = b]
  <2>1. x.branch = b /\ x.pc = "parent" /\ InTable(x)
    BY DEF Idle, InTable
  <2>2. req' = [req EXCEPT ![r] = x] \/ req' = [req EXCEPT ![r] = Idle]
    BY <1>4 DEF Land, Asked
  <2> HIDE DEF x
  <2>3. QED
    BY <1>2, <2>1, <2>2, CarriedEnd
<1>5. CASE PlanMerge(r)
  <2> DEFINE ours == refs[b]
             bases == MergeBases(ours.head, req[r].source.head)
             base == CHOOSE y \in bases : TRUE
             changes == MergeOf(r, ours, base).changes
             x == [req[r] EXCEPT !.pc = "begin", !.others = {req[r].source.head},
                                 !.source = NoRef, !.changes = changes]
  <2>1. DOMAIN changes \subseteq req[r].table
    <3> HIDE DEF base
    <3>1. QED
      BY DEF MergeOf
  <2>2. req' = [req EXCEPT ![r] = x] \/ req' = [req EXCEPT ![r] = Idle]
    BY <1>5 DEF PlanMerge, Asked
  <2> HIDE DEF changes
  <2>3. x.branch = b /\ x.pc = "begin" /\ x.changes = changes /\ x.table = req[r].table
    BY <1>1 DEF LifeRequest
  <2> HIDE DEF x
  <2>4. QED
    BY <1>1, <1>2, <2>1, <2>2, <2>3, CarriedEnd DEF InTable
<1>6. CASE ReadParent(r) \/ ReadChild(r)
  <2> DEFINE x == [req[r] EXCEPT !.pc = "child", !.source = refs[refs[b].parent]]
             y == [req[r] EXCEPT !.pc = "advance", !.ref = refs[b]]
  <2>1. /\ x.branch = b /\ x.pc = "child" /\ x.table = req[r].table /\ x.changes = req[r].changes
        /\ y.branch = b /\ y.pc = "advance" /\ y.table = req[r].table /\ y.changes = req[r].changes
    BY <1>1 DEF LifeRequest
  <2>2. req' = [req EXCEPT ![r] = x] \/ req' = [req EXCEPT ![r] = y]
    BY <1>6 DEF ReadParent, ReadChild
  <2> HIDE DEF x, y
  <2>3. QED
    BY <1>1, <1>2, <2>1, <2>2 DEF InTable
<1>7. QED
  BY <1>3, <1>4, <1>5, <1>6

(* A large merge goes on (chunked.go:145-168).                             *)
LEMMA CarriedChunks ==
  ASSUME Ledger, Asked, \A r \in Requests : InTable(req[r]), NEW r \in Requests, Chunks(r)
  PROVE  \A q \in Requests : Carried(q)
<1>1. req[r] \in LifeRequest /\ InTable(req[r])
  BY DEF Asked
<1>2. CASE UNCHANGED req
  BY <1>2, CarriedRest
<1>3. CASE req' = [req EXCEPT ![r] = Idle]
  BY <1>3, CarriedEnd
<1>4. CASE ~Lost(r) /\ MergeAtOnce(r)
  <2> DEFINE x == [Idle EXCEPT !.pc = "into", !.kind = "merge", !.branch = req[r].branch,
                               !.table = req[r].table, !.source = refs[chunk[r].from]]
  <2>1. x.branch = req[r].branch /\ x.pc = "into" /\ InTable(x)
    BY <1>1 DEF Idle, InTable
  <2>2. req' = [req EXCEPT ![r] = x]
    BY <1>4 DEF MergeAtOnce
  <2> HIDE DEF x
  <2>3. QED
    BY <2>1, <2>2, CarriedStep
<1>5. CASE ~Lost(r) /\ BeginChunks(r)
  <2> DEFINE x == [req[r] EXCEPT !.others = {refs[chunk[r].from].head}]
  <2>1. x.branch = req[r].branch /\ x.pc = "begin" /\ InTable(x)
    BY <1>1, <1>5 DEF LifeRequest, BeginChunks, Planned, InTable
  <2>2. req' = [req EXCEPT ![r] = x]
    BY <1>5 DEF BeginChunks
  <2> HIDE DEF x
  <2>3. QED
    BY <2>1, <2>2, CarriedStep
<1>6. QED
  BY <1>2, <1>3, <1>4, <1>5 DEF Chunks, RefuseLarge, ApplyChunk, ChunkFails, EndChunks

(* Every step.                                                             *)
LEMMA RequestsCarried ==
  ASSUME workload \in Workloads, Ledger, Versions, Asked, \A r \in Requests : InTable(req[r]), LifeNext
  PROVE  \A q \in Requests : Carried(q)
<1> DEFINE Goal == \A q \in Requests : Carried(q)
<1>1. workload.requests \subseteq Requests
  BY LifeAssumption
<1>2. UNCHANGED req => Goal
  BY CarriedRest
<1>3. ASSUME NEW r \in Requests, req' = [req EXCEPT ![r] = Idle]  PROVE Goal
  BY <1>3, CarriedEnd
<1> HIDE DEF Goal
<1>4. ASSUME NEW r \in Requests, StoreStep(r) \/ StoreLand(r) \/ StoreRefuse(r) \/ LostFails(r)
      PROVE  Goal
  BY <1>3, <1>4, CarriedOn
     DEF StoreStep, StoreLand, StoreRefuse, LostFails, Working, Advance, Refuse, Finish, Goal
<1>5. ASSUME NEW r \in Requests, StoreCrash(r)  PROVE Goal
  BY <1>3, <1>5 DEF StoreCrash, Crash, Finish
<1>6. ASSUME Branching  PROVE Goal
  BY <1>2, <1>6 DEF Branching, CreateBranch
<1>7. ASSUME LiveSteps  PROVE Goal
  BY <1>2, <1>7 DEF LiveSteps, Tracks, Untracks, Bypasses, Track, ReadHead, Backfill, TrackDies,
     Untrack, SetWriteMode, AppWrite
<1>8. ASSUME Sessions \/ Leases  PROVE Goal
  BY <1>2, <1>8 DEF Sessions, Leases
<1>9. ASSUME Removals  PROVE Goal
  BY <1>2, <1>9 DEF Removals, Tagging, CreateTag, Deleting, DeleteBranch, Pruning, Prune, RunGC,
     CollectList, CollectScan, CollectDelete, Purging, Purge, Partitioning, AddPartition,
     DropPartition, storeVars
<1>10. Goal
  BY <1>1, <1>4, <1>5, <1>6, <1>7, <1>8, <1>9, CarriedSubmit, CarriedChunks DEF LifeNext, Goal
<1>11. QED
  BY <1>10 DEF Goal

(* What a step makes of a call that is about to commit.                    *)
LEMMA CallsCarried ==
  ASSUME workload \in Workloads, Ledger, Versions, Opened, Called, LifeNext, NEW j \in Callers,
         calls'[j].pc = "stamp"
  PROVE  /\ calls'[j].session \in DOMAIN sessions
         /\ \/ calls'[j] = calls[j]
            \/ /\ calls'[j].ref = refs[sessions[calls'[j].session].branch]
               /\ UNCHANGED <<refs, sessions>>
<1>1. workload.callers \subseteq Callers
  BY LifeAssumption
<1>2. ASSUME NEW k \in Callers, NEW call, calls' = [calls EXCEPT ![k] = call], call.pc # "stamp"
      PROVE  calls'[j] = calls[j]
  BY <1>2 DEF Called
<1>3. ASSUME calls'[j] = calls[j]  PROVE calls'[j].session \in DOMAIN sessions
  BY <1>3 DEF Called, NoCall
<1>4. ASSUME NEW k \in Callers, PublishRead(k)
      PROVE  \/ calls'[j] = calls[j]
             \/ /\ calls'[j].session \in DOMAIN sessions
                /\ calls'[j].ref = refs[sessions[calls'[j].session].branch]
                /\ UNCHANGED <<refs, sessions>>
  <2> DEFINE s == calls[k].session
             call == [pc |-> "stamp", session |-> s, table |-> calls[k].table,
                      ref |-> refs[sessions[s].branch], keys |-> StagedKeys(s, calls[k].table)]
  <2>1. calls' = [calls EXCEPT ![k] = call]
    BY <1>4 DEF PublishRead, Called
  <2>2. call.session = s /\ call.ref = refs[sessions[s].branch]
    OBVIOUS
  <2>3. s \in DOMAIN sessions
    BY <1>4 DEF PublishRead, Called, NoCall
  <2>4. UNCHANGED <<refs, sessions>>
    BY <1>4 DEF PublishRead
  <2> HIDE DEF call
  <2>5. CASE j = k
    <3>1. calls'[j] = call
      BY <2>1, <2>5 DEF Called
    <3>2. QED
      BY <2>2, <2>3, <2>4, <3>1
  <2>6. CASE j # k
    BY <2>1, <2>6
  <2>7. QED
    BY <2>5, <2>6
<1>5. CASE calls'[j] = calls[j]
  BY <1>3, <1>5
<1>6. ASSUME NEW k \in Callers, EndCall(k)  PROVE calls'[j] = calls[j]
  BY <1>2, <1>6 DEF EndCall, NoCall
<1>7. ASSUME NEW k \in Callers, NEW s, NEW changes, BeginWrite(k, s, changes)
      PROVE  calls'[j] = calls[j]
  BY <1>2, <1>7 DEF BeginWrite, BeginCall
<1>8. ASSUME NEW k \in Callers, NEW s, NEW t, BeginPublish(k, s, t)  PROVE calls'[j] = calls[j]
  BY <1>2, <1>8 DEF BeginPublish, BeginCall
<1>9. CASE Sessions
  <2>1. CASE Opens \/ Abandons
    BY <1>5, <2>1 DEF Opens, OpenSession, Abandons, AbandonSession
  <2>2. CASE Writes
    BY <1>1, <1>5, <1>6, <1>7, <2>2 DEF Writes, SessionWrite, CallFails
  <2>3. CASE Publishes
    BY <1>1, <1>4, <1>5, <1>6, <1>8, <2>3 DEF Publishes, PublishStamp, CallFails
  <2>4. QED
    BY <1>9, <2>1, <2>2, <2>3 DEF Sessions
<1>10. CASE UNCHANGED calls
  BY <1>5, <1>10
<1>11. ASSUME Leases  PROVE UNCHANGED calls
  BY <1>11 DEF Leases, LeaseLapses, ReapRows, ReapList, ReapState, ReaperDies
<1>12. QED
  BY <1>9, <1>10, <1>11, SessionMoves

(* Nobody commits: branches stay where they are, come at number 0, or go.  *)
Steady ==
  /\ commits' = commits
  /\ DOMAIN refs \cup deleted \subseteq DOMAIN refs' \cup deleted'
  /\ \A b \in DOMAIN refs' :
       \/ /\ b \in DOMAIN refs
          /\ refs'[b].head = refs[b].head /\ refs'[b].headSeq = refs[b].headSeq
       \/ b \notin DOMAIN refs \cup deleted /\ refs'[b].headSeq = 0

(* A commit on b, by a process that read x of it.                          *)
CommitOn(b, x) ==
  LET id == Len(commits) + 1
  IN  /\ b \in DOMAIN refs /\ x \in RefType /\ ~Full
      /\ ~\E c \in DOMAIN commits : commits[c].branch = b /\ commits[c].seq = x.headSeq + 1
      /\ Len(commits') = id /\ DOMAIN commits' = DOMAIN commits \cup {id}
      /\ \A c \in DOMAIN commits : commits'[c] = commits[c]
      /\ commits'[id].first = x.head /\ commits'[id].branch = b
      /\ commits'[id].seq = x.headSeq + 1
      /\ DOMAIN refs' = DOMAIN refs /\ deleted' = deleted
      /\ refs'[b].head = id /\ refs'[b].headSeq = x.headSeq + 1
      /\ \A a \in DOMAIN refs \ {b} : refs'[a] = refs[a]

(* A commit, as it is written down.                                        *)
LEMMA CommitWritten ==
  ASSUME Ledger, NEW b \in DOMAIN refs, NEW x \in RefType, ~Full, UNCHANGED deleted,
         ~\E c \in DOMAIN commits : commits[c].branch = b /\ commits[c].seq = x.headSeq + 1,
         NEW c, c.first = x.head, c.branch = b, c.seq = x.headSeq + 1, NEW chain,
         commits' = Append(commits, c),
         refs' = [refs EXCEPT ![b].head = Len(commits) + 1, ![b].headSeq = x.headSeq + 1,
                              ![b].chain = chain]
  PROVE  CommitOn(b, x)
<1>1. commits \in Seq(CommitType) /\ Len(commits) \in Nat
  BY DEF Ledger
<1>2. /\ Len(commits') = Len(commits) + 1
      /\ DOMAIN commits' = DOMAIN commits \cup {Len(commits) + 1}
      /\ \A d \in DOMAIN commits : commits'[d] = commits[d]
      /\ commits'[Len(commits) + 1] = c
  BY <1>1
<1>3. refs[b] \in RefType
  BY DEF Ledger
<1>4. /\ DOMAIN refs' = DOMAIN refs
      /\ refs'[b].head = Len(commits) + 1 /\ refs'[b].headSeq = x.headSeq + 1
      /\ \A a \in DOMAIN refs \ {b} : refs'[a] = refs[a]
  BY <1>3 DEF RefType
<1>5. QED
  BY <1>2, <1>4 DEF CommitOn

(* A request's commit (store.go:456-485).                                  *)
LEMMA LandCommits ==
  ASSUME Typed, NEW r \in Requests, Land(r), ~Lost(r), UNCHANGED deleted
  PROVE  CommitOn(req[r].branch, req[r].ref)
<1> DEFINE b == req[r].branch
           seq == req[r].ref.headSeq + 1
           chain == <<Segment(b, seq)>> \o Tail(req[r].ref.chain)
           c == [first |-> req[r].ref.head, others |-> req[r].others, branch |-> b,
                 seq |-> seq, chain |-> chain]
<1>1. b \in DOMAIN refs /\ req[r].ref \in RefType
  BY DEF Lost, Typed, Asked, LifeRequest
<1>2. /\ ~Full
      /\ ~\E d \in DOMAIN commits : commits[d].branch = b /\ commits[d].seq = seq
      /\ commits' = Append(commits, c)
      /\ refs' = [refs EXCEPT ![b].head = Len(commits) + 1, ![b].headSeq = seq,
                              ![b].chain = chain]
  BY DEF Land, Collides, NextSeq
<1>3. c.first = req[r].ref.head /\ c.branch = b /\ c.seq = seq
  OBVIOUS
<1> HIDE DEF c, chain
<1>4. QED
  BY <1>1, <1>2, <1>3, CommitWritten DEF Typed

(* A session's commit (branch.go:500-530).                                 *)
LEMMA PublishCommits ==
  ASSUME Typed, NEW k \in Callers, PublishStamp(k), UNCHANGED deleted
  PROVE  CommitOn(sessions[calls[k].session].branch, calls[k].ref)
<1> DEFINE b == sessions[calls[k].session].branch
           seq == calls[k].ref.headSeq + 1
           chain == <<Segment(b, seq)>> \o Tail(calls[k].ref.chain)
           c == [first |-> calls[k].ref.head, others |-> {}, branch |-> b, seq |-> seq,
                 chain |-> chain]
<1>1. calls[k] \in CallType /\ calls[k].pc = "stamp"
  BY DEF PublishStamp, Typed, Called
<1>2. calls[k].ref \in RefType /\ calls[k].session \in DOMAIN sessions
  BY <1>1 DEF CallType, NoCall, Typed, Called
<1>3. b \in DOMAIN refs
  BY <1>2 DEF Typed, Opened
<1>4. /\ ~Full
      /\ ~\E d \in DOMAIN commits : commits[d].branch = b /\ commits[d].seq = seq
      /\ commits' = Append(commits, c)
      /\ refs' = [refs EXCEPT ![b].head = Len(commits) + 1, ![b].headSeq = seq,
                              ![b].chain = chain]
  BY DEF PublishStamp
<1>5. c.first = calls[k].ref.head /\ c.branch = b /\ c.seq = seq
  OBVIOUS
<1> HIDE DEF c, chain
<1>6. QED
  BY <1>2, <1>3, <1>4, <1>5, CommitWritten DEF Typed

(* What a step does to the heads of branches (store.go:456-485,            *)
(* branch.go:42-151, 500-530).                                             *)
LEMMA HeadMoves ==
  ASSUME Typed, LifeNext
  PROVE  \/ Steady
         \/ \E r \in Requests : Land(r) /\ CommitOn(req[r].branch, req[r].ref)
         \/ \E k \in Callers : /\ PublishStamp(k)
                               /\ CommitOn(sessions[calls[k].session].branch, calls[k].ref)
<1>1. CASE UNCHANGED <<refs, commits, deleted>>
  BY <1>1 DEF Steady
<1>2. ASSUME NEW r \in Requests, Land(r), ~Lost(r), UNCHANGED deleted
      PROVE  CommitOn(req[r].branch, req[r].ref)
  BY <1>2, LandCommits
<1>3. ASSUME NEW k \in Callers, PublishStamp(k), UNCHANGED deleted
      PROVE  CommitOn(sessions[calls[k].session].branch, calls[k].ref)
  BY <1>3, PublishCommits
<1>4. ASSUME NEW r \in Requests, Advance(r), UNCHANGED deleted  PROVE Steady
  <2>1. commits' = commits /\ refs' = [refs EXCEPT ![req[r].branch].chain = AdvancedChain(r)]
    BY <1>4 DEF Advance
  <2>2. refs \in [DOMAIN refs -> RefType]
    BY DEF Typed, Ledger
  <2>3. /\ DOMAIN refs' = DOMAIN refs
        /\ \A b \in DOMAIN refs : refs'[b].head = refs[b].head /\ refs'[b].headSeq = refs[b].headSeq
    BY <2>1, <2>2 DEF RefType
  <2>4. QED
    BY <1>4, <2>1, <2>3 DEF Steady
<1>5. ASSUME NEW n \in Branches \ deleted, NEW from \in DOMAIN refs, CreateBranch(n, from),
             UNCHANGED deleted
      PROVE  Steady
  BY <1>5 DEF CreateBranch, Steady
<1>6. ASSUME NEW b \in DOMAIN refs, DeleteBranch(b)  PROVE Steady
  BY <1>6 DEF DeleteBranch, Steady
<1>7. QED
  BY <1>1, <1>2, <1>3, <1>4, <1>5, <1>6, LedgerMoves
     DEF Typed, Untouched, Drops, SessionWrite, Backfill, Prune

(* A commit that collides with none is made at the head of its branch.     *)
LEMMA CommitAtHead ==
  ASSUME Ledger, LinearInv, NEW b, NEW x, CommitOn(b, x), ReadAt(x, b)
  PROVE  x.headSeq = refs[b].headSeq /\ x.head = refs[b].head
<1> DEFINE h == x.headSeq
<1>1. b \in DOMAIN refs /\ refs[b].headSeq \in Nat /\ h \in Nat
  BY DEF CommitOn, Ledger, RefType
<1>2. ~(h < refs[b].headSeq)
  <2> SUFFICES ASSUME h < refs[b].headSeq PROVE FALSE
    OBVIOUS
  <2>1. h + 1 \in 0 .. refs[b].headSeq /\ h + 1 # 0
    BY <1>1
  <2>2. {commits[c].seq : c \in On(b)} \cup {0} = 0 .. refs[b].headSeq
    BY <1>1 DEF LinearInv, LinearHistory
  <2>3. PICK c \in On(b) : commits[c].seq = h + 1
    BY <2>1, <2>2
  <2>4. QED
    BY <2>3 DEF CommitOn, On
<1>3. QED
  BY <1>1, <1>2 DEF ReadAt

(* Heads advance with their commits.                                       *)
HeadsAdvance ==
  /\ DOMAIN refs \cup deleted \subseteq DOMAIN refs' \cup deleted'
  /\ \A b \in DOMAIN refs' :
       \/ /\ b \in DOMAIN refs
          /\ refs'[b].headSeq = refs[b].headSeq => refs'[b].head = refs[b].head
          /\ refs[b].headSeq <= refs'[b].headSeq
       \/ b \notin DOMAIN refs \cup deleted

(* A history goes on by one commit.                                        *)
LEMMA LinearCommit ==
  ASSUME Ledger, LinearInv, NEW b, NEW x, CommitOn(b, x), ReadAt(x, b)
  PROVE  /\ LinearHistory' /\ HeadsBounded' /\ HeadsAdvance
         /\ \A c \in DOMAIN commits' : commits'[c].branch \in DOMAIN refs' \cup deleted'
<1> DEFINE id == Len(commits) + 1
<1>1. x.headSeq = refs[b].headSeq /\ x.head = refs[b].head
  BY CommitAtHead
<1>2. /\ commits \in Seq(CommitType) /\ Len(commits) \in Nat /\ id \notin DOMAIN commits
      /\ b \in DOMAIN refs /\ \A a \in DOMAIN refs : refs[a].headSeq \in Nat
  BY DEF Ledger, RefType, CommitOn
<1>3. /\ DOMAIN commits' = DOMAIN commits \cup {id}
      /\ \A c \in DOMAIN commits : commits'[c] = commits[c]
      /\ commits'[id].first = refs[b].head /\ commits'[id].branch = b
      /\ commits'[id].seq = refs[b].headSeq + 1
      /\ DOMAIN refs' = DOMAIN refs /\ deleted' = deleted
      /\ refs'[b].head = id /\ refs'[b].headSeq = refs[b].headSeq + 1
      /\ \A a \in DOMAIN refs \ {b} : refs'[a] = refs[a]
      /\ Len(commits') = id /\ ~Full
  BY <1>1 DEF CommitOn
<1> HIDE DEF id
<1>4. LinearHistory'
  BY <1>2, <1>3, HistoryGrows DEF LinearInv
<1>5. HeadsBounded'
  <2>1. Len(commits') = Len(commits) + 1 /\ Len(commits) <= MaxCommits /\ Len(commits) # MaxCommits
    BY <1>3 DEF id, LinearInv, HeadsBounded, Full
  <2>2. ASSUME NEW a \in DOMAIN refs'  PROVE refs'[a].headSeq < Len(commits')
    <3>1. a \in DOMAIN refs /\ refs[a].headSeq < Len(commits) /\ refs[b].headSeq < Len(commits)
      BY <1>2, <1>3, <2>2 DEF LinearInv, HeadsBounded
    <3>2. refs'[a].headSeq = refs[a].headSeq \/ refs'[a].headSeq = refs[b].headSeq + 1
      BY <1>3, <3>1
    <3>3. QED
      BY <1>2, <2>1, <3>1, <3>2
  <2>3. QED
    BY <1>2, <2>1, <2>2, StoreAssumption DEF HeadsBounded
<1>6. HeadsAdvance
  <2>1. ASSUME NEW a \in DOMAIN refs
        PROVE  /\ refs'[a].headSeq = refs[a].headSeq => refs'[a].head = refs[a].head
               /\ refs[a].headSeq <= refs'[a].headSeq
    <3>1. CASE a = b
      BY <1>2, <1>3, <3>1
    <3>2. CASE a # b
      BY <1>2, <1>3, <3>2
    <3>3. QED
      BY <3>1, <3>2
  <2>2. QED
    BY <1>3, <2>1 DEF HeadsAdvance
<1>7. QED
  BY <1>2, <1>3, <1>4, <1>5, <1>6 DEF LinearInv, Named

(* Nobody commits: histories stay, those of new branches are empty.        *)
LEMMA LinearSteady ==
  ASSUME Ledger, LinearInv, Steady
  PROVE  /\ LinearHistory' /\ HeadsBounded' /\ HeadsAdvance
         /\ \A c \in DOMAIN commits' : commits'[c].branch \in DOMAIN refs' \cup deleted'
<1>1. /\ \A b \in DOMAIN refs : refs[b].headSeq \in Nat
      /\ commits' = commits /\ Len(commits) \in Nat /\ Main \in DOMAIN refs
  BY DEF Ledger, RefType, Steady
<1>2. \A b : On(b)' = On(b)
  BY <1>1 DEF On
<1>3. ASSUME NEW b \in DOMAIN refs'
      PROVE  /\ \A c, d \in On(b) : commits[c].seq = commits[d].seq => c = d
             /\ {commits[c].seq : c \in On(b)} \cup {0} = 0 .. refs'[b].headSeq
             /\ \A c \in On(b) :
                  /\ commits[c].seq = refs'[b].headSeq => refs'[b].head = c
                  /\ commits[c].seq > 1 =>
                       /\ commits[c].first \in On(b)
                       /\ commits[commits[c].first].seq = commits[c].seq - 1
  <2>1. CASE b \in DOMAIN refs /\ refs'[b].head = refs[b].head /\ refs'[b].headSeq = refs[b].headSeq
    BY <2>1 DEF LinearInv, LinearHistory
  <2>2. CASE b \notin DOMAIN refs \cup deleted /\ refs'[b].headSeq = 0
    <3>1. On(b) = {}
      BY <2>2 DEF LinearInv, Named, On
    <3>2. 0 .. refs'[b].headSeq = {0}
      BY <2>2
    <3>3. QED
      BY <3>1, <3>2
  <2>3. QED
    BY <1>3, <2>1, <2>2 DEF Steady
<1>4. LinearHistory'
  BY <1>1, <1>2, <1>3 DEF LinearHistory
<1>5. HeadsBounded'
  <2>1. \A b \in DOMAIN refs' : refs'[b].headSeq < Len(commits)
    <3>1. 0 < Len(commits)
      BY <1>1 DEF LinearInv, HeadsBounded
    <3>2. QED
      BY <3>1 DEF Steady, LinearInv, HeadsBounded
  <2>2. QED
    BY <1>1, <2>1 DEF LinearInv, HeadsBounded
<1>6. HeadsAdvance
  <2>1. ASSUME NEW b \in DOMAIN refs', b \in DOMAIN refs
        PROVE  refs'[b].head = refs[b].head /\ refs'[b].headSeq = refs[b].headSeq
    BY <2>1 DEF Steady
  <2>2. \A b \in DOMAIN refs' : b \in DOMAIN refs \/ b \notin DOMAIN refs \cup deleted
    BY DEF Steady
  <2>3. DOMAIN refs \cup deleted \subseteq DOMAIN refs' \cup deleted'
    BY DEF Steady
  <2>4. \A b \in DOMAIN refs : refs[b].headSeq <= refs[b].headSeq
    BY <1>1
  <2>5. QED
    BY <2>1, <2>2, <2>3, <2>4 DEF HeadsAdvance
<1>7. QED
  BY <1>1, <1>4, <1>5, <1>6 DEF LinearInv, Named, Steady

(* What a process has read stays behind the head.                          *)
LEMMA ReadAtStays ==
  ASSUME Ledger, HeadsAdvance, NEW b \in DOMAIN refs, b \in DOMAIN refs', b \notin deleted,
         NEW x, x.headSeq \in Nat,
         ReadAt(x, b), refs'[b].headSeq \in Nat
  PROVE  /\ x.headSeq <= refs'[b].headSeq
         /\ x.headSeq = refs'[b].headSeq => x.head = refs'[b].head
<1>1. /\ refs'[b].headSeq = refs[b].headSeq => refs'[b].head = refs[b].head
      /\ refs[b].headSeq <= refs'[b].headSeq
  BY DEF HeadsAdvance
<1>2. refs[b].headSeq \in Nat
  BY DEF Ledger, RefType
<1>3. QED
  BY <1>1, <1>2 DEF ReadAt

(* Every step: heads and histories.                                        *)
LEMMA HeadsNext ==
  ASSUME Typed, LinearInv, LifeNext
  PROVE  /\ LinearHistory' /\ HeadsBounded' /\ HeadsAdvance
         /\ \A c \in DOMAIN commits' : commits'[c].branch \in DOMAIN refs' \cup deleted'
<1>1. Ledger
  BY DEF Typed
<1>2. CASE Steady
  BY <1>1, <1>2, LinearSteady
<1>3. ASSUME NEW r \in Requests, Land(r), CommitOn(req[r].branch, req[r].ref)
      PROVE  ReadAt(req[r].ref, req[r].branch)
  BY <1>3 DEF LinearInv, Reads, Land, CommitOn
<1>4. ASSUME NEW k \in Callers, PublishStamp(k)
      PROVE  ReadAt(calls[k].ref, sessions[calls[k].session].branch)
  BY <1>4 DEF LinearInv, Reads, PublishStamp
<1>5. QED
  BY <1>1, <1>2, <1>3, <1>4, HeadMoves, LinearCommit

(* Every step.                                                             *)
LEMMA LinearNext ==
  ASSUME Typed, Typed', LinearInv, LifeNext  PROVE LinearInv'
<1>1. /\ LinearHistory' /\ HeadsBounded' /\ HeadsAdvance
      /\ \A c \in DOMAIN commits' : commits'[c].branch \in DOMAIN refs' \cup deleted'
  BY HeadsNext
<1>2. /\ \A q \in Requests : Carried(q)
      /\ \A r \in Requests : InTable(req[r])
  BY RequestsCarried DEF Typed, LinearInv
<1>3. \A b \in DOMAIN refs' : b \in DOMAIN refs \/ b \notin DOMAIN refs \cup deleted
  BY <1>1 DEF HeadsAdvance
<1>4. \A q \in Requests : InTable(req[q])'
  BY <1>2 DEF Carried, InTable
<1>5. Named'
  <2>1. ASSUME NEW q \in Requests  PROVE req'[q].branch \in DOMAIN refs' \cup deleted'
    <3>1. DOMAIN refs \cup deleted \subseteq DOMAIN refs' \cup deleted'
      BY <1>1 DEF HeadsAdvance
    <3>2. Main \in DOMAIN refs
      BY DEF Typed, Ledger
    <3>3. QED
      BY <1>2, <3>1, <3>2 DEF Carried, LinearInv, Named
  <2>2. QED
    BY <1>1, <2>1 DEF Named
<1>6. \A b \in DOMAIN refs' : refs'[b].headSeq \in Nat
  BY DEF Typed, Ledger, RefType
<1>7. DOMAIN refs \cap deleted = {}
  BY DEF Typed, Ledger
<1>8. ASSUME NEW q \in Requests, req'[q].pc = "apply", req'[q].branch \in DOMAIN refs'
      PROVE  ReadAt(req[q].ref, req[q].branch)'
  <2>1. PICK b : b = req[q].branch
    OBVIOUS
  <2>2. PICK x : x = req'[q].ref
    OBVIOUS
  <2>3. req'[q].branch = b /\ b \in DOMAIN refs /\ b \in DOMAIN refs'
    BY <1>2, <1>3, <1>8, <2>1 DEF Carried, LinearInv, Named
  <2>4. CASE req[q].pc = "apply" /\ req'[q].ref = req[q].ref
    <3>1. ReadAt(x, b)
      BY <2>1, <2>2, <2>3, <2>4 DEF LinearInv, Reads
    <3>2. x.headSeq \in Nat
      BY <2>2, <2>4 DEF Typed, Asked, LifeRequest, RefType
    <3>3. QED
      BY <1>1, <1>6, <1>7, <2>2, <2>3, <3>1, <3>2, ReadAtStays DEF Typed, ReadAt
  <2>5. CASE req'[q].ref = refs[b] /\ UNCHANGED refs
    BY <1>6, <2>2, <2>3, <2>5 DEF ReadAt
  <2>6. QED
    BY <1>2, <1>8, <2>1, <2>4, <2>5 DEF Carried
<1>9. ASSUME NEW j \in Callers, calls'[j].pc = "stamp"
      PROVE  ReadAt(calls[j].ref, sessions[calls[j].session].branch)'
  <2>1. /\ calls'[j].session \in DOMAIN sessions
        /\ \/ calls'[j] = calls[j]
           \/ /\ calls'[j].ref = refs[sessions[calls'[j].session].branch]
              /\ UNCHANGED <<refs, sessions>>
    BY <1>9, CallsCarried DEF Typed
  <2>2. PICK s \in DOMAIN sessions : s = calls'[j].session
    BY <2>1
  <2>3. PICK b : b = sessions[s].branch
    OBVIOUS
  <2>4. b \in DOMAIN refs /\ b \in DOMAIN refs' /\ sessions'[s].branch = b
    BY <2>3, KeptStep DEF Typed, Opened, Kept
  <2>5. PICK x : x = calls'[j].ref
    OBVIOUS
  <2>6. CASE calls'[j] = calls[j]
    <3>1. ReadAt(x, b)
      BY <1>9, <2>2, <2>3, <2>5, <2>6 DEF LinearInv, Reads
    <3>2. x.headSeq \in Nat
      <4>1. calls[j] \in CallType /\ calls[j].pc = "stamp"
        BY <1>9, <2>6 DEF Typed, Called
      <4>2. calls[j].ref \in RefType
        BY <4>1 DEF CallType, NoCall
      <4>3. QED
        BY <2>5, <2>6, <4>2 DEF RefType
    <3>3. QED
      BY <1>1, <1>6, <1>7, <2>2, <2>4, <2>5, <3>1, <3>2, ReadAtStays DEF Typed, ReadAt
  <2>7. CASE calls'[j].ref = refs[sessions[calls'[j].session].branch] /\ UNCHANGED <<refs, sessions>>
    BY <1>6, <2>2, <2>3, <2>4, <2>7 DEF ReadAt
  <2>8. QED
    BY <2>1, <2>6, <2>7
<1>10. Reads'
  BY <1>8, <1>9 DEF Reads
<1>11. QED
  BY <1>1, <1>4, <1>5, <1>10 DEF LinearInv

(* The invariant of histories.                                             *)
LEMMA AlwaysLinear == LifeSpec => []LinearInv
<1>1. LifeInit => LinearInv
  <2> SUFFICES ASSUME LifeInit PROVE LinearInv
    OBVIOUS
  <2>1. /\ DOMAIN refs = {Main} /\ refs[Main].headSeq = 0 /\ refs[Main].head = 1
        /\ commits = <<RootCommit>>
    BY DEF LifeInit, Init
  <2>2. /\ Len(commits) = 1 /\ DOMAIN commits = {1} /\ commits[1].branch = Main
        /\ commits[1].seq = 0
    BY <2>1 DEF RootCommit
  <2>3. /\ \A r \in Requests : req[r] = Idle
        /\ \A k \in Callers : calls[k].pc # "stamp"
    BY DEF LifeInit, Init, SessionsInit, NoCall
  <2>4. Named /\ \A r \in Requests : InTable(req[r])
    BY <2>1, <2>2, <2>3 DEF Named, InTable, Idle
  <2>5. Reads
    BY <2>3 DEF Reads, Idle
  <2>6. HeadsBounded
    BY <2>1, <2>2, StoreAssumption DEF HeadsBounded
  <2>7. LinearHistory
    <3>1. On(Main) = {1} /\ 0 .. 0 = {0}
      BY <2>2 DEF On
    <3>2. QED
      BY <2>1, <2>2, <3>1 DEF LinearHistory
  <2>8. QED
    BY <2>4, <2>5, <2>6, <2>7 DEF LinearInv
<1>2. Typed /\ Typed' /\ LinearInv /\ [LifeNext]_lifeVars => LinearInv'
  <2>1. CASE UNCHANGED lifeVars
    BY <2>1 DEF lifeVars, storeVars, sessionVars, liveVars, retentionVars, vars, LinearInv,
       LinearHistory, Named, Reads, ReadAt, HeadsBounded, InTable, On
  <2>2. QED
    BY <2>1, LinearNext
<1>3. QED
  BY <1>1, <1>2, AlwaysTyped, PTL DEF LifeSpec

(* Under every mix of operations a branch keeps the linear history of its  *)
(* commits: published sessions and requests of all kinds commit to it, the *)
(* reaper, the collector and deleted branches come between, and a ref that *)
(* was read long before its commit never lets two of them take one place   *)
(* (store.go:392-402, branch.go:427-530, 130-151).                         *)
THEOREM LifeHistoryIsLinear == LifeSpec => []LinearHistory
<1>1. LinearInv => LinearHistory
  BY DEF LinearInv
<1>2. QED
  BY <1>1, AlwaysLinear, PTL
-----------------------------------------------------------------------------
(* The intervals of versions.  What the sessions stage comes first: a      *)
(* publication makes one version of each key it closed.                    *)

(* What a step makes of a call, when a session serves one at a time        *)
(* (branch.go:230-300, 427-500).                                           *)
LEMMA CallMoves ==
  ASSUME ~SharedSessions, workload \in Workloads, Called, LifeNext, NEW j \in Callers
  PROVE  \/ calls'[j] = calls[j]
         \/ calls'[j] = NoCall
         \/ PublishRead(j)
         \/ /\ ~Calling(calls'[j].session) /\ calls'[j].pc \in {"write", "publish"}
            /\ \A i \in Callers \ {j} : calls'[i] = calls[i]
<1> DEFINE Goal == \/ calls'[j] = calls[j]
                   \/ calls'[j] = NoCall
                   \/ PublishRead(j)
                   \/ /\ ~Calling(calls'[j].session) /\ calls'[j].pc \in {"write", "publish"}
                      /\ \A i \in Callers \ {j} : calls'[i] = calls[i]
<1>1. workload.callers \subseteq Callers
  BY LifeAssumption
<1>2. ASSUME UNCHANGED calls  PROVE Goal
  BY <1>2
<1>3. ASSUME NEW k \in Callers, EndCall(k)  PROVE Goal
  BY <1>3 DEF EndCall, Called
<1>4. ASSUME NEW k \in Callers, NEW s, NEW call, call.session = s, call.pc \in {"write", "publish"},
             BeginCall(k, s, call)
      PROVE  Goal
  <2>1. CASE j = k
    BY <1>4, <2>1 DEF BeginCall, Called
  <2>2. CASE j # k
    BY <1>4, <2>2 DEF BeginCall, Called
  <2>3. QED
    BY <2>1, <2>2
<1>5. ASSUME NEW k \in Callers, PublishRead(k)  PROVE Goal
  BY <1>5 DEF PublishRead, Called
<1> HIDE DEF Goal
<1>6. ASSUME NEW k \in Callers, NEW s, NEW changes, BeginWrite(k, s, changes)  PROVE Goal
  BY <1>4, <1>6 DEF BeginWrite
<1>7. ASSUME NEW k \in Callers, NEW s, NEW t, BeginPublish(k, s, t)  PROVE Goal
  BY <1>4, <1>7 DEF BeginPublish
<1>8. ASSUME Sessions  PROVE Goal
  <2>1. CASE Opens \/ Abandons
    BY <1>2, <2>1 DEF Opens, OpenSession, Abandons, AbandonSession
  <2>2. CASE Writes
    BY <1>1, <1>3, <1>6, <2>2 DEF Writes, SessionWrite, CallFails
  <2>3. CASE Publishes
    BY <1>1, <1>3, <1>5, <1>7, <2>3 DEF Publishes, PublishStamp, CallFails
  <2>4. QED
    BY <1>8, <2>1, <2>2, <2>3 DEF Sessions
<1>9. ASSUME Leases  PROVE UNCHANGED calls
  BY <1>9 DEF Leases, LeaseLapses, ReapRows, ReapList, ReapState, ReaperDies
<1>10. Goal
  BY <1>2, <1>8, <1>9, SessionMoves
<1>11. QED
  BY <1>10 DEF Goal

(* A write leaves of a session's versions those of other keys, and one     *)
(* open version of each key it names (branch.go:303-385).                  *)
LEMMA WriteStages ==
  ASSUME Versions, NEW k \in Callers, SessionWrite(k), NEW v \in rows',
         NEW s, s = calls[k].session, NEW keys, keys = ToStage(s, calls[k].changes)
  PROVE  \/ v \in rows /\ ~(v.session = s /\ v.pk \in keys)
         \/ /\ v.pk \in keys
            /\ v = StagedVersion(s, v.pk, MaskOf(SessionView(s)[v.pk], calls[k].changes[v.pk]),
                                 calls[k].changes[v.pk])
<1> DEFINE made(pk) == StagedVersion(s, pk, MaskOf(SessionView(s)[pk], calls[k].changes[pk]),
                                     calls[k].changes[pk])
<1>1. rows' = {w \in rows : ~(w.session = s /\ w.pk \in keys)} \cup {made(pk) : pk \in keys}
  BY DEF SessionWrite
<1>2. \A pk : made(pk).pk = pk
  BY DEF StagedVersion
<1> HIDE DEF made
<1>3. CASE v \in {w \in rows : ~(w.session = s /\ w.pk \in keys)}
  BY <1>3
<1>4. CASE v \in {made(pk) : pk \in keys}
  <2>1. PICK pk \in keys : v = made(pk)
    BY <1>4
  <2>2. v.pk = pk
    BY <1>2, <2>1
  <2>3. v.pk \in keys /\ v = made(v.pk)
    BY <2>1, <2>2
  <2>4. QED
    BY <2>3 DEF made
<1>5. QED
  BY <1>1, <1>3, <1>4

(* A session serves one call at a time.                                    *)
Alone ==
  \A j, k \in Callers :
    calls[j] # NoCall /\ calls[k] # NoCall /\ calls[j].session = calls[k].session => j = k

(* A staged version is an open one, on its session's branch.               *)
StagedOpen ==
  \A v \in rows : v.session # NoSession =>
    v.session \in DOMAIN sessions /\ v.branch = sessions[v.session].branch /\ v.to = MaxSeq

(* A session stages one version of a key.                                  *)
StagedOnce ==
  \A v, w \in rows :
    v.session # NoSession /\ v.session = w.session /\ v.pk = w.pk => v = w

(* A publication has closed the keys of all it is about to stamp.          *)
StampsCovered ==
  \A k \in Callers : calls[k].pc = "stamp" =>
    \A v \in Staged(calls[k].session) : v.pk \in calls[k].table => v.pk \in calls[k].keys

(* Inductive, for any number of tables.                                    *)
StageInv == Alone /\ StagedOpen /\ StagedOnce /\ StampsCovered

(* Every step.                                                             *)
LEMMA StageNext ==
  ASSUME ~SharedSessions, Typed, StageInv, LifeNext  PROVE StageInv'
<1>1. workload \in Workloads /\ Versions /\ Called /\ Kept
  BY KeptStep DEF Typed
<1>2. \A j \in Callers :
        \/ calls'[j] = calls[j]
        \/ calls'[j] = NoCall
        \/ PublishRead(j)
        \/ /\ ~Calling(calls'[j].session) /\ calls'[j].pc \in {"write", "publish"}
           /\ \A i \in Callers \ {j} : calls'[i] = calls[i]
  BY <1>1, CallMoves
<1>3. \A j \in Callers : PublishRead(j) =>
        /\ calls[j] # NoCall /\ calls'[j].session = calls[j].session
        /\ rows' = rows /\ calls'[j].table = calls[j].table
        /\ calls'[j].keys = StagedKeys(calls[j].session, calls[j].table)
  BY <1>1 DEF PublishRead, Called, NoCall
<1>4. Alone'
  <2>1. ASSUME NEW i \in Callers, NEW j \in Callers, calls'[i] # NoCall, calls'[j] # NoCall,
               calls'[i].session = calls'[j].session, i # j
        PROVE  FALSE
    <3>1. ASSUME NEW x \in Callers, NEW y \in Callers, x # y, calls'[y] # NoCall,
                 calls'[x].session = calls'[y].session, ~Calling(calls'[x].session),
                 \A z \in Callers \ {x} : calls'[z] = calls[z]
          PROVE  FALSE
      BY <3>1 DEF Calling
    <3>2. \A x \in {i, j} : calls[x] # NoCall /\ calls'[x].session = calls[x].session
      BY <1>2, <1>3, <2>1, <3>1
    <3>3. QED
      BY <2>1, <3>2 DEF StageInv, Alone
  <2>2. QED
    BY <2>1 DEF Alone
<1>5. ASSUME NEW v \in rows', v.session # NoSession, v \notin rows
      PROVE  \E k \in Callers :
               /\ SessionWrite(k) /\ v.session = calls[k].session
               /\ v.branch = sessions[calls[k].session].branch
  BY <1>1, <1>5, NewStaged
<1>6. StagedOpen'
  <2>1. ASSUME NEW v \in rows', v.session # NoSession
        PROVE  /\ v.session \in DOMAIN sessions /\ v.branch = sessions[v.session].branch
               /\ v.to = MaxSeq
    <3>1. CASE v \in rows
      BY <2>1, <3>1 DEF StageInv, StagedOpen
    <3>2. CASE v \notin rows
      <4>1. PICK k \in Callers : /\ SessionWrite(k) /\ v.session = calls[k].session
                                /\ v.branch = sessions[calls[k].session].branch
        BY <1>5, <2>1, <3>2
      <4>2. calls[k] # NoCall
        BY <4>1 DEF SessionWrite, NoCall
      <4>3. v.to = MaxSeq
        BY <1>1, <3>2, <4>1, WriteStages DEF StagedVersion
      <4>4. QED
        BY <1>1, <4>1, <4>2, <4>3 DEF Called
    <3>3. QED
      BY <3>1, <3>2
  <2>2. QED
    BY <1>1, <2>1 DEF StagedOpen, Kept
<1>7. StagedOnce'
  <2>1. ASSUME NEW v \in rows', NEW w \in rows', v.session # NoSession, v.session = w.session,
               v.pk = w.pk, v \notin rows
        PROVE  v = w
    <3>1. PICK k \in Callers : SessionWrite(k) /\ v.session = calls[k].session
      BY <1>5, <2>1
    <3>2. PICK s, keys : s = calls[k].session /\ keys = ToStage(s, calls[k].changes)
      OBVIOUS
    <3>3. /\ v.pk \in keys
          /\ v = StagedVersion(s, v.pk, MaskOf(SessionView(s)[v.pk], calls[k].changes[v.pk]),
                               calls[k].changes[v.pk])
      BY <1>1, <2>1, <3>1, <3>2, WriteStages
    <3>4. w = StagedVersion(s, w.pk, MaskOf(SessionView(s)[w.pk], calls[k].changes[w.pk]),
                            calls[k].changes[w.pk])
      BY <1>1, <2>1, <3>1, <3>2, <3>3, WriteStages
    <3>5. QED
      BY <2>1, <3>3, <3>4
  <2>2. ASSUME NEW v \in rows', NEW w \in rows', v.session # NoSession, v.session = w.session,
               v.pk = w.pk
        PROVE  v = w
    BY <2>1, <2>2 DEF StageInv, StagedOnce
  <2>3. QED
    BY <2>2 DEF StagedOnce
<1>8. StampsCovered'
  <2>1. ASSUME NEW k \in Callers, calls'[k].pc = "stamp", NEW v \in rows',
               v.session = calls'[k].session, v.pk \in calls'[k].table
        PROVE  v.pk \in calls'[k].keys
    <3>1. CASE calls'[k] = calls[k]
      <4>1. calls[k] # NoCall /\ calls[k].session \in DOMAIN sessions
        BY <1>1, <2>1, <3>1 DEF NoCall, Called
      <4>2. v.session # NoSession
        BY <2>1, <3>1, <4>1, StoreAssumption DEF Typed, Opened
      <4>3. v \in rows
        <5>1. SUFFICES ASSUME v \notin rows PROVE FALSE
          OBVIOUS
        <5>2. PICK j \in Callers : SessionWrite(j) /\ v.session = calls[j].session
          BY <1>5, <4>2, <5>1
        <5>3. calls[j].pc = "write" /\ calls[j] # NoCall
          BY <5>2 DEF SessionWrite, NoCall
        <5>4. j = k
          BY <2>1, <3>1, <4>1, <5>2, <5>3 DEF StageInv, Alone
        <5>5. QED
          BY <2>1, <3>1, <5>3, <5>4
      <4>4. QED
        BY <2>1, <3>1, <4>3 DEF StageInv, StampsCovered, Staged
    <3>2. CASE PublishRead(k)
      BY <1>3, <2>1, <3>2 DEF StagedKeys, Staged
    <3>3. QED
      BY <1>2, <2>1, <3>1, <3>2 DEF NoCall
  <2>2. QED
    BY <2>1 DEF StampsCovered, Staged
<1>9. QED
  BY <1>4, <1>6, <1>7, <1>8 DEF StageInv
-----------------------------------------------------------------------------
(* The published versions.                                                 *)
Published == {v \in rows : v.session = NoSession}

(* They begin by the head of their branch, end after they begin, and by    *)
(* the head or never; those of a deleted branch stay as they are.          *)
PublishedPlaced ==
  \A v \in Published :
    /\ v.branch \in DOMAIN refs \cup deleted /\ v.from < v.to
    /\ v.branch \in DOMAIN refs => /\ v.from <= refs[v.branch].headSeq
                                   /\ v.to = MaxSeq \/ v.to <= refs[v.branch].headSeq

(* The keys of tables that were not written through the store while they   *)
(* were imported.                                                          *)
Calm(pk) == \A t \in disturbed : pk \notin t

(* Two of their versions on one branch are valid at no common number.      *)
PublishedApart ==
  \A v, w \in Published :
    v.branch = w.branch /\ v.pk = w.pk /\ v # w /\ Calm(v.pk)
      => v.to <= w.from \/ w.to <= v.from

(* Until its import is done a table has no version on the default branch,  *)
(* but for those of who disturbed it.                                      *)
Blank ==
  \A t \in Tables \ disturbed : tracking[t] # "active" =>
    \A v \in Published : v.branch = Main => v.pk \notin t

(* The importer works on such a table, at a number it read.                *)
Importing ==
  /\ importer.pc # "idle" => importer.pc \in {"registered", "read"} /\ tracking[importer.table] # "active"
  /\ importer.pc = "read" => importer.seq <= refs[Main].headSeq

(* The inductive invariant of intervals.                                   *)
SpanInv ==
  PublishedPlaced /\ PublishedApart /\ Blank /\ Importing /\ disturbed \subseteq Tables \cup {{}}

(* What a step does to published versions and to tracked tables.           *)
LEMMA SpanMoves ==
  ASSUME workload \in Workloads, Versions, Opened, Called, LifeNext
  PROVE  \/ Published' \subseteq Published /\ UNCHANGED <<tracking, importer, disturbed>>
         \/ \E r \in Requests :
              Land(r) /\ ~Lost(r) /\ Disturb(r) /\ UNCHANGED <<tracking, importer, deleted>>
         \/ \E k \in Callers :
              PublishStamp(k) /\ UNCHANGED <<tracking, importer, disturbed, deleted>>
         \/ \E t \in Tables, cutoff \in Nat : Prune(t, cutoff)
         \/ ((\E t \in Tables : Track(t)) \/ ReadHead \/ TrackDies)
         \/ Backfill
         \/ \E t \in Tables : Untrack(t)
<1> DEFINE Rest == Published' \subseteq Published /\ UNCHANGED <<tracking, importer, disturbed>>
<1>1. workload.requests \subseteq Requests /\ workload.callers \subseteq Callers
  BY LifeAssumption
<1>2. ASSUME rows' \subseteq rows, UNCHANGED <<tracking, importer, disturbed>>  PROVE Rest
  BY <1>2 DEF Published
<1> HIDE DEF Rest
<1>3. ASSUME NEW r \in Requests, StoreStep(r) \/ StoreRefuse(r) \/ LostFails(r) \/ StoreCrash(r)
      PROVE  Rest
  BY <1>2, <1>3 DEF StoreStep, StoreRefuse, LostFails, StoreCrash, Lock, ReadUnlocked, ReadParent,
     ReadChild, Advance, PlanMerge, Refuse, Crash
<1>4. ASSUME NEW r \in Requests, StoreLand(r)
      PROVE  Land(r) /\ ~Lost(r) /\ Disturb(r) /\ UNCHANGED <<tracking, importer, deleted>>
  BY <1>4 DEF StoreLand, Working, retentionVars
<1>5. ASSUME NEW r \in Requests, Submits(r) \/ Chunks(r)  PROVE Rest
  BY <1>2, <1>5
     DEF Submits, Commits, Merges, UpdatesFromParent, LargeMerges, Reverts, SubmitCommit,
         SubmitMerge, SubmitUpdate, SubmitLarge, SubmitRevert, liveVars, Chunks, MergeAtOnce,
         RefuseLarge, BeginChunks, ApplyChunk, ChunkFails, EndChunks
<1>6. ASSUME Branching  PROVE Rest
  BY <1>2, <1>6 DEF Branching, CreateBranch, liveVars
<1>7. ASSUME NEW k \in Callers, SessionWrite(k)  PROVE Published' \subseteq Published
  <2>1. calls[k] # NoCall
    BY <1>7 DEF SessionWrite, NoCall
  <2>2. calls[k].session # NoSession
    BY <2>1, StoreAssumption DEF Called, Opened
  <2>3. ASSUME NEW v \in rows', v.session = NoSession  PROVE v \in rows
    <3>1. PICK s, keys : s = calls[k].session /\ keys = ToStage(s, calls[k].changes)
      OBVIOUS
    <3>2. \/ v \in rows
          \/ v = StagedVersion(s, v.pk, MaskOf(SessionView(s)[v.pk], calls[k].changes[v.pk]),
                               calls[k].changes[v.pk])
      BY <1>7, <3>1, WriteStages
    <3>3. QED
      BY <2>2, <2>3, <3>1, <3>2 DEF StagedVersion
  <2>4. QED
    BY <2>3 DEF Published
<1>8. ASSUME Sessions
      PROVE  \/ Rest
             \/ \E k \in Callers :
                  PublishStamp(k) /\ UNCHANGED <<tracking, importer, disturbed, deleted>>
  <2>1. UNCHANGED <<tracking, importer, disturbed, deleted>>
    BY <1>8 DEF Sessions, liveVars, retentionVars
  <2>2. CASE Opens
    BY <1>2, <2>1, <2>2 DEF Opens, OpenSession
  <2>3. CASE Writes
    <3>1. ASSUME NEW k \in Callers, SessionWrite(k)  PROVE Rest
      BY <1>7, <2>1, <3>1 DEF Rest
    <3>2. QED
      BY <1>1, <1>2, <2>1, <2>3, <3>1 DEF Writes, BeginWrite, BeginCall, CallFails
  <2>4. CASE Publishes
    BY <1>1, <1>2, <2>1, <2>4 DEF Publishes, BeginPublish, BeginCall, PublishRead, CallFails
  <2>5. CASE Abandons
    BY <1>2, <2>1, <2>5 DEF Abandons, AbandonSession
  <2>6. QED
    BY <1>8, <2>2, <2>3, <2>4, <2>5 DEF Sessions
<1>9. ASSUME Leases  PROVE Rest
  BY <1>2, <1>9 DEF Leases, LeaseLapses, ReapRows, ReapList, ReapState, ReaperDies, liveVars
<1>10. ASSUME Removals  PROVE Rest \/ \E t \in Tables, cutoff \in Nat : Prune(t, cutoff)
  <2>1. CASE Tagging
    BY <1>2, <2>1 DEF Tagging, CreateTag, storeVars, liveVars
  <2>2. CASE Pruning
    BY <2>2 DEF Pruning
  <2>3. CASE RunGC
    BY <1>2, <2>3 DEF RunGC, CollectList, CollectScan, CollectDelete, storeVars, liveVars
  <2>4. CASE Purging
    BY <1>2, <2>4 DEF Purging, Purge, liveVars
  <2>5. CASE Partitioning
    BY <1>2, <2>5 DEF Partitioning, AddPartition, DropPartition, storeVars, liveVars
  <2>6. CASE Deleting
    BY <1>2, <2>6 DEF Deleting, DeleteBranch, liveVars
  <2>7. QED
    BY <1>10, <2>1, <2>2, <2>3, <2>4, <2>5, <2>6 DEF Removals
<1>11. ASSUME LiveSteps
       PROVE  \/ Rest
              \/ (\E t \in Tables : Track(t)) \/ ReadHead \/ TrackDies
              \/ Backfill
              \/ \E t \in Tables : Untrack(t)
  BY <1>2, <1>11 DEF LiveSteps, Tracks, Untracks, Bypasses, SetWriteMode, AppWrite
<1>12. QED
  <2>1. CASE \E r \in workload.requests : StoreStep(r) \/ StoreLand(r) \/ StoreRefuse(r) \/ LostFails(r)
    BY <1>1, <1>3, <1>4, <2>1 DEF Rest
  <2>2. CASE \E r \in workload.requests : Runs("crash") /\ StoreCrash(r)
    BY <1>1, <1>3, <2>2 DEF Rest
  <2>3. CASE \E r \in workload.requests : (Submits(r) \/ Chunks(r)) /\ OthersUnchanged
    BY <1>1, <1>5, <2>3 DEF Rest
  <2>4. QED
    BY <1>6, <1>8, <1>9, <1>10, <1>11, <2>1, <2>2, <2>3 DEF LifeNext, Rest
(* A version that a commit closes or leaves (store.go:555-596).            *)
Aged(u, b, keys, seq) ==
  IF u.branch = b /\ u.pk \in keys /\ u.session = NoSession /\ u.to = MaxSeq
  THEN [u EXCEPT !.to = seq] ELSE u

(* A commit above the head of b closes the open versions of its keys, and  *)
(* makes at most one of each.                                              *)
Opening(b, seq, keys, new) ==
  /\ seq = refs[b].headSeq + 1 /\ seq < MaxSeq
  /\ \A w \in new : w.branch = b /\ w.from = seq /\ w.to = MaxSeq /\ w.pk \in keys
  /\ \A w, x \in new : w.pk = x.pk => w = x
  /\ \A v \in Published' : v \in new \/ \E u \in Published : v = Aged(u, b, keys, seq)
  /\ DOMAIN refs' = DOMAIN refs /\ refs'[b].headSeq = seq /\ deleted' = deleted
  /\ \A a \in DOMAIN refs \ {b} : refs'[a] = refs[a]

(* A commit keeps versions in place and apart.                             *)
LEMMA CommitSpans ==
  ASSUME Ledger, Versions, PublishedPlaced, PublishedApart, disturbed \subseteq disturbed',
         NEW b \in DOMAIN refs, NEW seq, NEW keys, NEW new, Opening(b, seq, keys, new)
  PROVE  PublishedPlaced' /\ PublishedApart'
<1>1. /\ seq \in Nat /\ MaxSeq \in Nat /\ \A a \in DOMAIN refs : refs[a].headSeq \in Nat
      /\ seq = refs[b].headSeq + 1 /\ seq < MaxSeq
  BY StoreAssumption DEF Ledger, RefType, Opening
<1>2. /\ \A w \in new : w.branch = b /\ w.from = seq /\ w.to = MaxSeq /\ w.pk \in keys
      /\ \A w, x \in new : w.pk = x.pk => w = x
      /\ \A v \in Published' : v \in new \/ \E u \in Published : v = Aged(u, b, keys, seq)
      /\ DOMAIN refs' = DOMAIN refs /\ refs'[b].headSeq = seq /\ deleted' = deleted
      /\ \A a \in DOMAIN refs \ {b} : refs'[a] = refs[a]
  BY DEF Opening
<1>3. ASSUME NEW u \in Published, NEW v, v = Aged(u, b, keys, seq)
      PROVE  /\ v.branch = u.branch /\ v.pk = u.pk /\ v.from = u.from /\ v.to \in Nat /\ v.from < v.to
             /\ v.to = u.to \/ (v.branch = b /\ v.to = seq)
             /\ v.to <= u.to
             /\ v.branch = b => v.from < seq /\ (v.pk \in keys => v.to <= seq)
  <2>1. u \in VersionType /\ u.session = NoSession /\ u.from < u.to
    BY DEF Versions, Published, PublishedPlaced
  <2>2. u.from \in Nat /\ u.to \in Nat
    BY <2>1 DEF VersionType
  <2>3. u.branch = b => u.from <= refs[b].headSeq /\ (u.to = MaxSeq \/ u.to <= refs[b].headSeq)
    BY DEF PublishedPlaced
  <2>4. CASE u.branch = b /\ u.pk \in keys /\ u.to = MaxSeq
    <3>1. v = [u EXCEPT !.to = seq]
      BY <1>3, <2>1, <2>4 DEF Aged
    <3>2. v.branch = u.branch /\ v.pk = u.pk /\ v.from = u.from /\ v.to = seq
      BY <2>1, <3>1 DEF VersionType
    <3>3. refs[b].headSeq \in Nat
      BY <1>1
    <3>4. QED
      BY <1>1, <2>2, <2>3, <2>4, <3>2, <3>3
  <2>5. CASE ~(u.branch = b /\ u.pk \in keys /\ u.to = MaxSeq)
    <3>1. v = u
      BY <1>3, <2>5 DEF Aged
    <3>2. refs[b].headSeq \in Nat
      BY <1>1
    <3>3. QED
      BY <1>1, <2>1, <2>2, <2>3, <2>5, <3>1, <3>2
  <2>6. QED
    BY <2>4, <2>5
<1>4. \A u \in Published : u.from \in Nat /\ u.to \in Nat
  BY DEF Published, Versions, VersionType
<1>5. PublishedPlaced'
  <2>1. ASSUME NEW v \in Published'
        PROVE  /\ v.branch \in DOMAIN refs \cup deleted /\ v.from < v.to
               /\ v.branch \in DOMAIN refs => /\ v.from <= refs'[v.branch].headSeq
                                              /\ v.to = MaxSeq \/ v.to <= refs'[v.branch].headSeq
    <3>1. CASE v \in new
      BY <1>1, <1>2, <3>1
    <3>2. ASSUME NEW u \in Published, v = Aged(u, b, keys, seq)
          PROVE  /\ v.branch \in DOMAIN refs \cup deleted /\ v.from < v.to
                 /\ v.branch \in DOMAIN refs => /\ v.from <= refs'[v.branch].headSeq
                                                /\ v.to = MaxSeq \/ v.to <= refs'[v.branch].headSeq
      <4>1. /\ u.branch \in DOMAIN refs \cup deleted
            /\ u.branch \in DOMAIN refs => /\ u.from <= refs[u.branch].headSeq
                                           /\ u.to = MaxSeq \/ u.to <= refs[u.branch].headSeq
        BY DEF PublishedPlaced
      <4>2. /\ v.branch = u.branch /\ v.from = u.from /\ v.from < v.to
            /\ v.to = u.to \/ (v.branch = b /\ v.to = seq)
        BY <1>3, <3>2
      <4>3. u.from \in Nat /\ u.to \in Nat
        BY <1>4
      <4>4. CASE u.branch = b
        BY <1>1, <1>2, <4>1, <4>2, <4>3, <4>4
      <4>5. CASE u.branch # b
        BY <1>1, <1>2, <4>1, <4>2, <4>3, <4>5
      <4>6. QED
        BY <4>4, <4>5
    <3>3. QED
      BY <1>2, <3>1, <3>2
  <2>2. QED
    BY <1>2, <2>1 DEF PublishedPlaced
<1>6. PublishedApart'
  <2>1. ASSUME NEW v \in Published', NEW w \in Published', v.branch = w.branch, v.pk = w.pk, v # w,
               Calm(v.pk)'
        PROVE  v.to <= w.from \/ w.to <= v.from
    <3>1. Calm(v.pk)
      BY <2>1 DEF Calm
    <3>2. ASSUME NEW x \in new, NEW u \in Published, NEW y, y = Aged(u, b, keys, seq),
                 y.branch = x.branch, y.pk = x.pk
          PROVE  y.to <= x.from
      BY <1>2, <1>3, <3>2
    <3>3. CASE v \in new /\ w \in new
      BY <1>2, <2>1, <3>3
    <3>4. CASE v \in new /\ w \notin new
      BY <1>2, <2>1, <3>2, <3>4
    <3>5. CASE v \notin new /\ w \in new
      BY <1>2, <2>1, <3>2, <3>5
    <3>6. CASE v \notin new /\ w \notin new
      <4>1. PICK u \in Published, x \in Published : v = Aged(u, b, keys, seq) /\ w = Aged(x, b, keys, seq)
        BY <1>2, <3>6
      <4>2. u # x
        BY <2>1, <4>1
      <4>3. /\ v.branch = u.branch /\ v.pk = u.pk /\ v.from = u.from /\ v.to \in Nat /\ v.to <= u.to
            /\ w.branch = x.branch /\ w.pk = x.pk /\ w.from = x.from /\ w.to \in Nat /\ w.to <= x.to
        BY <1>3, <4>1
      <4>4. u.to <= x.from \/ x.to <= u.from
        BY <2>1, <3>1, <4>2, <4>3 DEF PublishedApart
      <4>5. u.from \in Nat /\ u.to \in Nat /\ x.from \in Nat /\ x.to \in Nat
        BY <1>4
      <4>6. QED
        BY <4>3, <4>4, <4>5
    <3>7. QED
      BY <3>3, <3>4, <3>5, <3>6
  <2>2. QED
    BY <2>1 DEF PublishedApart
<1>7. QED
  BY <1>5, <1>6

(* A version that stays is in place still.                                 *)
LEMMA PlaceKept ==
  ASSUME Ledger, Ledger', Versions, HeadsAdvance, PublishedPlaced, NEW v \in Published
  PROVE  /\ v.branch \in DOMAIN refs' \cup deleted' /\ v.from < v.to
         /\ v.branch \in DOMAIN refs' => /\ v.from <= refs'[v.branch].headSeq
                                         /\ v.to = MaxSeq \/ v.to <= refs'[v.branch].headSeq
<1>1. /\ v.branch \in DOMAIN refs \cup deleted /\ v.from < v.to
      /\ v.branch \in DOMAIN refs => /\ v.from <= refs[v.branch].headSeq
                                     /\ v.to = MaxSeq \/ v.to <= refs[v.branch].headSeq
  BY DEF PublishedPlaced
<1>2. v.from \in Nat /\ v.to \in Nat
  BY DEF Published, Versions, VersionType
<1>3. /\ \A b \in DOMAIN refs : refs[b].headSeq \in Nat
      /\ \A b \in DOMAIN refs' : refs'[b].headSeq \in Nat
  BY DEF Ledger, RefType
<1>4. ASSUME v.branch \in DOMAIN refs'
      PROVE  v.branch \in DOMAIN refs /\ refs[v.branch].headSeq <= refs'[v.branch].headSeq
  BY <1>1, <1>4 DEF HeadsAdvance
<1>5. QED
  BY <1>1, <1>2, <1>3, <1>4 DEF HeadsAdvance

(* The importer, while the table it works on is not active.                *)
LEMMA ImportWaits ==
  ASSUME Ledger, Ledger', HeadsAdvance, Importing, Imports, importer' = importer,
         importer.pc # "idle" => tracking'[importer.table] # "active"
  PROVE  Importing'
<1>1. /\ Main \in DOMAIN refs /\ Main \in DOMAIN refs' /\ Main \notin DOMAIN refs \cap deleted
      /\ refs[Main].headSeq \in Nat /\ refs'[Main].headSeq \in Nat
  BY DEF Ledger, RefType
<1>2. refs[Main].headSeq <= refs'[Main].headSeq
  BY <1>1 DEF HeadsAdvance
<1>3. importer.pc = "read" => importer.seq \in Nat
  BY DEF Imports
<1>4. QED
  BY <1>1, <1>2, <1>3 DEF Importing

(* What a commit of the process that read x writes on b is above its head. *)
LEMMA CommitAbove ==
  ASSUME Ledger, LinearInv, NEW b, NEW x, CommitOn(b, x), ReadAt(x, b)
  PROVE  /\ b \in DOMAIN refs /\ x.headSeq + 1 = refs[b].headSeq + 1 /\ x.headSeq + 1 < MaxSeq
         /\ DOMAIN refs' = DOMAIN refs /\ refs'[b].headSeq = x.headSeq + 1 /\ deleted' = deleted
         /\ \A a \in DOMAIN refs \ {b} : refs'[a] = refs[a]
<1>1. x.headSeq = refs[b].headSeq /\ b \in DOMAIN refs
  BY CommitAtHead DEF CommitOn
<1>2. refs[b].headSeq \in Nat /\ Len(commits) \in Nat /\ MaxCommits \in Nat /\ MaxSeq \in Nat
  BY <1>1, StoreAssumption DEF Ledger, RefType
<1>3. refs[b].headSeq < Len(commits) /\ Len(commits) <= MaxCommits /\ MaxCommits < MaxSeq
  BY <1>1, StoreAssumption DEF LinearInv, HeadsBounded
<1>4. QED
  BY <1>1, <1>2, <1>3 DEF CommitOn

(* The published ones of what a commit closes or leaves.                   *)
LEMMA ClosedAged ==
  ASSUME Versions, NEW b, NEW keys, NEW seq, NEW v \in CloseOpen(b, keys, seq), v.session = NoSession
  PROVE  \E u \in Published : v = Aged(u, b, keys, seq)
<1>1. PICK u \in rows : v = Aged(u, b, keys, seq)
  BY DEF CloseOpen, Aged
<1>2. u.session = NoSession
  BY <1>1 DEF Aged, Versions, VersionType
<1>3. QED
  BY <1>1, <1>2 DEF Published

(* A request lands (store.go:428-485).                                     *)
LEMMA LandSpans ==
  ASSUME Typed, Typed', LinearInv, SpanInv, HeadsAdvance, NEW r \in Requests, Land(r), ~Lost(r),
         Disturb(r), UNCHANGED <<tracking, importer, deleted>>
  PROVE  SpanInv'
<1> DEFINE b == req[r].branch
           seq == NextSeq(r)
           keys == Effective(r)
           changes == [pk \in keys |-> req[r].changes[pk]]
           made(pk) == Version(b, pk, seq, MaskOf(CurrentRow(req[r].ref.chain, pk), changes[pk]),
                               changes[pk])
           new == {made(pk) : pk \in keys}
<1>1. rows' = CloseOpen(b, keys, seq) \cup new
  BY DEF Land
<1>2. \A pk : /\ made(pk).branch = b /\ made(pk).from = seq /\ made(pk).to = MaxSeq
              /\ made(pk).pk = pk
  BY DEF Version
<1>3. keys \subseteq req[r].table /\ req[r].table \in Tables \cup {{}}
  BY DEF LinearInv, InTable, Effective
<1>4. seq = req[r].ref.headSeq + 1
  BY DEF NextSeq
<1>5. CommitOn(req[r].branch, req[r].ref)
  BY LandCommits
<1>6. ReadAt(req[r].ref, req[r].branch)
  BY <1>5 DEF Land, LinearInv, Reads, CommitOn
<1>7. /\ b \in DOMAIN refs /\ seq = refs[b].headSeq + 1 /\ seq < MaxSeq
      /\ DOMAIN refs' = DOMAIN refs /\ refs'[b].headSeq = seq /\ deleted' = deleted
      /\ \A a \in DOMAIN refs \ {b} : refs'[a] = refs[a]
  <2>1. PICK x : x = req[r].ref
    OBVIOUS
  <2>2. PICK a : a = req[r].branch
    OBVIOUS
  <2>3. /\ a \in DOMAIN refs /\ x.headSeq + 1 = refs[a].headSeq + 1 /\ x.headSeq + 1 < MaxSeq
        /\ DOMAIN refs' = DOMAIN refs /\ refs'[a].headSeq = x.headSeq + 1 /\ deleted' = deleted
        /\ \A y \in DOMAIN refs \ {a} : refs'[y] = refs[y]
    BY <1>5, <1>6, <2>1, <2>2, CommitAbove DEF Typed
  <2>4. QED
    BY <1>4, <2>1, <2>2, <2>3
<1>8. disturbed' = disturbed \cup {t \in {req[r].table} : tracking[t] = "backfilling"}
  BY DEF Disturb
<1>9. req[r].table # {} => tracking[req[r].table] # "untracked"
  BY DEF Lost
<1> HIDE DEF made, changes, keys, seq, b
<1>10. \A v \in Published' : v \in new \/ \E u \in Published : v = Aged(u, b, keys, seq)
  BY <1>1, ClosedAged DEF Published, Typed
<1>11. Opening(b, seq, keys, new)
  BY <1>2, <1>7, <1>10 DEF Opening
<1>12. PublishedPlaced' /\ PublishedApart'
  BY <1>7, <1>8, <1>11, CommitSpans DEF SpanInv, Typed
<1>13. Blank'
  <2>1. ASSUME NEW t \in Tables \ disturbed', tracking[t] # "active", NEW v \in Published',
               v.branch = Main, v.pk \in t
        PROVE  FALSE
    <3>1. CASE v \in new
      <4>1. v.pk \in req[r].table
        BY <1>2, <1>3, <3>1
      <4>2. req[r].table = t
        BY <1>3, <2>1, <4>1, StoreAssumption
      <4>3. tracking[t] \in {"untracked", "backfilling", "active"}
        BY DEF Typed, Imports
      <4>4. QED
        BY <1>8, <1>9, <2>1, <4>1, <4>2, <4>3
    <3>2. ASSUME NEW u \in Published, v = Aged(u, b, keys, seq)  PROVE FALSE
      <4>1. v.branch = u.branch /\ v.pk = u.pk
        BY <3>2 DEF Aged, Published, Typed, Versions, VersionType
      <4>2. QED
        BY <1>8, <2>1, <4>1 DEF SpanInv, Blank
    <3>3. QED
      BY <1>10, <3>1, <3>2
  <2>2. QED
    BY <2>1 DEF Blank
<1>14. Importing'
  BY ImportWaits DEF SpanInv, Typed, Importing
<1>15. disturbed' \subseteq Tables \cup {{}}
  BY <1>3, <1>8 DEF SpanInv
<1>16. QED
  BY <1>12, <1>13, <1>14, <1>15 DEF SpanInv

(* A session is published (branch.go:427-530).                             *)
LEMMA PublishSpans ==
  ASSUME Typed, Typed', LinearInv, StageInv, SpanInv, HeadsAdvance, NEW k \in Callers,
         PublishStamp(k), UNCHANGED <<tracking, importer, disturbed, deleted>>
  PROVE  SpanInv'
<1>1. /\ calls[k].pc = "stamp" /\ calls[k] # NoCall
      /\ calls[k].session \in DOMAIN sessions
  <2>1. calls[k].pc = "stamp"
    BY DEF PublishStamp
  <2>2. calls[k] # NoCall
    BY <2>1 DEF NoCall
  <2>3. QED
    BY <2>1, <2>2 DEF Typed, Called
<1> DEFINE s == calls[k].session
           b == sessions[s].branch
           seq == calls[k].ref.headSeq + 1
           keys == calls[k].keys
           mine == {v \in Staged(s) : v.pk \in calls[k].table}
           stamped(v) == [v EXCEPT !.session = NoSession, !.from = seq]
           new == {stamped(v) : v \in mine}
<1>2. rows' = (CloseOpen(b, keys, seq) \ mine) \cup new
  BY DEF PublishStamp
<1>3. s # NoSession /\ b # Main
  BY <1>1, StoreAssumption DEF Typed, Opened
<1>4. \A v \in mine : /\ v \in VersionType /\ v \in rows /\ v.session = s
                      /\ v.branch = b /\ v.to = MaxSeq /\ v.pk \in keys
  BY <1>1, <1>3 DEF Staged, Typed, Versions, StageInv, StagedOpen, StampsCovered
<1>5. \A v, w \in mine : v.pk = w.pk => v = w
  BY <1>3, <1>4 DEF StageInv, StagedOnce
<1>6. CommitOn(b, calls[k].ref)
  BY PublishCommits
<1>7. ReadAt(calls[k].ref, b)
  BY <1>1 DEF LinearInv, Reads
<1>8. /\ b \in DOMAIN refs /\ seq = refs[b].headSeq + 1 /\ seq < MaxSeq
      /\ DOMAIN refs' = DOMAIN refs /\ refs'[b].headSeq = seq /\ deleted' = deleted
      /\ \A a \in DOMAIN refs \ {b} : refs'[a] = refs[a]
  <2>1. PICK x : x = calls[k].ref
    OBVIOUS
  <2>2. PICK a : a = b
    OBVIOUS
  <2>3. /\ a \in DOMAIN refs /\ x.headSeq + 1 = refs[a].headSeq + 1 /\ x.headSeq + 1 < MaxSeq
        /\ DOMAIN refs' = DOMAIN refs /\ refs'[a].headSeq = x.headSeq + 1 /\ deleted' = deleted
        /\ \A y \in DOMAIN refs \ {a} : refs'[y] = refs[y]
    BY <1>6, <1>7, <2>1, <2>2, CommitAbove DEF Typed
  <2>4. QED
    BY <2>1, <2>2, <2>3
<1> HIDE DEF mine, keys, seq, b, s
<1>9. \A v \in mine : /\ stamped(v).branch = b /\ stamped(v).from = seq /\ stamped(v).to = MaxSeq
                      /\ stamped(v).pk = v.pk
  BY <1>4 DEF VersionType
<1> HIDE DEF stamped
<1>10. \A v \in Published' : v \in new \/ \E u \in Published : v = Aged(u, b, keys, seq)
  BY <1>2, ClosedAged DEF Published, Typed
<1>11. Opening(b, seq, keys, new)
  <2>1. \A w \in new : w.branch = b /\ w.from = seq /\ w.to = MaxSeq /\ w.pk \in keys
    BY <1>4, <1>9
  <2>2. \A w, x \in new : w.pk = x.pk => w = x
    BY <1>5, <1>9
  <2> HIDE DEF new
  <2>3. QED
    BY <1>8, <1>10, <2>1, <2>2 DEF Opening
<1>12. PublishedPlaced' /\ PublishedApart'
  BY <1>8, <1>11, CommitSpans DEF SpanInv, Typed
<1>13. Blank'
  <2>1. ASSUME NEW v \in Published', v.branch = Main
        PROVE  \E u \in Published : v.branch = u.branch /\ v.pk = u.pk
    <3>1. v \notin new
      BY <1>3, <1>9, <2>1
    <3>2. PICK u \in Published : v = Aged(u, b, keys, seq)
      BY <1>10, <3>1
    <3>3. v.branch = u.branch /\ v.pk = u.pk
      BY <3>2 DEF Aged, Published, Typed, Versions, VersionType
    <3>4. QED
      BY <3>3
  <2>2. QED
    BY <2>1 DEF SpanInv, Blank
<1>14. Importing'
  BY ImportWaits DEF SpanInv, Typed, Importing
<1>15. QED
  BY <1>12, <1>13, <1>14 DEF SpanInv
(* A version after a prune of pk's table, if it is one of pk: it is not    *)
(* among the closed ones, or it is what they were thinned to.              *)
LEMMA PrunedKey ==
  ASSUME Versions, NEW t \in Tables, NEW cutoff \in Nat, Prune(t, cutoff), NEW pk \in t,
         NEW v \in rows', v.pk = pk
  PROVE  v \in rows \ ClosedBy(pk, cutoff) \/ v \in Thin(pk, cutoff)
<1>1. ASSUME NEW p, NEW x \in Thin(p, cutoff)  PROVE x.pk = p
  <2>1. PICK closed : closed = ClosedBy(p, cutoff)
    OBVIOUS
  <2>2. \A w \in closed : w.pk = p /\ w \in VersionType
    BY <2>1 DEF ClosedBy, Versions
  <2>3. \A w \in closed : \A n : [w EXCEPT !.to = n].pk = p
    BY <2>2 DEF VersionType
  <2>4. CASE Thin(p, cutoff) = closed
    BY <2>2, <2>4
  <2>5. ASSUME NEW first \in closed, NEW last \in closed,
               Thin(p, cutoff) = {[first EXCEPT !.to = last.to]}
        PROVE  x.pk = p
    BY <2>3, <2>5
  <2>6. \/ Thin(p, cutoff) = closed
        \/ \E first, last \in closed : Thin(p, cutoff) = {[first EXCEPT !.to = last.to]}
    BY <2>1, Thinned
  <2>7. QED
    BY <2>4, <2>5, <2>6
<1>2. CASE v \in rows \ UNION {ClosedBy(p, cutoff) : p \in t}
  BY <1>2
<1>3. CASE v \in UNION {Thin(p, cutoff) : p \in t}
  BY <1>1, <1>3
<1>4. QED
  BY <1>2, <1>3 DEF Prune

(* A prune keeps versions apart: whatever lay between the oldest closed    *)
(* version of a key and the last was closed too (retention.go:94-163).     *)
LEMMA PruneApart ==
  ASSUME Ledger, Versions, LinearInv, PublishedPlaced, NEW t \in Tables, NEW cutoff \in Nat,
         Prune(t, cutoff), NEW pk \in t,
         \A v, w \in Published : v.branch = w.branch /\ v.pk = w.pk /\ v.pk = pk /\ v # w
                                   => v.to <= w.from \/ w.to <= v.from,
         NEW v \in Published', NEW w \in Published', v.branch = w.branch, v.pk = w.pk, v.pk = pk, v # w
  PROVE  v.to <= w.from \/ w.to <= v.from
<1>1. PICK closed : closed = ClosedBy(pk, cutoff)
  OBVIOUS
<1>2. \A x \in closed : /\ x \in Published /\ x \in VersionType /\ x.branch = Main /\ x.pk = pk
                        /\ x.to # MaxSeq /\ x.to <= cutoff /\ x.from < x.to
                        /\ x.from \in Nat /\ x.to \in Nat
  BY <1>1 DEF ClosedBy, Published, Versions, PublishedPlaced, VersionType
<1>3. \A x \in Published : x.from \in Nat /\ x.to \in Nat /\ x.from < x.to
  BY DEF Published, Versions, PublishedPlaced, VersionType
<1>4. cutoff < MaxSeq /\ MaxSeq \in Nat
  <2>1. cutoff <= refs[Main].headSeq /\ refs[Main].headSeq \in Nat
    BY DEF Prune, Ledger, RefType
  <2>2. /\ refs[Main].headSeq < Len(commits) /\ Len(commits) <= MaxCommits /\ Len(commits) \in Nat
        /\ MaxCommits \in Nat /\ MaxCommits < MaxSeq /\ MaxSeq \in Nat
    BY StoreAssumption DEF LinearInv, HeadsBounded, Ledger
  <2>3. QED
    BY <2>1, <2>2
<1>5. ASSUME NEW x \in {v, w}
      PROVE  (x \in Published /\ x \notin closed) \/ x \in Thin(pk, cutoff)
  BY <1>1, <1>5, PrunedKey DEF Published
<1>6. CASE Thin(pk, cutoff) = closed
  <2>1. v \in Published /\ w \in Published
    BY <1>2, <1>5, <1>6
  <2>2. QED
    BY <2>1
<1>7. ASSUME NEW first \in closed, NEW last \in closed,
             Thin(pk, cutoff) = {[first EXCEPT !.to = last.to]}
      PROVE  v.to <= w.from \/ w.to <= v.from
  <2> DEFINE long == [first EXCEPT !.to = last.to]
  <2>1. long.branch = Main /\ long.pk = pk /\ long.from = first.from /\ long.to = last.to
    BY <1>2 DEF VersionType
  <2>2. Thin(pk, cutoff) = {long}
    BY <1>7
  <2> HIDE DEF long
  <2>3. ASSUME NEW x \in Published, x \notin closed, x.branch = Main, x.pk = pk
        PROVE  x.to <= long.from \/ long.to <= x.from
    <3>1. x # first /\ x # last
      BY <1>7, <2>3
    <3>2. x.to <= first.from \/ first.to <= x.from
      BY <1>2, <1>7, <2>3, <3>1
    <3>3. x.to <= last.from \/ last.to <= x.from
      BY <1>2, <1>7, <2>3, <3>1
    <3>4. x.to > cutoff \/ x.to = MaxSeq
      BY <1>1, <1>3, <2>3 DEF ClosedBy, Published
    <3>5. /\ first.from \in Nat /\ first.to \in Nat /\ last.from \in Nat /\ last.to \in Nat
          /\ last.from < last.to /\ last.to <= cutoff
      BY <1>2, <1>7
    <3>6. x.from \in Nat /\ x.to \in Nat
      BY <1>3
    <3>7. QED
      BY <1>4, <2>1, <3>2, <3>3, <3>4, <3>5, <3>6
  <2>4. CASE v = long
    <3>1. w \in Published /\ w \notin closed /\ w.branch = Main /\ w.pk = pk
      BY <1>5, <2>1, <2>2, <2>4
    <3>2. QED
      BY <2>3, <2>4, <3>1
  <2>5. CASE w = long
    <3>1. v \in Published /\ v \notin closed /\ v.branch = Main /\ v.pk = pk
      BY <1>5, <2>1, <2>2, <2>5
    <3>2. QED
      BY <2>3, <2>5, <3>1
  <2>6. CASE v # long /\ w # long
    <3>1. v \in Published /\ w \in Published
      BY <1>5, <2>2, <2>6
    <3>2. QED
      BY <3>1
  <2>7. QED
    BY <2>4, <2>5, <2>6
<1>8. QED
  BY <1>1, <1>6, <1>7, Thinned

(* A prune (retention.go:40-178).                                          *)
LEMMA PruneSpans ==
  ASSUME Typed, Typed', LinearInv, SpanInv, HeadsAdvance, NEW t \in Tables, NEW cutoff \in Nat,
         Prune(t, cutoff)
  PROVE  SpanInv'
<1>1. UNCHANGED <<refs, deleted, tracking, importer, disturbed>>
  BY DEF Prune, liveVars, retentionVars
<1>2. ASSUME NEW v \in Published', v \notin Published
      PROVE  \E pk \in t : \E first, last \in ClosedBy(pk, cutoff) :
               /\ \A w \in ClosedBy(pk, cutoff) : first.from <= w.from /\ w.to <= last.to
               /\ v = [first EXCEPT !.to = last.to]
  BY <1>2, Pruned DEF Published, Typed
<1>3. ASSUME NEW v \in Published', v \notin Published
      PROVE  \E u \in Published :
               /\ v.branch = u.branch /\ v.pk = u.pk /\ v.pk \in t /\ v.branch = Main
               /\ v.from < v.to
               /\ v.from <= refs[Main].headSeq /\ v.to <= refs[Main].headSeq
  <2>1. PICK pk \in t : \E first, last \in ClosedBy(pk, cutoff) :
               /\ \A w \in ClosedBy(pk, cutoff) : first.from <= w.from /\ w.to <= last.to
               /\ v = [first EXCEPT !.to = last.to]
    BY <1>2, <1>3
  <2>2. PICK first, last \in ClosedBy(pk, cutoff) :
               /\ \A w \in ClosedBy(pk, cutoff) : first.from <= w.from /\ w.to <= last.to
               /\ v = [first EXCEPT !.to = last.to]
    BY <2>1
  <2>3. \A x \in ClosedBy(pk, cutoff) : /\ x \in Published /\ x \in VersionType /\ x.branch = Main
                                        /\ x.pk = pk /\ x.to # MaxSeq
    BY DEF ClosedBy, Published, Typed, Versions
  <2>4. \A x \in ClosedBy(pk, cutoff) :
          /\ x.from \in Nat /\ x.to \in Nat /\ x.from < x.to
          /\ x.from <= refs[Main].headSeq /\ x.to <= refs[Main].headSeq
    BY <2>3 DEF SpanInv, PublishedPlaced, VersionType, Typed, Ledger
  <2>5. /\ v.branch = first.branch /\ v.pk = first.pk /\ v.from = first.from /\ v.to = last.to
        /\ first.to <= last.to
    BY <2>2, <2>3 DEF VersionType
  <2>6. QED
    BY <2>3, <2>4, <2>5
<1>4. PublishedPlaced'
  <2>1. ASSUME NEW v \in Published'
        PROVE  /\ v.branch \in DOMAIN refs \cup deleted /\ v.from < v.to
               /\ v.branch \in DOMAIN refs => /\ v.from <= refs[v.branch].headSeq
                                              /\ v.to = MaxSeq \/ v.to <= refs[v.branch].headSeq
    BY <1>3 DEF SpanInv, PublishedPlaced, Typed, Ledger
  <2>2. QED
    BY <1>1, <2>1 DEF PublishedPlaced
<1>5. PublishedApart'
  <2>1. ASSUME NEW v \in Published', NEW w \in Published', v.branch = w.branch, v.pk = w.pk, v # w,
               Calm(v.pk)
        PROVE  v.to <= w.from \/ w.to <= v.from
    <3>1. CASE v.pk \in t
      BY <2>1, <3>1, PruneApart DEF SpanInv, PublishedApart, Typed
    <3>2. CASE v.pk \notin t
      <4>1. v \in Published /\ w \in Published
        BY <1>3, <2>1, <3>2
      <4>2. QED
        BY <2>1, <4>1 DEF SpanInv, PublishedApart
    <3>3. QED
      BY <3>1, <3>2
  <2>2. QED
    BY <1>1, <2>1 DEF PublishedApart, Calm
<1>6. Blank'
  <2>1. ASSUME NEW v \in Published'
        PROVE  \E u \in Published : v.branch = u.branch /\ v.pk = u.pk
    BY <1>3
  <2>2. QED
    BY <1>1, <2>1 DEF SpanInv, Blank
<1>7. Importing'
  BY <1>1 DEF SpanInv, Importing
<1>8. QED
  BY <1>1, <1>4, <1>5, <1>6, <1>7 DEF SpanInv

(* An import is done: its table had no version on the default branch       *)
(* (store.go:264-300).                                                     *)
LEMMA BackfillSpans ==
  ASSUME Typed, Typed', LinearInv, SpanInv, HeadsAdvance, Backfill
  PROVE  SpanInv'
<1> DEFINE t == importer.table
           seq == importer.seq
           made(pk) == Version(Main, pk, seq, {}, live[pk])
           new == {made(pk) : pk \in Importable}
<1>1. /\ importer.pc = "read" /\ t \in Tables /\ seq \in Nat /\ tracking[t] # "active"
      /\ seq <= refs[Main].headSeq /\ refs[Main].headSeq \in Nat /\ Main \in DOMAIN refs
  BY DEF Backfill, Typed, Imports, SpanInv, Importing, Ledger, RefType
<1>2. /\ rows' = rows \cup new
      /\ tracking' = [tracking EXCEPT ![t] = "active"] /\ importer' = [pc |-> "idle"]
      /\ UNCHANGED <<refs, disturbed>>
  BY DEF Backfill
<1>3. \A pk : /\ made(pk).branch = Main /\ made(pk).from = seq /\ made(pk).to = MaxSeq
              /\ made(pk).pk = pk
  BY DEF Version
<1>4. Importable \subseteq t
  BY DEF Importable
<1>5. seq < MaxSeq
  <2>1. /\ refs[Main].headSeq < Len(commits) /\ Len(commits) <= MaxCommits /\ Len(commits) \in Nat
        /\ MaxCommits \in Nat /\ MaxCommits < MaxSeq /\ MaxSeq \in Nat
    BY <1>1, StoreAssumption DEF LinearInv, HeadsBounded, Typed, Ledger
  <2>2. QED
    BY <1>1, <2>1
<1> HIDE DEF made, seq, t
<1>6. \A v \in new : v.branch = Main /\ v.from = seq /\ v.to = MaxSeq /\ v.pk \in t
  BY <1>3, <1>4
<1>7. \A v, w \in new : v.pk = w.pk => v = w
  BY <1>3
<1> HIDE DEF new
<1>8. \A v \in Published' : v \in new \/ v \in Published
  BY <1>2 DEF Published
<1>9. PublishedPlaced'
  <2>1. ASSUME NEW v \in Published'
        PROVE  /\ v.branch \in DOMAIN refs' \cup deleted' /\ v.from < v.to
               /\ v.branch \in DOMAIN refs' => /\ v.from <= refs'[v.branch].headSeq
                                               /\ v.to = MaxSeq \/ v.to <= refs'[v.branch].headSeq
    <3>1. CASE v \in new
      BY <1>1, <1>2, <1>5, <1>6, <3>1
    <3>2. CASE v \in Published
      BY <3>2, PlaceKept DEF SpanInv, Typed
    <3>3. QED
      BY <1>8, <3>1, <3>2
  <2>2. QED
    BY <2>1 DEF PublishedPlaced
<1>10. PublishedApart'
  <2>1. ASSUME NEW v \in Published', NEW w \in Published', v.branch = w.branch, v.pk = w.pk, v # w,
               Calm(v.pk)
        PROVE  v.to <= w.from \/ w.to <= v.from
    <3>1. ASSUME NEW x \in new, NEW y \in Published, y.branch = x.branch, y.pk = x.pk, Calm(x.pk)
          PROVE  FALSE
      <4>1. t \in Tables \ disturbed
        BY <1>1, <1>6, <3>1 DEF Calm
      <4>2. QED
        BY <1>1, <1>6, <3>1, <4>1 DEF SpanInv, Blank
    <3>2. CASE v \in new /\ w \in new
      BY <1>7, <2>1, <3>2
    <3>3. CASE v \in Published /\ w \in Published
      BY <2>1, <3>3 DEF SpanInv, PublishedApart
    <3>4. QED
      BY <1>8, <2>1, <3>1, <3>2, <3>3
  <2>2. QED
    BY <1>2, <2>1 DEF PublishedApart, Calm
<1>11. Blank'
  <2>1. ASSUME NEW u \in Tables \ disturbed, tracking'[u] # "active", NEW v \in Published',
               v.branch = Main, v.pk \in u
        PROVE  FALSE
    <3>1. tracking \in [Tables -> {"untracked", "backfilling", "active"}]
      BY DEF Typed, Imports
    <3>2. u # t /\ tracking'[u] = tracking[u]
      BY <1>1, <1>2, <2>1, <3>1
    <3>3. v \notin new
      BY <1>1, <1>6, <2>1, <3>2, StoreAssumption
    <3>4. QED
      BY <1>8, <2>1, <3>2, <3>3 DEF SpanInv, Blank
  <2>2. QED
    BY <1>2, <2>1 DEF Blank
<1>12. Importing'
  BY <1>2 DEF Importing
<1>13. QED
  BY <1>2, <1>9, <1>10, <1>11, <1>12 DEF SpanInv

(* Tracking ends (store.go:310-345).                                       *)
LEMMA UntrackSpans ==
  ASSUME Typed, Typed', SpanInv, HeadsAdvance, NEW t \in Tables, Untrack(t)
  PROVE  SpanInv'
<1>1. /\ rows' = {v \in rows : v.pk \notin t} /\ disturbed' = disturbed \ {t}
      /\ tracking' = [tracking EXCEPT ![t] = "untracked"] /\ importer' = importer
  BY DEF Untrack
<1>2. \A v \in Published' : v \in Published /\ v.pk \notin t
  BY <1>1 DEF Published
<1>3. PublishedPlaced'
  BY <1>2, PlaceKept DEF SpanInv, Typed, PublishedPlaced
<1>4. PublishedApart'
  <2>1. \A pk : pk \notin t /\ Calm(pk)' => Calm(pk)
    BY <1>1 DEF Calm
  <2>2. QED
    BY <1>2, <2>1 DEF SpanInv, PublishedApart
<1>5. Blank'
  <2>1. ASSUME NEW u \in Tables \ disturbed', tracking'[u] # "active", NEW v \in Published',
               v.branch = Main, v.pk \in u
        PROVE  FALSE
    <3>1. u # t /\ v \in Published
      BY <1>2, <2>1
    <3>2. tracking'[u] = tracking[u] /\ u \notin disturbed
      BY <1>1, <2>1, <3>1 DEF Typed, Imports
    <3>3. QED
      BY <2>1, <3>1, <3>2 DEF SpanInv, Blank
  <2>2. QED
    BY <2>1 DEF Blank
<1>6. Importing'
  <2>1. importer.pc # "idle" => tracking'[importer.table] # "active"
    <3>1. importer.pc # "idle" => importer.table \in Tables
      BY DEF SpanInv, Importing, Typed, Imports
    <3>2. QED
      BY <1>1, <3>1 DEF SpanInv, Importing, Typed, Imports
  <2>2. QED
    BY <1>1, <2>1, ImportWaits DEF SpanInv, Typed
<1>7. QED
  BY <1>1, <1>3, <1>4, <1>5, <1>6 DEF SpanInv

(* An import begins, reads the head, or is given up (store.go:225-263).    *)
LEMMA TrackSpans ==
  ASSUME Typed, Typed', SpanInv, HeadsAdvance, (\E t \in Tables : Track(t)) \/ ReadHead \/ TrackDies
  PROVE  SpanInv'
<1>1. UNCHANGED <<rows, refs, disturbed>>
  BY DEF Track, ReadHead, TrackDies
<1>2. Published' = Published
  BY <1>1 DEF Published
<1>3. PublishedPlaced' /\ PublishedApart'
  <2>1. PublishedApart'
    BY <1>1, <1>2 DEF SpanInv, PublishedApart, Calm
  <2>2. PublishedPlaced'
    BY <1>2, PlaceKept DEF SpanInv, Typed, PublishedPlaced
  <2>3. QED
    BY <2>1, <2>2
<1>4. ASSUME ReadHead \/ TrackDies
      PROVE  Blank' /\ Importing'
  <2>1. tracking' = tracking
    BY <1>4 DEF ReadHead, TrackDies
  <2>2. Importing'
    <3>1. refs[Main].headSeq \in Nat
      BY DEF Typed, Ledger, RefType
    <3>2. CASE ReadHead
      <4>1. /\ importer.pc = "registered" /\ tracking[importer.table] # "active"
            /\ importer' = [pc |-> "read", table |-> importer.table, seq |-> refs[Main].headSeq]
        BY <3>2 DEF ReadHead, SpanInv, Importing
      <4>2. /\ importer'.pc = "read" /\ importer'.table = importer.table
            /\ importer'.seq = refs[Main].headSeq
        BY <4>1
      <4>3. refs'[Main].headSeq = refs[Main].headSeq
        BY <1>1
      <4>4. QED
        BY <2>1, <3>1, <4>1, <4>2, <4>3 DEF Importing
    <3>3. CASE TrackDies
      BY <3>3 DEF TrackDies, Importing
    <3>4. QED
      BY <1>4, <3>2, <3>3
  <2>3. QED
    BY <1>1, <1>2, <2>1, <2>2 DEF Blank, SpanInv
<1>5. ASSUME NEW t \in Tables, Track(t)
      PROVE  Blank' /\ Importing'
  <2>1. /\ tracking' = [tracking EXCEPT ![t] = "backfilling"] /\ tracking[t] = "untracked"
        /\ importer' = [pc |-> "registered", table |-> t]
    BY <1>5 DEF Track
  <2>2. \A u \in Tables : tracking'[u] # "active" => tracking[u] # "active"
    BY <2>1 DEF Typed, Imports
  <2>3. Blank'
    BY <1>1, <1>2, <2>2 DEF Blank, SpanInv
  <2>4. Importing'
    BY <2>1 DEF Importing, Typed, Imports
  <2>5. QED
    BY <2>3, <2>4
<1>6. QED
  BY <1>1, <1>3, <1>4, <1>5 DEF SpanInv
(* Every step.                                                             *)
LEMMA SpanNext ==
  ASSUME ~SharedSessions, Typed, Typed', LinearInv, StageInv, SpanInv, LifeNext
  PROVE  SpanInv'
<1>1. HeadsAdvance
  BY HeadsNext
<1>2. ASSUME Published' \subseteq Published, UNCHANGED <<tracking, importer, disturbed>>
      PROVE  SpanInv'
  <2>1. PublishedPlaced'
    BY <1>1, <1>2, PlaceKept DEF SpanInv, Typed, PublishedPlaced
  <2>2. PublishedApart'
    BY <1>2 DEF SpanInv, PublishedApart, Calm
  <2>3. Blank'
    BY <1>2 DEF SpanInv, Blank
  <2>4. importer.pc # "idle" => tracking'[importer.table] # "active"
    BY <1>2 DEF SpanInv, Importing
  <2>5. Importing'
    BY <1>1, <1>2, <2>4, ImportWaits DEF SpanInv, Typed
  <2>6. QED
    BY <1>2, <2>1, <2>2, <2>3, <2>5 DEF SpanInv
<1>3. ASSUME NEW r \in Requests, Land(r), ~Lost(r), Disturb(r),
             UNCHANGED <<tracking, importer, deleted>>
      PROVE  SpanInv'
  BY <1>1, <1>3, LandSpans
<1>4. ASSUME NEW k \in Callers, PublishStamp(k), UNCHANGED <<tracking, importer, disturbed, deleted>>
      PROVE  SpanInv'
  BY <1>1, <1>4, PublishSpans
<1>5. ASSUME NEW t \in Tables, NEW cutoff \in Nat, Prune(t, cutoff)  PROVE SpanInv'
  BY <1>1, <1>5, PruneSpans
<1>6. ASSUME (\E t \in Tables : Track(t)) \/ ReadHead \/ TrackDies  PROVE SpanInv'
  BY <1>1, <1>6, TrackSpans
<1>7. ASSUME Backfill  PROVE SpanInv'
  BY <1>1, <1>7, BackfillSpans
<1>8. ASSUME NEW t \in Tables, Untrack(t)  PROVE SpanInv'
  BY <1>1, <1>8, UntrackSpans
<1>9. QED
  BY <1>2, <1>3, <1>4, <1>5, <1>6, <1>7, <1>8, SpanMoves DEF Typed

(* Where versions are apart, VerifyIntervals has nothing to report.        *)
LEMMA ApartSane ==
  ASSUME Typed, SpanInv  PROVE IntervalsSane
<1> SUFFICES ASSUME NEW t \in Tables \ disturbed, NEW pk \in t, NEW v \in Published,
                    NEW w \in Published, w # v, v.pk = pk, w.pk = pk, w.branch = v.branch,
                    v.from <= w.from, w.from < v.to
             PROVE  FALSE
  BY DEF IntervalsSane, Overlaps, Published
<1>1. Calm(pk)
  <2>1. ASSUME NEW u \in disturbed, pk \in u  PROVE FALSE
    <3>1. u \in Tables /\ u # t
      BY <2>1 DEF SpanInv
    <3>2. QED
      BY <2>1, <3>1, StoreAssumption
  <2>2. QED
    BY <2>1 DEF Calm
<1>2. v.to <= w.from \/ w.to <= v.from
  BY <1>1 DEF SpanInv, PublishedApart
<1>3. w.from < w.to
  BY DEF SpanInv, PublishedPlaced
<1>4. v.from \in Nat /\ v.to \in Nat /\ w.from \in Nat /\ w.to \in Nat
  BY DEF Published, Typed, Versions, VersionType
<1>5. QED
  BY <1>2, <1>3, <1>4

(* The versions of a key on a branch never overlap and at most one of them *)
(* is open: through commits, merges and reverts of requests, published     *)
(* sessions, imports, prunes, collections, purges and dropped partitions,  *)
(* on branches that come and go, for every table but those written through *)
(* the store while they were imported.  For clients that make one call at  *)
(* a time on a session (retention.go:94-163, 400-460, branch.go:427-530,   *)
(* store.go:264-300).                                                      *)
THEOREM LifeIntervalsAreSane ==
  ASSUME ~SharedSessions
  PROVE  LifeSpec => []IntervalsSane
<1>1. LifeInit => StageInv /\ SpanInv
  <2> SUFFICES ASSUME LifeInit PROVE StageInv /\ SpanInv
    OBVIOUS
  <2>1. rows = {} /\ disturbed = {} /\ importer.pc = "idle" /\ \A k \in Callers : calls[k] = NoCall
    BY DEF LifeInit, Init, LiveInit, SessionsInit
  <2>2. Published = {}
    BY <2>1 DEF Published
  <2>3. StageInv
    BY <2>1 DEF StageInv, Alone, StagedOpen, StagedOnce, StampsCovered, NoCall
  <2>4. SpanInv
    BY <2>1, <2>2 DEF SpanInv, PublishedPlaced, PublishedApart, Blank, Importing
  <2>5. QED
    BY <2>3, <2>4
<1>2. Typed /\ StageInv /\ [LifeNext]_lifeVars => StageInv'
  <2> SUFFICES ASSUME Typed, StageInv, [LifeNext]_lifeVars PROVE StageInv'
    OBVIOUS
  <2>1. CASE UNCHANGED lifeVars
    <3>1. UNCHANGED <<rows, sessions, calls>>
      BY <2>1 DEF lifeVars, storeVars, sessionVars
    <3>2. QED
      BY <3>1 DEF StageInv, Alone, StagedOpen, StagedOnce, StampsCovered, Staged
  <2>2. QED
    BY <2>1, StageNext
<1>3. Typed /\ Typed' /\ LinearInv /\ StageInv /\ SpanInv /\ [LifeNext]_lifeVars => SpanInv'
  <2> SUFFICES ASSUME Typed, Typed', LinearInv, StageInv, SpanInv, [LifeNext]_lifeVars
               PROVE  SpanInv'
    OBVIOUS
  <2>1. CASE UNCHANGED lifeVars
    <3>1. UNCHANGED <<rows, refs, deleted, tracking, importer, disturbed>>
      BY <2>1 DEF lifeVars, storeVars, liveVars, retentionVars
    <3>2. QED
      BY <3>1 DEF SpanInv, PublishedPlaced, PublishedApart, Blank, Importing, Calm, Published
  <2>2. QED
    BY <2>1, SpanNext
<1>4. Typed /\ SpanInv => IntervalsSane
  BY ApartSane
<1>5. QED
  BY <1>1, <1>2, <1>3, <1>4, AlwaysTyped, AlwaysLinear, PTL DEF LifeSpec
=============================================================================
