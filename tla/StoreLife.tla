------------------------------- MODULE StoreLife -------------------------------
(***************************************************************************)
(* The store's components against one database: commits and merges,        *)
(* sessions and their reaper, the live tables, reverts, and what removes   *)
(* history.  A behaviour runs one workload: the operations its clients     *)
(* use, and its size.  Workloads are the mixes to explore.                 *)
(***************************************************************************)
EXTENDS Retention, StoreReads

CONSTANTS Workloads, WriteModes

VARIABLES
  workload,
  reverting   \* auxiliary: the commit that a request reverts, 0 if none

lifeVars == <<storeVars, sessionVars, liveVars, retentionVars, workload, reverting>>

LifeInit ==
  /\ Init /\ SessionsInit /\ LiveInit /\ RetentionInit
  /\ workload \in Workloads
  /\ reverting = [r \in Requests |-> 0]

ASSUME LifeAssumption ==
  /\ \A w \in Workloads : /\ w.requests \subseteq Requests /\ w.callers \subseteq Callers
                           /\ w.sessions \subseteq SessionIds
                           /\ w.commits \in 1 .. MaxCommits
  /\ WriteModes \subseteq {"open", "guarded", "capture"}

Runs(op) == op \in workload.ops

(* Bound: a workload's own number of commits.                              *)
Room == Len(commits) < workload.commits

-----------------------------------------------------------------------------
(* A request loads its table and its branch by name at every step; without *)
(* them it fails.                                                          *)
Lost(r) ==
  \/ req[r].branch \notin DOMAIN refs
  \/ req[r].table # {} /\ tracking[req[r].table] = "untracked"
  \/ chunk[r].pc = "plan" /\ chunk[r].from \notin DOMAIN refs

Settle(r) == reverting' = IF req'[r] = Idle THEN [reverting EXCEPT ![r] = 0] ELSE reverting

Working(r) == ~Lost(r) /\ ~Planned(r) /\ chunk[r].pc # "apply"

(* A step of a commit, a merge or an update.                               *)
StoreStep(r) ==
  /\ Working(r)
  /\ \/ Lock(r) \/ ReadUnlocked(r) \/ ReadParent(r) \/ ReadChild(r) \/ Advance(r)
     \/ PlanMerge(r)
  /\ IF req'[r] = Idle THEN Forget(r) ELSE UNCHANGED chunk
  /\ Settle(r)
  /\ UNCHANGED <<sessionVars, tracking, mode, importer, flagged, touched, debris, disturbed>>
  /\ UNCHANGED <<retentionVars, workload>>

StoreLand(r) ==
  /\ Working(r) /\ Room
  /\ Land(r)
  /\ CommitEnds(r, "landed")
  /\ Disturb(r)
  /\ Settle(r)
  /\ UNCHANGED <<sessionVars, tracking, mode, importer, flagged, touched, debris>>
  /\ UNCHANGED <<retentionVars, workload>>

StoreRefuse(r) ==
  /\ Working(r)
  /\ Refuse(r)
  /\ CommitEnds(r, "refused")
  /\ Settle(r)
  /\ UNCHANGED <<sessionVars, tracking, mode, importer, flagged, touched, debris, disturbed>>
  /\ UNCHANGED <<retentionVars, workload>>

LostFails(r) ==
  /\ req[r] # Idle /\ Lost(r)
  /\ Finish(r)
  /\ IF chunk[r].pc = "apply"
     THEN chunk' = [chunk EXCEPT ![r] =
            [pc |-> "refused", into |-> req[r].branch, keys |-> @.keys]]
     ELSE CommitEnds(r, "refused")
  /\ Settle(r)
  /\ UNCHANGED <<refs, commits, rows, live, sessionVars>>
  /\ UNCHANGED <<tracking, mode, importer, flagged, touched, debris, disturbed>>
  /\ UNCHANGED <<retentionVars, workload>>

StoreCrash(r) ==
  /\ Crash(r)
  /\ Forget(r)
  /\ debris' = debris \cup HalfDone(r, req[r].branch)
  /\ Settle(r)
  /\ UNCHANGED <<sessionVars, tracking, mode, importer, flagged, touched, disturbed>>
  /\ UNCHANGED <<retentionVars, workload>>

-----------------------------------------------------------------------------
OthersUnchanged == UNCHANGED <<sessionVars, retentionVars, workload>>

Tracked(t) == tracking[t] # "untracked"

(* What clients ask of the server.                                         *)
Commits(r) ==
  /\ Runs("commit")
  /\ \E b \in DOMAIN refs, changes \in ChangeSets :
       Tracked(TableOf(changes)) /\ SubmitCommit(r, b, changes, 0)
  /\ UNCHANGED <<liveVars, reverting>>

Merges(r) ==
  /\ Runs("merge")
  /\ \E t \in Tables, from, into \in DOMAIN refs :
       Tracked(t) /\ SubmitMerge(r, "merge", from, into, t)
  /\ UNCHANGED <<liveVars, reverting>>

UpdatesFromParent(r) ==
  /\ Runs("update")
  /\ \E t \in Tables, b \in DOMAIN refs : Tracked(t) /\ SubmitUpdate(r, b, t)
  /\ UNCHANGED <<liveVars, reverting>>

LargeMerges(r) ==
  /\ Runs("large")
  /\ \E t \in Tables, from, into \in DOMAIN refs :
       from # into /\ Tracked(t) /\ SubmitLarge(r, from, into, t)
  /\ UNCHANGED reverting

Reverts(r) ==
  /\ Runs("revert")
  /\ \E b \in DOMAIN refs, target \in DOMAIN commits, force \in BOOLEAN :
       /\ SubmitRevert(r, b, target, force)
       /\ reverting' = [reverting EXCEPT ![r] = target]
  /\ UNCHANGED liveVars

Submits(r) ==
  /\ chunk[r].pc = "idle"
  /\ Commits(r) \/ Merges(r) \/ UpdatesFromParent(r) \/ LargeMerges(r) \/ Reverts(r)

(* A large merge, once planned.                                            *)
Chunks(r) ==
  /\ \/ ~Lost(r) /\ (MergeAtOnce(r) \/ RefuseLarge(r) \/ BeginChunks(r))
     \/ ~Lost(r) /\ \E pk \in PKs : ApplyChunk(r, pk)
     \/ ChunkFails(r) \/ EndChunks(r)
  /\ UNCHANGED reverting

Branching ==
  /\ Runs("branch")
  /\ \E n \in Branches \ deleted, from \in DOMAIN refs : CreateBranch(n, from)
  /\ UNCHANGED <<liveVars, reverting>>

Opens == \E s \in workload.sessions, b \in DOMAIN refs : OpenSession(s, b)

Writes ==
  \E k \in workload.callers :
    \/ \E s \in DOMAIN sessions, changes \in ChangeSets : BeginWrite(k, s, changes)
    \/ calls[k].pc = "write" /\ (SessionWrite(k) \/ CallFails(k))

Publishes ==
  \E k \in workload.callers :
    \/ \E s \in DOMAIN sessions, t \in Tables : BeginPublish(k, s, t)
    \/ PublishRead(k) \/ (Room /\ PublishStamp(k))
    \/ calls[k].pc # "write" /\ CallFails(k)

Abandons == \E s \in DOMAIN sessions, t \in Tables : AbandonSession(s, t)

Sessions ==
  /\ Runs("session")
  /\ Opens \/ Writes \/ Publishes \/ Abandons
  /\ UNCHANGED <<req, liveVars, retentionVars, workload, reverting>>

Leases ==
  /\ Runs("lease")
  /\ \/ \E s \in DOMAIN sessions : LeaseLapses(s) \/ ReapRows(s)
     \/ ReapList \/ ReapState \/ ReaperDies
  /\ UNCHANGED <<req, liveVars, retentionVars, workload, reverting>>

Tracks ==
  Runs("track") /\ ((\E t \in Tables : Track(t)) \/ ReadHead \/ Backfill \/ TrackDies)

Untracks == Runs("track") /\ \E t \in Tables : Untrack(t)

Bypasses ==
  /\ Runs("bypass")
  /\ \/ \E t \in Tables, m \in WriteModes : SetWriteMode(t, m)
     \/ \E changes \in ChangeSets, pk \in PKs :
          pk \in DOMAIN changes /\ AppWrite(pk, changes[pk])

LiveSteps == (Tracks \/ Untracks \/ Bypasses) /\ UNCHANGED reverting

Tagging == Runs("tag") /\ \E c \in DOMAIN commits : CreateTag(c)

Deleting == Runs("delete") /\ \E b \in DOMAIN refs : DeleteBranch(b)

Pruning == Runs("prune") /\ \E t \in Tables, cutoff \in 1 .. MaxSeq : Prune(t, cutoff)

RunGC == Runs("collect") /\ (CollectList \/ CollectScan \/ \E b \in Branches : CollectDelete(b))

Purging == Runs("purge") /\ \E pk \in PKs : Purge(pk)

Partitioning ==
  /\ Runs("partition")
  /\ \/ \E t \in Tables, b \in DOMAIN refs, from, to \in 0 .. MaxCommits :
          AddPartition(t, b, from, to)
     \/ \E p \in partitions : DropPartition(p)

Removals ==
  /\ Tagging \/ Deleting \/ Pruning \/ RunGC \/ Purging \/ Partitioning
  /\ UNCHANGED <<workload, reverting>>

LifeNext ==
  \/ \E r \in workload.requests : StoreStep(r) \/ StoreLand(r) \/ StoreRefuse(r) \/ LostFails(r)
  \/ \E r \in workload.requests : Runs("crash") /\ StoreCrash(r)
  \/ \E r \in workload.requests : (Submits(r) \/ Chunks(r)) /\ OthersUnchanged
  \/ Branching /\ OthersUnchanged
  \/ LiveSteps /\ OthersUnchanged
  \/ Sessions \/ Leases \/ Removals

LifeSpec == LifeInit /\ [][LifeNext]_lifeVars

-----------------------------------------------------------------------------
(* Correctness.                                                            *)

CallType ==
  {NoCall}
    \cup [pc : {"write"}, session : SessionIds, changes : ChangeSet]
    \cup [pc : {"publish"}, session : SessionIds, table : Tables]
    \cup [pc : {"stamp"}, session : SessionIds, table : Tables, ref : RefType,
          keys : SUBSET PKs]

SessionType ==
  [state : {"open", "committed", "abandoned", "expired"}, branch : Branches,
   base : DOMAIN commits, baseSeq : Nat, lapsed : BOOLEAN]

(* Type invariant: the tables of the catalogue behind sessions, tracked    *)
(* tables and refs, and the locals of the processes that work on them      *)
(* (catalog/schema.go:25-125).                                             *)
LifeTypeOK ==
  /\ Main \in DOMAIN refs /\ DOMAIN refs \subseteq Branches \ deleted
  /\ \A b \in DOMAIN refs : refs[b] \in RefType /\ RefOK(b)
  /\ commits \in Seq(CommitType)
  /\ rows \subseteq VersionType
  /\ live \in Table
  /\ lock \in [Branches -> Requests \cup Callers \cup {NoRequest}]
  /\ DOMAIN sessions \subseteq SessionIds
  /\ \A s \in DOMAIN sessions : sessions[s] \in SessionType
  /\ \A k \in Callers : calls[k] \in CallType
  /\ tracking \in [Tables -> {"untracked", "backfilling", "active"}]
  /\ mode \in [Tables -> {"open", "guarded", "capture"}]
  /\ flagged \subseteq Branches
  /\ touched \cup debris \cup shed \subseteq PKs
  /\ tags \cup purged \subseteq DOMAIN commits

(* What a prune, a collection, a purge, an import or the end of tracking   *)
(* may change of what a commit shows of a key.                             *)
MayForget(c, pk) ==
  LET covers(b, seqs) ==
        \E i \in DOMAIN commits[c].chain :
          commits[c].chain[i].branch = b /\ commits[c].chain[i].seq \in seqs
  IN  \/ \E t \in Tables, cutoff \in 1 .. MaxSeq :
            Prune(t, cutoff) /\ pk \in t /\ covers(Main, 0 .. cutoff - 1)
      \/ \E b \in Branches : /\ CollectDelete(b) /\ covers(b, 0 .. MaxSeq)
                            /\ b \notin collector.live
      \/ Purge(pk)
      \/ Backfill /\ pk \in importer.table /\ covers(Main, importer.seq .. MaxSeq)
      \/ \E t \in Tables : Untrack(t) /\ pk \in t
      \/ \E p \in partitions : DropPartition(p) /\ pk \in p.table
                               /\ covers(p.branch, p.from .. MaxSeq)


(* Versions of a key on a branch never overlap, and at most one is open:   *)
(* what VerifyIntervals looks for, after prunes, published sessions and    *)
(* imports too.  A table that was written through the store while it was   *)
(* imported is left out (retention.go:400-460, 94-163, store.go:264-300).  *)
IntervalsSane ==
  \A t \in Tables \ disturbed : \A pk \in t : Overlaps(pk) = {}

(* Whatever VerifyDrift would report of an active table has a cause that   *)
(* shows: a write past the store while no guard was on, a chunked merge at *)
(* work under its flag, one that failed or whose flag another one lowered, *)
(* or a partition dropped with current rows (read.go:440-500,              *)
(* chunked.go:48-132, guard.go:18-40).                                     *)
DriftExplained ==
  \A pk \in Drift, t \in Tables :
    pk \in t /\ tracking[t] = "active" =>
      pk \in touched \cup debris \cup shed \/ t \in disturbed \/ Main \in flagged

(* A session publishes exactly what its client saw: the new commit follows *)
(* the session's base and its state is the session's view, although the    *)
(* staged versions were computed on the base and stamped on the branch     *)
(* much later (branch.go:427-530).                                         *)
PublishExact ==
  [][\A s \in DOMAIN sessions :
       sessions[s].state # "committed" /\ sessions'[s].state = "committed" =>
         \E c \in DOMAIN commits' \ DOMAIN commits :
           /\ commits'[c].first = sessions[s].base
           /\ StateAtCommit(c)' = SessionView(s)]_lifeVars

(* Staged versions belong to an open session of their branch: none is left *)
(* behind by a publication, an abandoned session or the reaper, where      *)
(* nothing would ever show, publish or drop it (branch.go:427-625).        *)
StagedVersionsOwned ==
  \A v \in rows : v.session # NoSession =>
    /\ sessions[v.session].state = "open"
    /\ sessions[v.session].branch = v.branch /\ v.branch # Main

(* A revert gives every key that its target changed the image it had       *)
(* before the target, and no other key a new one, whatever was committed   *)
(* since on the branch; for a target of the branch itself                  *)
(* (revert.go:31-106).                                                     *)
RevertExact ==
  [][\A r \in Requests, c \in DOMAIN commits' \ DOMAIN commits :
       LET target == reverting[r]
       IN  target # 0 /\ req'[r] = Idle /\ commits[target].branch = req[r].branch =>
             LET was == StateAtCommit(commits[target].first)
                 did == StateAtCommit(target)
                 head == ResolveMap(refs[req[r].branch].chain)
             IN  StateAtCommit(c)' = [pk \in PKs |-> IF did[pk] # was[pk] THEN was[pk]
                                                     ELSE head[pk]]]_lifeVars
=============================================================================
