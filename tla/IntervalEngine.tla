--------------------------- MODULE IntervalEngine ---------------------------
(***************************************************************************)
(* The version store of internal/engine: a flat set of row versions over   *)
(* half-open intervals of a branch's own sequence numbers, resolved        *)
(* through a priority-ordered chain of segments, and merged with           *)
(* changed-column masks.                                                   *)
(*                                                                         *)
(* A version carries Absent when it is a tombstone.  The insert / update   *)
(* distinction of its op, which nothing reads, is left out.                *)
(***************************************************************************)
EXTENDS Rows

CONSTANTS
  Branches, Main, SessionIds, ChangeSets,
  MaxCommits,   \* bounds: the commits made in all, and while every branch
  MaxTogether,  \* of Branches exists
  MaxSeq,       \* the open-interval sentinel, above every sequence number
  NoSession     \* the session of a version that is not staged

ASSUME EngineAssumption ==
  /\ Main \in Branches
  /\ ChangeSets \subseteq ChangeSet
  /\ MaxCommits \in Nat \ {0} /\ MaxTogether \in 1 .. MaxCommits
  /\ MaxSeq \in Nat /\ MaxSeq > MaxCommits
  /\ NoSession \notin SessionIds

VARIABLES
  rows,         \* the versions
  branches,     \* the branches that exist, each with its inherited chain
  commits,      \* commit metadata, in order of creation
  sessions      \* the open sessions: branch and base commit

vars == <<rows, branches, commits, sessions>>

Segment(b, seq) == [branch |-> b, seq |-> seq]

RootCommit == [parents |-> {}, branch |-> Main, seq |-> 0,
               chain |-> <<Segment(Main, 0)>>]

Init ==
  /\ rows = {}
  /\ commits = <<RootCommit>>
  /\ branches = [b \in {Main} |->
       [headSeq |-> 0, head |-> 1, parent |-> Main, fork |-> 1, chain |-> <<>>]]
  /\ sessions = [s \in {} |-> RootCommit]

-----------------------------------------------------------------------------
(* Resolution.                                                             *)

(* Mutant: below the parent, the ancestors are read where they are now.    *)
ChainForLiveAncestors(b, seq) ==
  IF b = Main THEN <<Segment(b, seq)>>
  ELSE <<Segment(b, seq), branches[b].chain[1]>> \o branches[branches[b].parent].chain

(* The branch itself, then the tail captured when it forked.               *)
ChainFor(b, seq) == <<Segment(b, seq)>> \o branches[b].chain

HeadChain(b) == ChainFor(b, branches[b].headSeq)

Staged(s) == {v \in rows : v.session = s}

InSegment(v, seg) ==
  /\ v.session = NoSession
  /\ v.branch = seg.branch
  /\ v.from <= seg.seq /\ seg.seq < v.to

(* Mutant: tombstones are filtered inside the segment.                     *)
HitsWithoutTombstones(chain, i, pk) ==
  {v \in rows : v.pk = pk /\ InSegment(v, chain[i]) /\ v.row # Absent}

(* The versions of pk that segment i of the chain has in interval.         *)
Hits(chain, i, pk) == {v \in rows : v.pk = pk /\ InSegment(v, chain[i])}

(* The versions of pk in the highest-priority segment that has one.        *)
FirstHits(chain, pk) ==
  UNION {Hits(chain, i, pk) : i \in {k \in DOMAIN chain :
                                      \A j \in 1 .. k - 1 : Hits(chain, j, pk) = {}}}

(* The image of pk in a view: the session's own staged version if it has   *)
(* one, else the version found along the chain.  A tombstone wins like any *)
(* version and only then reads as no row.                                  *)
Winner(chain, s, pk) ==
  LET staged == {v \in rows : s # NoSession /\ v.session = s /\ v.pk = pk}
      found == IF staged # {} THEN staged ELSE FirstHits(chain, pk)
  IN  IF found = {} THEN Absent ELSE (CHOOSE v \in found : TRUE).row

ResolveChain(chain, s) == [pk \in PKs |-> Winner(chain, s, pk)]

Resolve(b) == ResolveChain(HeadChain(b), NoSession)
StateAtCommit(c) == ResolveChain(commits[c].chain, NoSession)

(* Mutant: the session follows its branch's head.                          *)
SessionResolveAtHead(s) == ResolveChain(HeadChain(sessions[s].branch), s)

(* The session's view: the chain of its base commit, its staged rows first.*)
SessionResolve(s) == ResolveChain(commits[sessions[s].base].chain, s)

(* Mutant: candidates come from the branch's own segment only.             *)
ResolveFilteredOwn(b, pred) ==
  LET candidates == {pk \in PKs : \E v \in Hits(HeadChain(b), 1, pk) : v.row \in pred}
  IN  [pk \in PKs |-> IF pk \in candidates /\ Resolve(b)[pk] \in pred
                      THEN Resolve(b)[pk] ELSE Absent]

(* Two-pass filtered read: keys with a matching version in any segment,    *)
(* then the filter again on what they resolve to.                          *)
ResolveFiltered(b, pred) ==
  LET candidates == {pk \in PKs : \E i \in DOMAIN HeadChain(b) :
                       \E v \in Hits(HeadChain(b), i, pk) : v.row \in pred}
  IN  [pk \in PKs |-> IF pk \in candidates /\ Resolve(b)[pk] \in pred
                      THEN Resolve(b)[pk] ELSE Absent]

-----------------------------------------------------------------------------
(* Writing.                                                                *)

NewId == Len(commits) + 1
NextSeq(b) == branches[b].headSeq + 1

Version(b, pk, from, c, s, changed, row) ==
  [branch |-> b, pk |-> pk, from |-> from, to |-> MaxSeq, commit |-> c,
   session |-> s, changed |-> changed, row |-> row]

IsOpen(v, b, pk) ==
  v.branch = b /\ v.pk = pk /\ v.session = NoSession /\ v.to = MaxSeq

(* Mutants: the superseded version is dropped, or closed one too late.     *)
CloseOpenByDropping(b, keys, seq) == {v \in rows : ~(v.pk \in keys /\ IsOpen(v, b, v.pk))}
CloseOpenLate(b, keys, seq) ==
  {IF v.pk \in keys /\ IsOpen(v, b, v.pk) THEN [v EXCEPT !.to = seq + 1] ELSE v : v \in rows}

(* The versions after closing branch b's open versions of keys at seq.     *)
CloseOpen(b, keys, seq) ==
  {IF v.pk \in keys /\ IsOpen(v, b, v.pk) THEN [v EXCEPT !.to = seq] ELSE v : v \in rows}

(* One commit on b that takes keys from the images before to after.        *)
Write(b, keys, before, after) ==
  rows' = CloseOpen(b, keys, NextSeq(b)) \cup
    {Version(b, pk, NextSeq(b), NewId, NoSession, MaskOf(before[pk], after[pk]), after[pk])
       : pk \in keys}

Bound(names) == IF names = Branches THEN MaxTogether ELSE MaxCommits

(* Commit metadata, with the chain in force: tail is what b inherits.      *)
RecordCommit(b, tail, parents) ==
  /\ Len(commits) < Bound(DOMAIN branches)
  /\ commits' = Append(commits,
       [parents |-> parents, branch |-> b, seq |-> NextSeq(b),
        chain |-> <<Segment(b, NextSeq(b))>> \o tail])

MoveHead(b) ==
  branches' = [branches EXCEPT ![b].headSeq = NextSeq(b), ![b].head = NewId]

(* The keys a change set really writes: deleting an absent row is nothing. *)
Effective(cs, view) == {pk \in DOMAIN cs : cs[pk] # Absent \/ view[pk] # Absent}

Commit(b, cs) ==
  LET view == Resolve(b)
  IN  /\ Write(b, Effective(cs, view), view, cs)
      /\ RecordCommit(b, branches[b].chain, {branches[b].head})
      /\ MoveHead(b)
      /\ UNCHANGED sessions

(* A fork copies no version: a fork point and a captured chain.            *)
Fork(from) ==
  [headSeq |-> 0, head |-> branches[from].head, parent |-> from,
   fork |-> branches[from].head, chain |-> HeadChain(from)]

CreateBranch(n, from) ==
  /\ n \notin DOMAIN branches
  /\ Len(commits) <= Bound(DOMAIN branches \cup {n})
  /\ branches' = [b \in DOMAIN branches \cup {n} |->
       IF b = n THEN Fork(from) ELSE branches[b]]
  /\ UNCHANGED <<rows, commits, sessions>>

-----------------------------------------------------------------------------
(* Merging.                                                                *)

(* Breadth-first reach over the commit graph: n rounds from commit c.      *)
Reach(c) ==
  LET level[n \in 0 .. Len(commits)] ==
        IF n = 0 THEN {c}
        ELSE level[n - 1] \cup UNION {commits[d].parents : d \in level[n - 1]}
  IN  level[Len(commits)]

MergeBases(c, d) ==
  LET common == Reach(c) \cap Reach(d)
  IN  {x \in common : \A y \in common \ {x} : x \notin Reach(y)}

(* What a chain covers of branch x: 0 when it has no segment of x.         *)
Upper(chain, x) ==
  IF \E i \in DOMAIN chain : chain[i].branch = x
  THEN chain[CHOOSE i \in DOMAIN chain : chain[i].branch = x].seq ELSE 0

(* Mutant: only what the branch gained since the base, not what it lacks.  *)
MaskSinceForward(b, base, pk) ==
  LET was(x) == Upper(commits[base].chain, x)
      now(x) == Upper(HeadChain(b), x)
  IN  UNION {v.changed : v \in {w \in rows : /\ w.session = NoSession /\ w.pk = pk
                                            /\ was(w.branch) < w.from
                                            /\ w.from <= now(w.branch)}}

(* The columns of pk that may differ between commit base and branch b: the *)
(* masks of every version that one of the two chains covers and the other  *)
(* does not, in either direction.                                          *)
MaskSince(b, base, pk) ==
  LET was(x) == Upper(commits[base].chain, x)
      now(x) == Upper(HeadChain(b), x)
      between(v) == \/ was(v.branch) < v.from /\ v.from <= now(v.branch)
                    \/ now(v.branch) < v.from /\ v.from <= was(v.branch)
  IN  UNION {v.changed : v \in {w \in rows : w.session = NoSession /\ w.pk = pk /\ between(w)}}

Candidates(b, d, base) == [pk \in PKs |-> MaskSince(b, base, pk) \cup MaskSince(d, base, pk)]

MergeConflictsOf(into, from, base) ==
  MergeConflicts(StateAtCommit(base), Resolve(into), Resolve(from),
                 Candidates(into, from, base))

MergeResultOf(into, from, base) ==
  MergedTable(StateAtCommit(base), Resolve(into), Resolve(from),
              Candidates(into, from, base))

(* Write the result of a merge onto b, whose inherited chain is tail.      *)
ApplyMergeResult(b, tail, result, parents) ==
  LET view == ResolveChain(<<Segment(b, branches[b].headSeq)>> \o tail, NoSession)
  IN  /\ Write(b, {pk \in PKs : result[pk] # view[pk]}, view, result)
      /\ RecordCommit(b, tail, parents)

Merge(from, into) ==
  \E base \in 1 .. Len(commits) :
    /\ MergeBases(branches[into].head, branches[from].head) = {base}
    /\ MergeConflictsOf(into, from, base) = {}
    /\ ApplyMergeResult(into, branches[into].chain, MergeResultOf(into, from, base),
                        {branches[into].head, branches[from].head})
    /\ MoveHead(into)
    /\ UNCHANGED sessions

(* The fork point and the inherited chain advance to the parent's head     *)
(* before the result is written, so that only divergence is stored.        *)
UpdateFromParent(b) ==
  LET p == branches[b].parent
      base == branches[b].fork
      tail == HeadChain(p)
  IN  /\ b # Main
      /\ branches[p].head # base
      /\ MergeConflictsOf(b, p, base) = {}
      /\ ApplyMergeResult(b, tail, MergeResultOf(b, p, base),
                          {branches[b].head, branches[p].head})
      /\ branches' = [branches EXCEPT ![b].headSeq = NextSeq(b), ![b].head = NewId,
                                      ![b].fork = branches[p].head, ![b].chain = tail]
      /\ UNCHANGED sessions

-----------------------------------------------------------------------------
(* Sessions.                                                               *)

OpenSession(s, b) ==
  /\ b # Main
  /\ s \notin DOMAIN sessions
  /\ sessions' = [x \in DOMAIN sessions \cup {s} |->
       IF x = s THEN [branch |-> b, base |-> branches[b].head] ELSE sessions[x]]
  /\ UNCHANGED <<rows, branches, commits>>

(* Upsert the session's staged versions; the mask accumulates, so a change *)
(* and its undoing keep their columns.                                     *)
SessionWrite(s, cs) ==
  LET b == sessions[s].branch
      view == SessionResolve(s)
      keys == Effective(cs, view)
      mine(pk) == {v \in Staged(s) : v.pk = pk}
      stage(pk) ==
        IF mine(pk) = {}
        THEN {Version(b, pk, NextSeq(b), 0, s, MaskOf(view[pk], cs[pk]), cs[pk])}
        ELSE {[v EXCEPT !.row = cs[pk],
                        !.changed = @ \cup MaskOf(view[pk], cs[pk])] : v \in mine(pk)}
  IN  /\ rows' = {v \in rows : ~(v.session = s /\ v.pk \in keys)}
                   \cup UNION {stage(pk) : pk \in keys}
      /\ UNCHANGED <<branches, commits, sessions>>

Close(s) == sessions' = [x \in DOMAIN sessions \ {s} |-> sessions[x]]

(* Mutant: the session publishes over whatever its branch became.          *)
StillAtBaseIgnored(s) == TRUE

StillAtBase(s) == branches[sessions[s].branch].head = sessions[s].base

(* Publish: refused when the branch moved; close what the staged versions  *)
(* supersede and stamp them with the commit.                               *)
CommitSession(s) ==
  LET b == sessions[s].branch
      keys == {v.pk : v \in Staged(s)}
      stamp(v) == [v EXCEPT !.session = NoSession, !.commit = NewId,
                            !.from = NextSeq(b), !.to = MaxSeq]
  IN  /\ StillAtBase(s)
      /\ rows' = (CloseOpen(b, keys, NextSeq(b)) \ Staged(s))
                   \cup {stamp(v) : v \in Staged(s)}
      /\ RecordCommit(b, branches[b].chain, {branches[b].head})
      /\ MoveHead(b)
      /\ Close(s)

(* Mutant: the staged versions stay behind.                                *)
AbandonWithoutCleanup(s) == Close(s) /\ UNCHANGED <<rows, branches, commits>>

AbandonSession(s) ==
  /\ rows' = rows \ Staged(s)
  /\ Close(s)
  /\ UNCHANGED <<branches, commits>>

-----------------------------------------------------------------------------
Next ==
  \/ \E b \in DOMAIN branches, cs \in ChangeSets : Commit(b, cs)
  \/ \E n \in Branches, from \in DOMAIN branches : CreateBranch(n, from)
  \/ \E from, into \in DOMAIN branches : Merge(from, into)
  \/ \E b \in DOMAIN branches : UpdateFromParent(b)
  \/ \E s \in SessionIds, b \in DOMAIN branches : OpenSession(s, b)
  \/ \E s \in DOMAIN sessions, cs \in ChangeSets : SessionWrite(s, cs)
  \/ \E s \in DOMAIN sessions : CommitSession(s) \/ AbandonSession(s)

Spec == Init /\ [][Next]_vars
-----------------------------------------------------------------------------
(* Correctness.                                                            *)

(* A key has at most one version at any sequence number of a branch, and   *)
(* its newest version is the open one: the probes IntervalsSane and        *)
(* OpenVersionsPerKey (engine.go:962-1002).  Overlapping intervals would   *)
(* make resolution pick a version by luck.                                 *)
IntervalsSane ==
  \A v, w \in rows :
    (v.session = NoSession /\ w.session = NoSession /\ v # w
       /\ v.branch = w.branch /\ v.pk = w.pk)
      => v.to <= w.from \/ w.to <= v.from

(* What a branch shows at its head is the state recorded for its head      *)
(* commit, whatever its parent, its descendants and its sessions did since *)
(* (finding F1: a chain rebuilt from ancestors that move would not agree). *)
HeadMatchesHistory ==
  \A b \in DOMAIN branches : Resolve(b) = StateAtCommit(branches[b].head)

(* maskSince covers every column in which a branch differs from a commit,  *)
(* in both directions and through the segments an update absorbed without  *)
(* writing (findings F4 and F5): a column it missed would keep the base    *)
(* value in a merge and lose an edit silently.                             *)
MasksCoverDivergence ==
  \A b \in DOMAIN branches, base \in 1 .. Len(commits), pk \in PKs :
    MaskOf(StateAtCommit(base)[pk], Resolve(b)[pk]) \subseteq MaskSince(b, base, pk)

(* A two-pass filtered read returns exactly the resolved rows that match   *)
(* (engine.go:259-300): a row a branch edited out of the filter's range    *)
(* must not resurface from its parent.  A predicate is a set of rows.      *)
FilteredReadExact ==
  \A b \in DOMAIN branches, c \in Cols, x \in Vals :
    LET pred == {r \in Row : r[c] = x}
    IN  ResolveFiltered(b, pred)
          = [pk \in PKs |-> IF Resolve(b)[pk] \in pred THEN Resolve(b)[pk] ELSE Absent]

(* Every staged version belongs to an open session on the same branch, is  *)
(* not on the root branch, and a session stages a key once: nothing is     *)
(* left behind by commit or abandon, where it could never be published nor *)
(* dropped (engine.go:869-924).                                            *)
StagedVersionsOwned ==
  \A v \in rows : v.session # NoSession =>
    /\ v.session \in DOMAIN sessions
    /\ v.branch = sessions[v.session].branch /\ v.branch # Main
    /\ \A w \in rows : w.session = v.session /\ w.pk = v.pk => w = v

(* Time travel: no step changes what an existing commit resolves to, the   *)
(* update that advances a fork point and the close of an open version      *)
(* included (engine.go:68-83, finding F1).                                 *)
HistoryStable ==
  [][\A c \in 1 .. Len(commits) : StateAtCommit(c)' = StateAtCommit(c)]_vars

(* A session sees its base commit and its own edits: no step that leaves   *)
(* its staged versions alone changes its view, although the branch commits *)
(* or absorbs its parent meanwhile (engine.go:841-867, finding F3).        *)
SessionViewPinned ==
  [][\A s \in DOMAIN sessions :
       (s \in DOMAIN sessions' /\ Staged(s)' = Staged(s))
         => SessionResolve(s)' = SessionResolve(s)]_vars

-----------------------------------------------------------------------------
(* The engine implements the snapshot model: a commit's snapshot is what   *)
(* its chain resolves to, a session's overlay what the session resolves.   *)

AbsCommits ==
  [c \in 1 .. Len(commits) |->
     [parents |-> commits[c].parents, branch |-> commits[c].branch,
      state |-> StateAtCommit(c)]]

AbsBranches ==
  [b \in DOMAIN branches |->
     [head |-> branches[b].head, parent |-> branches[b].parent, fork |-> branches[b].fork]]

AbsSessions ==
  [s \in DOMAIN sessions |->
     [branch |-> sessions[s].branch, base |-> sessions[s].base,
      overlay |-> SessionResolve(s)]]

Model == INSTANCE SnapshotModel WITH
  commits <- AbsCommits, branches <- AbsBranches, sessions <- AbsSessions

(* Every operation of the engine has the effect the reference model gives  *)
(* it: resolution by intervals and chains equals the snapshot, a           *)
(* mask-narrowed merge accepts, refuses and produces what the comparison   *)
(* of whole snapshots does (the differential harness of test/property).    *)
ImplementsModel == Model!Spec
=============================================================================
