------------------------------ MODULE StoreReads ------------------------------
(***************************************************************************)
(* What internal/store reads back from the sidecar and the commits: the    *)
(* history of a key, blame, diffs, the verifiers, and the revert that is   *)
(* planned from a diff.                                                    *)
(***************************************************************************)
EXTENDS BranchStore, FiniteSets

(* History: the versions of a key on a branch's own segment.               *)
History(b, pk) == {v \in rows : v.branch = b /\ v.session = NoSession /\ v.pk = pk}

Newest(versions) == CHOOSE v \in versions : \A w \in versions : w.from <= v.from

(* Mutant: blame stops at the newest version that differs.                 *)
BlameOneBack(b, pk, c) ==
  LET older == History(b, pk) \ {Newest(History(b, pk))}
  IN  IF older = {} THEN Newest(History(b, pk)) ELSE Newest(older)

(* Blame: from the newest version back, as long as the column holds the    *)
(* value it has now; the last version that does introduced it.  The masks  *)
(* are not consulted.                                                      *)
Blame(b, pk, c) ==
  LET current == Newest(History(b, pk))
      holds(v) == v.row # Absent /\ Get(v.row, c) = Get(current.row, c)
      run == {v \in History(b, pk) :
                \A w \in History(b, pk) : w.from >= v.from => holds(w)}
  IN  IF run = {} THEN current ELSE CHOOSE v \in run : \A w \in run : v.from <= w.from

-----------------------------------------------------------------------------
(* Diff between two numbers of a branch.                                   *)

(* replaceHead: the branch's stored chain with its own segment at seq.     *)
ChainAtSeq(b, seq) ==
  [refs[b].chain EXCEPT ![1] = IF @.branch = b THEN Segment(b, seq) ELSE @]

(* Mutant: the range is closed at its lower end.                           *)
TouchedFromInclusive(b, from, to) ==
  {pk \in PKs : \E v \in History(b, pk) : from <= v.from /\ v.from < to}

(* The keys that have a version whose number is in (from, to].             *)
Touched(b, from, to) ==
  {pk \in PKs : \E v \in History(b, pk) : from < v.from /\ v.from <= to}

(* Each touched key whose row differs between the two ends.                *)
Diff(b, from, to) ==
  LET before(pk) == CurrentRow(ChainAtSeq(b, from), pk)
      after(pk) == CurrentRow(ChainAtSeq(b, to), pk)
  IN  {[pk |-> pk, before |-> before(pk), after |-> after(pk)]
         : pk \in {k \in Touched(b, from, to) : before(k) # after(k)}}

-----------------------------------------------------------------------------
(* Verifiers.                                                              *)

(* VerifyIntervals: versions of a key on a branch that overlap, two open   *)
(* ones among them.                                                        *)
Overlaps(pk) ==
  {v \in rows : /\ v.pk = pk /\ v.session = NoSession
                /\ \E w \in rows : /\ w # v /\ w.session = NoSession /\ w.pk = pk
                                   /\ w.branch = v.branch
                                   /\ v.from <= w.from /\ w.from < v.to}

(* VerifyDrift: the keys whose live row is not the default branch's.       *)
Drift == {pk \in PKs : live[pk] # CurrentRow(refs[Main].chain, pk)}

-----------------------------------------------------------------------------
(* Revert.                                                                 *)

(* Mutant: the images the target gave are put back.                        *)
UndoByAfter(b, target) ==
  LET entries == Diff(b, commits[target].seq - 1, commits[target].seq)
  IN  [pk \in {e.pk : e \in entries} |-> (CHOOSE e \in entries : e.pk = pk).after]

(* The target's own number is taken as a number of the branch named by the *)
(* caller.  Undo the difference it made.                                   *)
UndoOf(b, target) ==
  LET seq == commits[target].seq
      entries == Diff(b, seq - 1, seq)
  IN  [pk \in {e.pk : e \in entries} |-> (CHOOSE e \in entries : e.pk = pk).before]

(* Keys the target changed that have changed again since.                  *)
Superseded(b, target) ==
  DOMAIN UndoOf(b, target) \cap {e.pk : e \in Diff(b, commits[target].seq, refs[b].headSeq)}

(* Planned on unlocked reads, refused when nothing is left to undo or when *)
(* a key has moved on, unless forced; then a commit that expects no head.  *)
SubmitRevert(r, b, target, force) ==
  /\ commits[target].seq > 0
  /\ DOMAIN UndoOf(b, target) # {}
  /\ Superseded(b, target) = {} \/ force
  /\ \E t \in Tables : DOMAIN UndoOf(b, target) \subseteq t
  /\ SubmitCommit(r, b, UndoOf(b, target), 0)

-----------------------------------------------------------------------------
(* Correctness.                                                            *)

CommitAt(b, seq) == CHOOSE c \in On(b) : commits[c].seq = seq

(* A diff is complete and nothing else: applied to the state of the commit *)
(* at its lower end it gives the state of the commit at its upper end,     *)
(* although it looks only at the keys that have a version in between, in   *)
(* the segment of the default branch alone (read.go:369-427).              *)
DiffExact ==
  \A from, to \in 0 .. refs[Main].headSeq :
    from <= to =>
      StateAtCommit(CommitAt(Main, to)) =
        LET entries == Diff(Main, from, to)
        IN  Apply(StateAtCommit(CommitAt(Main, from)),
                  [pk \in {e.pk : e \in entries} |->
                     (CHOOSE e \in entries : e.pk = pk).after])

(* Blame names the commit that gave a cell of the default branch the value *)
(* it has: the commit's state has the value and its first parent's state   *)
(* has not, whatever merges and deletes came between (read.go:303-347,     *)
(* finding F2: a mask may name a column that did not change).              *)
BlameTruthful ==
  \A pk \in PKs, c \in Cols :
    LET now == CurrentRow(refs[Main].chain, pk)
        commit == CommitAt(Main, Blame(Main, pk, c).from)
    IN  now # Absent =>
          /\ Get(StateAtCommit(commit)[pk], c) = Get(now, c)
          /\ LET before == StateAtCommit(commits[commit].first)[pk]
             IN  before = Absent \/ before[c] # now[c]
=============================================================================
