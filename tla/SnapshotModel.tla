---------------------------- MODULE SnapshotModel ----------------------------
(***************************************************************************)
(* What versioning promises: the reference model of internal/model, in     *)
(* which every commit holds a full snapshot of the table, a merge compares *)
(* three snapshots by value and a session holds the whole table it sees.   *)
(* IntervalEngine is shown to implement this module, and its assumptions   *)
(* on the constants they share hold here too.                              *)
(***************************************************************************)
EXTENDS Rows

CONSTANTS
  Branches,     \* names a branch may be given
  Main,         \* the root branch
  SessionIds,   \* slots for sessions open at the same time
  ChangeSets,   \* the change sets clients submit
  MaxCommits    \* bound: commits made in a behaviour

VARIABLES
  commits,      \* the commits, in order of creation; an id is a position
  branches,     \* the branches that exist: head, parent, fork commit
  sessions      \* the open sessions: branch, base commit, overlay

vars == <<commits, branches, sessions>>

(* Seq, a depth nothing in the model reads, is left out.                   *)
RootCommit == [parents |-> {}, branch |-> Main, state |-> EmptyTable]

Init ==
  /\ commits = <<RootCommit>>
  /\ branches = [b \in {Main} |-> [head |-> 1, parent |-> Main, fork |-> 1]]
  /\ sessions = [s \in {} |-> RootCommit]

-----------------------------------------------------------------------------
StateOf(c) == commits[c].state
Resolve(b) == StateOf(branches[b].head)

Apply(table, cs) == [pk \in PKs |-> IF pk \in DOMAIN cs THEN cs[pk] ELSE table[pk]]

(* A new commit on branch b whose first parent is b's head.                *)
NewCommit(b, state, others) ==
  /\ Len(commits) < MaxCommits
  /\ commits' = Append(commits,
       [parents |-> {branches[b].head} \cup others, branch |-> b, state |-> state])

NewId == Len(commits) + 1

MoveHead(b) == branches' = [branches EXCEPT ![b].head = NewId]

-----------------------------------------------------------------------------
Commit(b, cs) ==
  /\ NewCommit(b, Apply(Resolve(b), cs), {})
  /\ MoveHead(b)
  /\ UNCHANGED sessions

CreateBranch(n, from) ==
  /\ n \notin DOMAIN branches
  /\ branches' = [b \in DOMAIN branches \cup {n} |->
       IF b = n THEN [head |-> branches[from].head, parent |-> from,
                      fork |-> branches[from].head]
                ELSE branches[b]]
  /\ UNCHANGED <<commits, sessions>>

(* Every commit reachable from c, itself included.                         *)
Ancestors(c) ==
  LET anc[d \in 1 .. c] == {d} \cup UNION {anc[p] : p \in commits[d].parents}
  IN  anc[c]

MergeBases(c, d) ==
  LET common == Ancestors(c) \cap Ancestors(d)
  IN  {x \in common : \A y \in common \ {x} : x \notin Ancestors(y)}

(* Refused unless there is exactly one merge base; a conflicted merge      *)
(* changes nothing.                                                        *)
Merge(from, into) ==
  LET ours == branches[into].head  theirs == branches[from].head
  IN  \E base \in 1 .. Len(commits) :
        /\ MergeBases(ours, theirs) = {base}
        /\ MergeConflicts(StateOf(base), StateOf(ours), StateOf(theirs), AllCols) = {}
        /\ NewCommit(into,
             MergedTable(StateOf(base), StateOf(ours), StateOf(theirs), AllCols),
             {theirs})
        /\ MoveHead(into)
        /\ UNCHANGED sessions

(* The base is the fork commit; on success the fork commit becomes the     *)
(* parent's head.                                                          *)
UpdateFromParent(b) ==
  LET base == branches[b].fork
      theirs == branches[branches[b].parent].head
  IN  /\ b # Main
      /\ theirs # base
      /\ MergeConflicts(StateOf(base), Resolve(b), StateOf(theirs), AllCols) = {}
      /\ NewCommit(b, MergedTable(StateOf(base), Resolve(b), StateOf(theirs), AllCols),
                   {theirs})
      /\ branches' = [branches EXCEPT ![b].head = NewId, ![b].fork = theirs]
      /\ UNCHANGED sessions

-----------------------------------------------------------------------------
OpenSession(s, b) ==
  /\ b # Main
  /\ s \notin DOMAIN sessions
  /\ sessions' = [x \in DOMAIN sessions \cup {s} |->
       IF x = s THEN [branch |-> b, base |-> branches[b].head, overlay |-> Resolve(b)]
                ELSE sessions[x]]
  /\ UNCHANGED <<commits, branches>>

SessionWrite(s, cs) ==
  /\ sessions' = [sessions EXCEPT ![s].overlay = Apply(@, cs)]
  /\ UNCHANGED <<commits, branches>>

Close(s) == sessions' = [x \in DOMAIN sessions \ {s} |-> sessions[x]]

CommitSession(s) ==
  LET b == sessions[s].branch
  IN  /\ branches[b].head = sessions[s].base
      /\ NewCommit(b, sessions[s].overlay, {})
      /\ MoveHead(b)
      /\ Close(s)

AbandonSession(s) == Close(s) /\ UNCHANGED <<commits, branches>>

-----------------------------------------------------------------------------
Next ==
  \/ \E b \in DOMAIN branches, cs \in ChangeSets : Commit(b, cs)
  \/ \E n \in Branches, from \in DOMAIN branches : CreateBranch(n, from)
  \/ \E from, into \in DOMAIN branches : Merge(from, into)
  \/ \E b \in DOMAIN branches : UpdateFromParent(b)
  \/ \E s \in SessionIds, b \in DOMAIN branches : OpenSession(s, b)
  \/ \E s \in DOMAIN sessions, cs \in ChangeSets : SessionWrite(s, cs)
  \/ \E s \in DOMAIN sessions : CommitSession(s) \/ AbandonSession(s)

Spec == Init /\ [][Next]_vars

=============================================================================
