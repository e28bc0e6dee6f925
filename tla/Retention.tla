------------------------------ MODULE Retention ------------------------------
(***************************************************************************)
(* What removes history: deleted branches, pruning, garbage collection,    *)
(* hard purges and dropped partitions.                                     *)
(***************************************************************************)
EXTENDS StoreSessions, LiveTable

CONSTANTS
  Partitioned   \* the tables tracked with a partitioned sidecar

ASSUME RetentionAssumption == Partitioned \subseteq Tables

VARIABLES
  tags,        \* commits pinned under a name
  deleted,     \* branches that existed once: their ids are never used again
  collector,   \* a garbage collection at work
  purged,      \* commits whose integrity is marked "purged"
  partitions,  \* the ranges of a partitioned sidecar
  shed         \* auxiliary: keys of open versions that went with a partition

retentionVars == <<tags, deleted, collector, purged, partitions, shed>>
storeVars == <<refs, commits, rows, live, lock, req>>

RetentionInit ==
  /\ tags = {} /\ deleted = {} /\ purged = {} /\ partitions = {} /\ shed = {}
  /\ collector = [pc |-> "idle"]

-----------------------------------------------------------------------------
(* Tags and deleted branches.                                              *)

CreateTag(c) ==
  /\ c \in DOMAIN commits \ tags
  /\ tags' = tags \cup {c}
  /\ UNCHANGED <<storeVars, sessionVars, liveVars, deleted, collector, purged, partitions, shed>>

(* Mutant: the default branch can be deleted like any other.               *)
DeleteBranchAny(b) ==
  /\ b \in DOMAIN refs
  /\ \A child \in DOMAIN refs \ {Main} : refs[child].parent # b
  /\ lock[b] = NoRequest
  /\ refs' = [x \in DOMAIN refs \ {b} |-> refs[x]]
  /\ deleted' = deleted \cup {b}
  /\ UNCHANGED <<commits, rows, live, lock, req>>
  /\ UNCHANGED <<sessionVars, liveVars, tags, collector, purged, partitions, shed>>

(* Refused for the default branch and for one with children; a session,    *)
(* open or not, refers to its branch and keeps it.  The ref row waits for  *)
(* a commit that holds it.                                                 *)
DeleteBranch(b) ==
  /\ b \in DOMAIN refs \ {Main}
  /\ \A child \in DOMAIN refs \ {Main} : refs[child].parent # b
  /\ \A s \in DOMAIN sessions : sessions[s].branch # b
  /\ lock[b] = NoRequest
  /\ refs' = [x \in DOMAIN refs \ {b} |-> refs[x]]
  /\ deleted' = deleted \cup {b}
  /\ UNCHANGED <<commits, rows, live, lock, req>>
  /\ UNCHANGED <<sessionVars, liveVars, tags, collector, purged, partitions, shed>>

-----------------------------------------------------------------------------
(* Pruning.                                                                *)

(* The versions of pk on the default branch that were superseded by the    *)
(* cutoff.                                                                 *)
ClosedBy(pk, cutoff) ==
  {v \in rows : /\ v.branch = Main /\ v.session = NoSession /\ v.pk = pk
                /\ v.to # MaxSeq /\ v.to <= cutoff}

Oldest(versions) == CHOOSE v \in versions : \A w \in versions : v.from <= w.from
LastTo(versions) == (CHOOSE v \in versions : \A w \in versions : w.to <= v.to).to

(* Mutant: the oldest is extended, but the others stay.                    *)
ThinKeepingAll(pk, cutoff) ==
  LET closed == ClosedBy(pk, cutoff)
  IN  IF Cardinality(closed) <= 1 THEN closed
      ELSE (closed \ {Oldest(closed)}) \cup {[Oldest(closed) EXCEPT !.to = LastTo(closed)]}

(* A key's superseded versions, when there are several, become one: the    *)
(* oldest, extended over the others.                                       *)
Thin(pk, cutoff) ==
  LET closed == ClosedBy(pk, cutoff)
  IN  IF Cardinality(closed) <= 1 THEN closed
      ELSE {[Oldest(closed) EXCEPT !.to = LastTo(closed)]}

(* The cutoff is the head less the commits to keep, or the newest commit   *)
(* older than the days to keep: any number of the branch.  The protected   *)
(* commits are only counted.                                               *)
Prune(t, cutoff) ==
  /\ cutoff \in 1 .. refs[Main].headSeq
  /\ rows' = (rows \ UNION {ClosedBy(pk, cutoff) : pk \in t})
               \cup UNION {Thin(pk, cutoff) : pk \in t}
  /\ rows' # rows
  /\ UNCHANGED <<refs, commits, live, lock, req>>
  /\ UNCHANGED <<sessionVars, liveVars, retentionVars>>

-----------------------------------------------------------------------------
(* Garbage collection.                                                     *)

(* The refs are listed; the reaper has run before.                         *)
CollectList ==
  /\ collector.pc = "idle"
  /\ collector' = [pc |-> "listed", live |-> DOMAIN refs]
  /\ UNCHANGED <<storeVars, sessionVars, liveVars, tags, deleted, purged, partitions, shed>>


Orphans == {v.branch : v \in rows} \ collector.live

(* The branches of the sidecar that were not listed.                       *)
CollectScan ==
  /\ collector.pc = "listed"
  /\ collector' = IF Orphans = {} THEN [pc |-> "idle"]
                  ELSE [pc |-> "delete", live |-> collector.live, orphans |-> Orphans]
  /\ UNCHANGED <<storeVars, sessionVars, liveVars, tags, deleted, purged, partitions, shed>>

(* Their versions go, whatever the branches are by now.                    *)
CollectDelete(b) ==
  /\ collector.pc = "delete" /\ b \in collector.orphans
  /\ rows' = {v \in rows : v.branch # b}
  /\ collector' = IF collector.orphans = {b} THEN [pc |-> "idle"]
                  ELSE [collector EXCEPT !.orphans = @ \ {b}]
  /\ UNCHANGED <<refs, commits, live, lock, req>>
  /\ UNCHANGED <<sessionVars, liveVars, tags, deleted, purged, partitions, shed>>

-----------------------------------------------------------------------------
(* Hard purge: every version of a key, on every branch, staged or not, and *)
(* the live row.  It carries no marker, so a guarded table refuses it.     *)

(* The commits that lose content: a version is of the commit of its number *)
(* on its branch.                                                          *)
CommitsOf(versions) ==
  {c \in DOMAIN commits : \E v \in versions : /\ v.session = NoSession
                                              /\ commits[c].branch = v.branch
                                              /\ commits[c].seq = v.from}

Purgeable(pk) == {v \in rows : v.pk = pk}

Purge(pk) ==
  /\ \E t \in Tables : pk \in t /\ tracking[t] # "untracked"
  /\ MayBypass(pk)
  /\ Purgeable(pk) # {} \/ live[pk] # Absent
  /\ rows' = rows \ Purgeable(pk)
  /\ live' = [live EXCEPT ![pk] = Absent]
  /\ purged' = purged \cup CommitsOf(Purgeable(pk))
  /\ UNCHANGED <<refs, commits, lock, req>>
  /\ UNCHANGED <<sessionVars, liveVars, tags, deleted, collector, partitions, shed>>

-----------------------------------------------------------------------------
(* Partitions of a sidecar: half-open ranges of a branch's numbers.        *)

InRange(v, p) == /\ v.pk \in p.table /\ v.branch = p.branch
                 /\ p.from <= v.from /\ v.from < p.to

(* A range that holds versions already, or overlaps another, is refused.   *)
AddPartition(t, b, from, to) ==
  LET p == [table |-> t, branch |-> b, from |-> from, to |-> to]
  IN  /\ t \in Partitioned /\ tracking[t] # "untracked"
      /\ from < to
      /\ \A v \in rows : ~InRange(v, p)
      /\ \A q \in partitions : q.table = t /\ q.branch = b => q.to <= from \/ to <= q.from
      /\ partitions' = partitions \cup {p}
      /\ UNCHANGED <<storeVars, sessionVars, liveVars, tags, deleted, collector, purged, shed>>

(* A partition is named by its table, its branch and where it starts: the  *)
(* end that the caller names is not looked at.                             *)
DropPartition(p) ==
  /\ p \in partitions
  /\ rows' = {v \in rows : ~InRange(v, p)}
  /\ partitions' = partitions \ {p}
  /\ shed' = shed \cup {v.pk : v \in {w \in rows : InRange(w, p) /\ w.to = MaxSeq}}
  /\ UNCHANGED <<refs, commits, live, lock, req>>
  /\ UNCHANGED <<sessionVars, liveVars, tags, deleted, collector, purged>>
=============================================================================
