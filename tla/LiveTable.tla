------------------------------ MODULE LiveTable ------------------------------
(***************************************************************************)
(* The application's own tables next to the store: how a table is tracked, *)
(* imported and let go, what guards it against writes that bypass the      *)
(* store, and how a large merge writes it in chunks.                       *)
(***************************************************************************)
EXTENDS BranchStore, FiniteSets

CONSTANTS
  AtomicLimit,    \* rows a merge may write in one transaction
  TrackedAtStart  \* the tables tracked, while empty, before the behaviour

ASSUME LiveAssumption ==
  AtomicLimit \in Nat /\ TrackedAtStart \subseteq Tables

VARIABLES
  tracking,   \* datagit_table: the state of every table
  mode,       \* write mode: the trigger on the application's table
  importer,   \* a Track at work
  chunk,      \* what each request that merges in chunks has yet to do
  flagged,    \* branches whose ref carries merge_in_progress
  touched,    \* auxiliary: keys that were written past the store
  debris,     \* auxiliary: keys of chunked merges that failed half way, or
              \* lost their flag to another
  disturbed   \* auxiliary: tables written through the store while imported

liveVars == <<tracking, mode, importer, chunk, flagged, touched, debris, disturbed>>

NoChunk == [pc |-> "idle"]

LiveInit ==
  /\ tracking = [t \in Tables |-> IF t \in TrackedAtStart THEN "active" ELSE "untracked"]
  /\ mode = [t \in Tables |-> "open"]
  /\ importer = [pc |-> "idle"]
  /\ chunk = [r \in Requests |-> NoChunk]
  /\ flagged = {}
  /\ touched = {} /\ debris = {} /\ disturbed = {}

(* The keys of a chunked merge into b that may be half done.               *)
HalfDone(r, b) ==
  IF \/ chunk[r].pc \in {"apply", "commit"} /\ req[r].branch = b
     \/ chunk[r].pc = "refused" /\ chunk[r].into = b
  THEN chunk[r].keys ELSE {}

AllHalfDone(b) == UNION {HalfDone(r, b) : r \in Requests}

-----------------------------------------------------------------------------
(* Tracking.                                                               *)

(* Track, first transaction: the table is registered and has a sidecar.    *)
(* The unique name refuses a second registration.                          *)
Track(t) ==
  /\ tracking[t] = "untracked"
  /\ importer.pc = "idle"
  /\ tracking' = [tracking EXCEPT ![t] = "backfilling"]
  /\ importer' = [pc |-> "registered", table |-> t]
  /\ UNCHANGED <<refs, commits, rows, live, lock, req>>
  /\ UNCHANGED <<mode, chunk, flagged, touched, debris, disturbed>>

(* Second transaction: the default branch's head, as it is now.            *)
ReadHead ==
  /\ importer.pc = "registered"
  /\ importer' = [pc |-> "read", table |-> importer.table, seq |-> refs[Main].headSeq]
  /\ UNCHANGED <<refs, commits, rows, live, lock, req>>
  /\ UNCHANGED <<tracking, mode, chunk, flagged, touched, debris, disturbed>>

(* The keys the import writes: those of live rows, but for a key that has  *)
(* a version of that number already (ON CONFLICT DO NOTHING).              *)
Importable ==
  {pk \in importer.table : /\ live[pk] # Absent
                           /\ ~\E v \in rows : v.branch = Main /\ v.pk = pk
                                                /\ v.from = importer.seq}

(* Then the rows of the live table, as they are now, become versions of    *)
(* that head with an empty mask.                                           *)
Backfill ==
  /\ importer.pc = "read"
  /\ rows' = rows \cup {Version(Main, pk, importer.seq, {}, live[pk]) : pk \in Importable}
  /\ tracking' = [tracking EXCEPT ![importer.table] = "active"]
  /\ importer' = [pc |-> "idle"]
  /\ UNCHANGED <<refs, commits, live, lock, req>>
  /\ UNCHANGED <<mode, chunk, flagged, touched, debris, disturbed>>

(* The process dies: the table stays "backfilling" for ever.               *)
TrackDies ==
  /\ importer.pc # "idle"
  /\ importer' = [pc |-> "idle"]
  /\ UNCHANGED <<refs, commits, rows, live, lock, req>>
  /\ UNCHANGED <<tracking, mode, chunk, flagged, touched, debris, disturbed>>

(* Untrack drops the sidecar and the registration.  Neither the live table *)
(* nor its trigger is touched.  The drop waits for transactions that use   *)
(* the sidecar.                                                            *)
Untrack(t) ==
  /\ tracking[t] # "untracked"
  /\ importer.pc = "read" => importer.table # t
  /\ \A r \in Requests : req[r].pc # "apply" \/ req[r].table # t
  /\ tracking' = [tracking EXCEPT ![t] = "untracked"]
  /\ rows' = {v \in rows : v.pk \notin t}
  /\ touched' = touched \ t
  /\ debris' = debris \ (t \ AllHalfDone(Main)) /\ disturbed' = disturbed \ {t}
  /\ UNCHANGED <<refs, commits, live, lock, req, mode, importer, chunk, flagged>>

-----------------------------------------------------------------------------
(* Writes past the store.                                                  *)

SetWriteMode(t, m) ==
  /\ tracking[t] # "untracked" /\ mode[t] # m
  /\ mode' = [mode EXCEPT ![t] = m]
  /\ UNCHANGED <<refs, commits, rows, live, lock, req>>
  /\ UNCHANGED <<tracking, importer, chunk, flagged, touched, debris, disturbed>>

(* Mutant: the trigger fires but lets every write pass.                    *)
MayBypassAlways(pk) == TRUE

(* A transaction without the store's marker meets the trigger.             *)
MayBypass(pk) == \A t \in Tables : pk \in t => mode[t] # "guarded"

(* The application writes its table itself.                                *)
AppWrite(pk, image) ==
  /\ MayBypass(pk)
  /\ live[pk] # image
  /\ live' = [live EXCEPT ![pk] = image]
  /\ touched' = IF \E t \in Tables : pk \in t /\ tracking[t] = "active" /\ mode[t] # "guarded"
                THEN touched \cup {pk} ELSE touched
  /\ UNCHANGED <<refs, commits, rows, lock, req>>
  /\ UNCHANGED <<tracking, mode, importer, chunk, flagged, debris, disturbed>>

-----------------------------------------------------------------------------
(* Chunked merges.                                                         *)

(* MergeLarge computes the merge first, without applying it.               *)
SubmitLarge(r, from, into, table) ==
  /\ SubmitMerge(r, "large", from, into, table)
  /\ chunk' = [chunk EXCEPT ![r] = [pc |-> "plan", from |-> from, keys |-> {}, left |-> {}]]
  /\ UNCHANGED <<tracking, mode, importer, flagged, touched, debris, disturbed>>

Planned(r) == chunk[r].pc = "plan" /\ req[r].pc = "begin"

(* Within the limit it merges again from the start, in one transaction.    *)
MergeAtOnce(r) ==
  /\ Planned(r)
  /\ Cardinality(DOMAIN req[r].changes) <= AtomicLimit
  /\ req' = [req EXCEPT ![r] =
       [Idle EXCEPT !.pc = "into", !.kind = "merge", !.branch = req[r].branch,
                    !.table = req[r].table, !.source = refs[chunk[r].from]]]
  /\ chunk' = [chunk EXCEPT ![r] = NoChunk]
  /\ UNCHANGED <<refs, commits, rows, live, lock>>
  /\ UNCHANGED <<tracking, mode, importer, flagged, touched, debris, disturbed>>

(* Over it, without leave to merge in chunks, it refuses.                  *)
RefuseLarge(r) ==
  /\ Planned(r)
  /\ Cardinality(DOMAIN req[r].changes) > AtomicLimit
  /\ req' = [req EXCEPT ![r] = Idle]
  /\ chunk' = [chunk EXCEPT ![r] = NoChunk]
  /\ UNCHANGED <<refs, commits, rows, live, lock>>
  /\ UNCHANGED <<tracking, mode, importer, flagged, touched, debris, disturbed>>

RaiseFlag(b) == flagged' = flagged \cup {b}

(* With leave: the source's head is read again, and the ref is flagged in  *)
(* a transaction of its own.                                               *)
BeginChunks(r) ==
  /\ Planned(r)
  /\ Cardinality(DOMAIN req[r].changes) > AtomicLimit
  /\ RaiseFlag(req[r].branch)
  /\ req' = [req EXCEPT ![r].others = {refs[chunk[r].from].head}]
  /\ chunk' = [chunk EXCEPT ![r].pc = "apply", ![r].keys = DOMAIN req[r].changes,
                            ![r].left = DOMAIN req[r].changes]
  /\ UNCHANGED <<refs, commits, rows, live, lock>>
  /\ UNCHANGED <<tracking, mode, importer, touched, debris, disturbed>>

(* One chunk, in a transaction of its own: live rows only, and those of    *)
(* the default branch only.  (Chunks of one key, in any order.)            *)
ApplyChunk(r, pk) ==
  /\ chunk[r].pc = "apply" /\ pk \in chunk[r].left
  /\ ApplyLive(req[r].branch, [k \in {pk} |-> req[r].changes[k]])
  /\ chunk' = [chunk EXCEPT ![r].left = @ \ {pk},
                            ![r].pc = IF chunk[r].left = {pk} THEN "commit" ELSE "apply"]
  /\ UNCHANGED <<refs, commits, rows, lock, req>>
  /\ UNCHANGED <<tracking, mode, importer, flagged, touched, debris, disturbed>>

(* The flag is one for all: who lowers it leaves the other chunked merges  *)
(* into the branch without.                                                *)
LowerFlag(b) == flagged' = flagged \ {b}

(* A chunk fails: the merge is given up, and the flag is lowered all the   *)
(* same.                                                                   *)
ChunkFails(r) ==
  /\ chunk[r].pc = "apply"
  /\ LowerFlag(req[r].branch)
  /\ debris' = debris \cup AllHalfDone(req[r].branch)
  /\ req' = [req EXCEPT ![r] = Idle]
  /\ chunk' = [chunk EXCEPT ![r] = NoChunk]
  /\ UNCHANGED <<refs, commits, rows, live, lock>>
  /\ UNCHANGED <<tracking, mode, importer, touched, disturbed>>

(* The commit that follows the chunks has ended; the flag is lowered.      *)
EndChunks(r) ==
  /\ chunk[r].pc \in {"landed", "refused"}
  /\ LowerFlag(chunk[r].into)
  /\ debris' = debris \cup AllHalfDone(chunk[r].into)
  /\ chunk' = [chunk EXCEPT ![r] = NoChunk]
  /\ UNCHANGED <<refs, commits, rows, live, lock, req>>
  /\ UNCHANGED <<tracking, mode, importer, touched, disturbed>>

(* A commit through the store to a table whose import is not done.         *)
Disturb(r) ==
  disturbed' = disturbed \cup {t \in {req[r].table} : tracking[t] = "backfilling"}

(* What the end of a request's commit means for its chunked merge.         *)
CommitEnds(r, how) ==
  chunk' = [chunk EXCEPT ![r] =
    IF @.pc = "commit" THEN [pc |-> how, into |-> req[r].branch, keys |-> @.keys] ELSE @]

(* A crash, or a client that goes away, leaves the flag as it is.          *)
Forget(r) == chunk' = [chunk EXCEPT ![r] = NoChunk]
=============================================================================
