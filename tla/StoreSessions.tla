---------------------------- MODULE StoreSessions ----------------------------
(***************************************************************************)
(* Sessions of internal/store: private workspaces on a branch, whose       *)
(* staged versions live in the sidecar next to everybody's, under a lease  *)
(* that a reaper collects.                                                 *)
(*                                                                         *)
(* A call of a client is one transaction: it loads the session, then works *)
(* on what it loaded.  The lease is a flag that the clock sets, and a      *)
(* write that succeeds clears.                                             *)
(***************************************************************************)
EXTENDS BranchStore, FiniteSets

CONSTANTS
  Callers,         \* calls served at the same time
  SharedSessions   \* whether several clients may call on one session at once,
                   \* and a lease may lapse under a call in flight

ASSUME SessionAssumption ==
  /\ SharedSessions \in BOOLEAN
  /\ NoRequest \notin Callers /\ Callers \cap Requests = {}

VARIABLES
  sessions,   \* datagit_session: state, branch, base commit, lease
  calls,      \* what each caller is doing
  reaper      \* the sessions the reaper listed and has yet to collect

sessionVars == <<sessions, calls, reaper>>

NoCall == [pc |-> "idle"]

SessionsInit ==
  /\ sessions = [s \in {} |-> 0]
  /\ calls = [k \in Callers |-> NoCall]
  /\ reaper = [pc |-> "idle", ids |-> {}]

-----------------------------------------------------------------------------
Staged(s) == {v \in rows : v.session = s}

(* What a session sees: its base commit, under its own staged versions.    *)
SessionView(s) ==
  [pk \in PKs |->
     IF \E v \in Staged(s) : v.pk = pk
     THEN (CHOOSE v \in Staged(s) : v.pk = pk).row
     ELSE StateAtCommit(sessions[s].base)[pk]]

OpenSession(s, b) ==
  /\ b # Main
  /\ s \notin DOMAIN sessions
  /\ sessions' = [x \in DOMAIN sessions \cup {s} |->
       IF x = s THEN [state |-> "open", branch |-> b, base |-> refs[b].head,
                      baseSeq |-> refs[b].headSeq, lapsed |-> FALSE]
                ELSE sessions[x]]
  /\ UNCHANGED <<refs, commits, rows, live, lock, calls, reaper>>

(* loadSession: only an open session whose lease runs.                     *)
Usable(s) == sessions[s].state = "open" /\ ~sessions[s].lapsed

Calling(s) == \E k \in Callers : calls[k] # NoCall /\ calls[k].session = s

(* A call loads its session.                                               *)
BeginCall(k, s, call) ==
  /\ calls[k] = NoCall
  /\ Usable(s)
  /\ SharedSessions \/ ~Calling(s)
  /\ calls' = [calls EXCEPT ![k] = call]
  /\ UNCHANGED <<refs, commits, rows, live, lock, sessions, reaper>>

BeginWrite(k, s, changes) ==
  BeginCall(k, s, [pc |-> "write", session |-> s, changes |-> changes])

BeginPublish(k, s, table) ==
  BeginCall(k, s, [pc |-> "publish", session |-> s, table |-> table])

(* The end of a call's transaction, whatever its outcome.                  *)
EndCall(k) == calls' = [calls EXCEPT ![k] = NoCall]

StagedVersion(s, pk, changed, row) ==
  [branch |-> sessions[s].branch, pk |-> pk, from |-> sessions[s].baseSeq + 1,
   to |-> MaxSeq, session |-> s, changed |-> changed, row |-> row]

(* The keys a write stages: the others are as the session sees them.       *)
ToStage(s, changes) == {pk \in DOMAIN changes : changes[pk] # SessionView(s)[pk]}

(* Staged versions share the sidecar's key (branch, key, seq_from) with    *)
(* the versions of the branch and of every other session.                  *)
Blocked(s, keys) ==
  \E v \in rows \ Staged(s) :
    v.branch = sessions[s].branch /\ v.pk \in keys /\ v.from = sessions[s].baseSeq + 1

(* Each staged version is replaced by one that carries the mask of this    *)
(* write alone.  The lease is renewed.                                     *)
SessionWrite(k) ==
  LET s == calls[k].session
      changes == calls[k].changes
      keys == ToStage(s, changes)
  IN  /\ calls[k].pc = "write"
      /\ ~Blocked(s, keys)
      /\ rows' = {v \in rows : ~(v.session = s /\ v.pk \in keys)} \cup
           {StagedVersion(s, pk, MaskOf(SessionView(s)[pk], changes[pk]), changes[pk])
              : pk \in keys}
      /\ sessions' = [sessions EXCEPT ![s].lapsed = FALSE]
      /\ EndCall(k)
      /\ UNCHANGED <<refs, commits, live, lock, reaper>>

-----------------------------------------------------------------------------
(* Publishing.                                                             *)

(* Mutant: the session publishes over whatever its branch became.          *)
StillAtBaseIgnored(s) == TRUE

StillAtBase(s) == refs[sessions[s].branch].head = sessions[s].base

StagedKeys(s, table) == {v.pk : v \in Staged(s)} \cap table

(* Under the ref lock: the branch has not moved, and which keys are staged *)
(* in the table.                                                           *)
PublishRead(k) ==
  LET s == calls[k].session
      b == sessions[s].branch
  IN  /\ calls[k].pc = "publish"
      /\ lock[b] = NoRequest
      /\ StillAtBase(s)
      /\ StagedKeys(s, calls[k].table) # {}
      /\ lock' = [lock EXCEPT ![b] = k]
      /\ calls' = [calls EXCEPT ![k] =
           [pc |-> "stamp", session |-> s, table |-> @.table, ref |-> refs[b],
            keys |-> StagedKeys(s, @.table)]]
      /\ UNCHANGED <<refs, commits, rows, live, sessions, reaper>>

Unlock(k) == lock' = [b \in Branches |-> IF lock[b] = k THEN NoRequest ELSE lock[b]]

(* Close what the listed keys supersede, stamp whatever is staged in the   *)
(* table by now, and record the commit.  The unique key (branch, seq) of   *)
(* datagit_commit refuses a number that an audit-mode commit took.         *)
PublishStamp(k) ==
  LET s == calls[k].session
      b == sessions[s].branch
      seq == calls[k].ref.headSeq + 1
      mine == {v \in Staged(s) : v.pk \in calls[k].table}
      chain == <<Segment(b, seq)>> \o Tail(calls[k].ref.chain)
  IN  /\ calls[k].pc = "stamp"
      /\ ~\E c \in DOMAIN commits : commits[c].branch = b /\ commits[c].seq = seq
      /\ ~Full
      /\ rows' = (CloseOpen(b, calls[k].keys, seq) \ mine) \cup
           {[v EXCEPT !.session = NoSession, !.from = seq] : v \in mine}
      /\ commits' = Append(commits, [first |-> calls[k].ref.head, others |-> {},
                                     branch |-> b, seq |-> seq, chain |-> chain])
      /\ refs' = [refs EXCEPT ![b].head = Len(commits) + 1, ![b].headSeq = seq,
                              ![b].chain = chain]
      /\ sessions' = [sessions EXCEPT ![s].state = "committed"]
      /\ Unlock(k)
      /\ EndCall(k)
      /\ UNCHANGED <<live, reaper>>

(* A call ends without effect: refused (the branch moved, nothing staged,  *)
(* a key taken), given up by its client, or cut off by a crash.            *)
CallFails(k) ==
  /\ calls[k] # NoCall
  /\ Unlock(k)
  /\ EndCall(k)
  /\ UNCHANGED <<refs, commits, rows, live, sessions, reaper>>

(* Abandoning looks at no state: it drops what is staged in the table and  *)
(* overwrites the session's state.                                         *)
AbandonSession(s, table) ==
  /\ SharedSessions \/ ~Calling(s)
  /\ sessions[s].state # "abandoned"
  /\ rows' = {v \in rows : ~(v.session = s /\ v.pk \in table)}
  /\ sessions' = [sessions EXCEPT ![s].state = "abandoned"]
  /\ UNCHANGED <<refs, commits, live, lock, calls, reaper>>

-----------------------------------------------------------------------------
(* Leases.                                                                 *)

LeaseLapses(s) ==
  /\ Usable(s)
  /\ SharedSessions \/ ~Calling(s)
  /\ sessions' = [sessions EXCEPT ![s].lapsed = TRUE]
  /\ UNCHANGED <<refs, commits, rows, live, lock, calls, reaper>>

Expired == {s \in DOMAIN sessions : sessions[s].state = "open" /\ sessions[s].lapsed}

(* The reaper lists the expired sessions, then collects them one by one,   *)
(* each in two statements that look at nothing again.                      *)
ReapList ==
  /\ reaper.pc = "idle" /\ Expired # {}
  /\ reaper' = [pc |-> "rows", ids |-> Expired]
  /\ UNCHANGED <<refs, commits, rows, live, lock, sessions, calls>>

(* Mutant: the reaper forgets the staged versions.                         *)
ReapNoRows(s) ==
  /\ reaper.pc = "rows" /\ s \in reaper.ids
  /\ reaper' = [pc |-> "state", ids |-> reaper.ids, current |-> s]
  /\ UNCHANGED <<refs, commits, rows, live, lock, sessions, calls>>

ReapRows(s) ==
  /\ reaper.pc = "rows" /\ s \in reaper.ids
  /\ rows' = rows \ Staged(s)
  /\ reaper' = [pc |-> "state", ids |-> reaper.ids, current |-> s]
  /\ UNCHANGED <<refs, commits, live, lock, sessions, calls>>

ReapState ==
  /\ reaper.pc = "state"
  /\ sessions' = [sessions EXCEPT ![reaper.current].state = "expired"]
  /\ LET left == reaper.ids \ {reaper.current}
     IN  reaper' = [pc |-> IF left = {} THEN "idle" ELSE "rows", ids |-> left]
  /\ UNCHANGED <<refs, commits, rows, live, lock, calls>>

(* The process dies between two statements of the reaper.                  *)
ReaperDies ==
  /\ reaper.pc # "idle"
  /\ reaper' = [pc |-> "idle", ids |-> {}]
  /\ UNCHANGED <<refs, commits, rows, live, lock, sessions, calls>>
=============================================================================
