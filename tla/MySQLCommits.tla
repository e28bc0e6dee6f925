----------------------------- MODULE MySQLCommits -----------------------------
(***************************************************************************)
(* Commits on MySQL.  A transaction reads rows from the snapshot of its    *)
(* first plain read, but the ref under its lock, and whatever it writes,   *)
(* as they are now.  The ref lock is a named lock of the connection, which *)
(* goes back to the pool with it: nothing calls ReleaseRefLock.            *)
(***************************************************************************)
EXTENDS BranchStore

CONSTANTS Connections, NoConnection

VARIABLES
  conn,      \* the connection each request works on
  holder,    \* the connection that holds the named lock of each branch
  snapshot,  \* the versions that each request's transaction sees
  asked      \* auxiliary: for every commit, the changes its client asked for

mysqlVars == <<vars, conn, holder, snapshot, asked>>

MySQLInit ==
  /\ Init
  /\ conn = [r \in Requests |-> NoConnection]
  /\ holder = [b \in Branches |-> NoConnection]
  /\ snapshot = [r \in Requests |-> {}]
  /\ asked = <<[pk \in {} |-> Absent]>>

-----------------------------------------------------------------------------
(* The store as r's transaction sees it.                                   *)
View(r) == INSTANCE BranchStore WITH rows <- snapshot[r]

(* The row that the resolution query finds for a key, on the chain of the  *)
(* ref under the lock.                                                     *)
Seen(r, pk) == View(r)!CurrentRow(req[r].ref.chain, pk)

Idling(c) == \A r \in Requests : conn[r] # c

(* The transaction takes a connection from the pool, and the snapshot of   *)
(* the read that looks the branch up.                                      *)
Begin(r) ==
  /\ req[r].pc = "begin" /\ conn[r] = NoConnection
  /\ \E c \in Connections : Idling(c) /\ conn' = [conn EXCEPT ![r] = c]
  /\ snapshot' = [snapshot EXCEPT ![r] = rows]
  /\ UNCHANGED <<vars, holder, asked>>

(* GET_LOCK, which a connection that has the lock gets again; then the ref *)
(* as it is now.                                                           *)
AcquireRefLock(r) ==
  LET b == req[r].branch
  IN  /\ req[r].pc = "begin" /\ conn[r] # NoConnection
      /\ holder[b] \in {NoConnection, conn[r]}
      /\ holder' = [holder EXCEPT ![b] = conn[r]]
      /\ req' = [req EXCEPT ![r].pc = "apply", ![r].ref = refs[b]]
      /\ UNCHANGED <<refs, commits, rows, live, lock, conn, snapshot, asked>>

(* The end of a transaction: its connection keeps its locks.               *)
EndTx(r) ==
  /\ req' = [req EXCEPT ![r] = Idle]
  /\ conn' = [conn EXCEPT ![r] = NoConnection]
  /\ snapshot' = [snapshot EXCEPT ![r] = {}]
  /\ UNCHANGED lock

(* GET_LOCK gives up after ten seconds.                                    *)
LockTimesOut(r) ==
  /\ req[r].pc = "begin" /\ conn[r] # NoConnection
  /\ holder[req[r].branch] \notin {NoConnection, conn[r]}
  /\ EndTx(r)
  /\ UNCHANGED <<refs, commits, rows, live, holder, asked>>

Writes(r) == {pk \in DOMAIN req[r].changes : req[r].changes[pk] # Seen(r, pk)}

Refused(r) ==
  \/ Moved(r) \/ Full
  \/ \E v \in rows : v.branch = req[r].branch /\ v.from = NextSeq(r) /\ v.pk \in Writes(r)

RefuseCommit(r) ==
  /\ req[r].pc = "apply" /\ Refused(r)
  /\ EndTx(r)
  /\ UNCHANGED <<refs, commits, rows, live, holder, asked>>

(* The commit itself: no-ops and masks by what the transaction sees.       *)
LandCommit(r) ==
  LET b == req[r].branch
      seq == NextSeq(r)
      changes == [pk \in Writes(r) |-> req[r].changes[pk]]
      chain == <<Segment(b, seq)>> \o Tail(req[r].ref.chain)
  IN  /\ req[r].pc = "apply" /\ ~Refused(r)
      /\ ApplyLive(b, changes)
      /\ rows' = CloseOpen(b, DOMAIN changes, seq) \cup
           {Version(b, pk, seq, MaskOf(Seen(r, pk), changes[pk]), changes[pk])
              : pk \in DOMAIN changes}
      /\ commits' = Append(commits,
           [first |-> req[r].ref.head, others |-> {}, branch |-> b, seq |-> seq,
            chain |-> chain])
      /\ refs' = [refs EXCEPT ![b].head = Len(commits) + 1, ![b].headSeq = seq,
                              ![b].chain = chain]
      /\ asked' = Append(asked, req[r].changes)
      /\ EndTx(r)
      /\ UNCHANGED holder

(* The pool closes an idle connection, past its lifetime or one too many;  *)
(* the server frees its locks.                                             *)
ConnectionCloses(c) ==
  /\ Idling(c) /\ \E b \in Branches : holder[b] = c
  /\ holder' = [b \in Branches |-> IF holder[b] = c THEN NoConnection ELSE holder[b]]
  /\ UNCHANGED <<vars, conn, snapshot, asked>>

(* A client that goes away takes its connection with it.                   *)
ClientLeaves(r) ==
  /\ conn[r] # NoConnection
  /\ holder' = [b \in Branches |-> IF holder[b] = conn[r] THEN NoConnection ELSE holder[b]]
  /\ EndTx(r)
  /\ UNCHANGED <<refs, commits, rows, live, asked>>

MySQLNext ==
  \/ \E r \in Requests, b \in DOMAIN refs, changes \in ChangeSets :
       SubmitCommit(r, b, changes, 0) /\ UNCHANGED <<conn, holder, snapshot, asked>>
  \/ \E n \in Branches, from \in DOMAIN refs :
       CreateBranch(n, from) /\ UNCHANGED <<conn, holder, snapshot, asked>>
  \/ \E r \in Requests : \/ Begin(r) \/ AcquireRefLock(r) \/ LockTimesOut(r)
                         \/ RefuseCommit(r) \/ LandCommit(r) \/ ClientLeaves(r)
  \/ \E c \in Connections : ConnectionCloses(c)

MySQLSpec == MySQLInit /\ [][MySQLNext]_mysqlVars

-----------------------------------------------------------------------------
(* A commit shows what its client asked for: the head is read again under  *)
(* the lock since it "may have moved while we queued" (store.go:398), and  *)
(* no key of the change set is skipped that the new head does not already  *)
(* show (store.go:421-443).                                                *)
CommitsShowChanges ==
  \A c \in DOMAIN asked, pk \in PKs :
    pk \in DOMAIN asked[c] => StateAtCommit(c)[pk] = asked[c][pk]
=============================================================================
