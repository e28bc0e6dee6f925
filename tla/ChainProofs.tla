---------------------------- MODULE ChainProofs ----------------------------
(***************************************************************************)
(* What reads and merges make of the stored chains, whatever requests run  *)
(* at a time.                                                              *)
(*                                                                         *)
(* The default branch inherits nothing: its chain is its own segment, the  *)
(* versions of a key in it follow one another without a gap, and commit    *)
(* and number determine one another.  Diffs and blame look at nothing else *)
(* and are right (read.go:303-427).                                        *)
(*                                                                         *)
(* Two chains that have the same edits of a column behind them show the    *)
(* same value of it (Alike).  Commits, merges and forks keep that; an      *)
(* update does not (run StoreMergeRace), hence NoUpdates.  So the masks    *)
(* between a branch and a commit name every column in which they differ,   *)
(* and a merge that looks at these only loses no edit (merge.go:300-314).  *)
(*                                                                         *)
(* A merge commit therefore holds the merge of whole states of its parents *)
(* over their base, as long as nothing moves its branch between its plan   *)
(* and its commit, and it merges all there is (merge.go:49-176).           *)
(***************************************************************************)
EXTENDS BranchStoreProofs, StoreReads


-----------------------------------------------------------------------------
(* The default branch inherits nothing: its chain is its own segment, and  *)
(* a version that was closed has a successor.                              *)

Linked(store) ==
  \A v \in store :
    /\ v.from < v.to
    /\ v.to # MaxSeq => \E w \in store : w.branch = v.branch /\ w.pk = v.pk /\ w.from = v.to

MainInv ==
  /\ LiveInv /\ Linked(rows)
  /\ refs[Main].chain = <<Segment(Main, refs[Main].headSeq)>>
  /\ \A c \in On(Main) : /\ commits[c].chain = <<Segment(Main, commits[c].seq)>>
                         /\ commits[c].seq = 1 => commits[c].first = 1
  /\ 1 \in DOMAIN commits /\ commits[1].branch = Main /\ commits[1].seq = 0

(* A new repository (store.go:146-184).                                    *)
LEMMA MainInit == Init => MainInv
<1> SUFFICES ASSUME Init PROVE MainInv
  OBVIOUS
<1>1. /\ refs[Main].chain = <<Segment(Main, 0)>> /\ refs[Main].headSeq = 0
      /\ rows = {} /\ commits = <<RootCommit>>
  BY DEF Init
<1>2. /\ DOMAIN commits = {1} /\ commits[1] = RootCommit
  BY <1>1
<1>3. /\ RootCommit.branch = Main /\ RootCommit.seq = 0
      /\ RootCommit.chain = <<Segment(Main, 0)>>
  BY DEF RootCommit
<1>4. Linked(rows)
  BY <1>1 DEF Linked
<1>5. \A c \in On(Main) : /\ commits[c].chain = <<Segment(Main, commits[c].seq)>>
                         /\ commits[c].seq # 1
  BY <1>2, <1>3 DEF On
<1> QED
  BY <1>1, <1>2, <1>3, <1>4, <1>5, LiveInvInit DEF MainInv

(* A commit closes a version at the number of the one that replaces it     *)
(* (store.go:555-596).                                                     *)
LEMMA LandLinks ==
  ASSUME HistoryInv, Linked(rows), NEW r \in Requests, Land(r)
  PROVE  Linked(rows')
<1> DEFINE b == req[r].branch
           seq == NextSeq(r)
           keys == Effective(r)
           close(v) == Closed(v, b, keys, seq)
<1>1. /\ b \in DOMAIN refs /\ refs[b].headSeq \in Nat
      /\ seq = refs[b].headSeq + 1 /\ seq < MaxSeq /\ MaxSeq \in Nat
  BY LandSeq
<1>2. /\ rows' = {close(x) : x \in rows} \cup {Written(r, pk) : pk \in keys}
      /\ \A x \in rows : /\ close(x).branch = x.branch /\ close(x).pk = x.pk
                         /\ close(x).from = x.from
                         /\ close(x).to = IF x.branch = b /\ x.pk \in keys /\ x.to = MaxSeq
                                          THEN seq ELSE x.to
      /\ \A pk \in keys : /\ Written(r, pk).branch = b /\ Written(r, pk).pk = pk
                          /\ Written(r, pk).from = seq /\ Written(r, pk).to = MaxSeq
  BY LandVersions
<1> HIDE DEF seq, keys, close
<1>3. ASSUME NEW v \in rows
      PROVE  /\ close(v).from < close(v).to
             /\ close(v).to # MaxSeq =>
                  \E w \in rows' : w.branch = close(v).branch /\ w.pk = close(v).pk
                                   /\ w.from = close(v).to
  <2>1. /\ v.from \in Nat /\ v.to \in Nat /\ v.from <= refs[v.branch].headSeq
        /\ refs[v.branch].headSeq \in Nat
    BY VersionNumbers
  <2>2. CASE v.branch = b /\ v.pk \in keys /\ v.to = MaxSeq
    <3>1. close(v).to = seq /\ v.from < seq
      BY <1>1, <1>2, <2>1, <2>2
    <3>2. Written(r, v.pk) \in rows'
      BY <1>2, <2>2
    <3> QED
      BY <1>2, <2>2, <3>1, <3>2
  <2>3. CASE ~(v.branch = b /\ v.pk \in keys /\ v.to = MaxSeq)
    <3>1. close(v).to = v.to /\ v.from < v.to
      BY <1>2, <2>3 DEF Linked
    <3>2. CASE v.to # MaxSeq
      <4>1. PICK w \in rows : w.branch = v.branch /\ w.pk = v.pk /\ w.from = v.to
        BY <3>2 DEF Linked
      <4>2. close(w) \in rows'
        BY <1>2
      <4> QED
        BY <1>2, <3>1, <4>1, <4>2
    <3> QED
      BY <1>2, <3>1, <3>2
  <2> QED
    BY <2>2, <2>3
<1>4. \A pk \in keys : Written(r, pk).from < Written(r, pk).to
  BY <1>1, <1>2
<1>5. ASSUME NEW v \in rows'
      PROVE  /\ v.from < v.to
             /\ v.to # MaxSeq => \E w \in rows' : w.branch = v.branch /\ w.pk = v.pk
                                                   /\ w.from = v.to
  <2>1. CASE \E x \in rows : v = close(x)
    BY <1>3, <2>1
  <2>2. CASE \E pk \in keys : v = Written(r, pk)
    BY <1>2, <1>4, <2>2
  <2> QED
    BY <1>2, <2>1, <2>2
<1> QED
  BY <1>5 DEF Linked

(* Every step keeps the invariant.                                         *)
LEMMA MainNext == MainInv /\ [Next]_vars => MainInv'
<1> SUFFICES ASSUME MainInv, [Next]_vars PROVE MainInv'
  OBVIOUS
<1>1. LiveInv' /\ LiveInv /\ HistoryInv /\ Inv /\ Main \in DOMAIN refs
  BY LiveNext DEF MainInv, LiveInv, HistoryInv, Inv, TypeOK
<1>2. CASE UNCHANGED <<commits, rows, refs[Main]>>
  <2>1. On(Main)' = On(Main)
    BY <1>2 DEF On
  <2> QED
    BY <1>1, <1>2, <2>1 DEF MainInv
<1>3. ASSUME NEW r \in Requests, Land(r) PROVE MainInv'
  <2>1. PICK b, id : /\ b = req[r].branch /\ id = Len(commits) + 1 /\ id \in Nat
                     /\ b \in DOMAIN refs
                     /\ req[r].ref.headSeq = refs[b].headSeq
                     /\ NextSeq(r) = refs[b].headSeq + 1
    <3>1. Len(commits) + 1 \in Nat
      BY <1>1, <1>3, LandSeq
    <3> QED
      BY <1>1, <1>3, <3>1, LandSeq
  <2>2. /\ DOMAIN commits' = DOMAIN commits \cup {id} /\ id \notin DOMAIN commits
        /\ \A c \in DOMAIN commits : commits'[c] = commits[c]
        /\ commits'[id].branch = b /\ commits'[id].seq = refs[b].headSeq + 1
        /\ refs'[b].headSeq = refs[b].headSeq + 1
        /\ \A a \in DOMAIN refs \ {b} : refs'[a] = refs[a]
    BY <1>1, <1>3, <2>1, LandRefs
  <2>3. /\ commits'[id].chain = <<Segment(b, NextSeq(r))>> \o Tail(req[r].ref.chain)
        /\ refs'[b].chain = commits'[id].chain
    BY <1>1, <1>3, <2>1, LandChain
  <2>4. b = Main => commits'[id].chain = <<Segment(Main, commits'[id].seq)>>
    <3>1. OnMain(req[r], refs[Main]) /\ req[r].pc = "apply"
      BY <1>1, <1>3 DEF LiveInv, Land
    <3>2. ASSUME b = Main PROVE commits'[id].chain = <<Segment(Main, NextSeq(r))>>
      <4>1. req[r].ref.chain = <<Segment(Main, refs[Main].headSeq)>>
        BY <2>1, <3>1, <3>2 DEF OnMain, MainInv
      <4>2. Tail(req[r].ref.chain) = <<>>
        BY <4>1
      <4>3. commits'[id].chain = <<Segment(Main, NextSeq(r))>> \o <<>>
        BY <2>3, <3>2, <4>2
      <4>4. <<Segment(Main, NextSeq(r))>> \o <<>> = <<Segment(Main, NextSeq(r))>>
        OBVIOUS
      <4> QED
        BY <4>3, <4>4
    <3> QED
      BY <2>1, <2>2, <3>2
  <2>5. Linked(rows')
    BY <1>1, <1>3, LandLinks DEF MainInv
  <2>6. refs'[Main].chain = <<Segment(Main, refs'[Main].headSeq)>>
    <3>1. CASE b = Main
      BY <2>2, <2>3, <2>4, <3>1
    <3>2. CASE b # Main
      BY <1>1, <2>2, <3>2 DEF MainInv
    <3> QED
      BY <3>1, <3>2
  <2>7. ASSUME NEW c \in On(Main)'
        PROVE  /\ commits'[c].chain = <<Segment(Main, commits'[c].seq)>>
               /\ commits'[c].seq = 1 => commits'[c].first = 1
    <3>1. c \in DOMAIN commits' /\ commits'[c].branch = Main
      BY DEF On
    <3>2. CASE c = id
      <4>1. ASSUME commits'[c].seq = 1 PROVE commits'[c].first = 1
        <5>1. b = Main /\ commits'[c].first = refs[b].head
          BY <1>1, <1>3, <2>1, <2>2, <3>1, <3>2, LandRefs
        <5>2. refs[b].headSeq \in Nat
          BY <1>1, <2>1 DEF Inv, TypeOK, RefType
        <5>3. refs[b].headSeq = 0
          BY <2>2, <3>2, <4>1, <5>2
        <5>4. 1 \in On(Main) /\ commits[1].seq = 0
          BY DEF On, MainInv
        <5>5. refs[Main].head = 1
          BY <1>1, <5>1, <5>3, <5>4 DEF Inv, LinearHistory
        <5> QED
          BY <5>1, <5>5
      <4> QED
        BY <2>2, <2>4, <3>1, <3>2, <4>1
    <3>3. CASE c # id
      BY <2>2, <3>1, <3>3 DEF On, MainInv
    <3> QED
      BY <3>2, <3>3
  <2>8. 1 \in DOMAIN commits' /\ commits'[1].branch = Main /\ commits'[1].seq = 0
    BY <2>2 DEF MainInv
  <2> QED
    BY <1>1, <2>5, <2>6, <2>7, <2>8 DEF MainInv
<1>4. ASSUME NEW r \in Requests, Advance(r) PROVE refs'[Main] = refs[Main]
  BY <1>1, <1>4 DEF Advance, LiveInv, OnMain
<1>5. ASSUME NEW n, NEW from, CreateBranch(n, from) PROVE refs'[Main] = refs[Main]
  BY <1>1, <1>5 DEF CreateBranch
<1>6. ASSUME UNCHANGED <<commits, rows>>, ~\E r \in Requests : Land(r)
      PROVE  refs'[Main] = refs[Main]
  <2>1. CASE UNCHANGED vars
    BY <2>1 DEF vars
  <2>2. ASSUME NEW r \in Requests, Submit(r) PROVE refs' = refs
    BY <2>2 DEF Submit, SubmitCommit, SubmitUpdate, SubmitMerge
  <2>3. ASSUME NEW r \in Requests, Step(r), ~Advance(r) PROVE refs' = refs
    BY <1>6, <2>3 DEF Step, Lock, ReadUnlocked, Refuse, PlanMerge, ReadParent, ReadChild
  <2>4. ASSUME NEW r \in Requests, Crash(r) PROVE refs' = refs
    BY <2>4 DEF Crash
  <2> QED
    BY <1>4, <1>5, <1>6, <2>1, <2>2, <2>3, <2>4 DEF Next
<1> QED
  BY <1>2, <1>3, <1>6, OnlyLandWrites

(* The versions of a key that the default branch shows at a number.        *)
MainAt(n, pk) ==
  {v \in rows : /\ v.pk = pk /\ v.branch = Main /\ v.session = NoSession
                /\ v.from <= n /\ n < v.to}

(* What one segment shows is what its only hit, if any, shows              *)
(* (read.go:87-119).                                                       *)
LEMMA RowAt ==
  ASSUME HistoryInv, NEW n \in Nat, NEW pk
  PROVE  /\ MainAt(n, pk) = {} => RowIn(rows, <<Segment(Main, n)>>, pk) = Absent
         /\ \A v \in MainAt(n, pk) : RowIn(rows, <<Segment(Main, n)>>, pk) = v.row
<1> DEFINE chain == <<Segment(Main, n)>>
<1>1. Segment(Main, n) \in SegmentType /\ Segment(Main, n).branch = Main /\ Segment(Main, n).seq = n
  BY StoreAssumption DEF Segment, SegmentType
<1>2. chain \in ChainType /\ DOMAIN chain = {1} /\ chain[1] = Segment(Main, n)
  BY <1>1 DEF ChainType
<1> HIDE DEF chain
<1>3. HitsIn(rows, chain, 1, pk) = MainAt(n, pk)
  BY <1>1, <1>2 DEF HitsIn, MainAt
<1>4. \A j \in 1 .. 1 - 1 : HitsIn(rows, chain, j, pk) = {}
  OBVIOUS
<1>5. FirstIn(rows, chain, pk) = MainAt(n, pk)
  BY <1>2, <1>3, <1>4 DEF FirstIn
<1>6. rows \in SUBSET VersionType /\ ApartIn(rows)
  BY DEF HistoryInv, Inv, TypeOK, VersionsApart
<1>7. ASSUME NEW v \in MainAt(n, pk) PROVE RowIn(rows, chain, pk) = v.row
  <2>1. (CHOOSE x \in FirstIn(rows, chain, pk) : TRUE) = v
    BY <1>2, <1>5, <1>6, OneHit
  <2> QED
    BY <1>5, <2>1 DEF RowIn
<1>8. MainAt(n, pk) = {} => RowIn(rows, chain, pk) = Absent
  BY <1>5 DEF RowIn
<1> QED
  BY <1>7, <1>8 DEF chain

(* The commit of the default branch at a number: it exists, it is the only *)
(* one, and it records the branch at that number.                          *)
LEMMA CommitOfNumber ==
  ASSUME MainInv, NEW n \in 0 .. refs[Main].headSeq
  PROVE  /\ CommitAt(Main, n) \in On(Main) /\ commits[CommitAt(Main, n)].seq = n
         /\ \A c \in On(Main) : commits[c].seq = n => c = CommitAt(Main, n)
         /\ StateAtCommit(CommitAt(Main, n))
              = [pk \in PKs |-> RowIn(rows, <<Segment(Main, n)>>, pk)]
<1>1. LinearHistory /\ Main \in DOMAIN refs /\ refs[Main].headSeq \in Nat
  BY DEF MainInv, LiveInv, HistoryInv, Inv, TypeOK, RefType
<1>2. \E c \in On(Main) : commits[c].seq = n
  <2>1. CASE n = 0
    BY <2>1 DEF MainInv, On
  <2>2. CASE n # 0
    <3>1. n \in {commits[c].seq : c \in On(Main)} \cup {0}
      BY <1>1 DEF LinearHistory
    <3> QED
      BY <2>2, <3>1
  <2> QED
    BY <2>1, <2>2
<1> DEFINE d == CommitAt(Main, n)
<1>3. d \in On(Main) /\ commits[d].seq = n
  BY <1>2 DEF CommitAt
<1>4. \A c \in On(Main) : commits[c].seq = n => c = d
  BY <1>1, <1>3 DEF LinearHistory
<1>5. commits[d].chain = <<Segment(Main, n)>>
  BY <1>3 DEF MainInv
<1> HIDE DEF d
<1>6. StateAtCommit(d) = [pk \in PKs |-> RowIn(rows, commits[d].chain, pk)]
  BY StateIn
<1>7. StateAtCommit(d) = [pk \in PKs |-> RowIn(rows, <<Segment(Main, n)>>, pk)]
  BY <1>5, <1>6
<1> QED
  BY <1>3, <1>4, <1>7 DEF d

(* A key without a version numbered in a range shows the same row at both  *)
(* ends of it (read.go:369-427).                                           *)
LEMMA UntouchedKeeps ==
  ASSUME MainInv, NEW from \in 0 .. refs[Main].headSeq, NEW to \in 0 .. refs[Main].headSeq,
         from <= to, NEW pk \in PKs \ Touched(Main, from, to)
  PROVE  RowIn(rows, <<Segment(Main, from)>>, pk) = RowIn(rows, <<Segment(Main, to)>>, pk)
<1>1. /\ HistoryInv /\ Linked(rows) /\ Main \in DOMAIN refs /\ refs[Main].headSeq \in Nat
      /\ HeadsBounded /\ from \in Nat /\ to \in Nat
  BY DEF MainInv, LiveInv, HistoryInv, Inv, TypeOK, RefType
<1>2. refs[Main].headSeq < MaxSeq
  <2>1. commits \in Seq(CommitType)
    BY <1>1 DEF HistoryInv, Inv, TypeOK
  <2>2. Len(commits) \in Nat
    BY <2>1
  <2> QED
    BY <1>1, <2>2, StoreAssumption DEF HeadsBounded
<1>3. MaxSeq \in Nat
  BY StoreAssumption
<1>4. ~\E v \in rows : /\ v.branch = Main /\ v.session = NoSession /\ v.pk = pk
                       /\ from < v.from /\ v.from <= to
  BY DEF Touched, History
<1>5. ASSUME NEW v \in MainAt(to, pk) PROVE v \in MainAt(from, pk)
  <2>1. v.from \in Nat /\ v.to \in Nat
    BY <1>1, VersionNumbers DEF MainAt
  <2>2. v.from <= from
    BY <1>1, <1>4, <2>1 DEF MainAt
  <2>3. from < v.to
    BY <1>1, <2>1 DEF MainAt
  <2> QED
    BY <2>2, <2>3 DEF MainAt
<1>6. ASSUME NEW v \in MainAt(from, pk) PROVE v \in MainAt(to, pk)
  <2>1. v \in rows /\ v.from \in Nat /\ v.to \in Nat
    BY <1>1, VersionNumbers DEF MainAt
  <2>2. v.from <= to
    BY <1>1, <2>1 DEF MainAt
  <2>3. ASSUME ~(to < v.to) PROVE FALSE
    <3>1. v.to <= to /\ v.to # MaxSeq
      BY <1>1, <1>2, <1>3, <2>1, <2>3
    <3>2. PICK w \in rows : w.branch = v.branch /\ w.pk = v.pk /\ w.from = v.to
      BY <1>1, <2>1, <3>1 DEF Linked
    <3>3. w.session = NoSession /\ from < w.from /\ w.from <= to /\ w.branch = Main /\ w.pk = pk
      BY <1>1, <3>1, <3>2, VersionNumbers DEF MainAt
    <3> QED
      BY <1>4, <3>3
  <2> QED
    BY <2>2, <2>3 DEF MainAt
<1>7. MainAt(from, pk) = MainAt(to, pk)
  BY <1>5, <1>6
<1> QED
  BY <1>1, <1>7, RowAt

(* The branch's stored chain with its own segment at a number.             *)
LEMMA MainAtSeq ==
  ASSUME MainInv, NEW n \in Nat
  PROVE  ChainAtSeq(Main, n) = <<Segment(Main, n)>>
<1>1. refs[Main].chain = <<Segment(Main, refs[Main].headSeq)>>
  BY DEF MainInv
<1>2. Segment(Main, refs[Main].headSeq).branch = Main
  BY DEF Segment
<1> QED
  BY <1>1, <1>2 DEF ChainAtSeq

(* The keys without a version in between keep their row, the others are in *)
(* the diff (read.go:369-427).                                             *)
LEMMA DiffIsExact == MainInv => DiffExact
<1> SUFFICES ASSUME MainInv, NEW from \in 0 .. refs[Main].headSeq,
                    NEW to \in 0 .. refs[Main].headSeq, from <= to
             PROVE  StateAtCommit(CommitAt(Main, to)) =
                      LET entries == Diff(Main, from, to)
                      IN  Apply(StateAtCommit(CommitAt(Main, from)),
                                [pk \in {e.pk : e \in entries} |->
                                   (CHOOSE e \in entries : e.pk = pk).after])
  BY DEF DiffExact
<1> DEFINE before(pk) == RowIn(rows, <<Segment(Main, from)>>, pk)
           after(pk) == RowIn(rows, <<Segment(Main, to)>>, pk)
           entry(pk) == [pk |-> pk, before |-> before(pk), after |-> after(pk)]
           keys == {k \in Touched(Main, from, to) : before(k) # after(k)}
           entries == Diff(Main, from, to)
           changes == [pk \in {e.pk : e \in entries} |->
                         (CHOOSE e \in entries : e.pk = pk).after]
<1>0. from \in Nat /\ to \in Nat
  BY DEF MainInv, LiveInv, HistoryInv, Inv, TypeOK, RefType
<1>1. /\ StateAtCommit(CommitAt(Main, from)) = [pk \in PKs |-> before(pk)]
      /\ StateAtCommit(CommitAt(Main, to)) = [pk \in PKs |-> after(pk)]
  BY CommitOfNumber
<1>2. \A pk : /\ CurrentRow(ChainAtSeq(Main, from), pk) = before(pk)
              /\ CurrentRow(ChainAtSeq(Main, to), pk) = after(pk)
  BY <1>0, MainAtSeq, CurrentRowIn
<1>3. entries = {entry(pk) : pk \in keys}
  BY <1>2 DEF Diff
<1>4. \A pk \in PKs : pk \notin keys => before(pk) = after(pk)
  BY UntouchedKeeps
<1> HIDE DEF before, after, entries, keys
<1>5. \A pk : entry(pk).pk = pk /\ entry(pk).after = after(pk)
  OBVIOUS
<1> HIDE DEF entry
<1>6. {e.pk : e \in entries} = keys
  BY <1>3, <1>5
<1>7. ASSUME NEW pk \in keys PROVE (CHOOSE e \in entries : e.pk = pk).after = after(pk)
  <2>1. \A e \in entries : e.pk = pk => e = entry(pk)
    BY <1>3, <1>5
  <2>2. entry(pk) \in entries
    BY <1>3
  <2>3. (CHOOSE e \in entries : e.pk = pk) = entry(pk)
    BY <1>5, <2>1, <2>2
  <2> QED
    BY <1>5, <2>3
<1>8. DOMAIN changes = keys /\ \A pk \in keys : changes[pk] = after(pk)
  BY <1>6, <1>7
<1> HIDE DEF changes
<1>9. Apply([pk \in PKs |-> before(pk)], changes) = [pk \in PKs |-> after(pk)]
  BY <1>4, <1>8 DEF Apply
<1> QED
  BY <1>1, <1>9 DEF entries, changes

(* A diff of the default branch is complete and nothing else, whatever     *)
(* requests commit, merge, update and fork at the same time                *)
(* (read.go:369-427).                                                      *)
THEOREM DiffsAreExact == Spec => []DiffExact
<1>1. Spec => []MainInv
  BY MainInit, MainNext, PTL DEF Spec
<1> QED
  BY <1>1, DiffIsExact, PTL

-----------------------------------------------------------------------------
(* Blame.                                                                  *)

(* The default branch's versions of a key, one after the other.            *)
LEMMA InTurn ==
  ASSUME MainInv, NEW pk, NEW v \in History(Main, pk), NEW w \in History(Main, pk),
         v.from <= w.from
  PROVE  v = w \/ v.to <= w.from
<1>1. HistoryInv /\ Linked(rows) /\ ApartIn(rows)
  BY DEF MainInv, LiveInv, HistoryInv, VersionsApart
<1>2. /\ v \in rows /\ w \in rows /\ v.branch = w.branch /\ v.pk = w.pk
      /\ v.from \in Nat /\ v.to \in Nat /\ w.from \in Nat /\ w.to \in Nat
      /\ v.from < v.to /\ w.from < w.to
  BY <1>1, VersionNumbers DEF History, Linked
<1>3. v = w \/ v.to <= w.from \/ w.to <= v.from
  BY <1>1, <1>2 DEF ApartIn
<1> QED
  BY <1>2, <1>3

(* A key that has a row now: its newest version gives it.                  *)
LEMMA NewestShown ==
  ASSUME MainInv, NEW pk,
         RowIn(rows, <<Segment(Main, refs[Main].headSeq)>>, pk) # Absent
  PROVE  /\ Newest(History(Main, pk)) \in History(Main, pk)
         /\ Newest(History(Main, pk)).row
              = RowIn(rows, <<Segment(Main, refs[Main].headSeq)>>, pk)
<1> DEFINE n == refs[Main].headSeq
           all == History(Main, pk)
<1>1. HistoryInv /\ n \in Nat
  BY DEF MainInv, LiveInv, HistoryInv, Inv, TypeOK, RefType
<1>2. MainAt(n, pk) # {}
  BY <1>1, RowAt
<1>3. PICK v : v \in MainAt(n, pk)
  BY <1>2
<1>4. v \in all /\ v.row = RowIn(rows, <<Segment(Main, n)>>, pk)
  BY <1>1, <1>3, RowAt DEF MainAt, History
<1>5. ASSUME NEW w \in all PROVE w.from <= v.from
  <2>1. /\ w.from \in Nat /\ v.from \in Nat /\ w.from <= n /\ v.to \in Nat
    BY <1>1, <1>4, VersionNumbers DEF History
  <2>2. n < v.to
    BY <1>3 DEF MainAt
  <2>3. ~(w.from <= v.from) => v = w \/ v.to <= w.from
    BY <1>4, <2>1, InTurn
  <2> QED
    BY <1>1, <2>1, <2>2, <2>3
<1>6. ASSUME NEW w \in all, \A x \in all : x.from <= w.from PROVE w = v
  <2>1. v.from <= w.from /\ w.from <= v.from
    BY <1>4, <1>5, <1>6
  <2>2. /\ v.from \in Nat /\ w.from \in Nat /\ v.to \in Nat /\ v.from < v.to
    BY <1>1, <1>4, VersionNumbers DEF History, MainInv, Linked
  <2>3. v = w \/ v.to <= w.from
    BY <1>4, <2>1, InTurn
  <2> QED
    BY <2>1, <2>2, <2>3
<1>7. Newest(all) = v
  BY <1>4, <1>5, <1>6 DEF Newest
<1> QED
  BY <1>4, <1>7

(* The version that blame names: it holds the value of now, and the        *)
(* version that it replaced, if any, does not (read.go:303-347).           *)
LEMMA BlameVersion ==
  ASSUME MainInv, NEW pk, NEW c, NEW now, now # Absent,
         now = RowIn(rows, <<Segment(Main, refs[Main].headSeq)>>, pk)
  PROVE  LET v == Blame(Main, pk, c)
         IN  /\ v \in History(Main, pk) /\ v.row # Absent /\ Get(v.row, c) = Get(now, c)
             /\ \A u \in History(Main, pk) :
                  u.to = v.from => u.row = Absent \/ Get(u.row, c) # Get(now, c)
<1> DEFINE all == History(Main, pk)
           current == Newest(all)
           holds(v) == v.row # Absent /\ Get(v.row, c) = Get(current.row, c)
           run == {v \in all : \A w \in all : w.from >= v.from => holds(w)}
           v == CHOOSE v \in run : \A w \in run : v.from <= w.from
<1>1. current \in all /\ current.row = now
  BY NewestShown
<1>2. HistoryInv /\ Linked(rows)
  BY DEF MainInv, LiveInv
<1>3. \A x \in all : x \in rows /\ x.from \in Nat /\ x.to \in Nat /\ x.from < x.to
  BY <1>2, VersionNumbers DEF History, Linked
<1>4. current \in run
  <2>1. \A x \in all : x.from >= current.from => x = current
    <3> SUFFICES ASSUME NEW x \in all, x.from >= current.from PROVE x = current
      OBVIOUS
    <3>1. current.row = now /\ now # Absent
      BY <1>1
    <3>2. \A y \in all : y.from <= current.from
      <4>1. \E y \in all : \A z \in all : z.from <= y.from
        <5> DEFINE n == refs[Main].headSeq
        <5>1. n \in Nat
          BY <1>2 DEF HistoryInv, Inv, TypeOK, RefType
        <5>2. PICK y : y \in MainAt(n, pk)
          BY <1>2, <5>1, RowAt
        <5>3. y \in all /\ n < y.to
          BY <5>2 DEF MainAt, History
        <5>4. ASSUME NEW z \in all PROVE z.from <= y.from
          <6>1. z.from <= n /\ z.from \in Nat /\ y.from \in Nat /\ y.to \in Nat
            BY <1>2, <5>3, VersionNumbers DEF History
          <6>2. ~(z.from <= y.from) => y = z \/ y.to <= z.from
            BY <5>3, <6>1, InTurn
          <6> QED
            BY <5>1, <5>3, <6>1, <6>2
        <5> QED
          BY <5>3, <5>4
      <4> QED
        BY <4>1 DEF Newest
    <3>3. current = x \/ current.to <= x.from
      BY <1>1, <1>3, InTurn
    <3> QED
      BY <1>1, <1>3, <3>2, <3>3
  <2> QED
    BY <1>1, <2>1
<1>5. Blame(Main, pk, c) = v
  <2>1. run # {}
    BY <1>4
  <2> QED
    BY <2>1 DEF Blame
<1>6. v \in run /\ \A w \in run : v.from <= w.from
  <2> DEFINE T == {w.from : w \in run}
  <2>1. T \in SUBSET Nat /\ T # {}
    BY <1>3, <1>4
  <2> HIDE DEF T
  <2>2. \E x \in T : \A y \in T : x <= y
    BY <2>1, NatLeast
  <2>3. \E x \in run : \A w \in run : x.from <= w.from
    BY <2>2 DEF T
  <2> QED
    BY <2>3
<1> HIDE DEF v
<1>7. v \in all /\ holds(v)
  BY <1>3, <1>6
<1>8. ASSUME NEW u \in all, u.to = v.from PROVE ~holds(u)
  <2>1. u.from < v.from
    BY <1>3, <1>7, <1>8
  <2>2. u \notin run
    BY <1>3, <1>6, <1>7, <2>1
  <2>3. PICK w \in all : w.from >= u.from /\ ~holds(w)
    BY <2>2
  <2>4. w.from < v.from
    BY <1>3, <1>6, <1>7, <2>3
  <2>5. u = w \/ u.to <= w.from
    BY <1>3, <2>3, InTurn
  <2>6. u = w
    BY <1>3, <1>7, <1>8, <2>3, <2>4, <2>5
  <2> QED
    BY <2>3, <2>6
<1> QED
  BY <1>1, <1>5, <1>7, <1>8

(* From the newest version back to the one that gave the cell its value    *)
(* (read.go:303-347).                                                      *)
LEMMA BlameIsTruthful == MainInv => BlameTruthful
<1> SUFFICES ASSUME MainInv, NEW pk \in PKs, NEW c \in Cols,
                    CurrentRow(refs[Main].chain, pk) # Absent
             PROVE  LET now == CurrentRow(refs[Main].chain, pk)
                        commit == CommitAt(Main, Blame(Main, pk, c).from)
                    IN  /\ Get(StateAtCommit(commit)[pk], c) = Get(now, c)
                        /\ LET before == StateAtCommit(commits[commit].first)[pk]
                           IN  before = Absent \/ before[c] # now[c]
  BY DEF BlameTruthful
<1> DEFINE shown(n) == RowIn(rows, <<Segment(Main, n)>>, pk)
<1>1. /\ HistoryInv /\ Linked(rows) /\ LinearHistory /\ Main \in DOMAIN refs
      /\ refs[Main].headSeq \in Nat
  BY DEF MainInv, LiveInv, HistoryInv, Inv, TypeOK, RefType
<1>2. PICK now : now = CurrentRow(refs[Main].chain, pk)
  OBVIOUS
<1>3. now # Absent /\ now = shown(refs[Main].headSeq)
  BY <1>2, CurrentRowIn DEF MainInv
<1>4. PICK v : v = Blame(Main, pk, c)
  OBVIOUS
<1>5. /\ v \in History(Main, pk) /\ v.row # Absent /\ Get(v.row, c) = Get(now, c)
      /\ \A u \in History(Main, pk) :
           u.to = v.from => u.row = Absent \/ Get(u.row, c) # Get(now, c)
  BY <1>3, <1>4, BlameVersion
<1>6. /\ v \in rows /\ v.from \in Nat /\ v.to \in Nat /\ 1 <= v.from /\ v.from < v.to
      /\ v.from <= refs[Main].headSeq /\ v.pk = pk /\ v.branch = Main
      /\ v.session = NoSession
  BY <1>1, <1>5, VersionNumbers DEF History, Linked
<1>7. v.from \in 0 .. refs[Main].headSeq /\ v.from - 1 \in 0 .. refs[Main].headSeq
  BY <1>1, <1>6
<1>8. PICK d : d = CommitAt(Main, v.from)
  OBVIOUS
<1>9. /\ d \in On(Main) /\ commits[d].seq = v.from
      /\ StateAtCommit(d) = [k \in PKs |-> RowIn(rows, <<Segment(Main, v.from)>>, k)]
  BY <1>7, <1>8, CommitOfNumber
<1>10. commits[d].first = CommitAt(Main, v.from - 1)
  <2>1. commits[d].first \in On(Main) /\ commits[commits[d].first].seq = v.from - 1
    <3>1. CASE v.from > 1
      BY <1>1, <1>6, <1>9, <3>1 DEF LinearHistory
    <3>2. CASE v.from = 1
      BY <1>9, <3>2 DEF MainInv, On
    <3> QED
      BY <1>6, <3>1, <3>2
  <2> QED
    BY <1>7, <2>1, CommitOfNumber
<1>11. StateAtCommit(commits[d].first)
         = [k \in PKs |-> RowIn(rows, <<Segment(Main, v.from - 1)>>, k)]
  BY <1>7, <1>10, CommitOfNumber
<1>12. StateAtCommit(d)[pk] = v.row
  <2>1. v \in MainAt(v.from, pk)
    BY <1>6 DEF MainAt
  <2> QED
    BY <1>1, <1>6, <1>9, <2>1, RowAt
<1>13. PICK before : before = StateAtCommit(commits[d].first)[pk]
  OBVIOUS
<1>14. before = Absent \/ before[c] # now[c]
  <2>1. before = shown(v.from - 1)
    BY <1>11, <1>13
  <2>2. v.from - 1 \in Nat
    BY <1>6
  <2>3. CASE MainAt(v.from - 1, pk) = {}
    BY <1>1, <2>1, <2>2, <2>3, RowAt
  <2>4. CASE MainAt(v.from - 1, pk) # {}
    <3>1. PICK u : u \in MainAt(v.from - 1, pk)
      BY <2>4
    <3>2. before = u.row
      BY <1>1, <2>1, <2>2, <3>1, RowAt
    <3>3. u \in History(Main, pk) /\ u.from <= v.from - 1 /\ v.from - 1 < u.to
      BY <3>1 DEF MainAt, History
    <3>4. u.from \in Nat /\ u.to \in Nat
      BY <1>1, <3>3, VersionNumbers DEF History
    <3>5. u = v \/ u.to <= v.from
      BY <1>5, <1>6, <3>3, <3>4, InTurn
    <3>6. u.to = v.from
      BY <1>6, <3>3, <3>4, <3>5
    <3>7. u.row = Absent \/ Get(u.row, c) # Get(now, c)
      BY <1>5, <3>3, <3>6
    <3> QED
      BY <1>3, <3>2, <3>7 DEF Get
  <2> QED
    BY <2>3, <2>4
<1>15. Get(StateAtCommit(d)[pk], c) = Get(now, c)
  BY <1>5, <1>12
<1> QED
  BY <1>2, <1>4, <1>8, <1>13, <1>14, <1>15

(* Blame names the commit that gave a cell of the default branch the value *)
(* that it has, whatever merges, updates and deletes came between          *)
(* (read.go:303-347, finding F2).                                          *)
THEOREM BlameTellsTheTruth == Spec => []BlameTruthful
<1>1. Spec => []MainInv
  BY MainInit, MainNext, PTL DEF Spec
<1> QED
  BY <1>1, BlameIsTruthful, PTL


-----------------------------------------------------------------------------
(* Masks.                                                                  *)

(* The chains that branches and commits keep.                              *)
Stored == {refs[b].chain : b \in DOMAIN refs} \cup {commits[c].chain : c \in DOMAIN commits}

(* A chain names a branch once.                                            *)
Distinct(chain) == \A i, j \in DOMAIN chain : chain[i].branch = chain[j].branch => i = j

(* Two chains cover the same of the versions of pk that changed c.         *)
SameCoverage(store, x, y, pk, c) ==
  \A v \in store : v.pk = pk /\ c \in v.changed
                     => (v.from <= Upper(x, v.branch) <=> v.from <= Upper(y, v.branch))

(* Then they show the same value of c.                                     *)
Alike(store, x, y) ==
  \A pk, c : c \in Cols /\ SameCoverage(store, x, y, pk, c)
               => Get(RowIn(store, x, pk), c) = Get(RowIn(store, y, pk), c)

MaskInv ==
  /\ PlainInv
  /\ \A x \in Stored : Distinct(x)
  /\ \A x, y \in Stored : Alike(rows, x, y)

(* What a chain covers of a branch that it names, and of any other         *)
(* (merge.go:300-314).                                                     *)
LEMMA UpperOf ==
  ASSUME NEW chain, Distinct(chain)
  PROVE  /\ \A i \in DOMAIN chain : Upper(chain, chain[i].branch) = chain[i].seq
         /\ \A b : (\A i \in DOMAIN chain : chain[i].branch # b) => Upper(chain, b) = 0
<1>1. ASSUME NEW i \in DOMAIN chain PROVE Upper(chain, chain[i].branch) = chain[i].seq
  <2>1. (CHOOSE k \in DOMAIN chain : chain[k].branch = chain[i].branch) = i
    BY DEF Distinct
  <2> QED
    BY <2>1 DEF Upper
<1> QED
  BY <1>1 DEF Upper

(* A covered chain covers no more of a branch than its head.               *)
LEMMA UpperCovered ==
  ASSUME NEW heads, NEW chain, CoveredBy(heads, chain), Distinct(chain),
         NEW b, NEW n \in Nat,
         b \in DOMAIN heads => heads[b].headSeq \in Nat /\ heads[b].headSeq <= n
  PROVE  Upper(chain, b) \in Nat /\ Upper(chain, b) <= n
<1>1. \A i \in DOMAIN chain : chain[i].seq \in Nat
  <2>1. \A i \in DOMAIN chain : chain[i] \in SegmentType
    BY DEF CoveredBy, ChainType
  <2> QED
    BY <2>1 DEF SegmentType
<1>2. CASE \E i \in DOMAIN chain : chain[i].branch = b
  <2>1. PICK i \in DOMAIN chain : chain[i].branch = b
    BY <1>2
  <2>2. Upper(chain, b) = chain[i].seq
    BY <2>1, UpperOf
  <2>3. chain[i].seq <= heads[b].headSeq /\ heads[b].headSeq <= n /\ heads[b].headSeq \in Nat
    BY <2>1 DEF CoveredBy
  <2> QED
    BY <1>1, <2>2, <2>3
<1>3. CASE ~\E i \in DOMAIN chain : chain[i].branch = b
  BY <1>3, UpperOf
<1> QED
  BY <1>2, <1>3

(* The masks of a sidecar: a version keeps its own, a new one has the      *)
(* columns in which it differs from what its request read                  *)
(* (store.go:428-446, 555-596).                                            *)
LEMMA LandMasks ==
  ASSUME HistoryInv, NEW r \in Requests, Land(r)
  PROVE  /\ \A v \in rows :
              Closed(v, req[r].branch, Effective(r), NextSeq(r)).changed = v.changed
         /\ \A pk \in Effective(r) :
              Written(r, pk).changed
                = MaskOf(RowIn(rows, req[r].ref.chain, pk), req[r].changes[pk])
<1>1. \A v \in rows : v \in VersionType
  BY DEF HistoryInv, Inv, TypeOK
<1>2. ASSUME NEW v \in rows, NEW b, NEW keys, NEW seq
      PROVE  Closed(v, b, keys, seq).changed = v.changed
  BY <1>1 DEF Closed, VersionType
<1>3. \A pk \in Effective(r) :
        Written(r, pk).changed = MaskOf(RowIn(rows, req[r].ref.chain, pk), req[r].changes[pk])
  BY CurrentRowIn DEF Written, Version
<1> QED
  BY <1>2, <1>3

(* The chain of a commit covers what its branch covered and the new number *)
(* (store.go:469-485).                                                     *)
LEMMA LandUpper ==
  ASSUME NEW old \in ChainType, old # <<>>, Distinct(old), NEW b \in Branches, NEW seq \in Nat,
         old[1].branch = b
  PROVE  LET new == <<Segment(b, seq)>> \o Tail(old)
         IN  /\ Distinct(new) /\ Upper(new, b) = seq /\ Upper(old, b) = old[1].seq
             /\ \A a : a # b => Upper(new, a) = Upper(old, a)
<1> DEFINE new == <<Segment(b, seq)>> \o Tail(old)
<1>1. old \in Seq(SegmentType) /\ Segment(b, seq) \in SegmentType
      /\ Segment(b, seq).branch = b /\ Segment(b, seq).seq = seq
  BY DEF ChainType, Segment, SegmentType
<1>2. /\ DOMAIN new = DOMAIN old /\ 1 \in DOMAIN new /\ new[1] = Segment(b, seq)
      /\ \A i \in DOMAIN old : i # 1 => new[i] = old[i]
  <2>1. Tail(old) \in Seq(SegmentType) /\ Len(Tail(old)) = Len(old) - 1
    BY <1>1
  <2> QED
    BY <1>1, <2>1
<1> HIDE DEF new
<1>3. \A i \in DOMAIN old : new[i].branch = old[i].branch
  BY <1>1, <1>2
<1>4. Distinct(new)
  BY <1>2, <1>3 DEF Distinct
<1>5. Upper(new, b) = seq /\ Upper(old, b) = old[1].seq
  <2>1. Upper(new, new[1].branch) = new[1].seq /\ Upper(old, old[1].branch) = old[1].seq
    BY <1>2, <1>4, UpperOf
  <2> QED
    BY <1>1, <1>2, <2>1
<1>6. ASSUME NEW a, a # b PROVE Upper(new, a) = Upper(old, a)
  <2>1. CASE \E i \in DOMAIN old : old[i].branch = a
    <3>1. PICK i \in DOMAIN old : old[i].branch = a
      BY <2>1
    <3>2. i # 1 /\ new[i] = old[i] /\ i \in DOMAIN new
      BY <1>2, <1>6, <3>1
    <3>3. Upper(new, new[i].branch) = new[i].seq /\ Upper(old, old[i].branch) = old[i].seq
      BY <1>4, <3>1, <3>2, UpperOf
    <3> QED
      BY <3>1, <3>2, <3>3
  <2>2. CASE ~\E i \in DOMAIN old : old[i].branch = a
    <3>1. Upper(old, a) = 0
      BY <2>2, UpperOf
    <3>2. \A i \in DOMAIN new : new[i].branch # a
      BY <1>2, <1>3, <2>2
    <3>3. Upper(new, a) = 0
      BY <1>4, <3>2, UpperOf
    <3> QED
      BY <3>1, <3>3
  <2> QED
    BY <2>1, <2>2
<1> QED
  BY <1>4, <1>5, <1>6 DEF new

(* The stored chains are covered by refs.                                  *)
LEMMA StoredCovered ==
  ASSUME HistoryInv
  PROVE  \A x \in Stored : CoveredBy(refs, x)
BY DEF Stored, HistoryInv, ChainsCovered

(* A commit leaves what two chains of before it show and cover.            *)
LEMMA AlikeStays ==
  ASSUME HistoryInv, NEW r \in Requests, Land(r),
         NEW x, CoveredBy(refs, x), Distinct(x), NEW y, CoveredBy(refs, y), Distinct(y),
         Alike(rows, x, y)
  PROVE  Alike(rows', x, y)
<1> DEFINE close(v) == Closed(v, req[r].branch, Effective(r), NextSeq(r))
<1>1. \A v \in rows : /\ close(v) \in rows'
                      /\ close(v).pk = v.pk /\ close(v).branch = v.branch
                      /\ close(v).from = v.from /\ close(v).changed = v.changed
  BY LandVersions, LandMasks
<1> HIDE DEF close
<1>2. ASSUME NEW pk, NEW c, SameCoverage(rows', x, y, pk, c) PROVE SameCoverage(rows, x, y, pk, c)
  <2> SUFFICES ASSUME NEW v \in rows, v.pk = pk, c \in v.changed
               PROVE  v.from <= Upper(x, v.branch) <=> v.from <= Upper(y, v.branch)
    BY DEF SameCoverage
  <2>1. close(v) \in rows' /\ close(v).pk = pk /\ c \in close(v).changed
        /\ close(v).branch = v.branch /\ close(v).from = v.from
    BY <1>1
  <2> QED
    BY <1>2, <2>1 DEF SameCoverage
<1>3. \A pk : /\ RowIn(rows', x, pk) = RowIn(rows, x, pk)
              /\ RowIn(rows', y, pk) = RowIn(rows, y, pk)
  BY ShownStays
<1> QED
  BY <1>2, <1>3 DEF Alike

(* The chain of a commit and a chain of before it: if they cover the same  *)
(* of the edits of a column, the commit did not change it.                 *)
LEMMA AlikeLand ==
  ASSUME HistoryInv, NEW r \in Requests, Land(r), NEW b, b = req[r].branch,
         NEW old, old = req[r].ref.chain, Distinct(old),
         old[1] = Segment(b, refs[b].headSeq),
         NEW y, CoveredBy(refs, y), Distinct(y), Alike(rows, old, y)
  PROVE  LET new == <<Segment(b, NextSeq(r))>> \o Tail(old)
         IN  Distinct(new) /\ Alike(rows', new, y) /\ Alike(rows', y, new)
<1>n. PICK new : new = <<Segment(b, NextSeq(r))>> \o Tail(old)
  OBVIOUS
<1>0. PICK seq : seq = NextSeq(r)
  OBVIOUS
<1>1. /\ b \in DOMAIN refs /\ b \in Branches /\ refs[b].headSeq \in Nat
      /\ seq = refs[b].headSeq + 1 /\ seq \in Nat
  BY <1>0, LandSeq
<1>2. old \in ChainType /\ old # <<>> /\ CoveredBy(refs, old)
  BY LandChain DEF CoveredBy
<1>3. old[1].branch = b /\ old[1].seq = refs[b].headSeq
  BY DEF Segment
<1>4. /\ Distinct(new) /\ Upper(new, b) = seq /\ Upper(old, b) = refs[b].headSeq
      /\ \A a : a # b => Upper(new, a) = Upper(old, a)
  <2>1. new = <<Segment(b, seq)>> \o Tail(old)
    BY <1>0, <1>n
  <2>2. LET x == <<Segment(b, seq)>> \o Tail(old)
        IN  /\ Distinct(x) /\ Upper(x, b) = seq /\ Upper(old, b) = old[1].seq
            /\ \A a : a # b => Upper(x, a) = Upper(old, a)
    BY <1>1, <1>2, <1>3, LandUpper
  <2> QED
    BY <1>3, <2>1, <2>2
<1>5. Upper(y, b) \in Nat /\ Upper(y, b) < seq
  <2>1. Upper(y, b) \in Nat /\ Upper(y, b) <= refs[b].headSeq
    BY <1>1, UpperCovered
  <2> QED
    BY <1>1, <2>1
<1> DEFINE close(v) == Closed(v, b, Effective(r), seq)
<1>6. /\ \A v \in rows : /\ close(v) \in rows'
                         /\ close(v).pk = v.pk /\ close(v).branch = v.branch
                         /\ close(v).from = v.from /\ close(v).changed = v.changed
      /\ \A k \in Effective(r) :
           /\ Written(r, k) \in rows' /\ Written(r, k).branch = b /\ Written(r, k).pk = k
           /\ Written(r, k).from = seq
           /\ Written(r, k).changed = MaskOf(RowIn(rows, old, k), req[r].changes[k])
  BY <1>0, LandVersions, LandMasks
<1> HIDE DEF close
<1>7. \A pk : RowIn(rows', new, pk)
                = IF pk \in DOMAIN req[r].changes THEN req[r].changes[pk]
                  ELSE RowIn(rows, old, pk)
  BY <1>n, LandShows
<1>8. \A pk : RowIn(rows', y, pk) = RowIn(rows, y, pk)
  BY ShownStays
<1>9. \A pk \in DOMAIN req[r].changes :
        pk \notin Effective(r) => req[r].changes[pk] = RowIn(rows, old, pk)
  BY CurrentRowIn DEF Effective
<1>10. ASSUME NEW pk, NEW c \in Cols, SameCoverage(rows', new, y, pk, c)
       PROVE  Get(RowIn(rows', new, pk), c) = Get(RowIn(rows', y, pk), c)
  <2>1. SameCoverage(rows, old, y, pk, c)
    <3> SUFFICES ASSUME NEW v \in rows, v.pk = pk, c \in v.changed
                 PROVE  v.from <= Upper(old, v.branch) <=> v.from <= Upper(y, v.branch)
      BY DEF SameCoverage
    <3>1. v.from <= Upper(new, v.branch) <=> v.from <= Upper(y, v.branch)
      BY <1>6, <1>10 DEF SameCoverage
    <3>2. CASE v.branch # b
      BY <1>4, <3>1, <3>2
    <3>3. CASE v.branch = b
      <4>1. v.from \in Nat /\ v.from <= refs[b].headSeq
        BY <3>3, VersionNumbers
      <4>2. v.from <= Upper(new, b) /\ v.from <= Upper(old, b)
        BY <1>1, <1>4, <4>1
      <4> QED
        BY <3>1, <3>3, <4>2
    <3> QED
      BY <3>2, <3>3
  <2>2. Get(RowIn(rows, old, pk), c) = Get(RowIn(rows, y, pk), c)
    BY <2>1 DEF Alike
  <2>3. CASE pk \in Effective(r)
    <3>1. c \notin Written(r, pk).changed
      <4>1. ~(seq <= Upper(y, b)) /\ seq <= Upper(new, b)
        BY <1>1, <1>4, <1>5
      <4> QED
        BY <1>6, <1>10, <2>3, <4>1 DEF SameCoverage
    <3>2. Get(RowIn(rows, old, pk), c) = Get(req[r].changes[pk], c)
      BY <1>6, <2>3, <3>1 DEF MaskOf
    <3>3. pk \in DOMAIN req[r].changes
      BY <2>3 DEF Effective
    <3> QED
      BY <1>7, <1>8, <2>2, <3>2, <3>3
  <2>4. CASE pk \notin Effective(r)
    BY <1>7, <1>8, <1>9, <2>2, <2>4
  <2> QED
    BY <2>3, <2>4
<1>11. \A pk, c : SameCoverage(rows', y, new, pk, c) => SameCoverage(rows', new, y, pk, c)
  BY DEF SameCoverage
<1>12. Distinct(new) /\ Alike(rows', new, y) /\ Alike(rows', y, new)
  BY <1>4, <1>10, <1>11 DEF Alike
<1> QED
  BY <1>n, <1>12

(* A commit or a merge (store.go:387-434).                                 *)
LEMMA MaskLand ==
  ASSUME MaskInv, PlainInv', NEW r \in Requests, Land(r)
  PROVE  MaskInv'
<1>1. PICK b, id : b = req[r].branch /\ id = Len(commits) + 1 /\ id \in Nat
  <2>1. Len(commits) + 1 \in Nat
    BY LandSeq DEF MaskInv, PlainInv
  <2> QED
    BY <2>1
<1>2. /\ HistoryInv /\ Inv /\ PlainInv /\ b \in DOMAIN refs /\ EndsAtHead(b)
      /\ Plain(req[r], refs) /\ req[r].pc = "apply"
  BY <1>1, LandSeq DEF MaskInv, PlainInv, HistoryInv, Land
<1>3. PICK old : old = req[r].ref.chain
  OBVIOUS
<1>4. old = refs[b].chain /\ old \in Stored /\ old[1] = Segment(b, refs[b].headSeq)
  <2>1. req[r].ref.headSeq = refs[b].headSeq
    BY <1>1, <1>2, LandSeq
  <2>2. req[r].ref = refs[b]
    BY <1>1, <1>2, <2>1 DEF Plain
  <2> QED
    BY <1>2, <1>3, <2>2 DEF Stored, EndsAtHead
<1>5. PICK new : new = <<Segment(b, NextSeq(r))>> \o Tail(old)
  OBVIOUS
<1>6. Stored' \subseteq Stored \cup {new}
  <2>1. /\ DOMAIN commits' = DOMAIN commits \cup {id}
        /\ \A c \in DOMAIN commits : commits'[c] = commits[c]
        /\ DOMAIN refs' = DOMAIN refs /\ \A a \in DOMAIN refs \ {b} : refs'[a] = refs[a]
    BY <1>1, <1>2, LandRefs
  <2>2. commits'[id].chain = new /\ refs'[b].chain = new
    BY <1>1, <1>2, <1>3, <1>5, LandChain
  <2>3. \A a \in DOMAIN refs' : refs'[a].chain \in Stored \cup {new}
    BY <2>1, <2>2 DEF Stored
  <2>4. \A c \in DOMAIN commits' : commits'[c].chain \in Stored \cup {new}
    BY <2>1, <2>2 DEF Stored
  <2> QED
    BY <2>3, <2>4 DEF Stored
<1>7. \A x \in Stored : CoveredBy(refs, x) /\ Distinct(x)
  BY <1>2, StoredCovered DEF MaskInv
<1>8. \A x, y \in Stored : Alike(rows', x, y)
  BY <1>2, <1>7, AlikeStays DEF MaskInv
<1>9. \A y \in Stored : Distinct(new) /\ Alike(rows', new, y) /\ Alike(rows', y, new)
  <2> SUFFICES ASSUME NEW y \in Stored
               PROVE  Distinct(new) /\ Alike(rows', new, y) /\ Alike(rows', y, new)
    OBVIOUS
  <2>1. Alike(rows, old, y) /\ Distinct(old) /\ CoveredBy(refs, y) /\ Distinct(y)
    BY <1>4, <1>7 DEF MaskInv
  <2>2. LET x == <<Segment(b, NextSeq(r))>> \o Tail(old)
        IN  Distinct(x) /\ Alike(rows', x, y) /\ Alike(rows', y, x)
    BY <1>1, <1>2, <1>3, <1>4, <2>1, AlikeLand
  <2> QED
    BY <1>5, <2>2
<1>10. Alike(rows', new, new)
  BY DEF Alike
<1>11. \A x \in Stored' : Distinct(x)
  BY <1>4, <1>6, <1>7, <1>9
<1>12. \A x, y \in Stored' : Alike(rows', x, y)
  BY <1>6, <1>8, <1>9, <1>10
<1> QED
  BY <1>11, <1>12 DEF MaskInv

(* A fork covers what its parent's head covers (branch.go:51-86).          *)
LEMMA MaskFork ==
  ASSUME MaskInv, PlainInv', NEW n \in Branches, NEW from \in DOMAIN refs, CreateBranch(n, from)
  PROVE  MaskInv'
<1>1. /\ DOMAIN refs' = DOMAIN refs \cup {n} /\ n \notin DOMAIN refs
      /\ \A b \in DOMAIN refs : refs'[b] = refs[b]
      /\ refs'[n].chain = ForkChain(n, from) /\ UNCHANGED <<commits, rows, req>>
  BY DEF CreateBranch
<1>2. HistoryInv /\ PlainInv /\ EndsAtHead(from) /\ VersionsPlaced /\ TypeOK
  BY DEF MaskInv, PlainInv, HistoryInv, Inv
<1>3. PICK old : old = refs[from].chain
  OBVIOUS
<1>4. PICK own : own = Segment(n, 0)
  OBVIOUS
<1>5. PICK new : new = <<own>> \o old
  OBVIOUS
<1>6. /\ old # <<>> /\ old \in ChainType /\ refs[from].headSeq \in Nat /\ from \in Branches
      /\ old[1] = Segment(from, refs[from].headSeq) /\ old \in Stored
      /\ CoveredBy(refs, old) /\ Distinct(old)
  BY <1>2, <1>3, StoredCovered DEF TypeOK, RefOK, RefType, EndsAtHead, Stored, MaskInv
<1>7. own \in SegmentType /\ own.branch = n /\ own.seq = 0
  BY <1>4 DEF Segment, SegmentType
<1>8. refs'[n].chain = new
  <2>1. PICK pinned : pinned = Segment(from, refs[from].headSeq)
    OBVIOUS
  <2>2. pinned \in SegmentType
    BY <1>6, <2>1 DEF Segment, SegmentType
  <2>3. Tail(old) \in ChainType /\ <<pinned>> \o Tail(old) = old
    <3>1. old \in Seq(SegmentType)
      BY <1>6 DEF ChainType
    <3>2. Head(old) = pinned /\ Tail(old) \in Seq(SegmentType)
      BY <1>6, <2>1, <3>1
    <3>3. <<Head(old)>> \o Tail(old) = old
      BY <1>6, <3>1, HeadTailProperties
    <3> QED
      BY <3>2, <3>3 DEF ChainType
  <2>4. refs'[n].chain = <<own, pinned>> \o Tail(old)
    BY <1>1, <1>3, <1>4, <2>1 DEF ForkChain
  <2>5. <<own, pinned>> \o Tail(old) = <<own>> \o (<<pinned>> \o Tail(old))
    BY <1>7, <2>2, <2>3, PrependTwo
  <2> QED
    BY <1>5, <2>3, <2>4, <2>5
<1>9. /\ DOMAIN new = 1 .. Len(old) + 1 /\ DOMAIN old = 1 .. Len(old) /\ Len(old) \in Nat
      /\ new[1] = own /\ \A i \in DOMAIN old : new[i + 1] = old[i]
  <2>1. old \in Seq(SegmentType)
    BY <1>6 DEF ChainType
  <2> QED
    BY <1>5, <1>7, <2>1
<1>10. \A i \in DOMAIN new : i = 1 \/ (i - 1 \in DOMAIN old /\ new[i] = old[i - 1])
  <2> SUFFICES ASSUME NEW i \in DOMAIN new, i # 1 PROVE i - 1 \in DOMAIN old /\ new[i] = old[i - 1]
    OBVIOUS
  <2>1. i - 1 \in DOMAIN old /\ (i - 1) + 1 = i
    BY <1>9
  <2> QED
    BY <1>9, <2>1
<1>11. \A i \in DOMAIN old : old[i].branch # n
  BY <1>1, <1>6 DEF CoveredBy
<1>12. Distinct(new)
  <2> SUFFICES ASSUME NEW i \in DOMAIN new, NEW j \in DOMAIN new, new[i].branch = new[j].branch
               PROVE  i = j
    BY DEF Distinct
  <2>1. CASE i = 1
    BY <1>7, <1>9, <1>10, <1>11, <2>1
  <2>2. CASE i # 1
    <3>1. i - 1 \in DOMAIN old /\ new[i] = old[i - 1]
      BY <1>10, <2>2
    <3>2. j # 1
      BY <1>7, <1>9, <1>11, <3>1
    <3>3. j - 1 \in DOMAIN old /\ new[j] = old[j - 1]
      BY <1>10, <3>2
    <3>4. i - 1 = j - 1
      BY <1>6, <3>1, <3>3 DEF Distinct
    <3> QED
      BY <1>9, <3>4
  <2> QED
    BY <2>1, <2>2
<1>13. \A b : Upper(new, b) = Upper(old, b)
  <2> SUFFICES ASSUME NEW b PROVE Upper(new, b) = Upper(old, b)
    OBVIOUS
  <2>1. CASE \E i \in DOMAIN old : old[i].branch = b
    <3>1. PICK i \in DOMAIN old : old[i].branch = b
      BY <2>1
    <3>2. i + 1 \in DOMAIN new /\ new[i + 1] = old[i]
      BY <1>9
    <3>3. Upper(new, new[i + 1].branch) = new[i + 1].seq
      BY <1>12, <3>2, UpperOf
    <3>4. Upper(old, old[i].branch) = old[i].seq
      BY <1>6, UpperOf
    <3> QED
      BY <3>1, <3>2, <3>3, <3>4
  <2>2. CASE ~\E i \in DOMAIN old : old[i].branch = b
    <3>1. Upper(old, b) = 0
      BY <1>6, <2>2, UpperOf
    <3>2. CASE b = n
      <4>1. Upper(new, new[1].branch) = new[1].seq
        <5>1. 1 \in DOMAIN new
          BY <1>9
        <5> QED
          BY <1>12, <5>1, UpperOf
      <4> QED
        BY <1>7, <1>9, <3>1, <3>2, <4>1
    <3>3. CASE b # n
      <4>1. \A i \in DOMAIN new : new[i].branch # b
        BY <1>7, <1>9, <1>10, <2>2, <3>3
      <4> QED
        BY <1>12, <3>1, <4>1, UpperOf
    <3> QED
      BY <3>2, <3>3
  <2> QED
    BY <2>1, <2>2
<1>14. \A pk : RowIn(rows, new, pk) = RowIn(rows, old, pk)
  <2>1. \A v \in rows : v.branch # n
    BY <1>1, <1>2 DEF VersionsPlaced
  <2> QED
    BY <1>5, <1>6, <1>7, <2>1, PrependNothing
<1>15. Stored' \subseteq Stored \cup {new}
  <2>1. \A b \in DOMAIN refs' : refs'[b].chain \in Stored \cup {new}
    BY <1>1, <1>8 DEF Stored
  <2> QED
    BY <1>1, <2>1 DEF Stored
<1>16. \A y \in Stored : Alike(rows, new, y) /\ Alike(rows, y, new)
  <2> SUFFICES ASSUME NEW y \in Stored PROVE Alike(rows, new, y) /\ Alike(rows, y, new)
    OBVIOUS
  <2>1. Alike(rows, old, y) /\ Alike(rows, y, old)
    BY <1>6 DEF MaskInv
  <2>2. \A pk, c : /\ SameCoverage(rows, new, y, pk, c) <=> SameCoverage(rows, old, y, pk, c)
                   /\ SameCoverage(rows, y, new, pk, c) <=> SameCoverage(rows, y, old, pk, c)
    BY <1>13 DEF SameCoverage
  <2> QED
    BY <1>14, <2>1, <2>2 DEF Alike
<1>17. Alike(rows, new, new)
  BY DEF Alike
<1>18. \A x \in Stored' : Distinct(x)
  BY <1>12, <1>15 DEF MaskInv
<1>19. \A x, y \in Stored' : Alike(rows', x, y)
  BY <1>1, <1>15, <1>16, <1>17 DEF MaskInv
<1> QED
  BY <1>18, <1>19 DEF MaskInv

(* A new repository has one chain (store.go:146-184).                      *)
LEMMA MaskInit == Init => MaskInv
<1> SUFFICES ASSUME Init PROVE MaskInv
  OBVIOUS
<1>1. PICK root : root = <<Segment(Main, 0)>>
  OBVIOUS
<1>2. /\ DOMAIN refs = {Main} /\ refs[Main].chain = root /\ commits = <<RootCommit>>
  BY <1>1 DEF Init
<1>3. DOMAIN commits = {1} /\ commits[1].chain = root
  BY <1>1, <1>2 DEF RootCommit
<1>4. Stored \subseteq {root}
  BY <1>2, <1>3 DEF Stored
<1>5. Distinct(root)
  BY <1>1 DEF Distinct
<1>6. \A x \in Stored : x = root
  BY <1>4
<1>7. Alike(rows, root, root)
  BY DEF Alike
<1> QED
  BY <1>5, <1>6, <1>7, PlainInit DEF MaskInv

(* A step that writes neither refs nor commits nor versions.               *)
LEMMA MaskStays ==
  ASSUME MaskInv, PlainInv', UNCHANGED <<refs, commits, rows>>
  PROVE  MaskInv'
<1>1. Stored' = Stored
  BY DEF Stored
<1> QED
  BY <1>1 DEF MaskInv

(* Requests that start, read, end or are refused write none of these.      *)
LEMMA WhoWrites ==
  ASSUME [Next]_vars
  PROVE  \/ UNCHANGED <<refs, commits, rows>>
         \/ \E r \in Requests : Land(r) \/ Advance(r)
         \/ \E n \in Branches, from \in DOMAIN refs : CreateBranch(n, from)
<1>1. CASE UNCHANGED vars
  BY <1>1 DEF vars
<1>2. ASSUME NEW r \in Requests, Submit(r) PROVE UNCHANGED <<refs, commits, rows>>
  BY <1>2 DEF Submit, SubmitCommit, SubmitUpdate, SubmitMerge
<1>3. ASSUME NEW r \in Requests, Step(r), ~Land(r), ~Advance(r)
      PROVE  UNCHANGED <<refs, commits, rows>>
  BY <1>3 DEF Step, Lock, ReadUnlocked, Refuse, PlanMerge, ReadParent, ReadChild
<1>4. ASSUME NEW r \in Requests, Crash(r) PROVE UNCHANGED <<refs, commits, rows>>
  BY <1>4 DEF Crash
<1> QED
  BY <1>1, <1>2, <1>3, <1>4 DEF Next

(* Every step keeps the invariant.                                         *)
LEMMA MaskNext ==
  ASSUME NoUpdates, MaskInv, [Next]_vars
  PROVE  MaskInv'
<1>1. PlainInv'
  BY PlainNext DEF MaskInv
<1>2. ~\E r \in Requests : Advance(r)
  BY DEF MaskInv, PlainInv, Plain, Advance
<1> QED
  BY <1>1, <1>2, WhoWrites, MaskStays, MaskLand, MaskFork

(* Between a branch and a commit the masks miss no column, as long as      *)
(* nobody updates (merge.go:300-314).                                      *)
LEMMA MasksCover == MaskInv => MasksCoverDivergence
<1> SUFFICES ASSUME MaskInv, NEW b \in DOMAIN refs, NEW base \in DOMAIN commits,
                    NEW pk \in PKs, NEW c \in Cols,
                    c \notin MaskSince(refs[b].chain, commits[base].chain, pk)
             PROVE  Get(CurrentRow(commits[base].chain, pk), c)
                      = Get(CurrentRow(refs[b].chain, pk), c)
  BY DEF MasksCoverDivergence, MaskOf
<1>1. PICK x, y : x = refs[b].chain /\ y = commits[base].chain
  OBVIOUS
<1>2. HistoryInv /\ x \in Stored /\ y \in Stored
  BY <1>1 DEF MaskInv, PlainInv, Stored
<1>3. CoveredBy(refs, x) /\ Distinct(x) /\ CoveredBy(refs, y) /\ Distinct(y)
  BY <1>2, StoredCovered DEF MaskInv
<1>4. SameCoverage(rows, x, y, pk, c)
  <2> SUFFICES ASSUME NEW v \in rows, v.pk = pk, c \in v.changed
               PROVE  v.from <= Upper(x, v.branch) <=> v.from <= Upper(y, v.branch)
    BY DEF SameCoverage
  <2>1. v.from \in Nat /\ v.branch \in DOMAIN refs /\ refs[v.branch].headSeq \in Nat
        /\ v.session = NoSession
    BY <1>2, VersionNumbers
  <2>2. Upper(x, v.branch) \in Nat /\ Upper(y, v.branch) \in Nat
    BY <1>3, <2>1, UpperCovered
  <2>3. /\ ~(Upper(y, v.branch) < v.from /\ v.from <= Upper(x, v.branch))
        /\ ~(Upper(x, v.branch) < v.from /\ v.from <= Upper(y, v.branch))
    BY <1>1, <2>1 DEF MaskSince
  <2> QED
    BY <2>1, <2>2, <2>3
<1>5. Get(RowIn(rows, x, pk), c) = Get(RowIn(rows, y, pk), c)
  BY <1>2, <1>4 DEF MaskInv, Alike
<1> QED
  BY <1>1, <1>5, CurrentRowIn

(* Without updates the masks name every column in which a branch and a     *)
(* commit differ, so a merge that looks at these only loses no edit,       *)
(* however many requests commit, merge and fork at a time                  *)
(* (merge.go:300-314, findings F4 and F5).                                 *)
THEOREM MasksNameEveryEdit ==
  ASSUME NoUpdates
  PROVE  Spec => []MasksCoverDivergence
<1>1. MaskInv /\ [Next]_vars => MaskInv'
  BY MaskNext
<1> QED
  BY <1>1, MaskInit, MasksCover, PTL DEF Spec


-----------------------------------------------------------------------------
(* Merge bases.                                                            *)

(* Parents, reach and bases in a log of commits (branch.go:161-228).       *)
ParentsIn(log, c) == log[c].others \cup ({log[c].first} \ {0})

ReachIn(log, c) ==
  LET level[n \in 0 .. Len(log)] ==
        IF n = 0 THEN {c} ELSE level[n - 1] \cup UNION {ParentsIn(log, d) : d \in level[n - 1]}
  IN  level[Len(log)]

BasesIn(log, c, d) ==
  LET common == ReachIn(log, c) \cap ReachIn(log, d)
  IN  {x \in common : \A y \in common \ {x} : x \notin ReachIn(log, y)}

(* The variables' merge bases are those of the log (branch.go:161-228).    *)
LEMMA BasesAre ==
  ASSUME NEW c, NEW d
  PROVE  /\ MergeBases(c, d) = BasesIn(commits, c, d)
         /\ MergeBases(c, d)' = BasesIn(commits', c, d)
<1>1. \A x : Reach(x) = ReachIn(commits, x)
  BY DEF Reach, ReachIn, Parents, ParentsIn
<1>2. \A x : Reach(x)' = ReachIn(commits', x)
  BY DEF Reach, ReachIn, Parents, ParentsIn
<1> QED
  BY <1>1, <1>2 DEF MergeBases, BasesIn

(* The parents of a commit come before it.                                 *)
ParentsOf(log) == [d \in 1 .. Len(log) |-> ParentsIn(log, d)]
RootedIn(log) == Graph(ParentsOf(log), Len(log))

(* The breadth-first search finds what is above a commit                   *)
(* (branch.go:170-190).                                                    *)
LEMMA ReachAbove ==
  ASSUME NEW log, RootedIn(log), NEW c \in 1 .. Len(log)
  PROVE  ReachIn(log, c) = Above(ParentsOf(log), Len(log), c)
<1> DEFINE N == Len(log)
           P == ParentsOf(log)
           up(f) == [n \in 0 .. N |-> IF n = 0 THEN {c}
                       ELSE f[n - 1] \cup UNION {ParentsIn(log, d) : d \in f[n - 1]}]
           level == CHOOSE f : f = up(f)
           ends == [n \in 0 .. N |-> Ends(P, N, c, n)]
<1>1. /\ Graph(P, N) /\ N \in Nat /\ c \in 1 .. N
      /\ \A d \in 1 .. N : ParentsIn(log, d) = P[d]
  BY DEF RootedIn, Graph, ParentsOf
<1>2. ReachIn(log, c) = level[N]
  BY DEF ReachIn
<1> HIDE DEF N, P
<1>3. \A n \in Nat : /\ Ends(P, N, c, n) \subseteq 1 .. N
                     /\ Ends(P, N, c, n)
                          = IF n = 0 THEN {c}
                            ELSE Ends(P, N, c, n - 1) \cup UNION {P[d] : d \in Ends(P, N, c, n - 1)}
  <2>1. \A n \in Nat : Ends(P, N, c, n) \subseteq 1 .. N
    BY <1>1 DEF Ends, Walks
  <2>2. ASSUME NEW n \in Nat
        PROVE  Ends(P, N, c, n)
                 = IF n = 0 THEN {c}
                   ELSE Ends(P, N, c, n - 1) \cup UNION {P[d] : d \in Ends(P, N, c, n - 1)}
    BY <1>1, EndsUnfold
  <2> QED
    BY <2>1, <2>2
<1>4. \A n \in 0 .. N : n # 0 =>
        Ends(P, N, c, n) = Ends(P, N, c, n - 1)
                             \cup UNION {ParentsIn(log, d) : d \in Ends(P, N, c, n - 1)}
  <2> SUFFICES ASSUME NEW n \in 0 .. N, n # 0, NEW m, m = n - 1
               PROVE  Ends(P, N, c, n) = Ends(P, N, c, m)
                        \cup UNION {ParentsIn(log, d) : d \in Ends(P, N, c, m)}
    OBVIOUS
  <2>1. m \in Nat /\ n \in Nat
    BY <1>1
  <2>2. Ends(P, N, c, n) = Ends(P, N, c, m) \cup UNION {P[d] : d \in Ends(P, N, c, m)}
    BY <1>3, <2>1
  <2>3. \A d \in Ends(P, N, c, m) : P[d] = ParentsIn(log, d)
    BY <1>1, <1>3, <2>1
  <2> QED
    BY <2>2, <2>3
<1>5. ends = up(ends)
  <2>1. \A n \in 0 .. N : n # 0 => n - 1 \in 0 .. N
    BY <1>1
  <2>2. Ends(P, N, c, 0) = {c}
    BY <1>3
  <2> QED
    BY <1>4, <2>1, <2>2
<1>6. level = up(level)
  <2> HIDE DEF up, ends
  <2> QED
    BY <1>5
<1>7. \A n \in 0 .. N : level[n] = Ends(P, N, c, n)
  <2> HIDE DEF level
  <2> DEFINE T == {n \in 0 .. N : level[n] # Ends(P, N, c, n)}
  <2>1. CASE T # {}
    <3>1. T \in SUBSET Nat
      BY <1>1
    <3>2. PICK n \in T : \A m \in T : n <= m
      <4> HIDE DEF T
      <4> QED
        BY <2>1, <3>1, NatLeast
    <3>3. level[0] = {c} /\ Ends(P, N, c, 0) = {c}
      BY <1>1, <1>3, <1>6
    <3>4. n \in 0 .. N /\ n # 0
      BY <3>2, <3>3
    <3>5. PICK m : m = n - 1 /\ m \in 0 .. N /\ m \notin T
      BY <1>1, <3>2, <3>4
    <3>6. level[m] = Ends(P, N, c, m)
      BY <3>5
    <3>7. level[n] = level[m] \cup UNION {ParentsIn(log, d) : d \in level[m]}
      BY <1>6, <3>4, <3>5
    <3>8. Ends(P, N, c, n) = Ends(P, N, c, m)
                               \cup UNION {ParentsIn(log, d) : d \in Ends(P, N, c, m)}
      BY <1>4, <3>4, <3>5
    <3> QED
      BY <3>2, <3>6, <3>7, <3>8, Zenon
  <2> QED
    BY <2>1
<1>8. level[N] = Ends(P, N, c, N)
  BY <1>1, <1>7
<1>9. Ends(P, N, c, N) = Above(P, N, c)
  BY <1>1, EndsAbove
<1> QED
  BY <1>2, <1>8, <1>9 DEF N, P

(* Bases are commits, and more commits leave them what they are.           *)
LEMMA BasesStay ==
  ASSUME NEW log, RootedIn(log), NEW later, RootedIn(later), Len(log) <= Len(later),
         \A d \in 1 .. Len(log) : later[d] = log[d],
         NEW c \in 1 .. Len(log), NEW d \in 1 .. Len(log)
  PROVE  BasesIn(later, c, d) = BasesIn(log, c, d)
<1>1. Len(log) \in Nat /\ Len(later) \in Nat /\ 1 .. Len(log) \subseteq 1 .. Len(later)
  BY DEF RootedIn, Graph
<1>2. \A x \in 1 .. Len(log) : ParentsOf(later)[x] = ParentsOf(log)[x]
  BY <1>1 DEF ParentsOf, ParentsIn
<1>3. ASSUME NEW x \in 1 .. Len(log)
      PROVE  ReachIn(later, x) = ReachIn(log, x) /\ ReachIn(log, x) \subseteq 1 .. Len(log)
  <2>1. ReachIn(later, x) = Above(ParentsOf(later), Len(later), x)
    BY <1>1, ReachAbove
  <2>2. ReachIn(log, x) = Above(ParentsOf(log), Len(log), x)
    BY ReachAbove
  <2>3. Above(ParentsOf(later), Len(later), x) = Above(ParentsOf(log), Len(log), x)
    BY <1>2, AboveStays DEF RootedIn
  <2> QED
    BY <2>1, <2>2, <2>3 DEF Above
<1> QED
  BY <1>3 DEF BasesIn

(* Merge bases are commits (branch.go:193-197).                            *)
LEMMA BasesInLog ==
  ASSUME NEW log, RootedIn(log), NEW c \in 1 .. Len(log), NEW d \in 1 .. Len(log)
  PROVE  BasesIn(log, c, d) \subseteq 1 .. Len(log)
  BY ReachAbove DEF BasesIn, Above

-----------------------------------------------------------------------------
(* Merge commits.                                                          *)

(* One table, and one request at a time: a merge plans on refs that it     *)
(* read without a lock, and records for the whole repository what it did   *)
(* for one table (runs StoreMergeRace and StoreTables).                    *)
OneTable == Tables = {PKs}
OneRequest == \A r, q \in Requests : r = q

(* What each commit records.                                               *)
States == [c \in DOMAIN commits |-> StateAtCommit(c)]

(* A table is the merge of two commits over a third, without conflict.     *)
MergesIn(state, base, ours, theirs, table) ==
  /\ MergeConflicts(state[base], state[ours], state[theirs], AllCols) = {}
  /\ table = MergedTable(state[base], state[ours], state[theirs], AllCols)

(* What a request plans is, applied to its branch's head, the merge of it. *)
FitsIn(log, heads, state, x) ==
  LET ours == heads[x.branch].head
  IN  \E theirs \in DOMAIN log : \E base \in BasesIn(log, ours, theirs) :
        /\ x.others = {theirs}
        /\ MergesIn(state, base, ours, theirs, Apply(state[ours], x.changes))

(* A merge that has read one ref has the ref of now, of the only table.    *)
RequestIn(log, heads, state, x) ==
  /\ x.pc = "into" => x.table = PKs /\ \E from \in DOMAIN heads : x.source = heads[from]
  /\ x.others # {} => x.pc \in {"begin", "apply"} /\ FitsIn(log, heads, state, x)

ExactIn(log, state, c) ==
  log[c].others # {} =>
    /\ log[c].first \in DOMAIN log
    /\ \E theirs \in DOMAIN log : \E base \in BasesIn(log, log[c].first, theirs) :
         /\ log[c].others = {theirs}
         /\ MergesIn(state, base, log[c].first, theirs, state[c])

MergeInv ==
  /\ MaskInv /\ RootedIn(commits)
  /\ \A r \in Requests : RequestIn(commits, refs, States, req[r])
  /\ \A c \in DOMAIN commits : ExactIn(commits, States, c)

(* The invariant says of every merge commit what it should.                *)
LEMMA MergesExact == MergeInv => MergeCommitExact
<1> SUFFICES ASSUME MergeInv, NEW c \in DOMAIN commits, commits[c].others # {}
             PROVE  LET ours == commits[c].first
                        theirs == CHOOSE x \in commits[c].others : TRUE
                        a == StateAtCommit(ours)
                        t == StateAtCommit(theirs)
                    IN  \E base \in MergeBases(ours, theirs) :
                          LET b == StateAtCommit(base)
                          IN  /\ MergeConflicts(b, a, t, AllCols) = {}
                              /\ StateAtCommit(c) = MergedTable(b, a, t, AllCols)
  BY DEF MergeCommitExact
<1>1. PICK theirs \in DOMAIN commits : \E base \in BasesIn(commits, commits[c].first, theirs) :
        /\ commits[c].others = {theirs}
        /\ MergesIn(States, base, commits[c].first, theirs, States[c])
  BY DEF MergeInv, ExactIn
<1>2. PICK base \in BasesIn(commits, commits[c].first, theirs) :
        /\ commits[c].others = {theirs}
        /\ MergesIn(States, base, commits[c].first, theirs, States[c])
  BY <1>1
<1>3. commits[c].first \in DOMAIN commits /\ DOMAIN commits = 1 .. Len(commits)
  BY DEF MergeInv, ExactIn, MaskInv, PlainInv, HistoryInv, Inv, TypeOK
<1>4. base \in DOMAIN commits
  BY <1>2, <1>3, BasesInLog DEF MergeInv
<1>5. \A x \in DOMAIN commits : States[x] = StateAtCommit(x)
  BY DEF States
<1>6. (CHOOSE x \in commits[c].others : TRUE) = theirs
  BY <1>2
<1>7. base \in MergeBases(commits[c].first, theirs)
  BY <1>2, BasesAre
<1>8. /\ States[c] = StateAtCommit(c) /\ States[base] = StateAtCommit(base)
      /\ States[theirs] = StateAtCommit(theirs)
      /\ States[commits[c].first] = StateAtCommit(commits[c].first)
  BY <1>3, <1>4, <1>5
<1> QED
  BY <1>2, <1>6, <1>7, <1>8 DEF MergesIn

(* A new repository (store.go:146-184).                                    *)
LEMMA MergeInit == Init => MergeInv
<1> SUFFICES ASSUME Init PROVE MergeInv
  OBVIOUS
<1>1. commits = <<RootCommit>> /\ \A r \in Requests : req[r] = Idle
  BY DEF Init
<1>2. /\ Len(commits) = 1 /\ DOMAIN commits = {1}
      /\ commits[1].others = {} /\ commits[1].first = 0
  BY <1>1 DEF RootCommit
<1>3. RootedIn(commits)
  BY <1>2 DEF RootedIn, Graph, ParentsOf, ParentsIn
<1>4. Idle.pc = "idle" /\ Idle.others = {}
  BY DEF Idle
<1> QED
  BY <1>1, <1>2, <1>3, <1>4, MaskInit DEF MergeInv, RequestIn, ExactIn

(* A step that writes neither commits nor versions, and no ref that is     *)
(* there.                                                                  *)
LEMMA MergeStays ==
  ASSUME MergeInv, MaskInv', UNCHANGED <<commits, rows>>,
         DOMAIN refs \subseteq DOMAIN refs', \A b \in DOMAIN refs : refs'[b] = refs[b],
         \A r \in Requests : \/ req'[r] \in {req[r], Idle}
                             \/ /\ req'[r].branch \in DOMAIN refs
                                /\ RequestIn(commits, refs, States, req'[r])
  PROVE  MergeInv'
<1>1. States' = States
  BY StateIn DEF States
<1>2. commits' = commits
  OBVIOUS
<1>3. RequestIn(commits, refs, States, Idle)
  BY DEF RequestIn, Idle
<1>4. ASSUME NEW r \in Requests
      PROVE  req'[r].branch \in DOMAIN refs /\ RequestIn(commits, refs, States, req'[r])
  <2>1. Idle.branch \in DOMAIN refs /\ req[r].branch \in DOMAIN refs
    BY DEF Idle, MergeInv, MaskInv, PlainInv, HistoryInv, Inv, TypeOK
  <2> QED
    BY <1>3, <2>1 DEF MergeInv
<1>5. ASSUME NEW r \in Requests PROVE RequestIn(commits, refs', States, req'[r])
  <2>1. refs'[req'[r].branch] = refs[req'[r].branch]
    BY <1>4
  <2>2. FitsIn(commits, refs', States, req'[r]) <=> FitsIn(commits, refs, States, req'[r])
    BY <2>1 DEF FitsIn
  <2> QED
    BY <1>4, <2>2 DEF RequestIn
<1>6. \A r \in Requests : RequestIn(commits, refs, States, req[r])'
  BY <1>1, <1>2, <1>5
<1> QED
  BY <1>1, <1>2, <1>6 DEF MergeInv

(* Requests start, wait, take the lock and read (merge.go:52-60).          *)
LEMMA MergeRequests ==
  ASSUME OneTable, MergeInv, NEW r \in Requests, Submit(r) \/ Lock(r) \/ ReadUnlocked(r)
  PROVE  /\ UNCHANGED <<refs, commits, rows>>
         /\ \A q \in Requests : \/ req'[q] = req[q]
                                \/ /\ req'[q].branch \in DOMAIN refs
                                   /\ RequestIn(commits, refs, States, req'[q])
<1>1. /\ req \in [Requests -> RequestType] /\ req[r].branch \in DOMAIN refs
      /\ RequestIn(commits, refs, States, req[r])
  BY DEF MergeInv, MaskInv, PlainInv, HistoryInv, Inv, TypeOK
<1>2. \A x : req' = [req EXCEPT ![r] = x] =>
           req'[r] = x /\ \A q \in Requests \ {r} : req'[q] = req[q]
  BY <1>1
<1>3. CASE Submit(r)
  <2>1. \E x : /\ req' = [req EXCEPT ![r] = x] /\ UNCHANGED <<refs, commits, rows>>
               /\ x.others = {} /\ x.branch \in DOMAIN refs
               /\ x.pc = "into" => x.table = PKs /\ \E from \in DOMAIN refs : x.source = refs[from]
    <3>1. ASSUME NEW b \in DOMAIN refs, NEW changes, NEW expected,
                 SubmitCommit(r, b, changes, expected)
          PROVE  \E x : /\ req' = [req EXCEPT ![r] = x] /\ UNCHANGED <<refs, commits, rows>>
                        /\ x.others = {} /\ x.branch \in DOMAIN refs /\ x.pc = "begin"
      <4> DEFINE x == [Idle EXCEPT !.pc = "begin", !.kind = "commit", !.branch = b,
                                   !.table = TableOf(changes), !.changes = changes,
                                   !.expected = expected]
      <4>1. x.pc = "begin" /\ x.others = {} /\ x.branch = b
        BY DEF Idle
      <4>2. req' = [req EXCEPT ![r] = x] /\ UNCHANGED <<refs, commits, rows>>
        BY <3>1 DEF SubmitCommit
      <4> HIDE DEF x
      <4> QED
        BY <4>1, <4>2
    <3>2. ASSUME NEW kind, NEW from \in DOMAIN refs, NEW into \in DOMAIN refs, NEW table \in Tables,
                 SubmitMerge(r, kind, from, into, table)
          PROVE  \E x : /\ req' = [req EXCEPT ![r] = x] /\ UNCHANGED <<refs, commits, rows>>
                        /\ x.others = {} /\ x.branch \in DOMAIN refs
                        /\ x.table = PKs /\ x.source = refs[from]
      <4> DEFINE x == [Idle EXCEPT !.pc = "into", !.kind = kind, !.branch = into,
                                   !.table = table, !.source = refs[from]]
      <4>1. x.table = PKs /\ x.others = {} /\ x.branch = into /\ x.source = refs[from]
        BY DEF Idle, OneTable
      <4>2. req' = [req EXCEPT ![r] = x] /\ UNCHANGED <<refs, commits, rows>>
        BY <3>2 DEF SubmitMerge
      <4> HIDE DEF x
      <4> QED
        BY <4>1, <4>2
    <3>3. \A b \in DOMAIN refs : refs[b].parent \in DOMAIN refs
      BY DEF MergeInv, MaskInv, PlainInv, HistoryInv, Inv, TypeOK, RefOK
    <3>4. CASE \E b \in DOMAIN refs, changes \in ChangeSets :
                 \/ "commit" \in Kinds /\ SubmitCommit(r, b, changes, 0)
                 \/ "expect" \in Kinds /\ SubmitCommit(r, b, changes, refs[b].head)
      BY <3>1, <3>4
    <3>5. CASE \E table \in Tables, from, into \in DOMAIN refs :
                 "merge" \in Kinds /\ SubmitMerge(r, "merge", from, into, table)
      BY <3>2, <3>5
    <3>6. CASE \E table \in Tables, b \in DOMAIN refs :
                 "update" \in Kinds /\ SubmitUpdate(r, b, table)
      <4>1. PICK table \in Tables, b \in DOMAIN refs :
              SubmitMerge(r, "update", refs[b].parent, b, table)
        BY <3>6 DEF SubmitUpdate
      <4>2. PICK from \in DOMAIN refs : from = refs[b].parent
        BY <3>3
      <4>3. SubmitMerge(r, "update", from, b, table)
        BY <4>1, <4>2
      <4>4. \E x : /\ req' = [req EXCEPT ![r] = x] /\ UNCHANGED <<refs, commits, rows>>
                   /\ x.others = {} /\ x.branch \in DOMAIN refs
                   /\ x.table = PKs /\ x.source = refs[from]
        BY <3>2, <4>1, <4>3
      <4> QED
        BY <4>4
    <3> QED
      BY <1>3, <3>4, <3>5, <3>6 DEF Submit
  <2> QED
    BY <1>2, <2>1 DEF RequestIn
<1>4. CASE Lock(r) \/ ReadUnlocked(r)
  <2> DEFINE x == [req[r] EXCEPT !.pc = "apply", !.ref = refs[req[r].branch]]
  <2>1. req' = [req EXCEPT ![r] = x] /\ UNCHANGED <<refs, commits, rows>>
    BY <1>4 DEF Lock, ReadUnlocked
  <2>2. /\ x.pc = "apply" /\ x.others = req[r].others /\ x.changes = req[r].changes
        /\ x.branch = req[r].branch
    BY <1>1 DEF RequestType
  <2> HIDE DEF x
  <2>3. FitsIn(commits, refs, States, req[r]) => FitsIn(commits, refs, States, x)
    BY <2>2 DEF FitsIn
  <2>4. RequestIn(commits, refs, States, x)
    BY <1>1, <2>2, <2>3 DEF RequestIn
  <2> QED
    BY <1>1, <1>2, <2>1, <2>2, <2>4
<1> QED
  BY <1>3, <1>4

(* The columns that a merge looks at are columns.                          *)
LEMMA MaskSinceType ==
  ASSUME TypeOK, NEW chain, NEW base, NEW pk
  PROVE  MaskSince(chain, base, pk) \in Mask
<1>1. \A v \in rows : v.changed \in SUBSET Cols
  BY DEF TypeOK, VersionType, Mask
<1> QED
  BY <1>1 DEF MaskSince, Mask

(* A merge of tables without a conflict in the columns that it looks at is *)
(* one without any conflict, provided that it looks at every column in     *)
(* which a side differs from the base (merge.go:200-278, 300-314).         *)
LEMMA NarrowTables ==
  ASSUME NEW b \in Table, NEW a \in Table, NEW t \in Table, NEW cand \in [PKs -> Mask],
         \A pk \in PKs : Examined(cand[pk], b[pk], a[pk]) /\ Examined(cand[pk], b[pk], t[pk])
  PROVE  /\ MergedTable(b, a, t, cand) = MergedTable(b, a, t, AllCols)
         /\ (\A c \in MergeConflicts(b, a, t, cand) : c.pk \notin PKs)
              => MergeConflicts(b, a, t, AllCols) = {}
<1>1. ASSUME NEW pk \in PKs
      PROVE  /\ KeyConflicts(pk, b[pk], a[pk], t[pk], cand[pk])
                  = KeyConflicts(pk, b[pk], a[pk], t[pk], AllCols[pk])
             /\ MergedImage(b[pk], a[pk], t[pk], cand[pk])
                  = MergedImage(b[pk], a[pk], t[pk], AllCols[pk])
  <2>1. /\ b[pk] \in Image /\ a[pk] \in Image /\ t[pk] \in Image /\ cand[pk] \in Mask
        /\ AllCols[pk] = Cols
    BY DEF Table, AllCols
  <2> QED
    BY <2>1, NarrowMerge
<1>2. MergedTable(b, a, t, cand) = MergedTable(b, a, t, AllCols)
  BY <1>1 DEF MergedTable
<1>3. \A pk \in PKs : \A c \in KeyConflicts(pk, b[pk], a[pk], t[pk], cand[pk]) : c.pk = pk
  BY DEF KeyConflicts, Conflict
<1>4. MergeConflicts(b, a, t, cand) = MergeConflicts(b, a, t, AllCols)
  BY <1>1 DEF MergeConflicts
<1>5. \A c \in MergeConflicts(b, a, t, cand) : c.pk \in PKs
  BY <1>3 DEF MergeConflicts
<1> QED
  BY <1>2, <1>4, <1>5

(* Writing the keys that differ from ours gives the merge                  *)
(* (merge.go:96-128).                                                      *)
LEMMA ApplyDifference ==
  ASSUME NEW a \in Table, NEW m \in Table
  PROVE  Apply(a, [pk \in {k \in PKs : m[k] # a[k]} |-> m[pk]]) = m
<1> DEFINE changes == [pk \in {k \in PKs : m[k] # a[k]} |-> m[pk]]
<1>1. \A pk \in PKs : (IF pk \in DOMAIN changes THEN changes[pk] ELSE a[pk]) = m[pk]
  OBVIOUS
<1>2. m = [pk \in PKs |-> m[pk]]
  BY DEF Table
<1> HIDE DEF changes
<1>3. Apply(a, changes) = [pk \in PKs |-> m[pk]]
  BY <1>1 DEF Apply
<1> QED
  BY <1>2, <1>3 DEF changes

(* A merge plans what its two refs and their base make, or nothing         *)
(* (merge.go:49-176).                                                      *)
LEMMA MergePlans ==
  ASSUME MergeInv, NEW r \in Requests, PlanMerge(r)
  PROVE  \/ req'[r] = Idle
         \/ /\ req'[r].branch \in DOMAIN refs
            /\ RequestIn(commits, refs, States, req'[r])
<1>1. /\ TypeOK /\ MaskInv /\ req[r] \in RequestType /\ req[r].pc = "into"
      /\ \A b \in DOMAIN refs : EndsAtHead(b)
      /\ DOMAIN commits = 1 .. Len(commits)
  BY DEF PlanMerge, MergeInv, MaskInv, PlainInv, HistoryInv, Inv, TypeOK
<1>2. PICK into \in DOMAIN refs : into = req[r].branch
  BY <1>1 DEF TypeOK
<1>3. PICK from \in DOMAIN refs : req[r].source = refs[from] /\ req[r].table = PKs
  BY <1>1 DEF MergeInv, RequestIn
<1>4. PICK ours, theirs, chain, source :
        /\ ours = refs[into].head /\ theirs = refs[from].head
        /\ chain = refs[into].chain /\ source = refs[from].chain
  OBVIOUS
<1>5. ours \in DOMAIN commits /\ theirs \in DOMAIN commits
  BY <1>1, <1>4 DEF EndsAtHead
<1>6. PICK bases : bases = BasesIn(commits, ours, theirs) /\ bases = MergeBases(ours, theirs)
  BY BasesAre
<1>7. PICK f : f = [base \in bases |-> MergeOf(r, refs[into], base)]
  OBVIOUS
<1>8. CASE ~\E base \in bases : bases = {base} /\ f[base].clean
  <2>1. req' = [req EXCEPT ![r] = Idle]
    BY <1>2, <1>3, <1>4, <1>6, <1>7, <1>8 DEF PlanMerge
  <2> QED
    BY <1>1, <2>1 DEF TypeOK
<1>9. ASSUME NEW base \in bases, bases = {base}, f[base].clean
      PROVE  /\ req'[r].branch \in DOMAIN refs
             /\ RequestIn(commits, refs, States, req'[r])
  <2> DEFINE x == [req[r] EXCEPT !.pc = "begin", !.others = {theirs}, !.source = NoRef,
                                 !.changes = f[base].changes]
  <2>1. req' = [req EXCEPT ![r] = x]
    <3>1. (CHOOSE y \in bases : TRUE) = base
      BY <1>9
    <3> QED
      BY <1>2, <1>3, <1>4, <1>6, <1>7, <1>9, <3>1 DEF PlanMerge
  <2>2. req'[r] = x
    BY <1>1, <2>1 DEF TypeOK
  <2>3. /\ x.pc = "begin" /\ x.others = {theirs} /\ x.changes = f[base].changes
        /\ x.branch = into
    BY <1>1, <1>2 DEF RequestType
  <2> HIDE DEF x
  <2>4. base \in DOMAIN commits
    BY <1>1, <1>5, <1>6, BasesInLog DEF MergeInv
  <2>5. PICK b, a, t, cand :
          /\ b = ResolveMap(commits[base].chain) /\ a = ResolveMap(chain)
          /\ t = ResolveMap(source)
          /\ cand = [pk \in PKs |-> MaskSince(chain, commits[base].chain, pk)
                                      \cup MaskSince(source, commits[base].chain, pk)]
    OBVIOUS
  <2>6. /\ f[base].clean <=> \A c \in MergeConflicts(b, a, t, cand) : c.pk \notin PKs
        /\ f[base].changes
             = [pk \in {k \in PKs : MergedTable(b, a, t, cand)[k] # a[k]}
                  |-> MergedTable(b, a, t, cand)[pk]]
    BY <1>3, <1>4, <1>7, <2>5 DEF MergeOf
  <2>7. b \in Table /\ a \in Table /\ t \in Table
    BY <1>1, <2>5, ResolveMapType DEF TypeOK
  <2>8. cand \in [PKs -> Mask]
    <3>1. \A pk \in PKs : MaskSince(chain, commits[base].chain, pk)
                            \cup MaskSince(source, commits[base].chain, pk) \in Mask
      BY <1>1, MaskSinceType DEF Mask
    <3> QED
      BY <2>5, <3>1
  <2>9. ASSUME NEW pk \in PKs
        PROVE  Examined(cand[pk], b[pk], a[pk]) /\ Examined(cand[pk], b[pk], t[pk])
    <3>1. /\ b[pk] = CurrentRow(commits[base].chain, pk) /\ a[pk] = CurrentRow(chain, pk)
          /\ t[pk] = CurrentRow(source, pk)
      BY <2>5 DEF ResolveMap
    <3>2. /\ MaskOf(b[pk], a[pk]) \subseteq MaskSince(chain, commits[base].chain, pk)
          /\ MaskOf(b[pk], t[pk]) \subseteq MaskSince(source, commits[base].chain, pk)
      BY <1>1, <1>4, <2>4, <3>1, MasksCover DEF MasksCoverDivergence
    <3>3. cand[pk] = MaskSince(chain, commits[base].chain, pk)
                       \cup MaskSince(source, commits[base].chain, pk)
      BY <2>5
    <3> QED
      BY <3>2, <3>3 DEF Examined
  <2>10. /\ MergedTable(b, a, t, cand) = MergedTable(b, a, t, AllCols)
         /\ MergeConflicts(b, a, t, AllCols) = {}
    BY <1>9, <2>6, <2>7, <2>8, <2>9, NarrowTables
  <2>11. MergedTable(b, a, t, cand) \in Table
    <3>1. \A pk \in PKs : MergedImage(b[pk], a[pk], t[pk], cand[pk]) \in Image
      BY <2>7, MergedImageType DEF Table
    <3> QED
      BY <3>1 DEF MergedTable, Table
  <2>12. Apply(a, x.changes) = MergedTable(b, a, t, AllCols)
    <3>1. PICK m \in Table : m = MergedTable(b, a, t, cand)
      BY <2>11
    <3>2. f[base].changes = [pk \in {k \in PKs : m[k] # a[k]} |-> m[pk]]
      BY <2>6, <3>1
    <3>3. Apply(a, [pk \in {k \in PKs : m[k] # a[k]} |-> m[pk]]) = m
      BY <2>7, ApplyDifference
    <3> QED
      BY <2>3, <2>10, <3>1, <3>2, <3>3
  <2>13. States[base] = b /\ States[ours] = a /\ States[theirs] = t
    <3>1. States[base] = b
      BY <2>4, <2>5 DEF States, StateAtCommit
    <3>2. \A i \in DOMAIN refs : States[refs[i].head] = ResolveMap(refs[i].chain)
      <4> SUFFICES ASSUME NEW i \in DOMAIN refs
                   PROVE  States[refs[i].head] = ResolveMap(refs[i].chain)
        OBVIOUS
      <4>1. EndsAtHead(i)
        BY <1>1
      <4>2. \A pk \in PKs : CurrentRow(refs[i].chain, pk) = CurrentRow(commits[refs[i].head].chain, pk)
        BY <4>1, CurrentRowIn DEF EndsAtHead
      <4> QED
        BY <4>1, <4>2 DEF EndsAtHead, States, StateAtCommit, ResolveMap
    <3> QED
      BY <1>4, <2>5, <3>1, <3>2
  <2>14. MergesIn(States, base, ours, theirs, Apply(States[ours], x.changes))
    BY <2>10, <2>12, <2>13 DEF MergesIn
  <2>15. FitsIn(commits, refs, States, x)
    BY <1>4, <1>5, <1>6, <2>3, <2>14 DEF FitsIn
  <2> QED
    BY <2>2, <2>3, <2>15 DEF RequestIn
<1> QED
  BY <1>8, <1>9

(* A merge commit is what was planned: nothing has moved its branch        *)
(* (store.go:387-470).                                                     *)
LEMMA MergeLand ==
  ASSUME OneRequest, MergeInv, MaskInv', [Next]_vars, NEW r \in Requests, Land(r)
  PROVE  MergeInv'
<1>1. /\ HistoryInv /\ PlainInv /\ Inv /\ commits \in Seq(CommitType)
      /\ RequestIn(commits, refs, States, req[r]) /\ RootedIn(commits)
      /\ req[r].branch \in DOMAIN refs
  BY DEF MergeInv, MaskInv, PlainInv, HistoryInv, Inv, TypeOK
<1>2. PICK b \in DOMAIN refs : b = req[r].branch
  BY <1>1
<1>3. PICK n \in Nat : n = Len(commits) + 1 /\ Len(commits) \in Nat
  BY <1>1
<1>4. PICK ours, others :
        ours = refs[b].head /\ others = req[r].others /\ ours \in DOMAIN commits
  BY <1>1 DEF PlainInv, EndsAtHead
<1>5. PICK log : log = commits'
  OBVIOUS
<1>6. /\ DOMAIN log = 1 .. Len(log) /\ DOMAIN commits = 1 .. Len(commits)
      /\ DOMAIN log = DOMAIN commits \cup {n} /\ n \notin DOMAIN commits
      /\ \A c \in DOMAIN commits : log[c] = commits[c]
      /\ log[n].first = ours
  <2>1. /\ commits' \in Seq(CommitType)
        /\ DOMAIN commits' = DOMAIN commits \cup {Len(commits) + 1}
        /\ Len(commits) + 1 \notin DOMAIN commits
        /\ \A c \in DOMAIN commits : commits'[c] = commits[c]
        /\ commits'[Len(commits) + 1].first = refs[req[r].branch].head
    BY <1>1, LandRefs
  <2>2. log \in Seq(CommitType)
    BY <1>5, <2>1
  <2>3. DOMAIN log = 1 .. Len(log) /\ DOMAIN commits = 1 .. Len(commits)
    BY <1>1, <2>2
  <2> QED
    BY <1>2, <1>3, <1>4, <1>5, <2>1, <2>3
<1>7. Len(log) = n /\ log[n].others = others
  BY <1>1, <1>2, <1>3, <1>4, <1>5 DEF Land
<1>8. PICK before, after : before = States /\ after = States'
  OBVIOUS
<1>9. /\ \A c \in DOMAIN commits : after[c] = before[c]
      /\ after[n] = Apply(before[ours], req[r].changes)
  <2>1. \A c \in DOMAIN commits : StateAtCommit(c)' = StateAtCommit(c)
    BY <1>1, StatesStay
  <2>2. StateAtCommit(n)' = Apply(StateAtCommit(ours), req[r].changes)
    <3>1. StateAtCommit(n)' = Apply(StateAtCommit(refs[b].head), req[r].changes)
      <4>1. PlainInv /\ n \in Nat /\ b = req[r].branch /\ n = Len(commits) + 1
        BY <1>1, <1>2, <1>3
      <4> QED
        BY <4>1, LandBuilds, ZenonT(60)
    <3> QED
      BY <1>4, <3>1
  <2>3. /\ \A c \in DOMAIN commits : before[c] = StateAtCommit(c)
        /\ \A c \in DOMAIN log : after[c] = StateAtCommit(c)'
    BY <1>5, <1>8 DEF States
  <2> QED
    BY <1>4, <1>6, <2>1, <2>2, <2>3
<1>10. others # {} => \E theirs \in DOMAIN commits : others = {theirs}
  BY <1>1, <1>4 DEF RequestIn, FitsIn
<1>11. RootedIn(log)
  <2>1. \A c \in 1 .. Len(commits) : ParentsIn(commits, c) \subseteq 1 .. c - 1
    BY <1>1 DEF RootedIn, Graph, ParentsOf
  <2>2. \A c \in 1 .. Len(commits) : ParentsIn(log, c) = ParentsIn(commits, c)
    BY <1>6 DEF ParentsIn
  <2>3. ParentsIn(log, n) \subseteq 1 .. n - 1
    BY <1>3, <1>4, <1>6, <1>7, <1>10 DEF ParentsIn
  <2>4. 1 .. n = 1 .. Len(commits) \cup {n}
    BY <1>3
  <2> QED
    BY <1>3, <1>7, <2>1, <2>2, <2>3, <2>4 DEF RootedIn, Graph, ParentsOf
<1>12. ASSUME NEW c \in DOMAIN commits, NEW d \in DOMAIN commits
       PROVE  /\ BasesIn(log, c, d) = BasesIn(commits, c, d)
              /\ BasesIn(commits, c, d) \subseteq DOMAIN commits
  BY <1>1, <1>3, <1>6, <1>7, <1>11, BasesStay, BasesInLog
<1>13. ASSUME NEW base \in DOMAIN commits, NEW c \in DOMAIN commits, NEW d \in DOMAIN commits,
              NEW table, MergesIn(before, base, c, d, table)
       PROVE  MergesIn(after, base, c, d, table)
  BY <1>9, <1>13 DEF MergesIn
<1>14. ASSUME NEW c \in DOMAIN commits PROVE ExactIn(log, after, c)
  <2> SUFFICES ASSUME log[c].others # {} PROVE ExactIn(log, after, c)
    BY DEF ExactIn
  <2>1. PICK first : first = commits[c].first /\ first = log[c].first
    BY <1>6
  <2>2. /\ log[c].others = commits[c].others /\ commits[c].others # {}
        /\ ExactIn(commits, before, c)
    BY <1>6, <1>8 DEF MergeInv
  <2>3. first \in DOMAIN commits
    BY <2>1, <2>2 DEF ExactIn
  <2>4. PICK theirs \in DOMAIN commits : \E base \in BasesIn(commits, first, theirs) :
          commits[c].others = {theirs} /\ MergesIn(before, base, first, theirs, before[c])
    BY <2>1, <2>2 DEF ExactIn
  <2>5. PICK base \in BasesIn(commits, first, theirs) :
          commits[c].others = {theirs} /\ MergesIn(before, base, first, theirs, before[c])
    BY <2>4
  <2>6. base \in DOMAIN commits /\ base \in BasesIn(log, first, theirs)
    BY <1>12, <2>3, <2>5
  <2>7. MergesIn(after, base, first, theirs, after[c])
    BY <1>9, <1>13, <2>3, <2>5, <2>6
  <2>8. /\ log[c].others = {theirs} /\ log[c].first = first
        /\ theirs \in DOMAIN log /\ first \in DOMAIN log
    BY <1>6, <2>1, <2>2, <2>3, <2>5
  <2> QED
    BY <2>6, <2>7, <2>8 DEF ExactIn
<1>15. ExactIn(log, after, n)
  <2> SUFFICES ASSUME others # {} PROVE ExactIn(log, after, n)
    BY <1>7 DEF ExactIn
  <2>1. FitsIn(commits, refs, before, req[r])
    BY <1>1, <1>4, <1>8 DEF RequestIn
  <2>2. PICK theirs \in DOMAIN commits : \E base \in BasesIn(commits, ours, theirs) :
          /\ others = {theirs}
          /\ MergesIn(before, base, ours, theirs, Apply(before[ours], req[r].changes))
    BY <1>2, <1>4, <2>1 DEF FitsIn
  <2>3. PICK base \in BasesIn(commits, ours, theirs) :
          /\ others = {theirs}
          /\ MergesIn(before, base, ours, theirs, Apply(before[ours], req[r].changes))
    BY <2>2
  <2>4. base \in DOMAIN commits /\ base \in BasesIn(log, ours, theirs)
    BY <1>4, <1>12, <2>3
  <2>5. MergesIn(after, base, ours, theirs, after[n])
    BY <1>4, <1>9, <1>13, <2>3, <2>4
  <2> QED
    BY <1>4, <1>6, <1>7, <2>3, <2>4, <2>5 DEF ExactIn
<1>16. \A q \in Requests : req'[q] = Idle
  <2>1. req[r].kind # "update"
    BY <1>1 DEF PlainInv, Plain
  <2>2. req'[r] = Idle
    BY <1>1, <2>1 DEF Land, Inv, TypeOK
  <2> QED
    BY <2>2 DEF OneRequest
<1>17. \A heads : RequestIn(log, heads, after, Idle)
  BY DEF RequestIn, Idle
<1> QED
  BY <1>5, <1>6, <1>8, <1>11, <1>14, <1>15, <1>16, <1>17 DEF MergeInv

(* Every step keeps the invariant.                                         *)
LEMMA MergeNext ==
  ASSUME NoUpdates, OneTable, OneRequest, MergeInv, [Next]_vars
  PROVE  MergeInv'
<1>1. MaskInv'
  BY MaskNext DEF MergeInv
<1>2. /\ req \in [Requests -> RequestType]
      /\ \A r \in Requests : req[r].branch \in DOMAIN refs /\ Plain(req[r], refs)
  BY DEF MergeInv, MaskInv, PlainInv, HistoryInv, Inv, TypeOK
<1>3. CASE UNCHANGED vars
  BY <1>1, <1>3, MergeStays DEF vars
<1>4. ASSUME NEW r \in Requests, Submit(r) \/ Lock(r) \/ ReadUnlocked(r) PROVE MergeInv'
  BY <1>1, <1>4, MergeRequests, MergeStays
<1>5. ASSUME NEW r \in Requests, PlanMerge(r) PROVE MergeInv'
  <2>1. \A q \in Requests : q = r
    BY DEF OneRequest
  <2>2. UNCHANGED <<refs, commits, rows>>
    BY <1>5 DEF PlanMerge
  <2> QED
    BY <1>1, <1>5, <2>1, <2>2, MergePlans, MergeStays
<1>6. ASSUME NEW r \in Requests, Refuse(r) \/ Crash(r) PROVE MergeInv'
  <2>1. UNCHANGED <<refs, commits, rows>> /\ \A q \in Requests : req'[q] \in {req[q], Idle}
    BY <1>2, <1>6 DEF Refuse, Crash, Finish
  <2> QED
    BY <1>1, <2>1, MergeStays
<1>7. ASSUME NEW r \in Requests, Land(r) PROVE MergeInv'
  BY <1>1, <1>7, MergeLand
<1>8. ASSUME NEW r \in Requests, ReadParent(r) \/ ReadChild(r) \/ Advance(r) PROVE FALSE
  BY <1>2, <1>8 DEF Plain, ReadParent, ReadChild, Advance
<1>9. ASSUME NEW n \in Branches, NEW from \in DOMAIN refs, CreateBranch(n, from) PROVE MergeInv'
  <2>1. /\ UNCHANGED <<commits, rows, req>> /\ DOMAIN refs \subseteq DOMAIN refs'
        /\ \A b \in DOMAIN refs : refs'[b] = refs[b]
    BY <1>9 DEF CreateBranch
  <2> QED
    BY <1>1, <2>1, MergeStays
<1> QED
  BY <1>3, <1>4, <1>5, <1>6, <1>7, <1>8, <1>9 DEF Next, Step

(* For one table and one request at a time, and without updates, a merge   *)
(* commit holds the three-way merge of whole states of its parents, and    *)
(* that merge has no conflict, although the code looks at masks and writes *)
(* differences only (merge.go:49-176).  Each of the first two conditions   *)
(* is needed: runs StoreMergeRace and StoreTables.                         *)
THEOREM MergeCommitsAreExact ==
  ASSUME NoUpdates, OneTable, OneRequest
  PROVE  Spec => []MergeCommitExact
<1>1. MergeInv /\ [Next]_vars => MergeInv'
  BY MergeNext
<1> QED
  BY <1>1, MergeInit, MergesExact, PTL DEF Spec
=============================================================================
