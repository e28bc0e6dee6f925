-------------------------- MODULE BranchStoreProofs --------------------------
(***************************************************************************)
(* Type correctness, the linear history of every branch, time travel and   *)
(* the live table, for any number of branches, tables, keys and concurrent *)
(* requests.                                                               *)
(*                                                                         *)
(* The argument for linear histories does not use the ref lock.  A request *)
(* about to commit read its branch's ref at some earlier time, under a     *)
(* lock or not, so what it read is at most as far as the ref is now, and   *)
(* names the same head when it is as far (RefsRead).  The unique key of    *)
(* datagit_commit lets it commit only when it is as far.                   *)
(*                                                                         *)
(* A stored chain never reaches past the head of a branch (ChainsCovered), *)
(* and a commit writes at the next sequence number only: it closes open    *)
(* versions and opens new ones above everything that a chain covers.  So   *)
(* what a chain shows does not change, provided that it shows one version  *)
(* of a key at most (VersionsApart): which of two the database would       *)
(* return is not determined.                                               *)
(***************************************************************************)
EXTENDS BranchStore, Resolution, SequenceTheorems

-----------------------------------------------------------------------------
(* The operators the store is built from.                                  *)

(* A row read through any chain is an image (read.go:84-119).              *)
LEMMA CurrentRowType ==
  ASSUME rows \subseteq VersionType, NEW chain, NEW pk
  PROVE  CurrentRow(chain, pk) \in Image
<1>1. CASE FirstHits(chain, pk) = {}
  BY <1>1 DEF CurrentRow, Image
<1>2. CASE FirstHits(chain, pk) # {}
  <2>1. FirstHits(chain, pk) \subseteq rows
    BY DEF FirstHits, Hits
  <2>2. \A v \in rows : v.row \in Image
    BY DEF VersionType
  <2> QED
    BY <1>2, <2>1, <2>2 DEF CurrentRow
<1> QED
  BY <1>1, <1>2

(* A resolved chain is a table (merge.go:398-422).                         *)
LEMMA ResolveMapType ==
  ASSUME rows \subseteq VersionType, NEW chain
  PROVE  ResolveMap(chain) \in Table
  BY CurrentRowType DEF ResolveMap, Table

(* Images for some keys are a change set (store.go:342-346).               *)
LEMMA ChangeSetType ==
  ASSUME NEW keys \in SUBSET PKs, NEW f \in [keys -> Image]
  PROVE  f \in ChangeSet
  BY DEF ChangeSet

(* What a merge plans is a change set (merge.go:96-128).                   *)
LEMMA MergeOfType ==
  ASSUME rows \subseteq VersionType, NEW r \in Requests, req[r].table \in SUBSET PKs,
         NEW ours, NEW base
  PROVE  MergeOf(r, ours, base).changes \in ChangeSet
<1> DEFINE baseChain == commits[base].chain
           theirs == req[r].source
           cand == [pk \in PKs |-> MaskSince(ours.chain, baseChain, pk)
                                     \cup MaskSince(theirs.chain, baseChain, pk)]
           b == ResolveMap(baseChain)
           a == ResolveMap(ours.chain)
           t == ResolveMap(theirs.chain)
           merged == MergedTable(b, a, t, cand)
           keys == {k \in req[r].table : merged[k] # a[k]}
<1>1. b \in Table /\ a \in Table /\ t \in Table
  BY ResolveMapType
<1> HIDE DEF b, a, t, cand
<1>2. \A pk \in PKs : merged[pk] \in Image
  BY <1>1, MergedImageType DEF MergedTable, Table
<1>3. keys \in SUBSET PKs
  OBVIOUS
<1> HIDE DEF merged
<1>4. [pk \in keys |-> merged[pk]] \in [keys -> Image]
  BY <1>2, <1>3
<1>5. [pk \in keys |-> merged[pk]] \in ChangeSet
  BY <1>3, <1>4, ChangeSetType
<1>6. MergeOf(r, ours, base).changes = [pk \in keys |-> merged[pk]]
  BY DEF MergeOf, merged, keys, b, a, t, cand
<1> QED
  BY <1>5, <1>6

(* A commit's chain is the branch at its new number over what the branch   *)
(* inherits (store.go:469).                                                *)
LEMMA ChainOverTail ==
  ASSUME NEW b \in Branches, NEW seq \in Nat, NEW chain \in ChainType, chain # <<>>
  PROVE  LET new == <<Segment(b, seq)>> \o Tail(chain)
         IN  new \in ChainType /\ new # <<>> /\ new[1] = Segment(b, seq)
<1>1. Tail(chain) \in Seq(SegmentType)
  BY HeadTailProperties DEF ChainType
<1>2. Segment(b, seq) \in SegmentType
  BY DEF Segment, SegmentType
<1>3. <<Segment(b, seq)>> \in Seq(SegmentType)
  BY <1>2
<1> QED
  BY <1>1, <1>2, <1>3 DEF ChainType

-----------------------------------------------------------------------------
(* The inductive invariant.                                                *)

(* What r read of the branch it is about to commit to is not ahead of the  *)
(* ref, and is the ref's head if it is not behind it.                      *)
ReadBehind(r) ==
  LET b == req[r].branch
  IN  /\ req[r].ref.chain # <<>>
      /\ req[r].ref.headSeq <= refs[b].headSeq
      /\ req[r].ref.headSeq = refs[b].headSeq => req[r].ref.head = refs[b].head

RefsRead ==
  \A r \in Requests :
    /\ req[r].pc = "apply" => ReadBehind(r)
    /\ req[r].pc \in {"child", "advance"} => req[r].source.chain # <<>>

Inv == TypeOK /\ RefsRead /\ LinearHistory

(* A request that has nothing to do is well formed.                        *)
LEMMA IdleType == Idle \in RequestType /\ Idle.branch \in Branches
<1>1. Main \in Branches
  BY StoreAssumption
<1>2. <<>> \in ChainType
  BY DEF ChainType
<1>3. <<>> \in ChangeSet
  <2>1. <<>> \in [{} -> Image]
    OBVIOUS
  <2> QED
    BY <2>1 DEF ChangeSet
<1>4. NoRef \in RefType
  BY <1>1, <1>2 DEF NoRef, RefType
<1> QED
  BY <1>1, <1>3, <1>4 DEF Idle, RequestType

(* The store starts with the root branch at the root commit                *)
(* (store.go:120-175).                                                     *)
LEMMA InitInv == Init => Inv
<1> SUFFICES ASSUME Init PROVE Inv
  OBVIOUS
<1>1. Main \in Branches
  BY StoreAssumption
<1>2. Segment(Main, 0) \in SegmentType
  BY <1>1 DEF Segment, SegmentType
<1>3. <<Segment(Main, 0)>> \in ChainType /\ <<Segment(Main, 0)>> # <<>>
  BY <1>2 DEF ChainType
<1>4. RootCommit \in CommitType
  BY <1>1, <1>3 DEF RootCommit, CommitType
<1>5. commits \in Seq(CommitType) /\ DOMAIN commits = {1} /\ commits[1] = RootCommit
  BY <1>4 DEF Init
<1>6. DOMAIN refs = {Main} /\ refs[Main] \in RefType /\ RefOK(Main)
  BY <1>1, <1>3 DEF Init, RefType, RefOK, Segment
<1>7. TypeOK
  <2>1. refs \in [DOMAIN refs -> RefType]
    BY <1>6 DEF Init
  <2>2. live \in Table
    BY DEF Init, EmptyTable, Table, Image
  <2>3. lock \in [Branches -> Requests \cup {NoRequest}]
    BY DEF Init
  <2>4. req \in [Requests -> RequestType] /\ \A r \in Requests : req[r].branch \in DOMAIN refs
    BY <1>6, IdleType DEF Init, Idle
  <2>5. rows \subseteq VersionType
    BY DEF Init
  <2>6. \A c \in DOMAIN commits : commits[c].branch \in DOMAIN refs
    BY <1>5, <1>6 DEF RootCommit
  <2> QED
    BY <1>1, <1>5, <1>6, <2>1, <2>2, <2>3, <2>4, <2>5, <2>6 DEF TypeOK
<1>8. RefsRead
  BY DEF Init, RefsRead, Idle
<1>9. LinearHistory
  <2>1. refs[Main].headSeq = 0 /\ refs[Main].head = 1
    BY <1>1 DEF Init
  <2>2. On(Main) = {1} /\ commits[1].seq = 0
    BY <1>5 DEF On, RootCommit
  <2>3. {commits[c].seq : c \in On(Main)} \cup {0} = 0 .. 0
    BY <2>2
  <2> QED
    BY <1>6, <2>1, <2>2, <2>3 DEF LinearHistory
<1> QED
  BY <1>7, <1>8, <1>9 DEF Inv

(* A step that only moves one request on, or frees or takes a lock, keeps  *)
(* the invariant when the request it leaves is well formed.                *)
LEMMA RequestStep ==
  ASSUME Inv, NEW r \in Requests, NEW x \in RequestType,
         x.branch \in DOMAIN refs,
         req' = [req EXCEPT ![r] = x],
         lock' \in [Branches -> Requests \cup {NoRequest}],
         UNCHANGED <<refs, commits, rows, live>>,
         x.pc = "apply" => /\ x.ref.chain # <<>>
                           /\ x.ref.headSeq <= refs[x.branch].headSeq
                           /\ x.ref.headSeq = refs[x.branch].headSeq
                                => x.ref.head = refs[x.branch].head,
         x.pc \in {"child", "advance"} => x.source.chain # <<>>
  PROVE  Inv'
<1>1. req' \in [Requests -> RequestType]
  BY DEF Inv, TypeOK
<1>2. \A q \in Requests : req'[q] = IF q = r THEN x ELSE req[q]
  BY DEF Inv, TypeOK
<1>3. \A q \in Requests : req'[q].branch \in DOMAIN refs
  BY <1>2 DEF Inv, TypeOK
<1>4. TypeOK'
  BY <1>1, <1>3 DEF Inv, TypeOK, RefOK
<1>5. RefsRead'
  BY <1>2 DEF Inv, RefsRead, ReadBehind
<1>6. LinearHistory'
  BY DEF Inv, LinearHistory, On
<1> QED
  BY <1>4, <1>5, <1>6 DEF Inv

-----------------------------------------------------------------------------
(* One lemma per action.                                                   *)

(* What a request names exists: its branch has a ref (read.go:32-55).      *)
LEMMA ReqFacts ==
  ASSUME TypeOK, NEW r \in Requests
  PROVE  /\ req[r] \in RequestType
         /\ req[r].branch \in DOMAIN refs /\ req[r].branch \in Branches
         /\ refs[req[r].branch] \in RefType /\ RefOK(req[r].branch)
  BY DEF TypeOK

(* Freeing the locks of a transaction leaves locks (postgres.go:524-526).  *)
LEMMA ReleaseType ==
  ASSUME TypeOK, NEW r \in Requests, Release(r)
  PROVE  lock' \in [Branches -> Requests \cup {NoRequest}]
  BY DEF Release, TypeOK

(* The end of a transaction that wrote nothing keeps the invariant.        *)
LEMMA FinishInv ==
  ASSUME Inv, NEW r \in Requests, Finish(r), UNCHANGED <<refs, commits, rows, live>>
  PROVE  Inv'
<1>1. lock' \in [Branches -> Requests \cup {NoRequest}]
  BY ReleaseType DEF Finish, Inv
<1>2. Idle \in RequestType /\ Idle.branch \in DOMAIN refs /\ Idle.pc = "idle"
  BY IdleType DEF Idle, Inv, TypeOK
<1>3. req' = [req EXCEPT ![r] = Idle]
  BY DEF Finish
<1> QED
  BY <1>1, <1>2, <1>3, RequestStep

(* A commit is submitted (store.go:350-366).                               *)
LEMMA SubmitCommitInv ==
  ASSUME Inv, NEW r \in Requests, NEW b \in DOMAIN refs, NEW changes \in ChangeSet,
         \E t \in Tables : DOMAIN changes \subseteq t,
         NEW expected \in Nat, SubmitCommit(r, b, changes, expected)
  PROVE  Inv'
<1> DEFINE x == [Idle EXCEPT !.pc = "begin", !.kind = "commit", !.branch = b,
                             !.table = TableOf(changes), !.changes = changes,
                             !.expected = expected]
<1>1. TableOf(changes) \in Tables
  BY DEF TableOf
<1>2. TableOf(changes) \in SUBSET PKs /\ changes \in ChangeSet
  BY <1>1, StoreAssumption
<1>3. x \in RequestType /\ x.branch = b /\ x.pc = "begin"
  BY <1>2, IdleType DEF Inv, TypeOK, RequestType, Idle
<1>4. req' = [req EXCEPT ![r] = x] /\ lock' \in [Branches -> Requests \cup {NoRequest}]
  BY DEF SubmitCommit, Inv, TypeOK
<1> QED
  BY <1>3, <1>4, RequestStep DEF SubmitCommit

(* A merge or an update reads the ref it takes from (merge.go:52-56).      *)
LEMMA SubmitMergeInv ==
  ASSUME Inv, NEW r \in Requests, NEW kind \in {"merge", "update"},
         NEW from \in DOMAIN refs, NEW into \in DOMAIN refs, NEW table \in Tables,
         SubmitMerge(r, kind, from, into, table)
  PROVE  Inv'
<1> DEFINE x == [Idle EXCEPT !.pc = "into", !.kind = kind, !.branch = into,
                             !.table = table, !.source = refs[from]]
<1>1. table \in SUBSET PKs
  BY StoreAssumption
<1>2. x \in RequestType /\ x.branch = into /\ x.pc = "into"
  BY <1>1, IdleType DEF Inv, TypeOK, RequestType, Idle
<1>3. req' = [req EXCEPT ![r] = x] /\ lock' \in [Branches -> Requests \cup {NoRequest}]
  BY DEF SubmitMerge, Inv, TypeOK
<1> QED
  BY <1>2, <1>3, RequestStep DEF SubmitMerge

(* Whatever is submitted keeps the invariant.                              *)
LEMMA SubmitInv ==
  ASSUME Inv, NEW r \in Requests, Submit(r)
  PROVE  Inv'
<1>1. CASE \E b \in DOMAIN refs, changes \in ChangeSets :
             \/ "commit" \in Kinds /\ SubmitCommit(r, b, changes, 0)
             \/ "expect" \in Kinds /\ SubmitCommit(r, b, changes, refs[b].head)
  <2>1. PICK b \in DOMAIN refs, changes \in ChangeSets :
             SubmitCommit(r, b, changes, 0) \/ SubmitCommit(r, b, changes, refs[b].head)
    BY <1>1
  <2>2. refs[b].head \in Nat
    BY DEF Inv, TypeOK, RefType
  <2>3. changes \in ChangeSet /\ \E t \in Tables : DOMAIN changes \subseteq t
    BY StoreAssumption
  <2> QED
    BY <2>1, <2>2, <2>3, SubmitCommitInv
<1>2. CASE \E table \in Tables, from, into \in DOMAIN refs :
             "merge" \in Kinds /\ SubmitMerge(r, "merge", from, into, table)
  BY <1>2, SubmitMergeInv
<1>3. CASE \E table \in Tables, b \in DOMAIN refs :
             "update" \in Kinds /\ SubmitUpdate(r, b, table)
  <2>1. PICK table \in Tables, b \in DOMAIN refs : SubmitUpdate(r, b, table)
    BY <1>3
  <2>2. refs[b].parent \in DOMAIN refs
    BY DEF Inv, TypeOK, RefOK
  <2> QED
    BY <2>1, <2>2, SubmitMergeInv DEF SubmitUpdate
<1> QED
  BY <1>1, <1>2, <1>3 DEF Submit

(* A request that reads its branch's ref now is not ahead of it.           *)
LEMMA ReadRefInv ==
  ASSUME Inv, NEW r \in Requests,
         req' = [req EXCEPT ![r].pc = "apply", ![r].ref = refs[req[r].branch]],
         lock' \in [Branches -> Requests \cup {NoRequest}],
         UNCHANGED <<refs, commits, rows, live>>
  PROVE  Inv'
<1> DEFINE b == req[r].branch
           x == [req[r] EXCEPT !.pc = "apply", !.ref = refs[b]]
<1>1. /\ req[r] \in RequestType /\ b \in DOMAIN refs
      /\ refs[b] \in RefType /\ RefOK(b)
  BY ReqFacts DEF Inv
<1>2. x \in RequestType /\ x.branch = b /\ x.pc = "apply" /\ x.ref = refs[b]
  BY <1>1 DEF RequestType
<1>3. refs[b].chain # <<>> /\ refs[b].headSeq <= refs[b].headSeq
  BY <1>1 DEF RefOK, RefType
<1>4. req' = [req EXCEPT ![r] = x]
  OBVIOUS
<1> HIDE DEF x
<1> QED
  BY <1>1, <1>2, <1>3, <1>4, RequestStep

(* A versioned commit reads its ref under the lock (store.go:395-402).     *)
LEMMA LockInv ==
  ASSUME Inv, NEW r \in Requests, Lock(r)
  PROVE  Inv'
<1>1. lock' \in [Branches -> Requests \cup {NoRequest}]
  BY DEF Lock, Inv, TypeOK
<1> QED
  BY <1>1, ReadRefInv DEF Lock

(* An audit-mode commit reads its ref as it is (store.go:387).             *)
LEMMA ReadUnlockedInv ==
  ASSUME Inv, NEW r \in Requests, ReadUnlocked(r)
  PROVE  Inv'
<1>1. lock' \in [Branches -> Requests \cup {NoRequest}]
  BY DEF ReadUnlocked, Inv, TypeOK
<1> QED
  BY <1>1, ReadRefInv DEF ReadUnlocked

(* A merge is planned or refused (merge.go:57-161).                        *)
LEMMA PlanMergeInv ==
  ASSUME Inv, NEW r \in Requests, PlanMerge(r)
  PROVE  Inv'
<1> DEFINE ours == refs[req[r].branch]
           bases == MergeBases(ours.head, req[r].source.head)
           changes == MergeOf(r, ours, CHOOSE y \in bases : TRUE).changes
           x == [req[r] EXCEPT !.pc = "begin", !.others = {req[r].source.head},
                               !.source = NoRef, !.changes = changes]
<1>1. req[r] \in RequestType /\ req[r].branch \in DOMAIN refs
  BY ReqFacts DEF Inv
<1>2. changes \in ChangeSet
  BY <1>1, MergeOfType DEF Inv, TypeOK, RequestType
<1>3. NoRef \in RefType
  BY IdleType DEF RequestType, Idle
<1>4. lock' \in [Branches -> Requests \cup {NoRequest}]
  BY DEF PlanMerge, Inv, TypeOK
<1> HIDE DEF changes
<1>5. req[r].source.head \in Nat
  BY <1>1 DEF RequestType, RefType
<1>6. x \in RequestType /\ x.branch = req[r].branch /\ x.pc = "begin"
  BY <1>1, <1>2, <1>3, <1>5 DEF RequestType
<1>7. req' = [req EXCEPT ![r] = x] \/ req' = [req EXCEPT ![r] = Idle]
  BY DEF PlanMerge, changes, bases, ours, Inv, TypeOK
<1>8. Idle \in RequestType /\ Idle.branch \in DOMAIN refs /\ Idle.pc = "idle"
  BY IdleType DEF Idle, Inv, TypeOK
<1> HIDE DEF x
<1> QED
  BY <1>1, <1>4, <1>6, <1>7, <1>8, RequestStep DEF PlanMerge

(* An update reads its parent's ref (merge.go:463-466).                    *)
LEMMA ReadParentInv ==
  ASSUME Inv, NEW r \in Requests, ReadParent(r)
  PROVE  Inv'
<1> DEFINE p == refs[req[r].branch].parent
           x == [req[r] EXCEPT !.pc = "child", !.source = refs[p]]
<1>1. req[r] \in RequestType /\ req[r].branch \in DOMAIN refs
  BY ReqFacts DEF Inv
<1>2. p \in DOMAIN refs /\ refs[p] \in RefType /\ refs[p].chain # <<>>
  BY <1>1 DEF Inv, TypeOK, RefOK
<1>3. x \in RequestType /\ x.branch = req[r].branch /\ x.pc = "child" /\ x.source = refs[p]
  BY <1>1, <1>2 DEF RequestType
<1>4. req' = [req EXCEPT ![r] = x] /\ lock' \in [Branches -> Requests \cup {NoRequest}]
  BY DEF ReadParent, Inv, TypeOK
<1> HIDE DEF x
<1> QED
  BY <1>1, <1>2, <1>3, <1>4, RequestStep DEF ReadParent

(* An update reads its own branch's ref (merge.go:467-470).                *)
LEMMA ReadChildInv ==
  ASSUME Inv, NEW r \in Requests, ReadChild(r)
  PROVE  Inv'
<1> DEFINE x == [req[r] EXCEPT !.pc = "advance", !.ref = refs[req[r].branch]]
<1>1. /\ req[r] \in RequestType /\ req[r].branch \in DOMAIN refs
      /\ refs[req[r].branch] \in RefType
  BY ReqFacts DEF Inv
<1>2. req[r].source.chain # <<>>
  BY DEF ReadChild, Inv, RefsRead
<1>3. /\ x \in RequestType /\ x.branch = req[r].branch /\ x.pc = "advance"
      /\ x.source = req[r].source
  BY <1>1 DEF RequestType
<1>4. req' = [req EXCEPT ![r] = x] /\ lock' \in [Branches -> Requests \cup {NoRequest}]
  BY DEF ReadChild, Inv, TypeOK
<1> HIDE DEF x
<1> QED
  BY <1>1, <1>2, <1>3, <1>4, RequestStep DEF ReadChild

(* An advanced fork point changes no head, no number (merge.go:456-480).   *)
LEMMA AdvanceInv ==
  ASSUME Inv, NEW r \in Requests, Advance(r)
  PROVE  Inv'
<1> DEFINE b == req[r].branch
           p == refs[b].parent
           source == req[r].source
<1>1. /\ req[r] \in RequestType /\ b \in DOMAIN refs /\ b \in Branches
      /\ refs[b] \in RefType /\ p \in DOMAIN refs /\ p \in Branches
  BY ReqFacts DEF Inv, RefOK, RefType
<1>2. source \in RefType /\ source.chain # <<>> /\ req[r].ref.headSeq \in Nat
  BY <1>1 DEF Advance, Inv, RefsRead, RequestType, RefType
<1>3. Tail(source.chain) \in Seq(SegmentType)
  BY <1>2, HeadTailProperties DEF RefType, ChainType
<1>4. Segment(b, req[r].ref.headSeq) \in SegmentType /\ Segment(p, source.headSeq) \in SegmentType
  BY <1>1, <1>2 DEF Segment, SegmentType, RefType
<1>5. /\ AdvancedChain(r) \in ChainType /\ AdvancedChain(r) # <<>>
      /\ AdvancedChain(r)[1] = Segment(b, req[r].ref.headSeq)
  BY <1>3, <1>4 DEF AdvancedChain, ChainType
<1>6. /\ DOMAIN refs' = DOMAIN refs
      /\ refs' \in [DOMAIN refs -> RefType]
      /\ \A a \in DOMAIN refs : /\ refs'[a].head = refs[a].head
                              /\ refs'[a].headSeq = refs[a].headSeq
                              /\ refs'[a].parent = refs[a].parent
      /\ refs'[b].chain = AdvancedChain(r)
      /\ \A a \in DOMAIN refs \ {b} : refs'[a] = refs[a]
  BY <1>1, <1>5 DEF Advance, Inv, TypeOK, RefType
<1>7. Idle \in RequestType /\ Idle.branch \in DOMAIN refs /\ Idle.pc = "idle"
  BY IdleType DEF Idle, Inv, TypeOK
<1>8. /\ req' \in [Requests -> RequestType]
      /\ \A q \in Requests : req'[q] = IF q = r THEN Idle ELSE req[q]
  BY <1>7 DEF Advance, Inv, TypeOK
<1>9. ASSUME NEW a \in DOMAIN refs PROVE RefOK(a)'
  <2>1. RefOK(a)
    BY DEF Inv, TypeOK
  <2>2. refs'[a].parent \in DOMAIN refs'
    BY <1>6, <2>1 DEF RefOK
  <2>3. CASE a = b
    <3>1. refs'[a].chain[1].branch = a /\ refs'[a].chain # <<>>
      BY <1>5, <1>6, <2>3 DEF Segment
    <3> QED
      BY <2>2, <3>1 DEF RefOK
  <2>4. CASE a # b
    BY <1>6, <2>1, <2>2, <2>4 DEF RefOK
  <2> QED
    BY <2>3, <2>4
<1>10. TypeOK'
  BY <1>6, <1>7, <1>8, <1>9 DEF Advance, Inv, TypeOK
<1>11. RefsRead'
  BY <1>6, <1>7, <1>8 DEF Inv, TypeOK, RefsRead, ReadBehind
<1>12. LinearHistory'
  BY <1>6 DEF Advance, Inv, LinearHistory, On
<1> QED
  BY <1>10, <1>11, <1>12 DEF Inv

(* A fork starts with no commit of its own (branch.go:42-90).              *)
LEMMA CreateBranchInv ==
  ASSUME Inv, NEW n \in Branches, NEW from \in DOMAIN refs, CreateBranch(n, from)
  PROVE  Inv'
<1> DEFINE new == [head |-> refs[from].head, headSeq |-> 0, parent |-> from,
                   chain |-> ForkChain(n, from)]
<1>1. /\ from \in Branches /\ refs[from] \in RefType /\ refs[from].chain # <<>>
  BY DEF Inv, TypeOK, RefOK
<1>2. Tail(refs[from].chain) \in Seq(SegmentType)
  BY <1>1, HeadTailProperties DEF RefType, ChainType
<1>3. Segment(n, 0) \in SegmentType /\ Segment(from, refs[from].headSeq) \in SegmentType
  BY <1>1 DEF Segment, SegmentType, RefType
<1>4. /\ ForkChain(n, from) \in ChainType /\ ForkChain(n, from) # <<>>
      /\ ForkChain(n, from)[1] = Segment(n, 0)
  BY <1>2, <1>3 DEF ForkChain, ChainType
<1>5. new \in RefType
  BY <1>1, <1>4 DEF RefType
<1>6. /\ n \notin DOMAIN refs /\ DOMAIN refs' = DOMAIN refs \cup {n}
      /\ refs'[n] = new /\ \A a \in DOMAIN refs : refs'[a] = refs[a]
      /\ refs' = [a \in DOMAIN refs \cup {n} |-> IF a = n THEN new ELSE refs[a]]
  BY DEF CreateBranch
<1>7. refs' \in [DOMAIN refs' -> RefType]
  BY <1>5, <1>6 DEF Inv, TypeOK
<1>8. \A a \in DOMAIN refs' : RefOK(a)'
  BY <1>4, <1>6 DEF Inv, TypeOK, RefOK, Segment
<1>9. TypeOK'
  BY <1>6, <1>7, <1>8 DEF CreateBranch, Inv, TypeOK
<1>10. RefsRead'
  BY <1>6 DEF CreateBranch, Inv, TypeOK, RefsRead, ReadBehind
<1>11. LinearHistory'
  <2>1. On(n)' = {}
    BY <1>6 DEF On, CreateBranch, Inv, TypeOK
  <2>2. \A a \in DOMAIN refs : On(a)' = On(a)
    BY DEF On, CreateBranch
  <2>3. {commits[c].seq : c \in {}} \cup {0} = 0 .. 0
    OBVIOUS
  <2> QED
    BY <1>6, <2>1, <2>2, <2>3 DEF CreateBranch, Inv, LinearHistory
<1> QED
  BY <1>9, <1>10, <1>11 DEF Inv

(* What a commit builds on is the head of its branch at that moment: the   *)
(* unique key of datagit_commit turns away whoever read an earlier one     *)
(* (store.go:385-485).                                                     *)
LEMMA LandAtHead ==
  ASSUME Inv, NEW r \in Requests, Land(r)
  PROVE  /\ req[r].ref.headSeq = refs[req[r].branch].headSeq
         /\ req[r].ref.head = refs[req[r].branch].head
<1> DEFINE b == req[r].branch
           h == req[r].ref.headSeq
<1>1. /\ b \in DOMAIN refs /\ refs[b].headSeq \in Nat /\ h \in Nat
      /\ req[r] \in RequestType
  BY ReqFacts DEF Inv, RefType, RequestType
<1>2. ReadBehind(r)
  BY DEF Land, Inv, RefsRead
<1>3. ~(h < refs[b].headSeq)
  <2> SUFFICES ASSUME h < refs[b].headSeq PROVE FALSE
    OBVIOUS
  <2>1. h + 1 \in 0 .. refs[b].headSeq /\ h + 1 # 0
    BY <1>1
  <2>2. PICK c \in On(b) : commits[c].seq = h + 1
    BY <1>1, <2>1 DEF Inv, LinearHistory
  <2>3. Collides(r)
    BY <2>2 DEF Collides, NextSeq, On
  <2> QED
    BY <2>3 DEF Land
<1> QED
  BY <1>1, <1>2, <1>3 DEF ReadBehind

(* The versions and the live table after a commit are well typed           *)
(* (store.go:428-446).                                                     *)
LEMMA LandRows ==
  ASSUME Inv, NEW r \in Requests, Land(r)
  PROVE  rows' \subseteq VersionType /\ live' \in Table
<1> DEFINE b == req[r].branch
           seq == NextSeq(r)
           keys == Effective(r)
           changes == [pk \in keys |-> req[r].changes[pk]]
           mask(pk) == MaskOf(CurrentRow(req[r].ref.chain, pk), changes[pk])
<1>1. req[r] \in RequestType /\ b \in Branches
  BY ReqFacts DEF Inv
<1>2. PICK asked \in SUBSET PKs : req[r].changes \in [asked -> Image]
  BY <1>1 DEF RequestType, ChangeSet
<1>3. keys \subseteq PKs /\ \A pk \in keys : changes[pk] \in Image
  BY <1>2 DEF Effective
<1>4. seq \in Nat /\ MaxSeq \in Nat
  BY <1>1, StoreAssumption DEF NextSeq, RequestType, RefType
<1>5. CloseOpen(b, keys, seq) \subseteq VersionType
  <2>1. \A v \in VersionType : [v EXCEPT !.to = seq] \in VersionType
    BY <1>4 DEF VersionType
  <2> QED
    BY <2>1 DEF CloseOpen, Inv, TypeOK
<1>6. \A pk \in keys : Version(b, pk, seq, mask(pk), changes[pk]) \in VersionType
  <2>1. \A pk \in keys : mask(pk) \in Mask
    BY DEF MaskOf, Mask
  <2> HIDE DEF mask, changes
  <2> QED
    BY <1>1, <1>3, <1>4, <2>1 DEF Version, VersionType
<1>7. rows' = CloseOpen(b, keys, seq)
                \cup {Version(b, pk, seq, mask(pk), changes[pk]) : pk \in keys}
  BY DEF Land
<1>8. live' \in Table
  <2>1. live \in Table
    BY DEF Inv, TypeOK
  <2>2. Apply(live, changes) \in Table
    BY <1>3, <2>1 DEF Apply, Table
  <2>3. ApplyLive(b, changes)
    BY DEF Land
  <2> QED
    BY <2>1, <2>2, <2>3 DEF ApplyLive
<1> QED
  BY <1>5, <1>6, <1>7, <1>8

(* What a commit appends and where it moves its branch (store.go:456-485). *)
LEMMA LandRefs ==
  ASSUME Inv, NEW r \in Requests, Land(r)
  PROVE  LET b == req[r].branch
             seq == refs[b].headSeq + 1
             new == commits'[Len(commits) + 1]
         IN  /\ commits' \in Seq(CommitType)
             /\ DOMAIN commits' = DOMAIN commits \cup {Len(commits) + 1}
             /\ Len(commits) + 1 \notin DOMAIN commits
             /\ \A c \in DOMAIN commits : commits'[c] = commits[c]
             /\ new.first = refs[b].head /\ new.branch = b /\ new.seq = seq
             /\ DOMAIN refs' = DOMAIN refs
             /\ refs' \in [DOMAIN refs -> RefType]
             /\ refs'[b].head = Len(commits) + 1 /\ refs'[b].headSeq = seq
             /\ refs'[b].parent = refs[b].parent
             /\ refs'[b].chain # <<>> /\ refs'[b].chain[1].branch = b
             /\ \A a \in DOMAIN refs \ {b} : refs'[a] = refs[a]
<1> DEFINE b == req[r].branch
           seq == NextSeq(r)
           chain == <<Segment(b, seq)>> \o Tail(req[r].ref.chain)
           new == [first |-> req[r].ref.head, others |-> req[r].others, branch |-> b,
                   seq |-> seq, chain |-> chain]
<1>1. /\ req[r] \in RequestType /\ b \in DOMAIN refs /\ b \in Branches
      /\ refs[b] \in RefType
  BY ReqFacts DEF Inv
<1>2. req[r].ref.headSeq = refs[b].headSeq /\ req[r].ref.head = refs[b].head
  BY LandAtHead
<1>3. seq \in Nat /\ seq = refs[b].headSeq + 1
  BY <1>1, <1>2 DEF NextSeq, RefType
<1>4. req[r].ref.chain \in ChainType /\ req[r].ref.chain # <<>>
  BY <1>1 DEF Land, Inv, RefsRead, ReadBehind, RequestType, RefType
<1>5. chain \in ChainType /\ chain # <<>> /\ chain[1] = Segment(b, seq)
  BY <1>1, <1>3, <1>4, ChainOverTail
<1> HIDE DEF chain
<1>6. new \in CommitType
  BY <1>1, <1>3, <1>5 DEF CommitType, RequestType, RefType
<1>7. commits' = Append(commits, new)
  BY DEF Land, new, chain
<1>8. refs' = [refs EXCEPT ![b].head = Len(commits) + 1, ![b].headSeq = seq,
                           ![b].chain = chain]
  BY DEF Land, chain
<1>9. commits \in Seq(CommitType) /\ Len(commits) + 1 \in Nat
  BY DEF Inv, TypeOK
<1>10. /\ commits' \in Seq(CommitType)
       /\ DOMAIN commits' = DOMAIN commits \cup {Len(commits) + 1}
       /\ Len(commits) + 1 \notin DOMAIN commits
       /\ \A c \in DOMAIN commits : commits'[c] = commits[c]
       /\ commits'[Len(commits) + 1] = new
  <2> HIDE DEF new
  <2> QED
    BY <1>6, <1>7, <1>9
<1>11. new.first = refs[b].head /\ new.branch = b /\ new.seq = refs[b].headSeq + 1
  BY <1>2, <1>3
<1>12. /\ DOMAIN refs' = DOMAIN refs
       /\ refs' \in [DOMAIN refs -> RefType]
       /\ refs'[b].head = Len(commits) + 1 /\ refs'[b].headSeq = seq
       /\ refs'[b].parent = refs[b].parent /\ refs'[b].chain = chain
       /\ \A a \in DOMAIN refs \ {b} : refs'[a] = refs[a]
  <2> HIDE DEF seq
  <2> QED
    BY <1>1, <1>3, <1>5, <1>8, <1>9 DEF Inv, TypeOK, RefType
<1>13. chain[1].branch = b
  BY <1>5 DEF Segment
<1> HIDE DEF new, seq
<1> QED
  BY <1>3, <1>5, <1>10, <1>11, <1>12, <1>13

(* A commit on the head of its branch continues the branch's history       *)
(* (store.go:456-485).                                                     *)
LEMMA HistoryGrows ==
  ASSUME LinearHistory, NEW b \in DOMAIN refs, refs[b].headSeq \in Nat,
         NEW seq, seq = refs[b].headSeq + 1,
         NEW id, id \notin DOMAIN commits, DOMAIN commits' = DOMAIN commits \cup {id},
         \A c \in DOMAIN commits : commits'[c] = commits[c],
         commits'[id].first = refs[b].head, commits'[id].branch = b, commits'[id].seq = seq,
         DOMAIN refs' = DOMAIN refs, refs'[b].head = id, refs'[b].headSeq = seq,
         \A a \in DOMAIN refs \ {b} : refs'[a] = refs[a]
  PROVE  LinearHistory'
<1> SUFFICES ASSUME NEW a \in DOMAIN refs
             PROVE  /\ \A c, d \in On(a)' : commits'[c].seq = commits'[d].seq => c = d
                    /\ {commits'[c].seq : c \in On(a)'} \cup {0} = 0 .. refs'[a].headSeq
                    /\ \A c \in On(a)' :
                         /\ commits'[c].seq = refs'[a].headSeq => refs'[a].head = c
                         /\ commits'[c].seq > 1 =>
                              /\ commits'[c].first \in On(a)'
                              /\ commits'[commits'[c].first].seq = commits'[c].seq - 1
  BY DEF LinearHistory
<1>1. /\ \A c, d \in On(a) : commits[c].seq = commits[d].seq => c = d
      /\ {commits[c].seq : c \in On(a)} \cup {0} = 0 .. refs[a].headSeq
      /\ \A c \in On(a) :
           /\ commits[c].seq = refs[a].headSeq => refs[a].head = c
           /\ commits[c].seq > 1 => /\ commits[c].first \in On(a)
                                    /\ commits[commits[c].first].seq = commits[c].seq - 1
  BY DEF LinearHistory
<1>2. On(a) \subseteq DOMAIN commits
  BY DEF On
<1>3. CASE a # b
  <2>1. On(a)' = On(a)
    BY <1>3 DEF On
  <2>2. \A c \in On(a) : commits'[c] = commits[c]
    BY <1>2
  <2>3. {commits'[c].seq : c \in On(a)} = {commits[c].seq : c \in On(a)}
    BY <2>2
  <2>4. refs'[a] = refs[a]
    BY <1>3
  <2> QED
    BY <1>1, <2>1, <2>2, <2>3, <2>4
<1>4. CASE a = b
  <2>1. On(a)' = On(a) \cup {id}
    BY <1>4 DEF On
  <2>2. \A c \in On(a) : commits'[c] = commits[c]
    BY <1>2
  <2>3. {commits'[c].seq : c \in On(a)'} = {commits[c].seq : c \in On(a)} \cup {seq}
    BY <2>1, <2>2
  <2>4. \A c \in On(a) : commits[c].seq \in 0 .. refs[a].headSeq
    BY <1>1
  <2>5. \A c \in On(a) : commits[c].seq < seq
    BY <1>4, <2>4
  <2>6. \A c, d \in On(a)' : commits'[c].seq = commits'[d].seq => c = d
    BY <1>1, <2>1, <2>2, <2>4, <2>5
  <2>7. {commits'[c].seq : c \in On(a)'} \cup {0} = 0 .. refs'[a].headSeq
    <3>1. 0 .. seq = (0 .. refs[b].headSeq) \cup {seq}
      OBVIOUS
    <3> QED
      BY <1>1, <1>4, <2>3, <3>1
  <2>8. ASSUME seq > 1
        PROVE  /\ refs[b].head \in On(a)
               /\ commits[refs[b].head].seq = seq - 1
    <3>1. refs[b].headSeq \in 0 .. refs[b].headSeq /\ refs[b].headSeq # 0
      BY <2>8
    <3>2. PICK c \in On(a) : commits[c].seq = refs[b].headSeq
      BY <1>1, <1>4, <3>1
    <3> QED
      BY <1>1, <1>4, <3>2
  <2>9. ASSUME NEW c \in On(a)'
        PROVE  /\ commits'[c].seq = refs'[a].headSeq => refs'[a].head = c
               /\ commits'[c].seq > 1 =>
                    /\ commits'[c].first \in On(a)'
                    /\ commits'[commits'[c].first].seq = commits'[c].seq - 1
    <3>1. CASE c = id
      BY <1>4, <2>1, <2>2, <2>8, <3>1
    <3>2. CASE c \in On(a)
      <4>1. commits'[c] = commits[c] /\ commits[c].seq # seq
        BY <2>2, <2>4, <2>5, <3>2
      <4>2. refs'[a].headSeq = seq
        BY <1>4
      <4> QED
        BY <1>1, <2>1, <2>2, <3>2, <4>1, <4>2
    <3> QED
      BY <2>1, <3>1, <3>2
  <2> QED
    BY <2>6, <2>7, <2>9
<1> QED
  BY <1>3, <1>4

(* A commit lands (store.go:376-515): the versions, the commit and the ref *)
(* keep the invariant together, since what it read is the head.            *)
LEMMA LandInv ==
  ASSUME Inv, NEW r \in Requests, Land(r)
  PROVE  Inv'
<1> DEFINE b == req[r].branch
           seq == refs[b].headSeq + 1
           id == Len(commits) + 1
           idle == IF req[r].kind = "update" THEN [Idle EXCEPT !.pc = "parent", !.branch = b]
                   ELSE Idle
<1>1. /\ b \in DOMAIN refs /\ b \in Branches /\ refs[b].headSeq \in Nat
  BY ReqFacts DEF Inv, RefType
<1>2. /\ commits' \in Seq(CommitType) /\ DOMAIN commits' = DOMAIN commits \cup {id}
      /\ id \notin DOMAIN commits /\ \A c \in DOMAIN commits : commits'[c] = commits[c]
      /\ commits'[id].first = refs[b].head /\ commits'[id].branch = b
      /\ commits'[id].seq = seq
      /\ DOMAIN refs' = DOMAIN refs
      /\ refs' \in [DOMAIN refs -> RefType]
      /\ refs'[b].head = id /\ refs'[b].headSeq = seq
      /\ refs'[b].parent = refs[b].parent
      /\ refs'[b].chain # <<>> /\ refs'[b].chain[1].branch = b
      /\ \A a \in DOMAIN refs \ {b} : refs'[a] = refs[a]
  BY LandRefs
<1>3. idle \in RequestType /\ idle.branch \in DOMAIN refs /\ idle.pc \in {"idle", "parent"}
  BY <1>1, IdleType DEF Idle, RequestType, Inv, TypeOK
<1>4. req' = [req EXCEPT ![r] = idle]
  BY DEF Land, Inv, TypeOK
<1> HIDE DEF idle, id, seq
<1>5. /\ req' \in [Requests -> RequestType]
      /\ \A q \in Requests : req'[q] = IF q = r THEN idle ELSE req[q]
  BY <1>3, <1>4 DEF Inv, TypeOK
<1>6. TypeOK'
  <2>1. \A a \in DOMAIN refs : RefOK(a)'
    BY <1>1, <1>2 DEF Inv, TypeOK, RefOK
  <2>2. lock' \in [Branches -> Requests \cup {NoRequest}]
    BY ReleaseType DEF Land, Inv
  <2>3. \A c \in DOMAIN commits' : commits'[c].branch \in DOMAIN refs
    BY <1>1, <1>2 DEF Inv, TypeOK
  <2>4. \A q \in Requests : req'[q].branch \in DOMAIN refs
    BY <1>3, <1>5 DEF Inv, TypeOK
  <2>5. Main \in DOMAIN refs /\ DOMAIN refs \subseteq Branches
    BY DEF Inv, TypeOK
  <2> QED
    BY <1>2, <1>5, <2>1, <2>2, <2>3, <2>4, <2>5, LandRows DEF TypeOK
<1>7. RefsRead'
  <2> SUFFICES ASSUME NEW q \in Requests
               PROVE  /\ req'[q].pc = "apply" => ReadBehind(q)'
                      /\ req'[q].pc \in {"child", "advance"} => req'[q].source.chain # <<>>
    BY DEF RefsRead
  <2>1. CASE q = r
    BY <1>3, <1>5, <2>1
  <2>2. CASE q # r
    <3>1. req'[q] = req[q]
      BY <1>5, <2>2
    <3>2. req[q].branch \in DOMAIN refs /\ req[q].ref.headSeq \in Nat
      BY ReqFacts DEF Inv, RequestType, RefType
    <3>3. CASE req[q].branch = b
      <4>1. /\ req[q].pc = "apply" => ReadBehind(q)
            /\ req[q].pc \in {"child", "advance"} => req[q].source.chain # <<>>
        BY DEF Inv, RefsRead
      <4>2. ASSUME ReadBehind(q) PROVE ReadBehind(q)'
        <5>1. req[q].ref.chain # <<>> /\ req[q].ref.headSeq <= refs[b].headSeq
          BY <3>3, <4>2 DEF ReadBehind
        <5>2. req[q].ref.headSeq <= seq /\ req[q].ref.headSeq # seq
          BY <1>1, <3>2, <5>1 DEF seq
        <5>3. refs'[req'[q].branch].headSeq = seq
          BY <1>2, <3>1, <3>3
        <5> QED
          BY <3>1, <5>1, <5>2, <5>3 DEF ReadBehind
      <4> QED
        BY <3>1, <4>1, <4>2
    <3>4. CASE req[q].branch # b
      BY <1>2, <3>1, <3>2, <3>4 DEF Inv, RefsRead, ReadBehind
    <3> QED
      BY <3>3, <3>4
  <2> QED
    BY <2>1, <2>2
<1>8. LinearHistory'
  BY <1>1, <1>2, HistoryGrows DEF Inv, seq
<1> QED
  BY <1>6, <1>7, <1>8 DEF Inv

-----------------------------------------------------------------------------
(* The theorems.                                                           *)

(* No step of the store breaks the invariant.                              *)
LEMMA NextInv == Inv /\ [Next]_vars => Inv'
<1> SUFFICES ASSUME Inv, [Next]_vars PROVE Inv'
  OBVIOUS
<1>1. CASE UNCHANGED vars
  BY <1>1 DEF vars, Inv, TypeOK, RefOK, RefsRead, ReadBehind, LinearHistory, On
<1>2. ASSUME NEW r \in Requests, Submit(r) PROVE Inv'
  BY <1>2, SubmitInv
<1>3. ASSUME NEW r \in Requests, Step(r) PROVE Inv'
  <2>1. CASE Lock(r) \/ ReadUnlocked(r)
    BY <2>1, LockInv, ReadUnlockedInv
  <2>2. CASE Land(r)
    BY <2>2, LandInv
  <2>3. CASE Refuse(r)
    BY <2>3, FinishInv DEF Refuse
  <2>4. CASE PlanMerge(r)
    BY <2>4, PlanMergeInv
  <2>5. CASE ReadParent(r) \/ ReadChild(r)
    BY <2>5, ReadParentInv, ReadChildInv
  <2>6. CASE Advance(r)
    BY <2>6, AdvanceInv
  <2> QED
    BY <1>3, <2>1, <2>2, <2>3, <2>4, <2>5, <2>6 DEF Step
<1>4. ASSUME NEW r \in Requests, Crash(r) PROVE Inv'
  BY <1>4, FinishInv DEF Crash
<1>5. ASSUME NEW n \in Branches, NEW from \in DOMAIN refs, CreateBranch(n, from) PROVE Inv'
  BY <1>5, CreateBranchInv
<1> QED
  BY <1>1, <1>2, <1>3, <1>4, <1>5 DEF Next

(* The store never leaves the inductive invariant: well-formed rows of the *)
(* catalogue and the sidecar, no request ahead of its branch's ref, and    *)
(* linear histories (store.go:376-515, branch.go:43-86, merge.go:435-480). *)
THEOREM Invariance == Spec => []Inv
  BY InitInv, NextInv, PTL DEF Spec

(* The rows of the catalog and the locals of every request stay well       *)
(* formed, a stored chain starts with its own branch in particular         *)
(* (branch.go:51-57), for any instance of the store.                       *)
THEOREM TypeCorrect == Spec => []TypeOK
<1>1. Inv => TypeOK
  BY DEF Inv
<1> QED
  BY <1>1, Invariance, PTL

(* Every branch has a linear history (store.go:385-485) whatever requests  *)
(* run at the same time, those of audit-mode tables, which take no lock,   *)
(* and the ones that crash half-way included.                              *)
THEOREM HistoryIsLinear == Spec => []LinearHistory
<1>1. Inv => LinearHistory
  BY DEF Inv
<1> QED
  BY <1>1, Invariance, PTL

-----------------------------------------------------------------------------
(* The ref lock.                                                           *)

(* The holder of a ref lock is the versioned commit at work under it.      *)
LocksHeld == \A r \in Requests :
  req[r].pc = "apply" /\ ~Audit(r) => lock[req[r].branch] = r

(* What a step of r does to the requests and the locks: r alone moves, and *)
(* only a lock that is free or r's own changes.                            *)
LEMMA StepLocks ==
  ASSUME TypeOK, NEW r \in Requests, Submit(r) \/ Step(r) \/ Crash(r)
  PROVE  /\ \A q \in Requests \ {r} : req'[q] = req[q]
         /\ \A b \in Branches : lock[b] \notin {r, NoRequest} => lock'[b] = lock[b]
         /\ req'[r].pc = "apply" =>
              /\ req'[r].branch = req[r].branch /\ req'[r].table = req[r].table
              /\ Lock(r) \/ ReadUnlocked(r)
<1> USE DEF TypeOK
<1>1. Idle.pc = "idle"
  BY DEF Idle
<1>2. CASE Submit(r)
  <2>1. PICK x : /\ req' = [req EXCEPT ![r] = x] /\ x.pc \in {"begin", "into"}
                 /\ UNCHANGED lock
    BY <1>2 DEF Submit, SubmitCommit, SubmitUpdate, SubmitMerge, Idle
  <2> QED
    BY <2>1
<1>3. CASE Lock(r)
  BY <1>3 DEF Lock, RequestType
<1>4. CASE ReadUnlocked(r)
  BY <1>4 DEF ReadUnlocked, RequestType
<1>5. CASE Land(r)
  <2> DEFINE x == IF req[r].kind = "update"
                  THEN [Idle EXCEPT !.pc = "parent", !.branch = req[r].branch] ELSE Idle
  <2>1. req' = [req EXCEPT ![r] = x]
    BY <1>5 DEF Land
  <2>2. x.pc \in {"idle", "parent"}
    BY DEF Idle
  <2>3. Release(r)
    BY <1>5 DEF Land
  <2> HIDE DEF x
  <2> QED
    BY <2>1, <2>2, <2>3 DEF Release
<1>6. CASE Refuse(r) \/ Crash(r)
  BY <1>1, <1>6 DEF Refuse, Crash, Finish, Release
<1>7. CASE PlanMerge(r)
  <2> DEFINE ours == refs[req[r].branch]
             bases == MergeBases(ours.head, req[r].source.head)
             x == [req[r] EXCEPT !.pc = "begin", !.others = {req[r].source.head},
                                 !.source = NoRef,
                                 !.changes = MergeOf(r, ours, CHOOSE y \in bases : TRUE).changes]
  <2>1. req' = [req EXCEPT ![r] = x] \/ req' = [req EXCEPT ![r] = Idle]
    BY <1>7 DEF PlanMerge
  <2>2. x.pc = "begin"
    BY DEF RequestType
  <2> HIDE DEF x
  <2> QED
    BY <1>1, <1>7, <2>1, <2>2 DEF PlanMerge
<1>8. CASE ReadParent(r)
  BY <1>8 DEF ReadParent, RequestType
<1>9. CASE ReadChild(r)
  BY <1>9 DEF ReadChild, RequestType
<1>10. CASE Advance(r)
  BY <1>1, <1>10 DEF Advance
<1> QED
  BY <1>2, <1>3, <1>4, <1>5, <1>6, <1>7, <1>8, <1>9, <1>10 DEF Step

(* A versioned commit at work holds its branch's ref lock until it ends    *)
(* (store.go:395-402).                                                     *)
LEMMA LocksHeldNext == TypeOK /\ LocksHeld /\ [Next]_vars => LocksHeld'
<1> SUFFICES ASSUME TypeOK, LocksHeld, [Next]_vars, NEW r \in Requests,
                    req'[r].pc = "apply", ~Audit(r)'
             PROVE  lock'[req'[r].branch] = r
  BY DEF LocksHeld
<1>1. CASE UNCHANGED <<lock, req>>
  BY <1>1 DEF LocksHeld, Audit
<1>2. ASSUME NEW q \in Requests, Submit(q) \/ Step(q) \/ Crash(q), q # r
      PROVE  lock'[req'[r].branch] = r
  <2>1. req'[r] = req[r]
    BY <1>2, StepLocks
  <2>2. lock[req[r].branch] = r
    BY <2>1 DEF LocksHeld, Audit
  <2>3. req[r].branch \in Branches /\ r # NoRequest
    BY ReqFacts, StoreAssumption
  <2> QED
    BY <1>2, <2>1, <2>2, <2>3, StepLocks
<1>3. ASSUME Submit(r) \/ Step(r) \/ Crash(r)
      PROVE  lock'[req'[r].branch] = r
  <2>1. /\ req'[r].branch = req[r].branch /\ req'[r].table = req[r].table
        /\ Lock(r) \/ ReadUnlocked(r)
    BY <1>3, StepLocks
  <2>2. ~Audit(r)
    BY <2>1 DEF Audit
  <2>3. Lock(r) /\ req[r].branch \in Branches
    BY <2>1, <2>2, ReqFacts DEF ReadUnlocked
  <2> QED
    BY <2>1, <2>3 DEF Lock, TypeOK
<1>4. ASSUME NEW n \in Branches, NEW from \in DOMAIN refs, CreateBranch(n, from)
      PROVE  lock'[req'[r].branch] = r
  BY <1>1, <1>4 DEF CreateBranch
<1> QED
  BY <1>1, <1>2, <1>3, <1>4 DEF Next, vars

(* While a versioned commit works under the ref lock, nothing but an       *)
(* audit-mode commit moves its branch (store.go:392-402): not another      *)
(* versioned commit, and not the second half of an update, which waits for *)
(* the locked ref row.                                                     *)
THEOREM LockProtects == Spec => LockProtectsRef
<1> DEFINE Protected ==
      \A r \in Requests :
        req[r].pc = "apply" /\ ~Audit(r) /\ req'[r] = req[r]
          => \/ refs'[req[r].branch] = refs[req[r].branch]
             \/ \E q \in Requests : Audit(q) /\ Land(q)
<1>1. Init => LocksHeld
  BY DEF Init, LocksHeld, Idle
<1>2. TypeOK /\ LocksHeld /\ [Next]_vars => [Protected]_vars
  <2> SUFFICES ASSUME TypeOK, LocksHeld, Next, NEW r \in Requests,
                      req[r].pc = "apply", ~Audit(r), req'[r] = req[r],
                      \A q \in Requests : Audit(q) => ~Land(q)
               PROVE  refs'[req[r].branch] = refs[req[r].branch]
    OBVIOUS
  <2>1. lock[req[r].branch] = r /\ r # NoRequest /\ req[r].branch \in DOMAIN refs
    BY ReqFacts, StoreAssumption DEF LocksHeld
  <2>2. ASSUME NEW q \in Requests, Land(q)
        PROVE  refs'[req[r].branch] = refs[req[r].branch]
    <3>1. ~Audit(q) /\ lock[req[q].branch] = q
      BY <2>2 DEF LocksHeld, Land
    <3>2. q # r
      <4>1. Idle.pc # "apply" /\ [Idle EXCEPT !.pc = "parent", !.branch = req[q].branch].pc # "apply"
        BY DEF Idle
      <4> QED
        BY <2>2, <4>1 DEF Land, TypeOK
    <3>3. req[q].branch # req[r].branch
      BY <2>1, <3>1, <3>2
    <3> QED
      BY <2>1, <2>2, <3>3 DEF Land, TypeOK
  <2>3. ASSUME NEW q \in Requests, Advance(q)
        PROVE  refs'[req[r].branch] = refs[req[r].branch]
    <3>1. req[q].branch # req[r].branch
      BY <2>1, <2>3 DEF Advance
    <3> QED
      BY <2>1, <2>3, <3>1 DEF Advance, TypeOK
  <2>4. ASSUME NEW n \in Branches, NEW from \in DOMAIN refs, CreateBranch(n, from)
        PROVE  refs'[req[r].branch] = refs[req[r].branch]
    BY <2>1, <2>4 DEF CreateBranch
  <2>5. CASE UNCHANGED refs
    BY <2>5
  <2>6. ASSUME NEW q \in Requests, Submit(q) \/ Crash(q) PROVE UNCHANGED refs
    BY <2>6 DEF Submit, SubmitCommit, SubmitUpdate, SubmitMerge, Crash
  <2>7. ASSUME NEW q \in Requests, Step(q), ~Land(q), ~Advance(q) PROVE UNCHANGED refs
    BY <2>7 DEF Step, Lock, ReadUnlocked, Refuse, PlanMerge, ReadParent, ReadChild
  <2> QED
    BY <2>2, <2>3, <2>4, <2>5, <2>6, <2>7 DEF Next
<1> QED
  BY <1>1, <1>2, LocksHeldNext, TypeCorrect, PTL DEF Spec, LockProtectsRef

-----------------------------------------------------------------------------
(* Resolution as a function of the sidecar's contents.                     *)

HitsIn(store, chain, i, pk) ==
  {v \in store : /\ v.pk = pk /\ v.branch = chain[i].branch /\ v.session = NoSession
                 /\ v.from <= chain[i].seq /\ chain[i].seq < v.to}

FirstIn(store, chain, pk) ==
  UNION {HitsIn(store, chain, i, pk) : i \in {k \in DOMAIN chain :
                                   \A j \in 1 .. k - 1 : HitsIn(store, chain, j, pk) = {}}}

RowIn(store, chain, pk) ==
  LET found == FirstIn(store, chain, pk)
  IN  IF found = {} THEN Absent ELSE (CHOOSE v \in found : TRUE).row

(* Resolution reads the sidecar and the chain only (read.go:87-119).       *)
LEMMA CurrentRowIn ==
  ASSUME NEW chain, NEW pk
  PROVE  CurrentRow(chain, pk) = RowIn(rows, chain, pk)
BY DEF CurrentRow, FirstHits, Hits, RowIn, FirstIn, HitsIn

(* Two versions of one key on one branch are valid at no common number.    *)
ApartIn(store) ==
  \A v, w \in store : v.branch = w.branch /\ v.pk = w.pk /\ v # w
                        => v.to <= w.from \/ w.to <= v.from

(* Then a chain shows at most one version of a key.                        *)
LEMMA OneHit ==
  ASSUME NEW store \in SUBSET VersionType, ApartIn(store), NEW chain \in ChainType, NEW pk,
         NEW v \in FirstIn(store, chain, pk), NEW w \in FirstIn(store, chain, pk)
  PROVE  v = w
<1>1. PICK i \in DOMAIN chain : /\ v \in HitsIn(store, chain, i, pk)
                                /\ \A j \in 1 .. i - 1 : HitsIn(store, chain, j, pk) = {}
  BY DEF FirstIn
<1>2. PICK k \in DOMAIN chain : /\ w \in HitsIn(store, chain, k, pk)
                                /\ \A j \in 1 .. k - 1 : HitsIn(store, chain, j, pk) = {}
  BY DEF FirstIn
<1>3. DOMAIN chain = 1 .. Len(chain) /\ Len(chain) \in Nat
  BY DEF ChainType
<1>4. i = k
  <2>1. ~(i < k)
    BY <1>1, <1>2, <1>3
  <2>2. ~(k < i)
    BY <1>1, <1>2, <1>3
  <2> QED
    BY <1>3, <2>1, <2>2
<1>5. chain[i] \in SegmentType
  BY DEF ChainType
<1>6. /\ v \in VersionType /\ w \in VersionType
      /\ v.from <= chain[i].seq /\ chain[i].seq < v.to
      /\ w.from <= chain[i].seq /\ chain[i].seq < w.to
      /\ v.branch = w.branch /\ v.pk = w.pk
  BY <1>1, <1>2, <1>4 DEF HitsIn
<1>7. /\ chain[i].seq \in Nat /\ v.from \in Nat /\ v.to \in Nat
      /\ w.from \in Nat /\ w.to \in Nat
  BY <1>5, <1>6 DEF SegmentType, VersionType
<1>8. ~(v.to <= w.from) /\ ~(w.to <= v.from)
  BY <1>6, <1>7
<1> QED
  BY <1>6, <1>8 DEF ApartIn, HitsIn, FirstIn

(* Two chains that show the same rows in every segment show the same row.  *)
LEMMA SameRow ==
  ASSUME NEW s \in SUBSET VersionType, ApartIn(s), NEW c \in ChainType,
         NEW t \in SUBSET VersionType, ApartIn(t), NEW d \in ChainType,
         DOMAIN c = DOMAIN d, NEW pk,
         \A i \in DOMAIN c :
           /\ \A v \in HitsIn(s, c, i, pk) : \E w \in HitsIn(t, d, i, pk) : w.row = v.row
           /\ \A w \in HitsIn(t, d, i, pk) : \E v \in HitsIn(s, c, i, pk) : w.row = v.row
  PROVE  RowIn(s, c, pk) = RowIn(t, d, pk)
<1>1. \A i \in DOMAIN c : HitsIn(s, c, i, pk) = {} <=> HitsIn(t, d, i, pk) = {}
  OBVIOUS
<1>2. DOMAIN c = 1 .. Len(c) /\ Len(c) \in Nat
  BY DEF ChainType
<1>3. \A k \in DOMAIN c : (\A j \in 1 .. k - 1 : HitsIn(s, c, j, pk) = {})
                            <=> (\A j \in 1 .. k - 1 : HitsIn(t, d, j, pk) = {})
  BY <1>1, <1>2
<1>4. CASE FirstIn(s, c, pk) = {}
  <2>1. FirstIn(t, d, pk) = {}
    BY <1>1, <1>3, <1>4 DEF FirstIn
  <2> QED
    BY <1>4, <2>1 DEF RowIn
<1>5. CASE FirstIn(s, c, pk) # {}
  <2>1. PICK v : v \in FirstIn(s, c, pk)
    BY <1>5
  <2>2. PICK i \in DOMAIN c : /\ v \in HitsIn(s, c, i, pk)
                              /\ \A j \in 1 .. i - 1 : HitsIn(s, c, j, pk) = {}
    BY <2>1 DEF FirstIn
  <2>3. PICK w \in HitsIn(t, d, i, pk) : w.row = v.row
    BY <2>2
  <2>4. w \in FirstIn(t, d, pk)
    BY <1>3, <2>2, <2>3 DEF FirstIn
  <2>5. (CHOOSE x \in FirstIn(s, c, pk) : TRUE) = v
    BY <2>1, OneHit
  <2>6. (CHOOSE x \in FirstIn(t, d, pk) : TRUE) = w
    BY <2>4, OneHit
  <2> QED
    BY <2>1, <2>3, <2>4, <2>5, <2>6 DEF RowIn
<1> QED
  BY <1>4, <1>5

-----------------------------------------------------------------------------
(* The inductive invariant.                                                *)

(* No segment reaches past the head of its branch.                         *)
CoveredBy(heads, chain) ==
  /\ chain \in ChainType
  /\ \A i \in DOMAIN chain : /\ chain[i].branch \in DOMAIN heads
                             /\ chain[i].seq <= heads[chain[i].branch].headSeq

ChainsCovered ==
  /\ \A b \in DOMAIN refs : CoveredBy(refs, refs[b].chain)
  /\ \A c \in DOMAIN commits : CoveredBy(refs, commits[c].chain)
  /\ \A r \in Requests :
       /\ CoveredBy(refs, req[r].ref.chain) /\ CoveredBy(refs, req[r].source.chain)
       /\ req[r].pc = "advance" => req[r].ref.headSeq <= refs[req[r].branch].headSeq
       /\ req[r].pc \in {"child", "advance"} =>
            req[r].source.headSeq <= refs[refs[req[r].branch].parent].headSeq

(* Versions begin and end by the head of their branch, or are open.        *)
VersionsPlaced ==
  \A v \in rows : /\ v.branch \in DOMAIN refs /\ v.session = NoSession
                  /\ 1 <= v.from /\ v.from <= refs[v.branch].headSeq
                  /\ v.to = MaxSeq \/ v.to <= refs[v.branch].headSeq

VersionsApart == ApartIn(rows)

(* The sentinel of open versions is above every sequence number.           *)
HeadsBounded ==
  /\ Len(commits) <= MaxCommits
  /\ \A b \in DOMAIN refs : refs[b].headSeq < Len(commits)

HistoryInv == Inv /\ ChainsCovered /\ VersionsPlaced /\ VersionsApart /\ HeadsBounded

(* Refs come and advance, but neither go nor fall back.                    *)
Grown(heads, later) ==
  /\ DOMAIN heads \subseteq DOMAIN later
  /\ \A b \in DOMAIN heads : heads[b].headSeq <= later[b].headSeq

(* What heads cover, later heads cover.                                    *)
LEMMA CoveredStays ==
  ASSUME NEW heads, NEW later, Grown(heads, later),
         \A b \in DOMAIN heads : heads[b].headSeq \in Nat /\ later[b].headSeq \in Nat,
         NEW chain, CoveredBy(heads, chain)
  PROVE  CoveredBy(later, chain)
<1>1. \A i \in DOMAIN chain : chain[i] \in SegmentType
  BY DEF CoveredBy, ChainType
<1>2. \A i \in DOMAIN chain : chain[i].seq \in Nat
  BY <1>1 DEF SegmentType
<1> QED
  BY <1>2 DEF CoveredBy, Grown

(* A covered segment in front of a covered chain.                          *)
LEMMA CoveredPrepend ==
  ASSUME NEW heads, NEW b \in Branches, b \in DOMAIN heads, NEW seq \in Nat,
         seq <= heads[b].headSeq,
         NEW chain, CoveredBy(heads, chain)
  PROVE  CoveredBy(heads, <<Segment(b, seq)>> \o chain)
<1> DEFINE new == <<Segment(b, seq)>> \o chain
<1>1. chain \in Seq(SegmentType)
  BY DEF CoveredBy, ChainType
<1>2. Segment(b, seq) \in SegmentType
  BY DEF Segment, SegmentType
<1>3. new \in ChainType
  BY <1>1, <1>2 DEF ChainType
<1>4. ASSUME NEW i \in DOMAIN new
      PROVE  new[i].branch \in DOMAIN heads /\ new[i].seq <= heads[new[i].branch].headSeq
  <2>1. CASE i = 1
    <3>1. new[1] = Segment(b, seq)
      BY <1>1, <1>2
    <3> QED
      BY <2>1, <3>1 DEF Segment
  <2>2. CASE i # 1
    <3>1. i - 1 \in DOMAIN chain /\ new[i] = chain[i - 1]
      BY <1>1, <1>2, <1>4, <2>2
    <3> QED
      BY <3>1 DEF CoveredBy
  <2> QED
    BY <2>1, <2>2
<1> HIDE DEF new
<1>5. CoveredBy(heads, new)
  BY <1>3, <1>4 DEF CoveredBy
<1> QED
  BY <1>5 DEF new

(* The inherited part of a covered chain is covered.                       *)
LEMMA CoveredTail ==
  ASSUME NEW heads, NEW chain, CoveredBy(heads, chain), chain # <<>>
  PROVE  CoveredBy(heads, Tail(chain))
<1>1. chain \in Seq(SegmentType)
  BY DEF CoveredBy, ChainType
<1>2. /\ Tail(chain) \in Seq(SegmentType)
      /\ \A i \in DOMAIN Tail(chain) : i + 1 \in DOMAIN chain /\ Tail(chain)[i] = chain[i + 1]
  BY <1>1
<1> QED
  BY <1>2 DEF CoveredBy, ChainType

(* Two segments in front of a chain, one after the other.                  *)
LEMMA PrependTwo ==
  ASSUME NEW a \in SegmentType, NEW b \in SegmentType, NEW chain \in ChainType
  PROVE  <<a, b>> \o chain = <<a>> \o (<<b>> \o chain)
<1>1. chain \in Seq(SegmentType)
  BY DEF ChainType
<1> DEFINE s == <<a, b>> \o chain
           t == <<b>> \o chain
           u == <<a>> \o t
<1>2. s \in Seq(SegmentType) /\ t \in Seq(SegmentType) /\ u \in Seq(SegmentType)
  BY <1>1
<1>3. Len(s) = Len(chain) + 2 /\ Len(t) = Len(chain) + 1 /\ Len(u) = Len(chain) + 2
  BY <1>1
<1>4. ASSUME NEW i \in 1 .. Len(s) PROVE s[i] = u[i]
  <2>1. CASE i = 1
    BY <1>1, <1>2, <2>1
  <2>2. CASE i # 1
    <3>1. i - 1 \in 1 .. Len(t) /\ u[i] = t[i - 1]
      BY <1>1, <1>2, <1>3, <2>2
    <3>2. t[i - 1] = IF i = 2 THEN b ELSE chain[i - 2]
      BY <1>1, <1>3, <2>2
    <3>3. s[i] = IF i = 2 THEN b ELSE chain[i - 2]
      BY <1>1, <1>3, <2>2
    <3> QED
      BY <3>1, <3>2, <3>3
  <2> QED
    BY <2>1, <2>2
<1> HIDE DEF s, u
<1>5. s = u
  BY <1>2, <1>3, <1>4, SeqEqual
<1> QED
  BY <1>5 DEF s, u

(* The empty chain of a ref that has not been read covers nothing.         *)
LEMMA CoveredNone == \A heads : CoveredBy(heads, NoRef.chain)
BY DEF CoveredBy, NoRef, ChainType

-----------------------------------------------------------------------------
(* Steps that move one request on.                                         *)

(* What is left to show of a step that only moves one request on: the      *)
(* chains and the numbers it keeps of what it read are those of refs       *)
(* (store.go:392-402, merge.go:461-470).                                   *)
LEMMA LocalStep ==
  ASSUME HistoryInv, Inv', NEW r \in Requests, NEW x,
         req' = [req EXCEPT ![r] = x],
         UNCHANGED <<refs, commits, rows>>,
         CoveredBy(refs, x.ref.chain), CoveredBy(refs, x.source.chain),
         x.pc = "advance" => x.ref.headSeq <= refs[x.branch].headSeq,
         x.pc \in {"child", "advance"} =>
           x.source.headSeq <= refs[refs[x.branch].parent].headSeq
  PROVE  HistoryInv'
<1>1. \A q \in Requests : req'[q] = IF q = r THEN x ELSE req[q]
  BY DEF HistoryInv, Inv, TypeOK
<1>2. ChainsCovered'
  BY <1>1 DEF HistoryInv, ChainsCovered
<1>3. VersionsPlaced' /\ VersionsApart' /\ HeadsBounded'
  BY DEF HistoryInv, VersionsPlaced, VersionsApart, HeadsBounded
<1> QED
  BY <1>2, <1>3 DEF HistoryInv

(* A request that forgets what it read (postgres.go:511-526).              *)
LEMMA IdleStep ==
  ASSUME HistoryInv, Inv', NEW r \in Requests, NEW x,
         req' = [req EXCEPT ![r] = x], UNCHANGED <<refs, commits, rows>>,
         x.ref = NoRef, x.source = NoRef, x.pc \notin {"child", "advance"}
  PROVE  HistoryInv'
BY CoveredNone, LocalStep

(* A request starts: a merge or an update reads the ref it takes from      *)
(* (store.go:387, merge.go:57-66).                                         *)
LEMMA SubmitCommitHistory ==
  ASSUME HistoryInv, Inv', NEW r \in Requests, NEW b, NEW changes, NEW expected,
         SubmitCommit(r, b, changes, expected)
  PROVE  HistoryInv'
<1> DEFINE x == [Idle EXCEPT !.pc = "begin", !.kind = "commit", !.branch = b,
                             !.table = TableOf(changes), !.changes = changes,
                             !.expected = expected]
<1>1. x.ref = NoRef /\ x.source = NoRef /\ x.pc = "begin"
  BY DEF Idle
<1>2. req' = [req EXCEPT ![r] = x] /\ UNCHANGED <<refs, commits, rows>>
  BY DEF SubmitCommit
<1> HIDE DEF x
<1> QED
  BY <1>1, <1>2, IdleStep

(* A merge or an update starts (merge.go:57-66, 424-434).                  *)
LEMMA SubmitMergeHistory ==
  ASSUME HistoryInv, Inv', NEW r \in Requests, NEW kind, NEW from \in DOMAIN refs, NEW into,
         NEW table, SubmitMerge(r, kind, from, into, table)
  PROVE  HistoryInv'
<1> DEFINE x == [Idle EXCEPT !.pc = "into", !.kind = kind, !.branch = into,
                             !.table = table, !.source = refs[from]]
<1>1. x.ref = NoRef /\ x.source = refs[from] /\ x.pc = "into"
  BY DEF Idle
<1>2. req' = [req EXCEPT ![r] = x] /\ UNCHANGED <<refs, commits, rows>>
  BY DEF SubmitMerge
<1>3. CoveredBy(refs, refs[from].chain)
  BY DEF HistoryInv, ChainsCovered
<1> HIDE DEF x
<1> QED
  BY <1>1, <1>2, <1>3, CoveredNone, LocalStep

(* Whatever is submitted.                                                  *)
LEMMA SubmitHistory ==
  ASSUME HistoryInv, Inv', NEW r \in Requests, Submit(r)
  PROVE  HistoryInv'
<1>1. \A b \in DOMAIN refs : refs[b].parent \in DOMAIN refs
  BY DEF HistoryInv, Inv, TypeOK, RefOK
<1> QED
  BY <1>1, SubmitCommitHistory, SubmitMergeHistory DEF Submit, SubmitUpdate

(* A transaction that ends without effect (postgres.go:511-526).           *)
LEMMA FinishHistory ==
  ASSUME HistoryInv, Inv', NEW r \in Requests, Finish(r), UNCHANGED <<refs, commits, rows>>
  PROVE  HistoryInv'
<1>1. Idle.ref = NoRef /\ Idle.source = NoRef /\ Idle.pc = "idle"
  BY DEF Idle
<1> QED
  BY <1>1, IdleStep DEF Finish

(* The reads of a request (store.go:392-402, merge.go:57-176, 461-470).    *)
LEMMA ReadHistory ==
  ASSUME HistoryInv, Inv', NEW r \in Requests,
         Lock(r) \/ ReadUnlocked(r) \/ PlanMerge(r) \/ ReadParent(r) \/ ReadChild(r)
  PROVE  HistoryInv'
<1> DEFINE b == req[r].branch
<1>1. /\ req[r] \in RequestType /\ b \in DOMAIN refs /\ refs[b] \in RefType
      /\ refs[b].parent \in DOMAIN refs
  BY ReqFacts DEF HistoryInv, Inv, RefOK
<1>2. /\ CoveredBy(refs, req[r].ref.chain) /\ CoveredBy(refs, req[r].source.chain)
      /\ CoveredBy(refs, refs[b].chain) /\ CoveredBy(refs, refs[refs[b].parent].chain)
  BY <1>1 DEF HistoryInv, ChainsCovered
<1>3. CASE Lock(r) \/ ReadUnlocked(r)
  <2> DEFINE x == [req[r] EXCEPT !.pc = "apply", !.ref = refs[b]]
  <2>1. x.ref = refs[b] /\ x.source = req[r].source /\ x.pc = "apply"
    BY <1>1 DEF RequestType
  <2>2. req' = [req EXCEPT ![r] = x] /\ UNCHANGED <<refs, commits, rows>>
    BY <1>3 DEF Lock, ReadUnlocked
  <2> HIDE DEF x
  <2> QED
    BY <1>2, <2>1, <2>2, LocalStep
<1>4. CASE PlanMerge(r)
  <2>1. PICK x : /\ req' = [req EXCEPT ![r] = x] /\ UNCHANGED <<refs, commits, rows>>
                 /\ \/ x = Idle
                    \/ \E changes : x = [req[r] EXCEPT !.pc = "begin",
                         !.others = {req[r].source.head}, !.source = NoRef, !.changes = changes]
    BY <1>4 DEF PlanMerge
  <2>2. x.source = NoRef /\ x.pc \in {"idle", "begin"} /\ x.ref \in {NoRef, req[r].ref}
    <3>1. CASE x = Idle
      BY <3>1 DEF Idle
    <3>2. CASE x # Idle
      BY <1>1, <2>1, <3>2 DEF RequestType
    <3> QED
      BY <3>1, <3>2
  <2> QED
    BY <1>2, <2>1, <2>2, CoveredNone, LocalStep
<1>5. CASE ReadParent(r)
  <2> DEFINE x == [req[r] EXCEPT !.pc = "child", !.source = refs[refs[b].parent]]
  <2>1. /\ x.ref = req[r].ref /\ x.source = refs[refs[b].parent] /\ x.pc = "child"
        /\ x.branch = b
    BY <1>1 DEF RequestType
  <2>2. req' = [req EXCEPT ![r] = x] /\ UNCHANGED <<refs, commits, rows>>
    BY <1>5 DEF ReadParent
  <2>3. refs[refs[b].parent].headSeq \in Nat
    BY <1>1 DEF HistoryInv, Inv, TypeOK, RefType
  <2> HIDE DEF x
  <2>4. x.source.headSeq <= refs[refs[x.branch].parent].headSeq
    BY <2>1, <2>3
  <2> QED
    BY <1>2, <2>1, <2>2, <2>4, LocalStep
<1>6. CASE ReadChild(r)
  <2> DEFINE x == [req[r] EXCEPT !.pc = "advance", !.ref = refs[b]]
  <2>1. /\ x.ref = refs[b] /\ x.source = req[r].source /\ x.pc = "advance"
        /\ x.branch = b
    BY <1>1 DEF RequestType
  <2>2. req' = [req EXCEPT ![r] = x] /\ UNCHANGED <<refs, commits, rows>>
    BY <1>6 DEF ReadChild
  <2>3. refs[b].headSeq \in Nat /\ req[r].source.headSeq <= refs[refs[b].parent].headSeq
    BY <1>1, <1>6 DEF ReadChild, RefType, HistoryInv, ChainsCovered
  <2> HIDE DEF x
  <2>4. /\ x.source.headSeq <= refs[refs[x.branch].parent].headSeq
        /\ x.ref.headSeq <= refs[x.branch].headSeq
    BY <2>1, <2>3
  <2> QED
    BY <1>2, <2>1, <2>2, <2>4, LocalStep
<1> QED
  BY <1>3, <1>4, <1>5, <1>6

-----------------------------------------------------------------------------
(* Steps that write refs.                                                  *)

(* What heads that grow leave of the invariant (branch.go:36-86,           *)
(* merge.go:459-480).                                                      *)
LEMMA RefsStep ==
  ASSUME HistoryInv, Inv', Grown(refs, refs'), UNCHANGED <<commits, rows>>,
         \A b \in DOMAIN refs : /\ refs'[b].headSeq = refs[b].headSeq
                               /\ refs'[b].parent = refs[b].parent,
         \A b \in DOMAIN refs' : /\ CoveredBy(refs', refs'[b].chain)
                                /\ refs'[b].headSeq < Len(commits),
         \A r \in Requests : req'[r] \in {req[r], Idle}
  PROVE  HistoryInv'
<1>1. \A b \in DOMAIN refs : refs[b].headSeq \in Nat /\ refs'[b].headSeq \in Nat
  BY DEF HistoryInv, Inv, TypeOK, RefType
<1>2. \A c \in DOMAIN commits : CoveredBy(refs', commits[c].chain)
  BY <1>1, CoveredStays DEF HistoryInv, ChainsCovered
<1>3. ASSUME NEW r \in Requests
      PROVE  /\ CoveredBy(refs', req'[r].ref.chain) /\ CoveredBy(refs', req'[r].source.chain)
             /\ req'[r].pc = "advance" => req'[r].ref.headSeq <= refs'[req'[r].branch].headSeq
             /\ req'[r].pc \in {"child", "advance"} =>
                  req'[r].source.headSeq <= refs'[refs'[req'[r].branch].parent].headSeq
  <2>1. CASE req'[r] = Idle
    <3>1. Idle.ref = NoRef /\ Idle.source = NoRef /\ Idle.pc = "idle"
      BY DEF Idle
    <3> QED
      BY <2>1, <3>1, CoveredNone
  <2>2. CASE req'[r] = req[r]
    <3>1. CoveredBy(refs', req[r].ref.chain) /\ CoveredBy(refs', req[r].source.chain)
      BY <1>1, CoveredStays DEF HistoryInv, ChainsCovered
    <3>2. req[r].branch \in DOMAIN refs /\ refs[req[r].branch].parent \in DOMAIN refs
      BY DEF HistoryInv, Inv, TypeOK, RefOK
    <3> QED
      BY <2>2, <3>1, <3>2 DEF HistoryInv, ChainsCovered
  <2> QED
    BY <1>3, <2>1, <2>2
<1>4. ChainsCovered'
  BY <1>2, <1>3 DEF ChainsCovered
<1>5. VersionsPlaced'
  BY DEF HistoryInv, VersionsPlaced, Grown
<1>6. VersionsApart' /\ HeadsBounded'
  BY DEF HistoryInv, VersionsApart, HeadsBounded
<1> QED
  BY <1>4, <1>5, <1>6 DEF HistoryInv

(* A fork pins its parent at its head (branch.go:51-86).                   *)
LEMMA CreateBranchHistory ==
  ASSUME HistoryInv, Inv', NEW n \in Branches, NEW from \in DOMAIN refs, CreateBranch(n, from)
  PROVE  HistoryInv'
<1>1. /\ DOMAIN refs' = DOMAIN refs \cup {n} /\ n \notin DOMAIN refs
      /\ \A b \in DOMAIN refs : refs'[b] = refs[b]
      /\ refs'[n].headSeq = 0 /\ refs'[n].chain = ForkChain(n, from)
  BY DEF CreateBranch
<1>2. /\ \A b \in DOMAIN refs : refs[b].headSeq \in Nat
      /\ from \in Branches /\ refs[from].chain # <<>> /\ Main \in DOMAIN refs
      /\ Len(commits) \in Nat
  <2>1. TypeOK
    BY DEF HistoryInv, Inv
  <2>2. \A b \in DOMAIN refs : refs[b] \in RefType /\ RefOK(b)
    BY <2>1 DEF TypeOK
  <2>3. commits \in Seq(CommitType)
    BY <2>1 DEF TypeOK
  <2>4. Len(commits) \in Nat
    BY <2>3
  <2>5. from \in Branches /\ Main \in DOMAIN refs
    BY <2>1 DEF TypeOK
  <2> QED
    BY <2>2, <2>4, <2>5 DEF RefType, RefOK
<1>3. Grown(refs, refs')
  BY <1>1, <1>2 DEF Grown
<1>4. \A b \in DOMAIN refs : CoveredBy(refs', refs[b].chain)
  BY <1>1, <1>2, <1>3, CoveredStays DEF HistoryInv, ChainsCovered
<1> DEFINE tail == Tail(refs[from].chain)
           inherited == <<Segment(from, refs[from].headSeq)>> \o tail
<1>5. CoveredBy(refs', tail)
  BY <1>2, <1>4, CoveredTail
<1>6. CoveredBy(refs', inherited)
  BY <1>1, <1>2, <1>5, CoveredPrepend
<1>7. CoveredBy(refs', <<Segment(n, 0)>> \o inherited)
  BY <1>1, <1>6, CoveredPrepend
<1>8. ForkChain(n, from) = <<Segment(n, 0)>> \o inherited
  <2>1. /\ Segment(n, 0) \in SegmentType /\ Segment(from, refs[from].headSeq) \in SegmentType
        /\ tail \in ChainType
    BY <1>2, <1>5 DEF Segment, SegmentType, CoveredBy
  <2> HIDE DEF tail
  <2>2. <<Segment(n, 0), Segment(from, refs[from].headSeq)>> \o tail
          = <<Segment(n, 0)>> \o inherited
    BY <2>1, PrependTwo
  <2> QED
    BY <2>2 DEF ForkChain, tail
<1>9. \A b \in DOMAIN refs' : CoveredBy(refs', refs'[b].chain) /\ refs'[b].headSeq < Len(commits)
  <2>1. refs[Main].headSeq < Len(commits)
    BY <1>2 DEF HistoryInv, HeadsBounded
  <2>2. 0 < Len(commits)
    BY <1>2, <2>1
  <2> QED
    BY <1>1, <1>4, <1>7, <1>8, <2>2 DEF HistoryInv, HeadsBounded
<1> QED
  BY <1>1, <1>3, <1>9, RefsStep DEF CreateBranch

(* The second half of an update pins the parent at the head it read, which *)
(* is not above the head of now (merge.go:459-480).                        *)
LEMMA AdvanceHistory ==
  ASSUME HistoryInv, Inv', NEW r \in Requests, Advance(r)
  PROVE  HistoryInv'
<1> DEFINE b == req[r].branch
           p == refs[b].parent
<1>1. /\ req[r] \in RequestType /\ b \in DOMAIN refs /\ p \in DOMAIN refs
      /\ b \in Branches /\ p \in Branches /\ refs[b] \in RefType
      /\ \A a \in DOMAIN refs : refs[a].headSeq \in Nat
  BY ReqFacts DEF HistoryInv, Inv, TypeOK, RefOK, RefType
<1>2. refs' = [refs EXCEPT ![b].chain = AdvancedChain(r)]
  BY DEF Advance
<1>3. /\ DOMAIN refs' = DOMAIN refs
      /\ \A a \in DOMAIN refs : /\ refs'[a].headSeq = refs[a].headSeq
                                /\ refs'[a].parent = refs[a].parent
                                /\ a # b => refs'[a].chain = refs[a].chain
      /\ refs'[b].chain = AdvancedChain(r)
  BY <1>1, <1>2 DEF RefType
<1>4. Grown(refs, refs')
  BY <1>1, <1>3 DEF Grown
<1>5. /\ CoveredBy(refs', req[r].source.chain) /\ req[r].source.chain # <<>>
      /\ req[r].ref.headSeq \in Nat /\ req[r].source.headSeq \in Nat
      /\ req[r].ref.headSeq <= refs'[b].headSeq /\ req[r].source.headSeq <= refs'[p].headSeq
  <2>1. req[r].source.chain # <<>>
    BY DEF Advance, HistoryInv, Inv, RefsRead
  <2>2. CoveredBy(refs', req[r].source.chain)
    BY <1>1, <1>3, <1>4, CoveredStays DEF HistoryInv, ChainsCovered
  <2>3. req[r].ref \in RefType /\ req[r].source \in RefType
    BY <1>1 DEF RequestType
  <2>4. req[r].ref.headSeq \in Nat /\ req[r].source.headSeq \in Nat
    BY <2>3 DEF RefType
  <2>5. req[r].ref.headSeq <= refs[b].headSeq /\ req[r].source.headSeq <= refs[p].headSeq
    BY DEF Advance, HistoryInv, ChainsCovered
  <2> QED
    BY <1>1, <1>3, <2>1, <2>2, <2>4, <2>5
<1> DEFINE tail == Tail(req[r].source.chain)
           inherited == <<Segment(p, req[r].source.headSeq)>> \o tail
<1>6. CoveredBy(refs', tail)
  BY <1>5, CoveredTail
<1>7. CoveredBy(refs', inherited)
  BY <1>1, <1>3, <1>5, <1>6, CoveredPrepend
<1>8. CoveredBy(refs', <<Segment(b, req[r].ref.headSeq)>> \o inherited)
  BY <1>1, <1>3, <1>5, <1>7, CoveredPrepend
<1>9. AdvancedChain(r) = <<Segment(b, req[r].ref.headSeq)>> \o inherited
  <2>1. /\ Segment(b, req[r].ref.headSeq) \in SegmentType
        /\ Segment(p, req[r].source.headSeq) \in SegmentType
        /\ tail \in ChainType
    BY <1>1, <1>5, <1>6 DEF Segment, SegmentType, CoveredBy
  <2> HIDE DEF tail
  <2>2. <<Segment(b, req[r].ref.headSeq), Segment(p, req[r].source.headSeq)>> \o tail
          = <<Segment(b, req[r].ref.headSeq)>> \o inherited
    BY <2>1, PrependTwo
  <2> QED
    BY <2>2 DEF AdvancedChain, tail
<1>10. \A a \in DOMAIN refs : CoveredBy(refs', refs[a].chain)
  BY <1>1, <1>3, <1>4, CoveredStays DEF HistoryInv, ChainsCovered
<1>11. \A a \in DOMAIN refs' : CoveredBy(refs', refs'[a].chain) /\ refs'[a].headSeq < Len(commits)
  BY <1>3, <1>8, <1>9, <1>10 DEF HistoryInv, HeadsBounded
<1>12. \A q \in Requests : req'[q] \in {req[q], Idle}
  BY DEF Advance, HistoryInv, Inv, TypeOK
<1> QED
  BY <1>3, <1>4, <1>11, <1>12, RefsStep DEF Advance

-----------------------------------------------------------------------------
(* A commit.                                                               *)

(* What becomes of a version (store.go:555-566).                           *)
Closed(v, b, keys, seq) ==
  IF v.branch = b /\ v.pk \in keys /\ v.session = NoSession /\ v.to = MaxSeq
  THEN [v EXCEPT !.to = seq] ELSE v

Written(r, pk) ==
  LET changes == [k \in Effective(r) |-> req[r].changes[k]]
  IN  Version(req[r].branch, pk, NextSeq(r),
              MaskOf(CurrentRow(req[r].ref.chain, pk), changes[pk]), changes[pk])

(* A commit lands right above the head, below the sentinel                 *)
(* (store.go:404-413).                                                     *)
LEMMA LandSeq ==
  ASSUME HistoryInv, NEW r \in Requests, Land(r)
  PROVE  LET b == req[r].branch
         IN  /\ b \in DOMAIN refs /\ b \in Branches /\ refs[b].headSeq \in Nat
             /\ req[r].ref.headSeq = refs[b].headSeq
             /\ NextSeq(r) = refs[b].headSeq + 1
             /\ NextSeq(r) < MaxSeq
             /\ Len(commits) + 1 <= MaxCommits
             /\ Len(commits) \in Nat /\ MaxSeq \in Nat
<1> DEFINE b == req[r].branch
<1>1. b \in DOMAIN refs /\ b \in Branches /\ refs[b] \in RefType
  BY ReqFacts DEF HistoryInv, Inv
<1>2. req[r].ref.headSeq = refs[b].headSeq /\ refs[b].headSeq \in Nat
  BY <1>1, LandAtHead DEF HistoryInv, RefType
<1>3. commits \in Seq(CommitType)
  BY DEF HistoryInv, Inv, TypeOK
<1>4. Len(commits) \in Nat
  BY <1>3
<1>5. MaxCommits \in Nat /\ MaxSeq \in Nat /\ MaxCommits < MaxSeq
  BY StoreAssumption
<1>6. Len(commits) # MaxCommits
  BY DEF Land, Full
<1>7. Len(commits) <= MaxCommits /\ refs[b].headSeq < Len(commits)
  BY <1>1 DEF HistoryInv, HeadsBounded
<1> QED
  BY <1>1, <1>2, <1>4, <1>5, <1>6, <1>7 DEF NextSeq

(* The sidecar after it: every version as it was or closed at the new      *)
(* number, and a new one for each key written (store.go:428-446, 555-596). *)
LEMMA LandVersions ==
  ASSUME HistoryInv, NEW r \in Requests, Land(r)
  PROVE  LET b == req[r].branch
             seq == NextSeq(r)
             keys == Effective(r)
         IN  /\ rows' = {Closed(v, b, keys, seq) : v \in rows} \cup {Written(r, pk) : pk \in keys}
             /\ \A v \in rows :
                  LET c == Closed(v, b, keys, seq)
                  IN  /\ c.branch = v.branch /\ c.pk = v.pk /\ c.from = v.from
                      /\ c.session = v.session /\ c.row = v.row
                      /\ c.to = IF v.branch = b /\ v.pk \in keys /\ v.to = MaxSeq
                                THEN seq ELSE v.to
                      /\ v.branch # b \/ v.pk \notin keys => c = v
             /\ \A pk \in keys :
                  LET w == Written(r, pk)
                  IN  /\ w.branch = b /\ w.pk = pk /\ w.from = seq /\ w.to = MaxSeq
                      /\ w.session = NoSession /\ w.row = req[r].changes[pk]
<1> DEFINE b == req[r].branch
           seq == NextSeq(r)
           keys == Effective(r)
           changes == [pk \in keys |-> req[r].changes[pk]]
<1>1. rows' = {Closed(v, b, keys, seq) : v \in rows} \cup {Written(r, pk) : pk \in keys}
  BY DEF Land, CloseOpen, Closed, Written
<1>2. ASSUME NEW v \in rows
      PROVE  LET c == Closed(v, b, keys, seq)
             IN  /\ c.branch = v.branch /\ c.pk = v.pk /\ c.from = v.from
                 /\ c.session = v.session /\ c.row = v.row
                 /\ c.to = IF v.branch = b /\ v.pk \in keys /\ v.to = MaxSeq
                           THEN seq ELSE v.to
                 /\ v.branch # b \/ v.pk \notin keys => c = v
  <2>1. v \in VersionType /\ v.session = NoSession
    BY DEF HistoryInv, Inv, TypeOK, VersionsPlaced
  <2> HIDE DEF seq, keys
  <2> QED
    BY <2>1 DEF Closed, VersionType
<1>3. ASSUME NEW pk \in keys
      PROVE  LET w == Written(r, pk)
             IN  /\ w.branch = b /\ w.pk = pk /\ w.from = seq /\ w.to = MaxSeq
                 /\ w.session = NoSession /\ w.row = req[r].changes[pk]
  <2>1. changes[pk] = req[r].changes[pk]
    OBVIOUS
  <2> QED
    BY <2>1 DEF Written, Version
<1> QED
  BY <1>1, <1>2, <1>3

(* A version of the sidecar: the numbers it is valid for are naturals.     *)
LEMMA VersionNumbers ==
  ASSUME HistoryInv, NEW v \in rows
  PROVE  /\ v \in VersionType /\ v.from \in Nat /\ v.to \in Nat
         /\ v.branch \in DOMAIN refs /\ refs[v.branch].headSeq \in Nat
         /\ v.session = NoSession /\ 1 <= v.from /\ v.from <= refs[v.branch].headSeq
         /\ v.to = MaxSeq \/ v.to <= refs[v.branch].headSeq
<1>1. v \in VersionType
  BY DEF HistoryInv, Inv, TypeOK
<1>2. v.from \in Nat /\ v.to \in Nat
  BY <1>1 DEF VersionType
<1>3. \A b \in DOMAIN refs : refs[b].headSeq \in Nat
  BY DEF HistoryInv, Inv, TypeOK, RefType
<1> QED
  BY <1>1, <1>2, <1>3 DEF HistoryInv, VersionsPlaced

(* Versions stay apart (store.go:555-596).                                 *)
LEMMA LandApart ==
  ASSUME HistoryInv, NEW r \in Requests, Land(r)
  PROVE  ApartIn(rows')
<1> DEFINE b == req[r].branch
           seq == NextSeq(r)
           keys == Effective(r)
           close(v) == Closed(v, b, keys, seq)
<1> SUFFICES ASSUME NEW v \in rows', NEW w \in rows',
                    v.branch = w.branch, v.pk = w.pk, v # w
             PROVE  v.to <= w.from \/ w.to <= v.from
  BY DEF ApartIn
<1>1. /\ b \in DOMAIN refs /\ refs[b].headSeq \in Nat
      /\ seq = refs[b].headSeq + 1 /\ seq < MaxSeq /\ MaxSeq \in Nat
  BY LandSeq
<1>2. /\ rows' = {close(x) : x \in rows} \cup {Written(r, pk) : pk \in keys}
      /\ \A x \in rows : /\ close(x).branch = x.branch /\ close(x).pk = x.pk
                         /\ close(x).from = x.from
                         /\ close(x).to = IF x.branch = b /\ x.pk \in keys /\ x.to = MaxSeq
                                          THEN seq ELSE x.to
      /\ \A pk \in keys : /\ Written(r, pk).branch = b /\ Written(r, pk).pk = pk
                          /\ Written(r, pk).from = seq
  BY LandVersions
<1> HIDE DEF seq, keys, close
<1>3. ASSUME NEW x \in rows, NEW pk \in keys, x.branch = b, x.pk = pk
      PROVE  close(x).to <= seq
  <2>1. x.to \in Nat /\ (x.to = MaxSeq \/ x.to <= refs[b].headSeq)
    BY <1>3, VersionNumbers
  <2> QED
    BY <1>1, <1>2, <1>3, <2>1
<1>4. CASE v \in {close(x) : x \in rows} /\ w \in {close(x) : x \in rows}
  <2>1. PICK x \in rows, y \in rows : v = close(x) /\ w = close(y)
    BY <1>4
  <2>2. x.branch = y.branch /\ x.pk = y.pk /\ x # y
    BY <1>2, <2>1
  <2>3. x.to <= y.from \/ y.to <= x.from
    BY <2>2 DEF HistoryInv, VersionsApart, ApartIn
  <2>4. x.from \in Nat /\ x.to \in Nat /\ y.from \in Nat /\ y.to \in Nat
    BY VersionNumbers
  <2>5. v.to <= x.to /\ w.to <= y.to /\ v.to \in Nat /\ w.to \in Nat
    BY <1>1, <1>2, <2>1, <2>4
  <2> QED
    BY <1>2, <2>1, <2>3, <2>4, <2>5
<1>5. CASE v \in {close(x) : x \in rows} /\ w \in {Written(r, pk) : pk \in keys}
  BY <1>2, <1>3, <1>5
<1>6. CASE v \in {Written(r, pk) : pk \in keys} /\ w \in {close(x) : x \in rows}
  BY <1>2, <1>3, <1>6
<1>7. CASE v \in {Written(r, pk) : pk \in keys} /\ w \in {Written(r, pk) : pk \in keys}
  BY <1>2, <1>7
<1> QED
  BY <1>2, <1>4, <1>5, <1>6, <1>7

(* A commit and its branch get the chain that the request read, with the   *)
(* new number (store.go:469-485).                                          *)
LEMMA LandChain ==
  ASSUME HistoryInv, NEW r \in Requests, Land(r)
  PROVE  LET b == req[r].branch
             chain == <<Segment(b, NextSeq(r))>> \o Tail(req[r].ref.chain)
         IN  /\ commits'[Len(commits) + 1].chain = chain /\ refs'[b].chain = chain
             /\ Len(commits') = Len(commits) + 1
             /\ refs'[b].headSeq = NextSeq(r)
             /\ \A a \in DOMAIN refs : refs'[a].parent = refs[a].parent
             /\ req[r].ref.chain # <<>> /\ CoveredBy(refs, req[r].ref.chain)
             /\ Grown(refs, refs') /\ CoveredBy(refs', chain)
             /\ \A a \in DOMAIN refs' : refs'[a].headSeq \in Nat
<1> DEFINE b == req[r].branch
           seq == NextSeq(r)
           chain == <<Segment(b, seq)>> \o Tail(req[r].ref.chain)
           new == [first |-> req[r].ref.head, others |-> req[r].others, branch |-> b,
                   seq |-> seq, chain |-> chain]
<1>1. /\ b \in DOMAIN refs /\ b \in Branches /\ refs[b].headSeq \in Nat
      /\ seq = refs[b].headSeq + 1 /\ Len(commits) \in Nat
  BY LandSeq
<1> HIDE DEF seq
<1>2. commits \in Seq(CommitType) /\ refs[b] \in RefType
  BY <1>1 DEF HistoryInv, Inv, TypeOK
<1>3. commits' = Append(commits, new)
  BY DEF Land, seq
<1>4. refs' = [refs EXCEPT ![b].head = Len(commits) + 1, ![b].headSeq = seq, ![b].chain = chain]
  BY DEF Land, seq
<1> HIDE DEF chain
<1>5. commits'[Len(commits) + 1].chain = chain /\ Len(commits') = Len(commits) + 1
  BY <1>2, <1>3
<1>6. refs'[b].chain = chain /\ refs'[b].headSeq = seq /\ refs'[b].parent = refs[b].parent
  BY <1>1, <1>2, <1>4 DEF RefType
<1>7. DOMAIN refs' = DOMAIN refs /\ \A a \in DOMAIN refs \ {b} : refs'[a] = refs[a]
  BY <1>4
<1>8. req[r].ref.chain # <<>> /\ CoveredBy(refs, req[r].ref.chain)
  BY DEF Land, HistoryInv, Inv, RefsRead, ReadBehind, ChainsCovered
<1>9. \A a \in DOMAIN refs : refs[a].headSeq \in Nat /\ refs'[a].headSeq \in Nat
  <2>1. \A a \in DOMAIN refs : refs[a].headSeq \in Nat
    BY DEF HistoryInv, Inv, TypeOK, RefType
  <2> QED
    BY <1>1, <1>6, <1>7, <2>1
<1>10. Grown(refs, refs')
  BY <1>1, <1>6, <1>7, <1>9 DEF Grown
<1>11. CoveredBy(refs', Tail(req[r].ref.chain))
  BY <1>8, <1>9, <1>10, CoveredStays, CoveredTail
<1>12. CoveredBy(refs', chain)
  BY <1>1, <1>6, <1>7, <1>9, <1>11, CoveredPrepend DEF chain
<1> QED
  BY <1>5, <1>6, <1>7, <1>8, <1>9, <1>10, <1>12 DEF chain, seq

(* A commit keeps the invariant (store.go:385-485).                        *)
LEMMA LandHistory ==
  ASSUME HistoryInv, Inv', NEW r \in Requests, Land(r)
  PROVE  HistoryInv'
<1> DEFINE b == req[r].branch
           seq == NextSeq(r)
           keys == Effective(r)
           chain == <<Segment(b, seq)>> \o Tail(req[r].ref.chain)
           id == Len(commits) + 1
<1>1. /\ b \in DOMAIN refs /\ refs[b].headSeq \in Nat /\ seq = refs[b].headSeq + 1
      /\ seq < MaxSeq /\ Len(commits) \in Nat /\ id <= MaxCommits
  BY LandSeq
<1>2. /\ commits'[id].chain = chain /\ refs'[b].chain = chain
      /\ Len(commits') = id /\ refs'[b].headSeq = seq
      /\ \A a \in DOMAIN refs : refs'[a].parent = refs[a].parent
      /\ Grown(refs, refs') /\ CoveredBy(refs', chain)
      /\ \A a \in DOMAIN refs' : refs'[a].headSeq \in Nat
  BY LandChain
<1>3. /\ DOMAIN commits' = DOMAIN commits \cup {id}
      /\ \A c \in DOMAIN commits : commits'[c] = commits[c]
      /\ DOMAIN refs' = DOMAIN refs /\ \A a \in DOMAIN refs \ {b} : refs'[a] = refs[a]
  BY LandRefs DEF HistoryInv
<1> HIDE DEF seq, chain, keys
<1>4. \A x : CoveredBy(refs, x) => CoveredBy(refs', x)
  <2>1. \A a \in DOMAIN refs : refs[a].headSeq \in Nat
    BY DEF HistoryInv, Inv, TypeOK, RefType
  <2> QED
    BY <1>2, <1>3, <2>1, CoveredStays
<1>5. ChainsCovered'
  <2>1. \A a \in DOMAIN refs' : CoveredBy(refs', refs'[a].chain)
    BY <1>2, <1>3, <1>4 DEF HistoryInv, ChainsCovered
  <2>2. \A c \in DOMAIN commits' : CoveredBy(refs', commits'[c].chain)
    BY <1>2, <1>3, <1>4 DEF HistoryInv, ChainsCovered
  <2>3. ASSUME NEW q \in Requests
        PROVE  /\ CoveredBy(refs', req'[q].ref.chain) /\ CoveredBy(refs', req'[q].source.chain)
               /\ req'[q].pc = "advance" => req'[q].ref.headSeq <= refs'[req'[q].branch].headSeq
               /\ req'[q].pc \in {"child", "advance"} =>
                    req'[q].source.headSeq <= refs'[refs'[req'[q].branch].parent].headSeq
    <3>1. CASE q = r
      <4>1. req'[r] = IF req[r].kind = "update" THEN [Idle EXCEPT !.pc = "parent", !.branch = b]
                      ELSE Idle
        BY DEF Land, HistoryInv, Inv, TypeOK
      <4>2. /\ req'[r].ref = NoRef /\ req'[r].source = NoRef
            /\ req'[r].pc \in {"parent", "idle"}
        BY <4>1 DEF Idle
      <4> QED
        BY <3>1, <4>2, CoveredNone
    <3>2. CASE q # r
      <4>1. req'[q] = req[q]
        BY <3>2 DEF Land, HistoryInv, Inv, TypeOK
      <4>2. /\ req[q] \in RequestType /\ req[q].branch \in DOMAIN refs
            /\ refs[req[q].branch].parent \in DOMAIN refs
            /\ \A a \in DOMAIN refs : refs[a].headSeq \in Nat
        BY DEF HistoryInv, Inv, TypeOK, RefOK, RefType
      <4>3. req[q].ref.headSeq \in Nat /\ req[q].source.headSeq \in Nat
        BY <4>2 DEF RequestType, RefType
      <4>4. CoveredBy(refs', req[q].ref.chain) /\ CoveredBy(refs', req[q].source.chain)
        BY <1>4 DEF HistoryInv, ChainsCovered
      <4>5. req[q].pc = "advance" => req[q].ref.headSeq <= refs'[req[q].branch].headSeq
        BY <1>2, <1>3, <4>2, <4>3 DEF HistoryInv, ChainsCovered, Grown
      <4>6. req[q].pc \in {"child", "advance"} =>
              req[q].source.headSeq <= refs'[refs'[req[q].branch].parent].headSeq
        BY <1>2, <1>3, <4>2, <4>3 DEF HistoryInv, ChainsCovered, Grown
      <4> QED
        BY <4>1, <4>4, <4>5, <4>6
    <3> QED
      BY <3>1, <3>2
  <2> QED
    BY <2>1, <2>2, <2>3 DEF ChainsCovered
<1>6. VersionsPlaced'
  <2> SUFFICES ASSUME NEW w \in rows'
               PROVE  /\ w.branch \in DOMAIN refs' /\ w.session = NoSession
                      /\ 1 <= w.from /\ w.from <= refs'[w.branch].headSeq
                      /\ w.to = MaxSeq \/ w.to <= refs'[w.branch].headSeq
    BY DEF VersionsPlaced
  <2>1. CASE \E v \in rows : w = Closed(v, b, keys, seq)
    <3>1. PICK v \in rows : w = Closed(v, b, keys, seq)
      BY <2>1
    <3>2. /\ w.branch = v.branch /\ w.from = v.from /\ w.session = v.session
          /\ w.to = IF v.branch = b /\ v.pk \in keys /\ v.to = MaxSeq THEN seq ELSE v.to
      BY <3>1, LandVersions DEF seq, keys
    <3>3. /\ v.branch \in DOMAIN refs /\ v.session = NoSession /\ v.from \in Nat /\ v.to \in Nat
          /\ 1 <= v.from /\ v.from <= refs[v.branch].headSeq
          /\ v.to = MaxSeq \/ v.to <= refs[v.branch].headSeq
          /\ refs[v.branch].headSeq \in Nat
      BY VersionNumbers
    <3>4. refs[v.branch].headSeq <= refs'[v.branch].headSeq /\ refs'[v.branch].headSeq \in Nat
      BY <1>2, <1>3, <3>3 DEF Grown
    <3> QED
      BY <1>1, <1>2, <1>3, <3>2, <3>3, <3>4
  <2>2. CASE \E pk \in keys : w = Written(r, pk)
    <3>1. w.branch = b /\ w.from = seq /\ w.to = MaxSeq /\ w.session = NoSession
      BY <2>2, LandVersions DEF seq, keys
    <3> QED
      BY <1>1, <1>2, <1>3, <3>1
  <2>3. rows' = {Closed(v, b, keys, seq) : v \in rows} \cup {Written(r, pk) : pk \in keys}
    BY LandVersions DEF seq, keys
  <2> QED
    BY <2>1, <2>2, <2>3
<1>7. VersionsApart'
  BY LandApart DEF VersionsApart
<1>8. HeadsBounded'
  <2>1. \A a \in DOMAIN refs : refs[a].headSeq \in Nat /\ refs[a].headSeq < Len(commits)
    BY DEF HistoryInv, HeadsBounded, Inv, TypeOK, RefType
  <2>2. ASSUME NEW a \in DOMAIN refs' PROVE refs'[a].headSeq < id
    <3>1. CASE a = b
      BY <1>1, <1>2, <2>1, <3>1
    <3>2. CASE a # b
      BY <1>1, <1>3, <2>1, <3>2
    <3> QED
      BY <3>1, <3>2
  <2> QED
    BY <1>1, <1>2, <2>2 DEF HeadsBounded
<1> QED
  BY <1>5, <1>6, <1>7, <1>8 DEF HistoryInv

-----------------------------------------------------------------------------
(* The invariant holds in every reachable state.                           *)

(* A new repository (store.go:146-184): the root commit and no versions.   *)
LEMMA HistoryInit == Init => HistoryInv
<1> SUFFICES ASSUME Init PROVE HistoryInv
  OBVIOUS
<1> DEFINE root == <<Segment(Main, 0)>>
<1>1. Inv
  BY InitInv
<1>2. /\ refs = [b \in {Main} |-> [head |-> 1, headSeq |-> 0, parent |-> Main, chain |-> root]]
      /\ commits = <<RootCommit>> /\ rows = {} /\ req = [r \in Requests |-> Idle]
  BY DEF Init
<1>3. CoveredBy(refs, root)
  <2>1. Segment(Main, 0) \in SegmentType
    BY StoreAssumption DEF Segment, SegmentType
  <2>2. root \in ChainType /\ DOMAIN root = {1} /\ root[1] = Segment(Main, 0)
    BY <2>1 DEF ChainType
  <2> HIDE DEF root
  <2>3. Segment(Main, 0).branch = Main /\ Segment(Main, 0).seq = 0
    BY DEF Segment
  <2> QED
    BY <1>2, <2>2, <2>3 DEF CoveredBy
<1>4. ChainsCovered
  <2>1. Idle.ref = NoRef /\ Idle.source = NoRef /\ Idle.pc = "idle"
    BY DEF Idle
  <2>2. DOMAIN commits = {1} /\ commits[1].chain = root
    BY <1>2 DEF RootCommit
  <2> HIDE DEF root
  <2> QED
    BY <1>2, <1>3, <2>1, <2>2, CoveredNone DEF ChainsCovered
<1>5. VersionsPlaced /\ VersionsApart
  BY <1>2 DEF VersionsPlaced, VersionsApart, ApartIn
<1>6. HeadsBounded
  <2>1. Len(commits) = 1 /\ 1 <= MaxCommits
    BY <1>2, StoreAssumption
  <2> QED
    BY <1>2, <2>1 DEF HeadsBounded
<1> QED
  BY <1>1, <1>4, <1>5, <1>6 DEF HistoryInv

(* Every step keeps it.                                                    *)
LEMMA HistoryNext == HistoryInv /\ [Next]_vars => HistoryInv'
<1> SUFFICES ASSUME HistoryInv, [Next]_vars PROVE HistoryInv'
  OBVIOUS
<1>1. Inv'
  BY NextInv DEF HistoryInv
<1>2. CASE UNCHANGED vars
  BY <1>1, <1>2 DEF vars, HistoryInv, ChainsCovered, VersionsPlaced, VersionsApart, HeadsBounded
<1>3. ASSUME NEW r \in Requests, Submit(r) PROVE HistoryInv'
  BY <1>1, <1>3, SubmitHistory
<1>4. ASSUME NEW r \in Requests, Step(r) PROVE HistoryInv'
  <2>1. CASE Lock(r) \/ ReadUnlocked(r) \/ PlanMerge(r) \/ ReadParent(r) \/ ReadChild(r)
    BY <1>1, <2>1, ReadHistory
  <2>2. CASE Land(r)
    BY <1>1, <2>2, LandHistory
  <2>3. CASE Refuse(r)
    BY <1>1, <2>3, FinishHistory DEF Refuse
  <2>4. CASE Advance(r)
    BY <1>1, <2>4, AdvanceHistory
  <2> QED
    BY <1>4, <2>1, <2>2, <2>3, <2>4 DEF Step
<1>5. ASSUME NEW r \in Requests, Crash(r) PROVE HistoryInv'
  BY <1>1, <1>5, FinishHistory DEF Crash
<1>6. ASSUME NEW n \in Branches, NEW from \in DOMAIN refs, CreateBranch(n, from)
      PROVE  HistoryInv'
  BY <1>1, <1>6, CreateBranchHistory
<1> QED
  BY <1>2, <1>3, <1>4, <1>5, <1>6 DEF Next

(* No chain reaches past a head and versions of a key never overlap        *)
(* (store.go:404-485, 555-596, merge.go:459-480).                          *)
THEOREM HistoryInvariance == Spec => []HistoryInv
  BY HistoryInit, HistoryNext, PTL DEF Spec

-----------------------------------------------------------------------------
(* What a commit leaves and what it adds.                                  *)

(* A commit changes nothing that a chain of before it shows                *)
(* (store.go:555-596, read.go:57-66).                                      *)
LEMMA ShownStays ==
  ASSUME HistoryInv, NEW r \in Requests, Land(r), NEW chain, CoveredBy(refs, chain), NEW pk
  PROVE  RowIn(rows', chain, pk) = RowIn(rows, chain, pk)
<1> DEFINE b == req[r].branch
           seq == NextSeq(r)
           keys == Effective(r)
<1>1. /\ b \in DOMAIN refs /\ refs[b].headSeq \in Nat /\ seq = refs[b].headSeq + 1
  BY LandSeq
<1>2. /\ rows' = {Closed(v, b, keys, seq) : v \in rows} \cup {Written(r, k) : k \in keys}
      /\ \A v \in rows :
           LET c == Closed(v, b, keys, seq)
           IN  /\ c.branch = v.branch /\ c.pk = v.pk /\ c.from = v.from
               /\ c.session = v.session /\ c.row = v.row
               /\ c.to = IF v.branch = b /\ v.pk \in keys /\ v.to = MaxSeq THEN seq ELSE v.to
      /\ \A k \in keys : Written(r, k).branch = b /\ Written(r, k).from = seq
  BY LandVersions
<1>3. rows \in SUBSET VersionType /\ rows' \in SUBSET VersionType
  BY LandRows DEF HistoryInv, Inv, TypeOK
<1>4. ApartIn(rows) /\ ApartIn(rows')
  BY LandApart DEF HistoryInv, VersionsApart
<1> HIDE DEF seq, keys
<1>5. chain \in ChainType
  BY DEF CoveredBy
<1>6. ASSUME NEW i \in DOMAIN chain
      PROVE  /\ chain[i].seq \in Nat
             /\ chain[i].branch = b => chain[i].seq < seq
  <2>1. chain[i] \in SegmentType
    BY <1>5 DEF ChainType
  <2>2. chain[i].seq \in Nat
    BY <2>1 DEF SegmentType
  <2> QED
    BY <1>1, <2>2 DEF CoveredBy
<1>7. ASSUME NEW i \in DOMAIN chain, NEW v \in HitsIn(rows, chain, i, pk)
      PROVE  \E w \in HitsIn(rows', chain, i, pk) : w.row = v.row
  <2>1. v \in rows /\ v.from \in Nat /\ v.to \in Nat
    BY VersionNumbers DEF HitsIn
  <2> DEFINE w == Closed(v, b, keys, seq)
  <2>2. w \in rows'
    BY <1>2, <2>1
  <2>3. /\ w.branch = v.branch /\ w.pk = v.pk /\ w.from = v.from
        /\ w.session = v.session /\ w.row = v.row
        /\ w.to = IF v.branch = b /\ v.pk \in keys /\ v.to = MaxSeq THEN seq ELSE v.to
    BY <1>2, <2>1
  <2> HIDE DEF w
  <2>4. chain[i].seq < w.to
    BY <1>6, <2>3 DEF HitsIn
  <2>5. w \in HitsIn(rows', chain, i, pk)
    BY <2>2, <2>3, <2>4 DEF HitsIn
  <2> QED
    BY <2>3, <2>5
<1>8. ASSUME NEW i \in DOMAIN chain, NEW w \in HitsIn(rows', chain, i, pk)
      PROVE  \E v \in HitsIn(rows, chain, i, pk) : w.row = v.row
  <2>1. w \in rows' /\ w.branch = chain[i].branch /\ w.from <= chain[i].seq
    BY DEF HitsIn
  <2>2. ~\E k \in keys : w = Written(r, k)
    BY <1>1, <1>2, <1>6, <2>1
  <2>3. PICK v \in rows : w = Closed(v, b, keys, seq)
    BY <1>2, <2>1, <2>2
  <2>4. v.from \in Nat /\ v.to \in Nat /\ (v.to = MaxSeq \/ v.to <= refs[v.branch].headSeq)
    BY VersionNumbers
  <2>5. seq < MaxSeq /\ MaxSeq \in Nat
    BY LandSeq DEF seq
  <2>6. chain[i].seq < v.to
    BY <1>1, <1>2, <1>6, <2>3, <2>4, <2>5 DEF HitsIn
  <2>7. v \in HitsIn(rows, chain, i, pk)
    BY <1>2, <2>3, <2>6 DEF HitsIn
  <2> QED
    BY <1>2, <2>3, <2>7
<1> QED
  BY <1>3, <1>4, <1>5, <1>7, <1>8, SameRow

(* Only a commit writes rows, commits or the live table: everything else   *)
(* moves refs and requests.                                                *)
LEMMA OnlyLandWrites ==
  ASSUME [Next]_vars
  PROVE  UNCHANGED <<commits, rows, live>> \/ \E r \in Requests : Land(r)
<1>1. CASE UNCHANGED vars
  BY <1>1 DEF vars
<1>2. ASSUME NEW r \in Requests, Submit(r) PROVE UNCHANGED <<commits, rows, live>>
  BY <1>2 DEF Submit, SubmitCommit, SubmitUpdate, SubmitMerge
<1>3. ASSUME NEW r \in Requests, Step(r), ~Land(r) PROVE UNCHANGED <<commits, rows, live>>
  BY <1>3 DEF Step, Lock, ReadUnlocked, Refuse, PlanMerge, ReadParent, ReadChild, Advance
<1>4. ASSUME NEW r \in Requests, Crash(r) PROVE UNCHANGED <<commits, rows, live>>
  BY <1>4 DEF Crash
<1>5. ASSUME NEW n, NEW from, CreateBranch(n, from) PROVE UNCHANGED <<commits, rows, live>>
  BY <1>5 DEF CreateBranch
<1> QED
  BY <1>1, <1>2, <1>3, <1>4, <1>5 DEF Next

(* A state and a state after a step, as functions of the sidecar.          *)
LEMMA StateIn ==
  ASSUME NEW c
  PROVE  /\ StateAtCommit(c) = [pk \in PKs |-> RowIn(rows, commits[c].chain, pk)]
         /\ StateAtCommit(c)' = [pk \in PKs |-> RowIn(rows', commits'[c].chain, pk)]
BY DEF StateAtCommit, ResolveMap, CurrentRow, FirstHits, Hits, RowIn, FirstIn, HitsIn

(* No step changes what an existing commit resolves to.                    *)
LEMMA StatesStay ==
  ASSUME HistoryInv, [Next]_vars, NEW c \in DOMAIN commits
  PROVE  StateAtCommit(c)' = StateAtCommit(c)
<1>1. CASE UNCHANGED <<commits, rows, live>>
  BY <1>1, StateIn
<1>2. ASSUME NEW r \in Requests, Land(r) PROVE StateAtCommit(c)' = StateAtCommit(c)
  <2>1. commits'[c] = commits[c]
    BY <1>2, LandRefs DEF HistoryInv
  <2>2. CoveredBy(refs, commits[c].chain)
    BY DEF HistoryInv, ChainsCovered
  <2>3. \A pk \in PKs : RowIn(rows', commits[c].chain, pk) = RowIn(rows, commits[c].chain, pk)
    BY <1>2, <2>2, ShownStays
  <2> QED
    BY <2>1, <2>3, StateIn
<1> QED
  BY <1>1, <1>2, OnlyLandWrites

(* Time travel is sound whatever requests commit, merge, update, branch or *)
(* crash at the same time, those of audit-mode tables, which take no lock, *)
(* included (read.go:57-66, finding F1).                                   *)
THEOREM HistoryIsStable == Spec => HistoryStable
<1>1. HistoryInv /\ [Next]_vars
        => [\A c \in DOMAIN commits : StateAtCommit(c)' = StateAtCommit(c)]_vars
  BY StatesStay
<1> QED
  BY <1>1, HistoryInvariance, PTL DEF Spec, HistoryStable

-----------------------------------------------------------------------------
(* The live table.                                                         *)

(* A commit shows its changes over what its request read, provided that    *)
(* the chain it read ends at the head (store.go:418-446, 469-485).         *)
LEMMA LandShows ==
  ASSUME HistoryInv, NEW r \in Requests, Land(r),
         req[r].ref.chain[1] = Segment(req[r].branch, refs[req[r].branch].headSeq),
         NEW pk
  PROVE  RowIn(rows', <<Segment(req[r].branch, NextSeq(r))>> \o Tail(req[r].ref.chain), pk)
           = IF pk \in DOMAIN req[r].changes THEN req[r].changes[pk]
             ELSE RowIn(rows, req[r].ref.chain, pk)
<1> DEFINE b == req[r].branch
           seq == NextSeq(r)
           keys == Effective(r)
           old == req[r].ref.chain
           new == <<Segment(b, seq)>> \o Tail(old)
<1>1. /\ b \in DOMAIN refs /\ b \in Branches /\ refs[b].headSeq \in Nat
      /\ seq = refs[b].headSeq + 1 /\ seq < MaxSeq /\ MaxSeq \in Nat
  BY LandSeq
<1>2. /\ rows' = {Closed(v, b, keys, seq) : v \in rows} \cup {Written(r, k) : k \in keys}
      /\ \A v \in rows :
           LET c == Closed(v, b, keys, seq)
           IN  /\ c.branch = v.branch /\ c.pk = v.pk
               /\ v.branch # b \/ v.pk \notin keys => c = v
      /\ \A k \in keys :
           LET w == Written(r, k)
           IN  /\ w.branch = b /\ w.pk = k /\ w.from = seq /\ w.to = MaxSeq
               /\ w.session = NoSession /\ w.row = req[r].changes[k]
  BY LandVersions
<1>3. rows \in SUBSET VersionType /\ rows' \in SUBSET VersionType
  BY LandRows DEF HistoryInv, Inv, TypeOK
<1>4. ApartIn(rows) /\ ApartIn(rows')
  BY LandApart DEF HistoryInv, VersionsApart
<1>5. old # <<>> /\ CoveredBy(refs, old) /\ CoveredBy(refs', new)
  BY LandChain
<1>6. old \in Seq(SegmentType) /\ new \in Seq(SegmentType)
  BY <1>5 DEF CoveredBy, ChainType
<1>7. /\ Segment(b, seq) \in SegmentType
      /\ Segment(b, seq).branch = b /\ Segment(b, seq).seq = seq
      /\ old[1].branch = b /\ old[1].seq = refs[b].headSeq
  BY <1>1 DEF Segment, SegmentType
<1>8. keys = {k \in DOMAIN req[r].changes : req[r].changes[k] # RowIn(rows, old, k)}
  BY CurrentRowIn DEF Effective
<1> HIDE DEF seq, keys
<1>9. /\ DOMAIN new = DOMAIN old /\ 1 \in DOMAIN new /\ new[1] = Segment(b, seq)
      /\ \A i \in DOMAIN old : i # 1 => new[i] = old[i]
  <2>1. Tail(old) \in Seq(SegmentType) /\ Len(Tail(old)) = Len(old) - 1
    BY <1>5, <1>6
  <2> QED
    BY <1>5, <1>6, <1>7, <2>1
<1> HIDE DEF old, new
<1>10. CASE pk \in keys
  <2> DEFINE w == Written(r, pk)
  <2>1. /\ w \in rows' /\ w.branch = b /\ w.pk = pk /\ w.from = seq /\ w.to = MaxSeq
        /\ w.session = NoSession /\ w.row = req[r].changes[pk]
    BY <1>2, <1>10
  <2> HIDE DEF w
  <2>2. seq \in Nat /\ seq <= seq
    BY <1>1
  <2>3. w \in HitsIn(rows', new, 1, pk)
    BY <1>1, <1>7, <1>9, <2>1, <2>2 DEF HitsIn
  <2>4. \A j \in 1 .. 1 - 1 : HitsIn(rows', new, j, pk) = {}
    OBVIOUS
  <2>5. w \in FirstIn(rows', new, pk)
    BY <1>9, <2>3, <2>4 DEF FirstIn
  <2>6. new \in ChainType
    BY <1>6 DEF ChainType
  <2>7. (CHOOSE x \in FirstIn(rows', new, pk) : TRUE) = w
    BY <1>3, <1>4, <2>5, <2>6, OneHit
  <2>8. RowIn(rows', new, pk) = w.row
    BY <2>5, <2>7 DEF RowIn
  <2> QED
    BY <1>8, <1>10, <2>1, <2>8 DEF new, old, seq
<1>11. CASE pk \notin keys
  <2>1. \A v : v.pk = pk => (v \in rows' <=> v \in rows)
    BY <1>2, <1>11
  <2>2. ASSUME NEW i \in DOMAIN old
        PROVE  HitsIn(rows', new, i, pk) = HitsIn(rows, old, i, pk)
    <3>1. CASE i # 1
      BY <1>9, <2>1, <3>1 DEF HitsIn
    <3>2. CASE i = 1
      <4>1. \A v \in rows : v.branch = b =>
              /\ v.from <= refs[b].headSeq /\ v.from <= seq
              /\ refs[b].headSeq < v.to <=> seq < v.to
        BY <1>1, VersionNumbers
      <4>2. HitsIn(rows', new, 1, pk)
              = {v \in rows' : /\ v.pk = pk /\ v.branch = b /\ v.session = NoSession
                               /\ v.from <= seq /\ seq < v.to}
        BY <1>7, <1>9 DEF HitsIn
      <4>3. HitsIn(rows, old, 1, pk)
              = {v \in rows : /\ v.pk = pk /\ v.branch = b /\ v.session = NoSession
                              /\ v.from <= refs[b].headSeq /\ refs[b].headSeq < v.to}
        BY <1>7 DEF HitsIn
      <4> QED
        BY <2>1, <3>2, <4>1, <4>2, <4>3
    <3> QED
      BY <3>1, <3>2
  <2>3. old \in ChainType /\ new \in ChainType
    BY <1>6 DEF ChainType
  <2>4. RowIn(rows, old, pk) = RowIn(rows', new, pk)
    BY <1>3, <1>4, <1>9, <2>2, <2>3, SameRow
  <2> QED
    BY <1>8, <1>11, <2>4 DEF new, old, seq
<1> QED
  BY <1>10, <1>11

(* A request never updates the default branch, and one that read its head  *)
(* of now read its chain of now.                                           *)
OnMain(x, ref) ==
  /\ x.kind = "update" \/ x.pc \in {"parent", "child", "advance"} => x.branch # Main
  /\ x.pc = "apply" /\ x.branch = Main /\ x.ref.headSeq = ref.headSeq
       => x.ref.chain = ref.chain

LiveInv ==
  /\ HistoryInv
  /\ refs[Main].chain[1] = Segment(Main, refs[Main].headSeq)
  /\ \A r \in Requests : OnMain(req[r], refs[Main])
  /\ LiveIsMain

(* The live table as a function of the sidecar, before and after a step.   *)
LEMMA LiveIn ==
  /\ LiveIsMain <=> live = [pk \in PKs |-> RowIn(rows, refs[Main].chain, pk)]
  /\ LiveIsMain' <=> live' = [pk \in PKs |-> RowIn(rows', refs'[Main].chain, pk)]
BY DEF LiveIsMain, ResolveMap, CurrentRow, FirstHits, Hits, RowIn, FirstIn, HitsIn

(* A new repository: both are empty (store.go:146-184).                    *)
LEMMA LiveInvInit == Init => LiveInv
<1> SUFFICES ASSUME Init PROVE LiveInv
  OBVIOUS
<1>1. /\ refs[Main].chain = <<Segment(Main, 0)>> /\ refs[Main].headSeq = 0
      /\ rows = {} /\ live = EmptyTable /\ \A r \in Requests : req[r] = Idle
  BY DEF Init
<1>2. OnMain(Idle, refs[Main])
  BY DEF OnMain, Idle
<1>3. \A pk \in PKs : RowIn(rows, refs[Main].chain, pk) = Absent
  BY <1>1 DEF RowIn, FirstIn, HitsIn
<1>4. LiveIsMain
  BY <1>1, <1>3, LiveIn DEF EmptyTable
<1> QED
  BY <1>1, <1>2, <1>4, HistoryInit DEF LiveInv

(* What a step does that neither commits nor moves the default branch.     *)
LEMMA LiveStays ==
  ASSUME LiveInv, HistoryInv', UNCHANGED <<rows, live>>, refs'[Main] = refs[Main],
         \A r \in Requests : req'[r] = req[r] \/ OnMain(req'[r], refs[Main])
  PROVE  LiveInv'
<1>1. \A r \in Requests : OnMain(req'[r], refs'[Main])
  BY DEF LiveInv
<1>2. LiveIsMain'
  BY LiveIn DEF LiveInv
<1> QED
  BY <1>1, <1>2 DEF LiveInv

(* A commit on the default branch writes the live table with its versions; *)
(* a commit on another branch leaves what the default branch shows         *)
(* (store.go:418-485).                                                     *)
LEMMA LiveLand ==
  ASSUME LiveInv, HistoryInv', NEW r \in Requests, Land(r)
  PROVE  LiveInv'
<1> DEFINE b == req[r].branch
           seq == NextSeq(r)
           changes == req[r].changes
           keys == Effective(r)
           written == [k \in keys |-> changes[k]]
           main == refs[Main]
           chain == <<Segment(b, seq)>> \o Tail(req[r].ref.chain)
<1>1. /\ b \in DOMAIN refs /\ b \in Branches /\ refs[b].headSeq \in Nat
      /\ req[r].ref.headSeq = refs[b].headSeq /\ seq = refs[b].headSeq + 1
  BY LandSeq DEF LiveInv
<1>2. /\ refs'[b].chain = chain /\ refs'[b].headSeq = seq
      /\ req[r].ref.chain # <<>> /\ CoveredBy(refs, req[r].ref.chain)
  BY LandChain DEF LiveInv
<1>3. \A a \in DOMAIN refs \ {b} : refs'[a] = refs[a]
  BY LandRefs DEF LiveInv, HistoryInv
<1>4. HistoryInv /\ req[r].pc = "apply" /\ OnMain(req[r], main) /\ Main \in DOMAIN refs
  BY DEF Land, LiveInv, HistoryInv, Inv, TypeOK
<1>5. CoveredBy(refs, main.chain)
  BY <1>4 DEF HistoryInv, ChainsCovered
<1>6. \A q \in Requests \ {r} : req'[q] = req[q]
  BY <1>4 DEF Land, HistoryInv, Inv, TypeOK
<1>7. req'[r] = IF req[r].kind = "update" THEN [Idle EXCEPT !.pc = "parent", !.branch = b]
                ELSE Idle
  BY <1>4 DEF Land, HistoryInv, Inv, TypeOK
<1>8. \A x : OnMain(req'[r], x)
  <2>1. req[r].kind = "update" => b # Main
    BY <1>4 DEF OnMain
  <2>2. CASE req[r].kind = "update"
    BY <1>7, <2>1, <2>2 DEF OnMain, Idle
  <2>3. CASE req[r].kind # "update"
    BY <1>7, <2>3 DEF OnMain, Idle
  <2> QED
    BY <2>2, <2>3
<1>9. CASE b = Main
  <2>1. req[r].ref.chain = main.chain
    BY <1>1, <1>4, <1>9 DEF OnMain
  <2>2. req[r].ref.chain[1] = Segment(b, refs[b].headSeq)
    BY <1>9, <2>1 DEF LiveInv
  <2>3. \A pk : RowIn(rows', chain, pk)
                 = IF pk \in DOMAIN changes THEN changes[pk] ELSE RowIn(rows, main.chain, pk)
    BY <1>4, <2>1, <2>2, LandShows
  <2>4. keys = {k \in DOMAIN changes : changes[k] # RowIn(rows, main.chain, k)}
    BY <2>1, CurrentRowIn DEF Effective
  <2>5. live' = Apply(live, written) /\ DOMAIN written = keys
    BY <1>9 DEF Land, ApplyLive
  <2>6. live = [pk \in PKs |-> RowIn(rows, main.chain, pk)]
    BY LiveIn DEF LiveInv
  <2>7. refs'[Main].chain = chain
    BY <1>2, <1>9
  <2>8. chain[1] = Segment(Main, refs'[Main].headSeq)
    <3>1. Tail(req[r].ref.chain) \in Seq(SegmentType) /\ Segment(b, seq) \in SegmentType
      BY <1>1, <1>2 DEF CoveredBy, ChainType, Segment, SegmentType
    <3>2. chain[1] = Segment(b, seq)
      BY <3>1
    <3> QED
      BY <1>2, <1>9, <3>2
  <2> HIDE DEF chain, changes, keys, main
  <2>9. \A pk \in PKs : live'[pk] = RowIn(rows', chain, pk)
    <3> SUFFICES ASSUME NEW pk \in PKs PROVE live'[pk] = RowIn(rows', chain, pk)
      OBVIOUS
    <3>1. live'[pk] = IF pk \in keys THEN changes[pk] ELSE live[pk]
      BY <2>5 DEF Apply
    <3> QED
      BY <2>3, <2>4, <2>6, <3>1
  <2>10. live' = [pk \in PKs |-> RowIn(rows', chain, pk)]
    <3>1. live' = [pk \in PKs |-> live'[pk]]
      BY <2>5 DEF Apply
    <3> QED
      BY <2>9, <3>1
  <2>11. LiveIsMain'
    BY <2>7, <2>10, LiveIn
  <2>12. ASSUME NEW q \in Requests PROVE OnMain(req'[q], refs'[Main])
    <3>1. CASE q = r
      BY <1>8, <3>1
    <3>2. CASE q # r
      <4>1. /\ req'[q] = req[q] /\ OnMain(req[q], refs[Main])
            /\ req[q] \in RequestType
        BY <1>4, <1>6, <3>2 DEF LiveInv, HistoryInv, Inv, TypeOK
      <4>2. req[q].ref.headSeq \in Nat
        BY <4>1 DEF RequestType, RefType
      <4>3. req[q].pc = "apply" /\ req[q].branch = Main
              => req[q].ref.headSeq <= refs[Main].headSeq
        BY <1>4 DEF HistoryInv, Inv, RefsRead, ReadBehind
      <4>4. req[q].pc = "apply" /\ req[q].branch = Main
              => req[q].ref.headSeq # refs'[Main].headSeq
        BY <1>1, <1>2, <1>9, <4>2, <4>3
      <4> QED
        BY <4>1, <4>4 DEF OnMain
    <3> QED
      BY <3>1, <3>2
  <2> QED
    BY <2>7, <2>8, <2>11, <2>12 DEF LiveInv
<1>10. CASE b # Main
  <2>1. refs'[Main] = refs[Main]
    BY <1>3, <1>4, <1>10
  <2>2. live' = live
    BY <1>10 DEF Land, ApplyLive
  <2>3. \A pk \in PKs : RowIn(rows', main.chain, pk) = RowIn(rows, main.chain, pk)
    BY <1>4, <1>5, ShownStays
  <2>4. LiveIsMain'
    BY <2>1, <2>2, <2>3, LiveIn DEF LiveInv
  <2>5. \A q \in Requests : OnMain(req'[q], refs'[Main])
    BY <1>6, <1>8, <2>1 DEF LiveInv
  <2> QED
    BY <2>1, <2>4, <2>5 DEF LiveInv
<1> QED
  BY <1>9, <1>10

(* A request that starts or reads (merge.go:57-176, 424-470).              *)
LEMMA LiveRequests ==
  ASSUME LiveInv, NEW r \in Requests,
         \/ \E b, changes, expected : SubmitCommit(r, b, changes, expected)
         \/ \E kind, from, into, table : /\ kind = "update" => into # Main
                                         /\ SubmitMerge(r, kind, from, into, table)
         \/ Lock(r) \/ ReadUnlocked(r) \/ PlanMerge(r) \/ ReadParent(r) \/ ReadChild(r)
  PROVE  /\ UNCHANGED <<refs, rows, live>>
         /\ \A q \in Requests : req'[q] = req[q] \/ OnMain(req'[q], refs[Main])
<1>1. /\ req[r] \in RequestType /\ OnMain(req[r], refs[Main])
      /\ \A x : req' = [req EXCEPT ![r] = x] =>
           /\ req'[r] = x
           /\ \A q \in Requests \ {r} : req'[q] = req[q]
  BY DEF LiveInv, HistoryInv, Inv, TypeOK
<1>2. CASE \/ \E b, changes, expected : SubmitCommit(r, b, changes, expected)
           \/ \E kind, from, into, table : /\ kind = "update" => into # Main
                                           /\ SubmitMerge(r, kind, from, into, table)
  <2>1. PICK x : req' = [req EXCEPT ![r] = x] /\ UNCHANGED <<refs, rows, live>>
                 /\ x.pc \in {"begin", "into"} /\ (x.kind = "update" => x.branch # Main)
    <3>1. ASSUME NEW b, NEW changes, NEW expected, SubmitCommit(r, b, changes, expected)
          PROVE  \E x : req' = [req EXCEPT ![r] = x] /\ UNCHANGED <<refs, rows, live>>
                       /\ x.pc \in {"begin", "into"} /\ (x.kind = "update" => x.branch # Main)
      <4> DEFINE x == [Idle EXCEPT !.pc = "begin", !.kind = "commit", !.branch = b,
                                   !.table = TableOf(changes), !.changes = changes,
                                   !.expected = expected]
      <4>1. x.pc = "begin" /\ x.kind = "commit"
        BY DEF Idle
      <4>2. req' = [req EXCEPT ![r] = x] /\ UNCHANGED <<refs, rows, live>>
        BY <3>1 DEF SubmitCommit
      <4> HIDE DEF x
      <4> QED
        BY <4>1, <4>2
    <3>2. ASSUME NEW kind, NEW from, NEW into, NEW table, SubmitMerge(r, kind, from, into, table),
                 kind = "update" => into # Main
          PROVE  \E x : req' = [req EXCEPT ![r] = x] /\ UNCHANGED <<refs, rows, live>>
                       /\ x.pc \in {"begin", "into"} /\ (x.kind = "update" => x.branch # Main)
      <4> DEFINE x == [Idle EXCEPT !.pc = "into", !.kind = kind, !.branch = into,
                                   !.table = table, !.source = refs[from]]
      <4>1. x.pc = "into" /\ x.kind = kind /\ x.branch = into
        BY DEF Idle
      <4>2. req' = [req EXCEPT ![r] = x] /\ UNCHANGED <<refs, rows, live>>
        BY <3>2 DEF SubmitMerge
      <4> HIDE DEF x
      <4> QED
        BY <3>2, <4>1, <4>2
    <3> QED
      BY <1>2, <3>1, <3>2
  <2>2. OnMain(x, refs[Main])
    BY <2>1 DEF OnMain
  <2> QED
    BY <1>1, <2>1, <2>2
<1>3. CASE Lock(r) \/ ReadUnlocked(r)
  <2> DEFINE x == [req[r] EXCEPT !.pc = "apply", !.ref = refs[req[r].branch]]
  <2>1. /\ x.ref = refs[req[r].branch] /\ x.pc = "apply" /\ x.branch = req[r].branch
        /\ x.kind = req[r].kind
    BY <1>1 DEF RequestType
  <2>2. req' = [req EXCEPT ![r] = x] /\ UNCHANGED <<refs, rows, live>>
    BY <1>3 DEF Lock, ReadUnlocked
  <2> HIDE DEF x
  <2>3. OnMain(x, refs[Main])
    BY <1>1, <2>1 DEF OnMain
  <2> QED
    BY <1>1, <2>2, <2>3
<1>4. CASE PlanMerge(r)
  <2>1. PICK x : /\ req' = [req EXCEPT ![r] = x] /\ UNCHANGED <<refs, rows, live>>
                 /\ \/ x = Idle
                    \/ \E changes : x = [req[r] EXCEPT !.pc = "begin",
                         !.others = {req[r].source.head}, !.source = NoRef, !.changes = changes]
    BY <1>4 DEF PlanMerge
  <2>2. OnMain(x, refs[Main])
    <3>1. CASE x = Idle
      BY <3>1 DEF OnMain, Idle
    <3>2. CASE x # Idle
      <4>1. x.pc = "begin" /\ x.kind = req[r].kind /\ x.branch = req[r].branch
        BY <1>1, <2>1, <3>2 DEF RequestType
      <4> QED
        BY <1>1, <4>1 DEF OnMain
    <3> QED
      BY <3>1, <3>2
  <2> QED
    BY <1>1, <2>1, <2>2
<1>5. ASSUME req[r].pc \in {"parent", "child"}, UNCHANGED <<refs, rows, live>>,
             NEW x, req' = [req EXCEPT ![r] = x],
             x.branch = req[r].branch, x.pc \in {"child", "advance"}
      PROVE  OnMain(req'[r], refs[Main])
  <2>1. req[r].branch # Main
    <3>1. CASE req[r].pc = "parent"
      BY <1>1, <3>1 DEF OnMain
    <3>2. CASE req[r].pc = "child"
      BY <1>1, <3>2 DEF OnMain
    <3> QED
      BY <1>5, <3>1, <3>2
  <2>2. req'[r] = x
    BY <1>1, <1>5
  <2> QED
    BY <1>5, <2>1, <2>2 DEF OnMain
<1>6. CASE ReadParent(r)
  <2> DEFINE x == [req[r] EXCEPT !.pc = "child", !.source = refs[refs[req[r].branch].parent]]
  <2>1. x.branch = req[r].branch /\ x.pc = "child"
    BY <1>1 DEF RequestType
  <2>2. /\ req' = [req EXCEPT ![r] = x] /\ UNCHANGED <<refs, rows, live>>
        /\ req[r].pc = "parent"
    BY <1>6 DEF ReadParent
  <2> HIDE DEF x
  <2> QED
    BY <1>1, <1>5, <2>1, <2>2
<1>7. CASE ReadChild(r)
  <2> DEFINE x == [req[r] EXCEPT !.pc = "advance", !.ref = refs[req[r].branch]]
  <2>1. x.branch = req[r].branch /\ x.pc = "advance"
    BY <1>1 DEF RequestType
  <2>2. /\ req' = [req EXCEPT ![r] = x] /\ UNCHANGED <<refs, rows, live>>
        /\ req[r].pc = "child"
    BY <1>7 DEF ReadChild
  <2> HIDE DEF x
  <2> QED
    BY <1>1, <1>5, <2>1, <2>2
<1> QED
  BY <1>2, <1>3, <1>4, <1>6, <1>7

(* Every step keeps the invariant.                                         *)
LEMMA LiveNext == LiveInv /\ [Next]_vars => LiveInv'
<1> SUFFICES ASSUME LiveInv, [Next]_vars PROVE LiveInv'
  OBVIOUS
<1>1. HistoryInv'
  BY HistoryNext DEF LiveInv
<1>2. OnMain(Idle, refs[Main]) /\ Main \in DOMAIN refs
  BY DEF OnMain, Idle, LiveInv, HistoryInv, Inv, TypeOK
<1>3. CASE UNCHANGED vars
  BY <1>1, <1>3, LiveStays DEF vars
<1>4. ASSUME NEW r \in Requests, Submit(r) PROVE LiveInv'
  <2>1. \/ \E b, changes, expected : SubmitCommit(r, b, changes, expected)
        \/ \E kind, from, into, table : /\ kind = "update" => into # Main
                                        /\ SubmitMerge(r, kind, from, into, table)
    BY <1>4, Zenon DEF Submit, SubmitUpdate
  <2> QED
    BY <1>1, <2>1, LiveRequests, LiveStays
<1>5. ASSUME NEW r \in Requests, Finish(r), UNCHANGED <<refs, rows, live>> PROVE LiveInv'
  <2>1. \A q \in Requests : req'[q] \in {req[q], Idle}
    BY <1>5 DEF Finish, LiveInv, HistoryInv, Inv, TypeOK
  <2> QED
    BY <1>1, <1>2, <1>5, <2>1, LiveStays
<1>6. ASSUME NEW r \in Requests, Step(r) PROVE LiveInv'
  <2>1. CASE Lock(r) \/ ReadUnlocked(r) \/ PlanMerge(r) \/ ReadParent(r) \/ ReadChild(r)
    BY <1>1, <2>1, LiveRequests, LiveStays
  <2>2. CASE Land(r)
    BY <1>1, <2>2, LiveLand
  <2>3. CASE Refuse(r)
    BY <1>5, <2>3 DEF Refuse
  <2>4. CASE Advance(r)
    <3>1. req[r].branch # Main
      BY <2>4 DEF Advance, LiveInv, OnMain
    <3>2. refs'[Main] = refs[Main]
      BY <1>2, <2>4, <3>1 DEF Advance
    <3>3. \A q \in Requests : req'[q] \in {req[q], Idle}
      BY <2>4 DEF Advance, LiveInv, HistoryInv, Inv, TypeOK
    <3>4. UNCHANGED <<rows, live>>
      BY <2>4 DEF Advance
    <3> QED
      BY <1>1, <1>2, <3>2, <3>3, <3>4, LiveStays
  <2> QED
    BY <1>6, <2>1, <2>2, <2>3, <2>4 DEF Step
<1>7. ASSUME NEW r \in Requests, Crash(r) PROVE LiveInv'
  BY <1>5, <1>7 DEF Crash
<1>8. ASSUME NEW n, NEW from, CreateBranch(n, from) PROVE LiveInv'
  <2>1. refs'[Main] = refs[Main] /\ UNCHANGED <<rows, live, req>>
    BY <1>2, <1>8 DEF CreateBranch
  <2> QED
    BY <1>1, <2>1, LiveStays
<1> QED
  BY <1>3, <1>4, <1>6, <1>7, <1>8 DEF Next

(* The application's table is the default branch at its head at every      *)
(* instant, whatever requests run at the same time (DESIGN.md 6.1,         *)
(* store.go:454-458).                                                      *)
THEOREM LiveFollowsMain == Spec => []LiveIsMain
<1>1. LiveInv => LiveIsMain
  BY DEF LiveInv
<1> QED
  BY <1>1, LiveInvInit, LiveNext, PTL DEF Spec
-----------------------------------------------------------------------------
(* What a commit builds on, as long as nobody updates from a parent: an    *)
(* update that races with a commit to the parent breaks what follows.      *)

NoUpdates == "update" \notin Kinds

(* The chain of a branch ends at its head and shows what the head records. *)
EndsAtHead(b) ==
  /\ refs[b].chain[1] = Segment(b, refs[b].headSeq)
  /\ refs[b].head \in DOMAIN commits
  /\ \A pk \in PKs : RowIn(rows, refs[b].chain, pk) = RowIn(rows, commits[refs[b].head].chain, pk)

(* A request that is level with its branch has read the ref of now, and    *)
(* none is at an update.                                                   *)
Plain(x, heads) ==
  /\ x.kind # "update" /\ x.pc \notin {"parent", "child", "advance"}
  /\ x.pc = "apply" /\ x.ref.headSeq = heads[x.branch].headSeq => x.ref = heads[x.branch]

PlainInv ==
  /\ HistoryInv
  /\ \A b \in DOMAIN refs : EndsAtHead(b)
  /\ \A r \in Requests : Plain(req[r], refs)

(* A request that rests is plain.                                          *)
LEMMA PlainIdle == \A heads : Plain(Idle, heads)
BY DEF Plain, Idle

(* A new repository (store.go:146-184).                                    *)
LEMMA PlainInit == Init => PlainInv
<1> SUFFICES ASSUME Init  PROVE PlainInv
  OBVIOUS
<1>1. /\ DOMAIN refs = {Main} /\ refs[Main].chain = <<Segment(Main, 0)>>
      /\ refs[Main].headSeq = 0 /\ refs[Main].head = 1
      /\ commits = <<RootCommit>> /\ rows = {} /\ \A r \in Requests : req[r] = Idle
  BY DEF Init
<1>2. 1 \in DOMAIN commits
  BY <1>1
<1>3. \A chain, pk : RowIn(rows, chain, pk) = Absent
  BY <1>1 DEF RowIn, FirstIn, HitsIn
<1>4. EndsAtHead(Main)
  BY <1>1, <1>2, <1>3 DEF EndsAtHead
<1>5. QED
  BY <1>1, <1>4, PlainIdle, HistoryInit DEF PlainInv

(* A step that writes neither refs nor commits nor versions.               *)
LEMMA PlainStays ==
  ASSUME PlainInv, HistoryInv', UNCHANGED <<refs, commits, rows>>,
         \A r \in Requests : req'[r] = req[r] \/ Plain(req'[r], refs)
  PROVE  PlainInv'
<1>1. \A r \in Requests : Plain(req'[r], refs')
  BY DEF PlainInv
<1>2. \A b : EndsAtHead(b)' <=> EndsAtHead(b)
  BY DEF EndsAtHead
<1>3. QED
  BY <1>1, <1>2 DEF PlainInv

(* A segment in front that has no version of a key hides nothing.          *)
LEMMA PrependNothing ==
  ASSUME NEW store, NEW s \in SegmentType, NEW chain \in ChainType, NEW pk,
         \A v \in store : v.pk = pk /\ v.branch = s.branch => ~(v.from <= s.seq)
  PROVE  RowIn(store, <<s>> \o chain, pk) = RowIn(store, chain, pk)
<1> DEFINE new == <<s>> \o chain
<1>1. chain \in Seq(SegmentType) /\ new \in Seq(SegmentType) /\ Len(new) = Len(chain) + 1
  BY DEF ChainType
<1>2. /\ new[1] = s /\ DOMAIN new = 1 .. Len(chain) + 1 /\ DOMAIN chain = 1 .. Len(chain)
      /\ Len(chain) \in Nat /\ \A i \in DOMAIN chain : new[i + 1] = chain[i]
  BY <1>1
<1> HIDE DEF new
<1>3. HitsIn(store, new, 1, pk) = {}
  BY <1>2 DEF HitsIn
<1>4. \A i \in 1 .. Len(chain) : HitsIn(store, new, i + 1, pk) = HitsIn(store, chain, i, pk)
  BY <1>2 DEF HitsIn
<1>5. ASSUME NEW v, v \in FirstIn(store, chain, pk)  PROVE v \in FirstIn(store, new, pk)
  <2>1. PICK i \in 1 .. Len(chain) : /\ v \in HitsIn(store, chain, i, pk)
                                     /\ \A j \in 1 .. i - 1 : HitsIn(store, chain, j, pk) = {}
    BY <1>2, <1>5 DEF FirstIn
  <2>2. ASSUME NEW j \in 1 .. (i + 1) - 1  PROVE HitsIn(store, new, j, pk) = {}
    <3>1. CASE j = 1
      BY <1>3, <3>1
    <3>2. CASE j # 1
      <4>1. j - 1 \in 1 .. i - 1 /\ j - 1 \in 1 .. Len(chain) /\ j = (j - 1) + 1
        BY <1>2, <2>1, <3>2
      <4>2. HitsIn(store, new, (j - 1) + 1, pk) = {}
        BY <1>4, <2>1, <4>1
      <4>3. QED
        BY <4>1, <4>2
    <3>3. QED
      BY <3>1, <3>2
  <2>3. i + 1 \in DOMAIN new /\ v \in HitsIn(store, new, i + 1, pk)
    BY <1>2, <1>4, <2>1
  <2>4. QED
    BY <2>2, <2>3 DEF FirstIn
<1>6. ASSUME NEW v, v \in FirstIn(store, new, pk)  PROVE v \in FirstIn(store, chain, pk)
  <2>1. PICK i \in DOMAIN new : /\ v \in HitsIn(store, new, i, pk)
                                /\ \A j \in 1 .. i - 1 : HitsIn(store, new, j, pk) = {}
    BY <1>6 DEF FirstIn
  <2>2. i # 1
    BY <1>3, <2>1
  <2>3. PICK k \in 1 .. Len(chain) : i = k + 1
    <3>1. i - 1 \in 1 .. Len(chain) /\ i = (i - 1) + 1
      BY <1>2, <2>2
    <3>2. QED
      BY <3>1
  <2>4. ASSUME NEW j \in 1 .. k - 1  PROVE HitsIn(store, chain, j, pk) = {}
    <3>1. j + 1 \in 1 .. i - 1 /\ j \in 1 .. Len(chain)
      BY <1>2, <2>3
    <3>2. QED
      BY <1>4, <2>1, <3>1
  <2>5. v \in HitsIn(store, chain, k, pk)
    BY <1>4, <2>1, <2>3
  <2>6. QED
    BY <1>2, <2>4, <2>5 DEF FirstIn
<1>7. FirstIn(store, new, pk) = FirstIn(store, chain, pk)
  BY <1>5, <1>6
<1>8. RowIn(store, new, pk) = RowIn(store, chain, pk)
  BY <1>7 DEF RowIn
<1>9. QED
  BY <1>8 DEF new

(* A fork shows what its parent's head shows (branch.go:36-86).            *)
LEMMA PlainFork ==
  ASSUME PlainInv, HistoryInv', NEW n \in Branches, NEW from \in DOMAIN refs, CreateBranch(n, from)
  PROVE  PlainInv'
<1>1. /\ DOMAIN refs' = DOMAIN refs \cup {n} /\ n \notin DOMAIN refs
      /\ \A b \in DOMAIN refs : refs'[b] = refs[b]
      /\ refs'[n].headSeq = 0 /\ refs'[n].chain = ForkChain(n, from)
      /\ refs'[n].head = refs[from].head
      /\ UNCHANGED <<commits, rows, req>>
  BY DEF CreateBranch
<1>2. /\ TypeOK /\ EndsAtHead(from) /\ \A b \in DOMAIN refs : EndsAtHead(b)
      /\ VersionsPlaced
  BY DEF PlainInv, HistoryInv, Inv
<1>3. ASSUME NEW b \in DOMAIN refs  PROVE EndsAtHead(b)'
  BY <1>1, <1>2 DEF EndsAtHead
<1>4. EndsAtHead(n)'
  <2> DEFINE old == refs[from].chain
             own == Segment(n, 0)
             pinned == Segment(from, refs[from].headSeq)
  <2>1. /\ old # <<>> /\ old \in ChainType /\ refs[from].headSeq \in Nat /\ from \in Branches
        /\ old[1] = pinned
    BY <1>2 DEF TypeOK, RefOK, RefType, EndsAtHead
  <2>2. own \in SegmentType /\ pinned \in SegmentType /\ own.branch = n /\ own.seq = 0
    BY <2>1 DEF Segment, SegmentType
  <2> HIDE DEF own, pinned
  <2>3. Tail(old) \in ChainType /\ <<pinned>> \o Tail(old) = old
    <3>1. old \in Seq(SegmentType)
      BY <2>1 DEF ChainType
    <3>2. Head(old) = pinned /\ Tail(old) \in Seq(SegmentType)
      BY <2>1, <3>1
    <3>3. <<Head(old)>> \o Tail(old) = old
      BY <2>1, <3>1, HeadTailProperties
    <3>4. QED
      BY <3>2, <3>3 DEF ChainType
  <2>4. refs'[n].chain = <<own, pinned>> \o Tail(old)
    BY <1>1 DEF ForkChain, own, pinned
  <2>5. refs'[n].chain = <<own>> \o old
    BY <2>2, <2>3, <2>4, PrependTwo
  <2>6. refs'[n].chain[1] = own
    <3>1. old \in Seq(SegmentType)
      BY <2>1 DEF ChainType
    <3>2. QED
      BY <2>2, <2>5, <3>1
  <2>7. \A v \in rows : v.branch # n
    BY <1>1, <1>2 DEF VersionsPlaced
  <2>8. \A pk : RowIn(rows, <<own>> \o old, pk) = RowIn(rows, old, pk)
    BY <2>1, <2>2, <2>7, PrependNothing
  <2>9. \A pk \in PKs : RowIn(rows, old, pk) = RowIn(rows, commits[refs[from].head].chain, pk)
    BY <1>2 DEF EndsAtHead
  <2>10. \A pk \in PKs : RowIn(rows', refs'[n].chain, pk)
                          = RowIn(rows', commits'[refs'[n].head].chain, pk)
    BY <1>1, <2>5, <2>8, <2>9
  <2>11. refs'[n].chain[1] = Segment(n, refs'[n].headSeq)
    BY <1>1, <2>6 DEF own
  <2>12. refs'[n].head \in DOMAIN commits'
    BY <1>1, <1>2 DEF EndsAtHead
  <2>13. QED
    BY <2>10, <2>11, <2>12 DEF EndsAtHead
<1>5. ASSUME NEW r \in Requests  PROVE Plain(req'[r], refs')
  <2>1. req[r].branch \in DOMAIN refs
    BY <1>2 DEF TypeOK
  <2>2. QED
    BY <1>1, <2>1 DEF PlainInv, Plain
<1>6. QED
  BY <1>1, <1>3, <1>4, <1>5 DEF PlainInv

(* What a commit builds on: the head of its branch, as its client saw it,  *)
(* with the changes applied (store.go:387-434).                            *)
LEMMA LandBuilds ==
  ASSUME PlainInv, NEW r \in Requests, Land(r),
         NEW b, b = req[r].branch, NEW c \in Nat, c = Len(commits) + 1
  PROVE  /\ DOMAIN commits' = DOMAIN commits \cup {c}
         /\ commits'[c].branch = b /\ commits'[c].first = refs[b].head
         /\ refs'[b].head = c /\ refs'[b].chain = commits'[c].chain
         /\ refs'[b].chain[1] = Segment(b, refs'[b].headSeq)
         /\ StateAtCommit(c)' = Apply(StateAtCommit(refs[b].head), req[r].changes)
         /\ req[r].expected \in {0, refs[b].head}
<1> DEFINE chain == <<Segment(b, NextSeq(r))>> \o Tail(req[r].ref.chain)
<1>1. /\ HistoryInv /\ Inv /\ Plain(req[r], refs) /\ req[r].pc = "apply" /\ ~Moved(r)
      /\ b \in DOMAIN refs /\ EndsAtHead(b)
  BY ReqFacts DEF PlainInv, HistoryInv, Inv, Land
<1>2. b \in Branches /\ refs[b].headSeq \in Nat /\ NextSeq(r) = refs[b].headSeq + 1
      /\ req[r].ref.headSeq = refs[b].headSeq
  BY <1>1, LandSeq
<1>3. req[r].ref = refs[b]
  BY <1>1, <1>2 DEF Plain
<1>4. req[r].expected \in {0, refs[b].head}
  BY <1>1, <1>3 DEF Moved
<1>5. /\ commits'[c].chain = chain /\ refs'[b].chain = chain /\ refs'[b].headSeq = NextSeq(r)
      /\ req[r].ref.chain # <<>> /\ CoveredBy(refs, req[r].ref.chain)
  BY <1>1, LandChain
<1>6. /\ DOMAIN commits' = DOMAIN commits \cup {c} /\ refs'[b].head = c
      /\ commits'[c].branch = b /\ commits'[c].first = refs[b].head
  BY <1>1, LandRefs
<1>7. chain[1] = Segment(b, NextSeq(r))
  <2>1. Tail(req[r].ref.chain) \in Seq(SegmentType) /\ Segment(b, NextSeq(r)) \in SegmentType
    BY <1>2, <1>5 DEF CoveredBy, ChainType, Segment, SegmentType
  <2>2. QED
    BY <2>1
<1>8. req[r].ref.chain[1] = Segment(b, refs[b].headSeq)
  BY <1>1, <1>3 DEF EndsAtHead
<1>9. \A pk : RowIn(rows', chain, pk)
                = IF pk \in DOMAIN req[r].changes THEN req[r].changes[pk]
                  ELSE RowIn(rows, req[r].ref.chain, pk)
  BY <1>1, <1>8, LandShows
<1> HIDE DEF chain
<1>10. \A pk \in PKs : RowIn(rows, req[r].ref.chain, pk)
                        = RowIn(rows, commits[refs[b].head].chain, pk)
  BY <1>1, <1>3 DEF EndsAtHead
<1>11. StateAtCommit(c)' = [pk \in PKs |-> RowIn(rows', chain, pk)]
  <2>1. StateAtCommit(c)' = [pk \in PKs |-> RowIn(rows', commits'[c].chain, pk)]
    BY StateIn
  <2>2. QED
    BY <1>5, <2>1
<1>12. StateAtCommit(refs[b].head) = [pk \in PKs |-> RowIn(rows, commits[refs[b].head].chain, pk)]
  BY StateIn
<1>13. StateAtCommit(c)' = Apply(StateAtCommit(refs[b].head), req[r].changes)
  BY <1>9, <1>10, <1>11, <1>12 DEF Apply
<1>14. QED
  BY <1>4, <1>5, <1>6, <1>7, <1>13

(* A commit or a merge that lands leaves its branch ending at its head     *)
(* (store.go:387-434, merge.go:424-479).                                   *)
LEMMA PlainLand ==
  ASSUME PlainInv, HistoryInv', NEW r \in Requests, Land(r)
  PROVE  PlainInv'
<1>0. PICK b, c : b = req[r].branch /\ c = Len(commits) + 1 /\ c \in Nat
  <2>1. Len(commits) \in Nat
    BY LandSeq DEF PlainInv
  <2>2. QED
    BY <2>1
<1>1. HistoryInv /\ Inv /\ Inv' /\ b \in DOMAIN refs /\ refs[b].headSeq \in Nat
  BY <1>0, LandSeq DEF PlainInv, HistoryInv
<1>2. /\ DOMAIN commits' = DOMAIN commits \cup {c} /\ refs'[b].head = c
      /\ refs'[b].chain = commits'[c].chain
      /\ refs'[b].chain[1] = Segment(b, refs'[b].headSeq)
  <2>1. DOMAIN commits' = DOMAIN commits \cup {c}
    BY <1>0, LandBuilds
  <2>2. refs'[b].head = c
    BY <1>0, LandBuilds
  <2>3. refs'[b].chain = commits'[c].chain
    BY <1>0, <1>1, LandChain
  <2>4. refs'[b].chain[1] = Segment(b, refs'[b].headSeq)
    BY <1>0, LandBuilds
  <2>5. QED
    BY <2>1, <2>2, <2>3, <2>4
<1>3. /\ \A d \in DOMAIN commits : commits'[d] = commits[d]
      /\ DOMAIN refs' = DOMAIN refs /\ refs'[b].headSeq = refs[b].headSeq + 1
      /\ \A a \in DOMAIN refs \ {b} : refs'[a] = refs[a]
  BY <1>0, <1>1, LandRefs
<1>4. EndsAtHead(b)'
  <2>1. \A pk \in PKs : RowIn(rows', refs'[b].chain, pk)
                          = RowIn(rows', commits'[refs'[b].head].chain, pk)
    BY <1>2
  <2>2. refs'[b].head \in DOMAIN commits'
    BY <1>2
  <2>3. (refs[b].chain[1] = Segment(b, refs[b].headSeq))'
    BY <1>2
  <2>4. QED
    BY <2>1, <2>2, <2>3 DEF EndsAtHead
<1>5. ASSUME NEW a \in DOMAIN refs \ {b}  PROVE EndsAtHead(a)'
  <2>1. /\ EndsAtHead(a) /\ CoveredBy(refs, refs[a].chain)
        /\ CoveredBy(refs, commits[refs[a].head].chain)
    BY <1>1 DEF PlainInv, HistoryInv, ChainsCovered, EndsAtHead
  <2>2. \A pk : /\ RowIn(rows', refs[a].chain, pk) = RowIn(rows, refs[a].chain, pk)
                /\ RowIn(rows', commits[refs[a].head].chain, pk)
                     = RowIn(rows, commits[refs[a].head].chain, pk)
    BY <1>1, <2>1, ShownStays
  <2>3. refs'[a] = refs[a] /\ commits'[refs[a].head] = commits[refs[a].head]
    BY <1>3, <2>1 DEF EndsAtHead
  <2>4. QED
    BY <1>2, <2>1, <2>2, <2>3 DEF EndsAtHead
<1>6. ASSUME NEW q \in Requests  PROVE Plain(req'[q], refs')
  <2>1. /\ req[q] \in RequestType /\ Plain(req[q], refs)
        /\ req' = [req EXCEPT ![r] = IF @.kind = "update"
                                     THEN [Idle EXCEPT !.pc = "parent", !.branch = b] ELSE Idle]
        /\ req[r].kind # "update" /\ req \in [Requests -> RequestType]
    BY <1>0, <1>1 DEF Land, PlainInv, Inv, TypeOK, Plain
  <2>2. CASE q = r
    <3>1. req'[q] = Idle
      BY <2>1, <2>2
    <3>2. QED
      BY <3>1, PlainIdle
  <2>3. CASE q # r
    <3>1. req'[q] = req[q]
      BY <2>1, <2>3
    <3>2. CASE req[q].branch = b /\ req[q].pc = "apply"
      <4>1. req[q].ref.headSeq <= refs[b].headSeq /\ req[q].ref.headSeq \in Nat
        BY <1>1, <2>1, <3>2 DEF Inv, RefsRead, ReadBehind, RequestType, RefType
      <4>2. req[q].ref.headSeq # refs'[b].headSeq
        BY <1>1, <1>3, <4>1
      <4>3. QED
        BY <2>1, <3>1, <3>2, <4>2 DEF Plain
    <3>3. CASE req[q].branch # b
      <4>1. req[q].branch \in DOMAIN refs
        BY <1>1 DEF Inv, TypeOK
      <4>2. refs'[req[q].branch] = refs[req[q].branch]
        BY <1>3, <3>3, <4>1
      <4>3. QED
        BY <2>1, <3>1, <4>2 DEF Plain
    <3>4. CASE req[q].pc # "apply"
      BY <2>1, <3>1, <3>4 DEF Plain
    <3>5. QED
      BY <3>2, <3>3, <3>4
  <2>4. QED
    BY <2>2, <2>3
<1>7. \A a \in DOMAIN refs' : EndsAtHead(a)'
  BY <1>3, <1>4, <1>5
<1>8. QED
  BY <1>6, <1>7 DEF PlainInv

(* A request that starts (store.go:387, merge.go:57-66).                   *)
LEMMA PlainCommit ==
  ASSUME PlainInv, NEW r \in Requests, NEW b, NEW changes, NEW expected,
         SubmitCommit(r, b, changes, expected)
  PROVE  /\ UNCHANGED <<refs, commits, rows>>
         /\ \A q \in Requests : req'[q] = req[q] \/ Plain(req'[q], refs)
<1> DEFINE x == [Idle EXCEPT !.pc = "begin", !.kind = "commit", !.branch = b,
                             !.table = TableOf(changes), !.changes = changes,
                             !.expected = expected]
<1>1. x.pc = "begin" /\ x.kind = "commit"
  BY DEF Idle
<1>2. req' = [req EXCEPT ![r] = x] /\ UNCHANGED <<refs, commits, rows>>
  BY DEF SubmitCommit
<1> HIDE DEF x
<1>3. Plain(x, refs)
  BY <1>1 DEF Plain
<1> QED
  BY <1>2, <1>3 DEF PlainInv, HistoryInv, Inv, TypeOK

(* A merge that starts (merge.go:57-66).                                   *)
LEMMA PlainMerge ==
  ASSUME PlainInv, NEW r \in Requests, NEW from, NEW into, NEW table,
         SubmitMerge(r, "merge", from, into, table)
  PROVE  /\ UNCHANGED <<refs, commits, rows>>
         /\ \A q \in Requests : req'[q] = req[q] \/ Plain(req'[q], refs)
<1> DEFINE x == [Idle EXCEPT !.pc = "into", !.kind = "merge", !.branch = into,
                             !.table = table, !.source = refs[from]]
<1>1. x.pc = "into" /\ x.kind = "merge"
  BY DEF Idle
<1>2. req' = [req EXCEPT ![r] = x] /\ UNCHANGED <<refs, commits, rows>>
  BY DEF SubmitMerge
<1> HIDE DEF x
<1>3. Plain(x, refs)
  BY <1>1 DEF Plain
<1> QED
  BY <1>2, <1>3 DEF PlainInv, HistoryInv, Inv, TypeOK

(* A request that reads its branch or plans its merge (store.go:387-402,   *)
(* merge.go:57-176).                                                       *)
LEMMA PlainRequests ==
  ASSUME PlainInv, NEW r \in Requests, Lock(r) \/ ReadUnlocked(r) \/ PlanMerge(r)
  PROVE  /\ UNCHANGED <<refs, commits, rows>>
         /\ \A q \in Requests : req'[q] = req[q] \/ Plain(req'[q], refs)
<1>1. /\ req[r] \in RequestType /\ Plain(req[r], refs)
      /\ \A x : req' = [req EXCEPT ![r] = x] =>
           /\ req'[r] = x
           /\ \A q \in Requests \ {r} : req'[q] = req[q]
  BY DEF PlainInv, HistoryInv, Inv, TypeOK
<1>3. CASE Lock(r) \/ ReadUnlocked(r)
  <2> DEFINE x == [req[r] EXCEPT !.pc = "apply", !.ref = refs[req[r].branch]]
  <2>1. /\ x.ref = refs[req[r].branch] /\ x.pc = "apply" /\ x.branch = req[r].branch
        /\ x.kind = req[r].kind
    BY <1>1 DEF RequestType
  <2>2. req' = [req EXCEPT ![r] = x] /\ UNCHANGED <<refs, commits, rows>>
    BY <1>3 DEF Lock, ReadUnlocked
  <2> HIDE DEF x
  <2>3. Plain(x, refs)
    BY <1>1, <2>1 DEF Plain
  <2> QED
    BY <1>1, <2>2, <2>3
<1>4. CASE PlanMerge(r)
  <2>1. PICK x : /\ req' = [req EXCEPT ![r] = x] /\ UNCHANGED <<refs, commits, rows>>
                 /\ \/ x = Idle
                    \/ \E changes : x = [req[r] EXCEPT !.pc = "begin",
                         !.others = {req[r].source.head}, !.source = NoRef, !.changes = changes]
    BY <1>4 DEF PlanMerge
  <2>2. CASE x = Idle
    BY <1>1, <2>1, <2>2, PlainIdle
  <2>3. CASE x # Idle
    <3>1. x.pc = "begin" /\ x.kind = req[r].kind
      BY <1>1, <2>1, <2>3 DEF RequestType
    <3>2. Plain(x, refs)
      BY <1>1, <3>1 DEF Plain
    <3> QED
      BY <1>1, <2>1, <3>2
  <2> QED
    BY <2>2, <2>3
<1> QED
  BY <1>3, <1>4

(* Every step keeps the invariant.                                         *)
LEMMA PlainNext ==
  ASSUME NoUpdates, PlainInv, [Next]_vars
  PROVE  PlainInv'
<1>1. HistoryInv'
  BY HistoryNext DEF PlainInv
<1>2. CASE UNCHANGED vars
  BY <1>1, <1>2, PlainStays DEF vars
<1>3. ASSUME NEW r \in Requests, Submit(r) PROVE PlainInv'
  BY <1>1, <1>3, PlainCommit, PlainMerge, PlainStays DEF Submit, NoUpdates
<1>4. ASSUME NEW r \in Requests, Finish(r), UNCHANGED <<refs, commits, rows>> PROVE PlainInv'
  <2>1. \A q \in Requests : req'[q] \in {req[q], Idle}
    BY <1>4 DEF Finish, PlainInv, HistoryInv, Inv, TypeOK
  <2> QED
    BY <1>1, <1>4, <2>1, PlainIdle, PlainStays
<1>5. ASSUME NEW r \in Requests, Step(r) PROVE PlainInv'
  <2>1. CASE Lock(r) \/ ReadUnlocked(r) \/ PlanMerge(r)
    BY <1>1, <2>1, PlainRequests, PlainStays
  <2>2. CASE Land(r)
    BY <1>1, <2>2, PlainLand
  <2>3. CASE Refuse(r)
    BY <1>4, <2>3 DEF Refuse
  <2>4. ~(ReadParent(r) \/ ReadChild(r) \/ Advance(r))
    BY DEF PlainInv, Plain, ReadParent, ReadChild, Advance
  <2> QED
    BY <1>5, <2>1, <2>2, <2>3, <2>4 DEF Step
<1>6. ASSUME NEW r \in Requests, Crash(r) PROVE PlainInv'
  BY <1>4, <1>6 DEF Crash
<1>7. ASSUME NEW n \in Branches, NEW from \in DOMAIN refs, CreateBranch(n, from) PROVE PlainInv'
  BY <1>1, <1>7, PlainFork
<1> QED
  BY <1>2, <1>3, <1>5, <1>6, <1>7 DEF Next

(* Without updates every branch ends at its head and every request that is *)
(* level with its branch has read the ref of now (store.go:387-434).       *)
THEOREM PlainInvariance ==
  ASSUME NoUpdates
  PROVE  Spec => []PlainInv
<1>1. PlainInv /\ [Next]_vars => PlainInv'
  BY PlainNext
<1> QED
  BY <1>1, PlainInit, PTL DEF Spec

(* A branch shows at its head what its head records (merge.go:424-434).    *)
LEMMA HeadState ==
  ASSUME PlainInv, NEW b \in DOMAIN refs
  PROVE  ResolveMap(refs[b].chain) = StateAtCommit(refs[b].head)
<1>1. \A pk \in PKs : RowIn(rows, refs[b].chain, pk) = RowIn(rows, commits[refs[b].head].chain, pk)
  BY DEF PlainInv, EndsAtHead
<1>2. QED
  BY <1>1, StateIn, CurrentRowIn DEF ResolveMap

(* Without updates a branch shows at its head what its head records, and   *)
(* no change that its history does not account for, however many requests  *)
(* commit, merge and fork at a time (merge.go:424-434, 459-479).           *)
THEOREM BranchesShowTheirHeads ==
  ASSUME NoUpdates
  PROVE  Spec => []RefMatchesHead
<1>1. PlainInv => RefMatchesHead
  BY HeadState DEF RefMatchesHead
<1> QED
  BY <1>1, PlainInvariance, PTL

(* The commit that lands (store.go:387-434).                               *)
LEMMA LandOnHead ==
  ASSUME PlainInv, NEW r \in Requests, Land(r), NEW c \in DOMAIN commits' \ DOMAIN commits
  PROVE  LET head == refs[req[r].branch].head
         IN  /\ req[r].pc = "apply" /\ req'[r].pc # "apply"
             /\ commits'[c].branch = req[r].branch
             /\ commits'[c].first = head
             /\ StateAtCommit(c)' = Apply(StateAtCommit(head), req[r].changes)
             /\ req[r].expected \in {0, head}
<1>1. PICK b : b = req[r].branch
  OBVIOUS
<1>2. Len(commits) \in Nat
  BY LandSeq DEF PlainInv
<1>3. Len(commits) + 1 \in Nat
  BY <1>2
<1>4. PICK d \in Nat : d = Len(commits) + 1
  BY <1>3
<1>5. DOMAIN commits' = DOMAIN commits \cup {d}
  BY <1>1, <1>4, LandBuilds
<1>6. c = d
  BY <1>5
<1>7. HistoryInv /\ Inv /\ req[r].pc = "apply" /\ b \in DOMAIN refs
  BY <1>1, ReqFacts DEF PlainInv, HistoryInv, Inv, Land
<1>8. commits'[d].branch = b /\ commits'[d].first = refs[b].head
  BY <1>1, <1>4, <1>7, LandRefs
<1>9. req[r].expected \in {0, refs[b].head}
  BY <1>1, <1>4, LandBuilds
<1>10. StateAtCommit(d)' = Apply(StateAtCommit(refs[b].head), req[r].changes)
  BY <1>1, <1>4, LandBuilds, ZenonT(60)
<1>11. req[r].pc = "apply" /\ req'[r].pc # "apply"
  <2>1. req \in [Requests -> RequestType] /\ Plain(req[r], refs)
    BY DEF PlainInv, HistoryInv, Inv, TypeOK
  <2>2. req'[r] = Idle /\ req[r].pc = "apply"
    BY <2>1 DEF Land, Plain
  <2> QED
    BY <2>2 DEF Idle
<1> QED
  BY <1>1, <1>6, <1>8, <1>9, <1>10, <1>11, Zenon

(* Without updates a commit lands on the head of that moment, with its     *)
(* request's changes over the head's state, and a client that named a head *)
(* gets its commit right after it, whatever landed between its submission  *)
(* and its lock, audit-mode tables included (store.go:387-434).            *)
THEOREM CommitsLandOnHeads ==
  ASSUME NoUpdates
  PROVE  Spec => CommitsBuildOnHead
<1>1. PlainInv /\ [Next]_vars =>
        [\A c \in DOMAIN commits' \ DOMAIN commits :
           \E r \in Requests :
             LET head == refs[req[r].branch].head
             IN  /\ req[r].pc = "apply" /\ req'[r].pc # "apply"
                 /\ commits'[c].branch = req[r].branch
                 /\ commits'[c].first = head
                 /\ StateAtCommit(c)' = Apply(StateAtCommit(head), req[r].changes)
                 /\ req[r].expected \in {0, head}]_vars
  <2> SUFFICES ASSUME PlainInv, [Next]_vars, NEW c \in DOMAIN commits' \ DOMAIN commits
               PROVE  \E r \in Requests :
                        LET head == refs[req[r].branch].head
                        IN  /\ req[r].pc = "apply" /\ req'[r].pc # "apply"
                            /\ commits'[c].branch = req[r].branch
                            /\ commits'[c].first = head
                            /\ StateAtCommit(c)' = Apply(StateAtCommit(head), req[r].changes)
                            /\ req[r].expected \in {0, head}
    OBVIOUS
  <2>1. PICK r \in Requests : Land(r)
    BY OnlyLandWrites
  <2> QED
    BY <2>1, LandOnHead, Zenon
<1> QED
  BY <1>1, PlainInvariance, PTL DEF Spec, CommitsBuildOnHead
=============================================================================
