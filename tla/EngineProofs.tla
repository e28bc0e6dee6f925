---------------------------- MODULE EngineProofs ----------------------------
(***************************************************************************)
(* The version store keeps what a commit recorded, for any number of       *)
(* branches, keys, columns and sessions.                                   *)
(*                                                                         *)
(* The argument is about the published versions only: a stored chain never *)
(* reaches past the head of a branch, and a commit writes at the next      *)
(* number.  Four of the engine's operations commit (Commit, Merge,         *)
(* UpdateFromParent, CommitSession); each is an instance of Publishes      *)
(* below, from which everything else follows once.                         *)
(***************************************************************************)
EXTENDS IntervalEngine, Resolution

-----------------------------------------------------------------------------
(* The inductive invariant.                                                *)

ChainType == Chains(Branches)
CommitType == [parents : SUBSET Nat, branch : Branches, seq : Nat, chain : ChainType]
BranchType == [headSeq : Nat, head : Nat, parent : Branches, fork : Nat, chain : ChainType]
SessionType == [branch : Branches, base : Nat]
VersionType == [branch : Branches, pk : PKs, from : Nat, to : Nat, commit : Nat,
                session : SessionIds \cup {NoSession}, changed : Mask, row : Image]

(* A commit's parents come before it (engine.go:437-500).                  *)
TypeOK ==
  /\ Main \in DOMAIN branches /\ DOMAIN branches \subseteq Branches
  /\ branches \in [DOMAIN branches -> BranchType]
  /\ \A b \in DOMAIN branches : /\ branches[b].parent \in DOMAIN branches
                                /\ branches[b].head \in DOMAIN commits
                                /\ branches[b].fork \in DOMAIN commits
  /\ commits \in Seq(CommitType)
  /\ \A c \in DOMAIN commits : commits[c].parents \subseteq 1 .. c - 1
  /\ DOMAIN sessions \subseteq SessionIds
  /\ sessions \in [DOMAIN sessions -> SessionType]
  /\ \A s \in DOMAIN sessions : /\ sessions[s].branch \in DOMAIN branches \ {Main}
                                /\ sessions[s].base \in DOMAIN commits
  /\ rows \subseteq VersionType

(* The versions that are not staged, and the numbers of the heads.         *)
Pub == {v \in rows : v.session = NoSession}
Heads == [b \in DOMAIN branches |-> branches[b].headSeq]

ChainsWithin ==
  /\ \A b \in DOMAIN branches : Within(branches[b].chain, Heads)
  /\ \A c \in DOMAIN commits : Within(commits[c].chain, Heads)

(* The sentinel of open versions is above every sequence number.           *)
HeadsBounded ==
  /\ Len(commits) <= MaxCommits
  /\ \A b \in DOMAIN branches : branches[b].headSeq < Len(commits)

EngineInv ==
  /\ TypeOK /\ ChainsWithin /\ Placed(Pub, Heads, MaxSeq) /\ Apart(Pub) /\ HeadsBounded
  /\ StagedVersionsOwned /\ HeadMatchesHistory

-----------------------------------------------------------------------------
(* Resolution in the engine is resolution of the published versions.       *)

(* A session-less view skips staged versions (engine.go:216-258).          *)
LEMMA HitsPublished ==
  \A chain, i, pk : Hits(chain, i, pk) = SegmentHits(Pub, chain[i], pk)
BY DEF Hits, InSegment, SegmentHits, Pub

(* What a chain resolves to, without and within a session.                 *)
LEMMA WinnerIs ==
  /\ \A chain, pk : Winner(chain, NoSession, pk) = Shown(Pub, chain, pk)
  /\ \A chain, pk, s : Winner(chain, s, pk) = IF s # NoSession /\ \E v \in Staged(s) : v.pk = pk
                                            THEN (CHOOSE v \in {w \in Staged(s) : w.pk = pk} : TRUE).row
                                            ELSE Shown(Pub, chain, pk)
<1>1. ASSUME NEW chain, NEW pk PROVE FirstHits(chain, pk) = TopHits(Pub, chain, pk)
  <2>1. \A v : v \in FirstHits(chain, pk) <=> \E i \in DOMAIN chain :
                 /\ v \in SegmentHits(Pub, chain[i], pk)
                 /\ \A j \in 1 .. i - 1 : SegmentHits(Pub, chain[j], pk) = {}
    BY HitsPublished DEF FirstHits
  <2>2. \A v : v \in TopHits(Pub, chain, pk) <=> \E i \in DOMAIN chain :
                 /\ v \in SegmentHits(Pub, chain[i], pk)
                 /\ \A j \in 1 .. i - 1 : SegmentHits(Pub, chain[j], pk) = {}
    BY DEF TopHits
  <2> QED
    BY <2>1, <2>2
<1>2. ASSUME NEW chain, NEW pk, NEW s
      PROVE  LET mine == {w \in Staged(s) : w.pk = pk}
             IN  Winner(chain, s, pk) = IF s # NoSession /\ mine # {}
                                        THEN (CHOOSE v \in mine : TRUE).row
                                        ELSE Shown(Pub, chain, pk)
  <2> DEFINE mine == {w \in Staged(s) : w.pk = pk}
             staged == {v \in rows : s # NoSession /\ v.session = s /\ v.pk = pk}
             found == IF staged # {} THEN staged ELSE FirstHits(chain, pk)
  <2>1. Winner(chain, s, pk) = IF found = {} THEN Absent ELSE (CHOOSE v \in found : TRUE).row
    BY DEF Winner
  <2>2. staged = IF s # NoSession THEN mine ELSE {}
    BY DEF Staged
  <2>3. Shown(Pub, chain, pk) = IF FirstHits(chain, pk) = {} THEN Absent
                                ELSE (CHOOSE v \in FirstHits(chain, pk) : TRUE).row
    <3>1. FirstHits(chain, pk) = TopHits(Pub, chain, pk)
      BY <1>1
    <3> QED
      BY <3>1 DEF Shown
  <2> HIDE DEF mine, staged
  <2>4. CASE s # NoSession /\ mine # {}
    BY <2>1, <2>2, <2>4 DEF mine
  <2>5. CASE ~(s # NoSession /\ mine # {})
    <3>1. found = FirstHits(chain, pk)
      BY <2>2, <2>5
    <3> HIDE DEF found
    <3> QED
      BY <2>1, <2>3, <2>5, <3>1 DEF mine
  <2> QED
    BY <2>4, <2>5
<1>3. \A s, pk : {w \in Staged(s) : w.pk = pk} # {} <=> \E v \in Staged(s) : v.pk = pk
  OBVIOUS
<1> QED
  BY <1>2, <1>3

(* A branch, a commit and a session, as functions of the published and the *)
(* staged versions (engine.go:216-258, 841-867).                           *)
LEMMA ViewsAre ==
  /\ \A chain : ResolveChain(chain, NoSession) = [pk \in PKs |-> Shown(Pub, chain, pk)]
  /\ \A b : Resolve(b) = [pk \in PKs |-> Shown(Pub, HeadChain(b), pk)]
  /\ \A c : StateAtCommit(c) = [pk \in PKs |-> Shown(Pub, commits[c].chain, pk)]
  /\ \A s : SessionResolve(s) = [pk \in PKs |->
       IF s # NoSession /\ \E v \in Staged(s) : v.pk = pk
       THEN (CHOOSE v \in {w \in Staged(s) : w.pk = pk} : TRUE).row
       ELSE Shown(Pub, commits[sessions[s].base].chain, pk)]
BY WinnerIs DEF ResolveChain, Resolve, StateAtCommit, SessionResolve

(* The same after a step.                                                  *)
LEMMA ViewsAreNext ==
  /\ \A chain : ResolveChain(chain, NoSession)' = [pk \in PKs |-> Shown(Pub', chain, pk)]
  /\ \A b : Resolve(b)' = [pk \in PKs |-> Shown(Pub', HeadChain(b)', pk)]
  /\ \A c : StateAtCommit(c)' = [pk \in PKs |-> Shown(Pub', commits'[c].chain, pk)]
  /\ \A s : SessionResolve(s)' = [pk \in PKs |->
       IF s # NoSession /\ \E v \in Staged(s)' : v.pk = pk
       THEN (CHOOSE v \in {w \in Staged(s)' : w.pk = pk} : TRUE).row
       ELSE Shown(Pub', commits'[sessions'[s].base].chain, pk)]
<1>1. (/\ \A chain : ResolveChain(chain, NoSession) = [pk \in PKs |-> Shown(Pub, chain, pk)]
       /\ \A b : Resolve(b) = [pk \in PKs |-> Shown(Pub, HeadChain(b), pk)]
       /\ \A c : StateAtCommit(c) = [pk \in PKs |-> Shown(Pub, commits[c].chain, pk)]
       /\ \A s : SessionResolve(s) = [pk \in PKs |->
            IF s # NoSession /\ \E v \in Staged(s) : v.pk = pk
            THEN (CHOOSE v \in {w \in Staged(s) : w.pk = pk} : TRUE).row
            ELSE Shown(Pub, commits[sessions[s].base].chain, pk)])'
  BY ViewsAre, PTL
<1> QED
  BY <1>1

(* What a chain resolves to is an image, whichever version is picked.      *)
LEMMA ShownType ==
  ASSUME TypeOK, NEW chain, NEW pk
  PROVE  Shown(Pub, chain, pk) \in Image
<1>1. \A v \in TopHits(Pub, chain, pk) : v.row \in Image
  BY DEF TopHits, SegmentHits, Pub, TypeOK, VersionType
<1>2. TopHits(Pub, chain, pk) # {}
        => (CHOOSE v \in TopHits(Pub, chain, pk) : TRUE) \in TopHits(Pub, chain, pk)
  OBVIOUS
<1> QED
  BY <1>1, <1>2 DEF Shown, Image

(* The types of what TypeOK names, one by one.                             *)
LEMMA Types ==
  ASSUME TypeOK
  PROVE  /\ Numbered(Pub)
         /\ Len(commits) \in Nat /\ DOMAIN commits = 1 .. Len(commits)
         /\ \A c \in DOMAIN commits : commits[c] \in CommitType /\ commits[c].chain \in ChainType
         /\ \A b \in DOMAIN branches :
              /\ b \in Branches /\ branches[b] \in BranchType /\ branches[b].headSeq \in Nat
              /\ NextSeq(b) = branches[b].headSeq + 1 /\ NextSeq(b) \in Nat
              /\ branches[b].chain \in ChainType /\ branches[b].parent \in DOMAIN branches
              /\ branches[b].head \in DOMAIN commits /\ branches[b].fork \in DOMAIN commits
              /\ Heads[b] = branches[b].headSeq
              /\ HeadChain(b) = <<[branch |-> b, seq |-> Heads[b]]>> \o branches[b].chain
              /\ HeadChain(b) \in ChainType
         /\ DOMAIN Heads = DOMAIN branches
         /\ NewId = Len(commits) + 1
<1>1. Numbered(Pub)
  BY DEF TypeOK, Numbered, Pub, VersionType
<1>2. /\ Len(commits) \in Nat /\ DOMAIN commits = 1 .. Len(commits)
      /\ \A c \in DOMAIN commits : commits[c] \in CommitType
  BY DEF TypeOK
<1>3. \A c \in DOMAIN commits : commits[c].chain \in ChainType
  BY <1>2 DEF CommitType
<1>4. ASSUME NEW b \in DOMAIN branches
      PROVE  /\ b \in Branches /\ branches[b] \in BranchType /\ branches[b].headSeq \in Nat
             /\ NextSeq(b) = branches[b].headSeq + 1 /\ NextSeq(b) \in Nat
             /\ branches[b].chain \in ChainType /\ branches[b].parent \in DOMAIN branches
             /\ branches[b].head \in DOMAIN commits /\ branches[b].fork \in DOMAIN commits
             /\ Heads[b] = branches[b].headSeq
             /\ HeadChain(b) = <<[branch |-> b, seq |-> Heads[b]]>> \o branches[b].chain
             /\ HeadChain(b) \in ChainType
  <2>1. b \in Branches /\ branches[b] \in BranchType /\ branches[b].parent \in DOMAIN branches
        /\ branches[b].head \in DOMAIN commits /\ branches[b].fork \in DOMAIN commits
    BY DEF TypeOK
  <2>2. branches[b].headSeq \in Nat /\ branches[b].chain \in ChainType
    BY <2>1 DEF BranchType
  <2>3. NextSeq(b) = branches[b].headSeq + 1 /\ NextSeq(b) \in Nat
    BY <2>2 DEF NextSeq
  <2>4. Heads[b] = branches[b].headSeq
    BY DEF Heads
  <2>5. HeadChain(b) = <<[branch |-> b, seq |-> Heads[b]]>> \o branches[b].chain
    BY <2>4 DEF HeadChain, ChainFor, Segment
  <2>6. HeadChain(b) \in ChainType
    BY <2>1, <2>2, <2>4, <2>5, Prepend DEF ChainType
  <2> QED
    BY <2>1, <2>2, <2>3, <2>4, <2>5, <2>6
<1> QED
  BY <1>1, <1>2, <1>3, <1>4 DEF Heads, NewId

-----------------------------------------------------------------------------
(* What a commit does to the versions.                                     *)

(* What becomes of a published version, and what is opened                 *)
(* (engine.go:437-500).                                                    *)
Age(b, keys) ==
  [v \in Pub |-> IF v.pk \in keys /\ IsOpen(v, b, v.pk) THEN [v EXCEPT !.to = NextSeq(b)] ELSE v]

Fresh(b, keys, before, after) ==
  {Version(b, pk, NextSeq(b), NewId, NoSession, MaskOf(before[pk], after[pk]), after[pk])
     : pk \in keys}

Stage == {v \in rows : v.session # NoSession}

(* A version that is closed changes in nothing but its end.                *)
LEMMA AgeFacts ==
  ASSUME TypeOK, NEW b \in DOMAIN branches, NEW keys, NEW v \in Pub
  PROVE  LET u == Age(b, keys)[v]
         IN  /\ u.branch = v.branch /\ u.pk = v.pk /\ u.from = v.from /\ u.row = v.row
             /\ u.changed = v.changed /\ u.session = NoSession /\ u \in VersionType
             /\ u.to = IF v.branch = b /\ v.to = MaxSeq /\ v.pk \in keys THEN NextSeq(b) ELSE v.to
<1>1. v \in VersionType /\ v.session = NoSession
  BY DEF Pub, TypeOK
<1>2. NextSeq(b) \in Nat
  BY Types
<1> DEFINE u == Age(b, keys)[v]
           w == [v EXCEPT !.to = NextSeq(b)]
<1>3. u = IF v.branch = b /\ v.to = MaxSeq /\ v.pk \in keys THEN w ELSE v
  BY <1>1 DEF Age, IsOpen
<1>4. /\ w.branch = v.branch /\ w.pk = v.pk /\ w.from = v.from /\ w.row = v.row
      /\ w.changed = v.changed /\ w.session = NoSession /\ w.to = NextSeq(b)
      /\ w \in VersionType
  BY <1>1, <1>2 DEF VersionType
<1> HIDE DEF u, w
<1> QED
  BY <1>1, <1>3, <1>4 DEF u

(* The versions after the close are the staged and the aged ones.          *)
LEMMA CloseOpenIs ==
  ASSUME TypeOK, NEW b \in DOMAIN branches, NEW keys
  PROVE  CloseOpen(b, keys, NextSeq(b)) = Stage \cup {Age(b, keys)[v] : v \in Pub}
<1> DEFINE close(v) == IF v.pk \in keys /\ IsOpen(v, b, v.pk) THEN [v EXCEPT !.to = NextSeq(b)]
                       ELSE v
<1>1. CloseOpen(b, keys, NextSeq(b)) = {close(v) : v \in rows}
  BY DEF CloseOpen
<1>2. \A v \in Pub : Age(b, keys)[v] = close(v)
  BY DEF Age
<1>3. \A v \in Stage : close(v) = v
  BY DEF Stage, IsOpen
<1>4. rows = Stage \cup Pub
  BY DEF Stage, Pub
<1> HIDE DEF close
<1> QED
  BY <1>1, <1>2, <1>3, <1>4

(* The versions a write opens.                                             *)
LEMMA FreshFacts ==
  ASSUME TypeOK, NEW b \in DOMAIN branches, NEW keys \in SUBSET PKs, NEW before, NEW after,
         \A pk \in keys : after[pk] \in Image
  PROVE  /\ Fresh(b, keys, before, after) \subseteq VersionType
         /\ \A pk \in keys : \E w \in Fresh(b, keys, before, after) : w.pk = pk
         /\ \A w \in Fresh(b, keys, before, after) :
              /\ w.branch = b /\ w.from = NextSeq(b) /\ w.to = MaxSeq /\ w.session = NoSession
              /\ w.pk \in keys /\ w.row = after[w.pk]
              /\ w.changed = MaskOf(before[w.pk], after[w.pk])
         /\ \A w, x \in Fresh(b, keys, before, after) : w.pk = x.pk => w = x
<1> DEFINE new(pk) == Version(b, pk, NextSeq(b), NewId, NoSession,
                              MaskOf(before[pk], after[pk]), after[pk])
<1>1. Fresh(b, keys, before, after) = {new(pk) : pk \in keys}
  BY DEF Fresh
<1>2. \A pk : /\ new(pk).branch = b /\ new(pk).from = NextSeq(b) /\ new(pk).to = MaxSeq
              /\ new(pk).session = NoSession /\ new(pk).pk = pk /\ new(pk).row = after[pk]
              /\ new(pk).changed = MaskOf(before[pk], after[pk])
  BY DEF Version
<1>3. \A pk \in keys : new(pk) \in VersionType
  <2>1. b \in Branches /\ NextSeq(b) \in Nat /\ NewId \in Nat
    <3>1. b \in Branches /\ NextSeq(b) \in Nat /\ Len(commits) \in Nat /\ NewId = Len(commits) + 1
      BY Types
    <3> QED
      BY <3>1
  <2>2. \A x, y : MaskOf(x, y) \in Mask
    BY DEF MaskOf, Mask
  <2>3. MaxSeq \in Nat
    BY EngineAssumption
  <2> QED
    BY <2>1, <2>2, <2>3 DEF Version, VersionType
<1> HIDE DEF new
<1>4. /\ Fresh(b, keys, before, after) \subseteq VersionType
      /\ \A pk \in keys : \E w \in Fresh(b, keys, before, after) : w.pk = pk
  BY <1>1, <1>2, <1>3
<1>5. ASSUME NEW w \in Fresh(b, keys, before, after)
      PROVE  /\ w.branch = b /\ w.from = NextSeq(b) /\ w.to = MaxSeq /\ w.session = NoSession
             /\ w.pk \in keys /\ w.row = after[w.pk]
             /\ w.changed = MaskOf(before[w.pk], after[w.pk])
             /\ w = new(w.pk)
  <2>1. PICK pk \in keys : w = new(pk)
    BY <1>1
  <2>2. w.pk = pk
    BY <1>2, <2>1
  <2> QED
    BY <1>2, <2>1, <2>2
<1>6. \A w, x \in Fresh(b, keys, before, after) : w.pk = x.pk => w = x
  BY <1>5
<1> QED
  BY <1>4, <1>5, <1>6

(* A write lands its versions and leaves the staged ones alone.            *)
LEMMA WriteLands ==
  ASSUME TypeOK, NEW b \in DOMAIN branches, NEW keys \in SUBSET PKs, NEW before, NEW after,
         \A pk \in keys : after[pk] \in Image, Write(b, keys, before, after)
  PROVE  /\ Lands(Pub, Pub', Age(b, keys), Fresh(b, keys, before, after), b, NextSeq(b), MaxSeq)
         /\ Stage' = Stage /\ rows' \subseteq VersionType
<1> DEFINE age == Age(b, keys)
           new == Fresh(b, keys, before, after)
           aged == {age[v] : v \in Pub}
<1>1. rows' = Stage \cup aged \cup new
  BY CloseOpenIs DEF Write, Fresh
<1>2. /\ new \subseteq VersionType
      /\ \A pk \in keys : \E w \in new : w.pk = pk
      /\ \A w \in new : /\ w.branch = b /\ w.from = NextSeq(b) /\ w.to = MaxSeq
                        /\ w.session = NoSession /\ w.pk \in keys
      /\ \A w, x \in new : w.pk = x.pk => w = x
  BY FreshFacts
<1>3. \A v \in Pub : /\ age[v].branch = v.branch /\ age[v].pk = v.pk /\ age[v].from = v.from
                     /\ age[v].row = v.row /\ age[v].changed = v.changed
                     /\ age[v].session = NoSession /\ age[v] \in VersionType
                     /\ age[v].to = IF v.branch = b /\ v.to = MaxSeq /\ v.pk \in keys
                                    THEN NextSeq(b) ELSE v.to
  BY AgeFacts
<1> HIDE DEF age, new
<1>4. Pub' = aged \cup new
  <2>1. \A u \in aged : u.session = NoSession
    BY <1>3
  <2>2. \A u \in Stage : u.session # NoSession
    BY DEF Stage
  <2>3. \A u : u \in Pub' <=> u \in rows' /\ u.session = NoSession
    BY DEF Pub
  <2> HIDE DEF aged
  <2> QED
    BY <1>1, <1>2, <2>1, <2>2, <2>3
<1>5. Stage' = Stage
  <2>1. \A u \in aged : u.session = NoSession
    BY <1>3
  <2>2. \A u \in Stage : u.session # NoSession
    BY DEF Stage
  <2>3. \A u : u \in Stage' <=> u \in rows' /\ u.session # NoSession
    BY DEF Stage
  <2> HIDE DEF aged
  <2> QED
    BY <1>1, <1>2, <2>1, <2>2, <2>3
<1>6. rows' \subseteq VersionType
  <2>1. Stage \subseteq VersionType
    BY DEF Stage, TypeOK
  <2>2. aged \subseteq VersionType
    BY <1>3
  <2> QED
    BY <1>1, <1>2, <2>1, <2>2
<1>7. \A v \in Pub : v.pk \in keys <=> \E w \in new : w.pk = v.pk
  BY <1>2
<1>8. Lands(Pub, Pub', age, new, b, NextSeq(b), MaxSeq)
  BY <1>2, <1>3, <1>4, <1>7 DEF Lands
<1> QED
  BY <1>5, <1>6, <1>8 DEF age, new

-----------------------------------------------------------------------------
(* A commit.                                                               *)

(* One more commit on b: its versions land at the next number, it records  *)
(* what b inherits, and b's head moves to it (engine.go:437-500).          *)
Publishes(b, tail, new, parents) ==
  /\ b \in DOMAIN branches /\ tail \in ChainType /\ Within(tail, Heads)
  /\ parents \subseteq DOMAIN commits
  /\ \E age : Lands(Pub, Pub', age, new, b, NextSeq(b), MaxSeq)
  /\ RecordCommit(b, tail, parents)
  /\ \E fork \in DOMAIN commits :
       branches' = [branches EXCEPT ![b] =
         [headSeq |-> NextSeq(b), head |-> NewId, parent |-> branches[b].parent,
          fork |-> fork, chain |-> tail]]

(* The next number is below the sentinel.                                  *)
LEMMA RoomForOne ==
  ASSUME TypeOK, HeadsBounded, NEW b \in DOMAIN branches,
         Len(commits) < Bound(DOMAIN branches)
  PROVE  AtHead(Heads, b, NextSeq(b), MaxSeq) /\ Len(commits) + 1 <= MaxCommits
<1>1. /\ MaxCommits \in Nat /\ MaxTogether \in Nat /\ MaxTogether <= MaxCommits
      /\ MaxSeq \in Nat /\ MaxCommits < MaxSeq
  BY EngineAssumption
<1>2. Bound(DOMAIN branches) \in Nat /\ Bound(DOMAIN branches) <= MaxCommits
  BY <1>1 DEF Bound
<1>3. /\ DOMAIN Heads = DOMAIN branches /\ \A x \in DOMAIN Heads : Heads[x] \in Nat
      /\ Heads[b] = branches[b].headSeq /\ NextSeq(b) = branches[b].headSeq + 1
      /\ branches[b].headSeq \in Nat /\ Len(commits) \in Nat
  BY Types
<1>4. branches[b].headSeq < Len(commits)
  BY DEF HeadsBounded
<1>5. Len(commits) + 1 <= MaxCommits
  BY <1>1, <1>2, <1>3
<1>6. NextSeq(b) = Heads[b] + 1 /\ NextSeq(b) < MaxSeq
  BY <1>1, <1>3, <1>4, <1>5
<1> QED
  BY <1>1, <1>3, <1>5, <1>6 DEF AtHead

(* The branches and the commits after a commit.                            *)
LEMMA AfterPublish ==
  ASSUME TypeOK, NEW b, NEW tail, NEW new, NEW parents, Publishes(b, tail, new, parents)
  PROVE  /\ DOMAIN branches' = DOMAIN branches
         /\ \A x \in DOMAIN branches : x # b => branches'[x] = branches[x]
         /\ branches'[b].headSeq = NextSeq(b) /\ branches'[b].head = NewId
         /\ branches'[b].chain = tail /\ branches'[b].parent = branches[b].parent
         /\ branches'[b].fork \in DOMAIN commits
         /\ branches' \in [DOMAIN branches -> BranchType]
         /\ Len(commits') = Len(commits) + 1 /\ DOMAIN commits' = 1 .. Len(commits) + 1
         /\ \A c \in DOMAIN commits : c \in DOMAIN commits' /\ commits'[c] = commits[c]
         /\ NewId \in DOMAIN commits' /\ NewId \notin DOMAIN commits
         /\ commits'[NewId].chain = <<[branch |-> b, seq |-> NextSeq(b)]>> \o tail
         /\ commits'[NewId].parents = parents /\ commits'[NewId].branch = b
         /\ commits'[NewId].chain \in ChainType
         /\ commits' \in Seq(CommitType)
         /\ \A c \in DOMAIN commits' : commits'[c].parents \subseteq 1 .. c - 1
<1> DEFINE after == <<[branch |-> b, seq |-> NextSeq(b)]>> \o tail
           c0 == [parents |-> parents, branch |-> b, seq |-> NextSeq(b), chain |-> after]
<1>1. /\ b \in DOMAIN branches /\ tail \in ChainType /\ parents \subseteq DOMAIN commits
      /\ commits' = Append(commits, c0)
  BY DEF Publishes, RecordCommit, Segment
<1>2. PICK fork \in DOMAIN commits : branches' = [branches EXCEPT ![b] =
         [headSeq |-> NextSeq(b), head |-> NewId, parent |-> branches[b].parent,
          fork |-> fork, chain |-> tail]]
  BY DEF Publishes
<1>3. /\ b \in Branches /\ NextSeq(b) \in Nat /\ branches[b].parent \in Branches
      /\ Len(commits) \in Nat /\ DOMAIN commits = 1 .. Len(commits)
      /\ NewId = Len(commits) + 1
  <2>1. /\ b \in Branches /\ branches[b].parent \in DOMAIN branches
        /\ NextSeq(b) \in Nat
        /\ Len(commits) \in Nat /\ DOMAIN commits = 1 .. Len(commits)
        /\ NewId = Len(commits) + 1
    BY <1>1, Types
  <2>2. DOMAIN branches \subseteq Branches
    BY DEF TypeOK
  <2> QED
    BY <2>1, <2>2
<1>4. after \in ChainType
  BY <1>1, <1>3, Prepend DEF ChainType
<1>5. c0 \in CommitType
  BY <1>1, <1>3, <1>4 DEF CommitType
<1>6. /\ c0.chain = after /\ c0.parents = parents /\ c0.branch = b
  OBVIOUS
<1>7. commits \in Seq(CommitType) /\ \A c \in DOMAIN commits : commits[c].parents \subseteq 1 .. c - 1
  BY DEF TypeOK
<1> HIDE DEF after, c0
<1>8. /\ Len(commits') = Len(commits) + 1 /\ DOMAIN commits' = 1 .. Len(commits) + 1
      /\ \A c \in DOMAIN commits : c \in DOMAIN commits' /\ commits'[c] = commits[c]
      /\ NewId \in DOMAIN commits' /\ NewId \notin DOMAIN commits
      /\ commits'[NewId] = c0
      /\ commits' \in Seq(CommitType)
  BY <1>1, <1>3, <1>5, <1>7
<1>9. \A c \in DOMAIN commits' : commits'[c].parents \subseteq 1 .. c - 1
  <2>1. \A c \in DOMAIN commits' : c \in DOMAIN commits \/ c = NewId
    BY <1>3, <1>8
  <2>2. commits'[NewId].parents \subseteq 1 .. NewId - 1
    BY <1>1, <1>3, <1>6, <1>8
  <2> QED
    BY <1>7, <1>8, <2>1, <2>2
<1>10. /\ DOMAIN branches' = DOMAIN branches
       /\ \A x \in DOMAIN branches : x # b => branches'[x] = branches[x]
       /\ branches'[b] = [headSeq |-> NextSeq(b), head |-> NewId, parent |-> branches[b].parent,
                          fork |-> fork, chain |-> tail]
       /\ branches' \in [DOMAIN branches -> BranchType]
  <2>1. branches \in [DOMAIN branches -> BranchType]
    BY DEF TypeOK
  <2>2. NewId \in Nat /\ fork \in Nat
    BY <1>2, <1>3
  <2>3. [headSeq |-> NextSeq(b), head |-> NewId, parent |-> branches[b].parent,
         fork |-> fork, chain |-> tail] \in BranchType
    BY <1>1, <1>3, <2>2 DEF BranchType
  <2> QED
    BY <1>1, <1>2, <2>1, <2>3
<1>11. /\ branches'[b].headSeq = NextSeq(b) /\ branches'[b].head = NewId
       /\ branches'[b].chain = tail /\ branches'[b].parent = branches[b].parent
       /\ branches'[b].fork = fork
  BY <1>10
<1>12. /\ commits'[NewId].chain = after /\ commits'[NewId].parents = parents
       /\ commits'[NewId].branch = b
  BY <1>6, <1>8
<1> QED
  BY <1>2, <1>4, <1>8, <1>9, <1>10, <1>11, <1>12 DEF after

(* The invariant without what concerns sessions.                           *)
StoreInv ==
  /\ TypeOK /\ ChainsWithin /\ Placed(Pub, Heads, MaxSeq) /\ Apart(Pub) /\ HeadsBounded
  /\ HeadMatchesHistory

(* The heads before and after a commit.                                    *)
LEMMA PublishRaises ==
  ASSUME StoreInv, NEW b, NEW tail, NEW new, NEW parents, Publishes(b, tail, new, parents)
  PROVE  /\ AtHead(Heads, b, NextSeq(b), MaxSeq) /\ Raised(Heads, Heads', b, NextSeq(b))
         /\ DOMAIN Heads' = DOMAIN Heads
         /\ \A x \in DOMAIN Heads : /\ Heads[x] \in Nat /\ Heads'[x] \in Nat
                                    /\ Heads[x] <= Heads'[x]
         /\ Heads'[b] = NextSeq(b) /\ Len(commits) + 1 <= MaxCommits
<1>1. b \in DOMAIN branches /\ Len(commits) < Bound(DOMAIN branches)
  BY DEF Publishes, RecordCommit
<1>2. AtHead(Heads, b, NextSeq(b), MaxSeq) /\ Len(commits) + 1 <= MaxCommits
  BY <1>1, RoomForOne DEF StoreInv
<1>3. /\ DOMAIN branches' = DOMAIN branches
      /\ \A x \in DOMAIN branches : x # b => branches'[x] = branches[x]
      /\ branches'[b].headSeq = NextSeq(b)
  BY AfterPublish DEF StoreInv
<1>4. Heads' = [x \in DOMAIN branches |-> branches'[x].headSeq]
  BY <1>3 DEF Heads
<1>5. /\ DOMAIN Heads = DOMAIN branches
      /\ \A x \in DOMAIN branches : Heads[x] = branches[x].headSeq
  BY DEF Heads
<1>6. /\ DOMAIN Heads' = DOMAIN Heads /\ Heads'[b] = NextSeq(b)
      /\ \A x \in DOMAIN Heads : x # b => Heads'[x] = Heads[x]
  BY <1>1, <1>3, <1>4, <1>5
<1>7. /\ \A x \in DOMAIN Heads : Heads[x] \in Nat
      /\ NextSeq(b) = Heads[b] + 1
  BY <1>2 DEF AtHead
<1>8. \A x \in DOMAIN Heads : /\ Heads[x] \in Nat /\ Heads'[x] \in Nat
                              /\ Heads[x] <= Heads'[x]
  BY <1>1, <1>5, <1>6, <1>7
<1> QED
  BY <1>2, <1>6, <1>8 DEF Raised

(* A commit changes nothing that a chain of before it shows, so every      *)
(* commit keeps its state (engine.go:437-500, finding F1).                 *)
LEMMA PublishStable ==
  ASSUME StoreInv, NEW b, NEW tail, NEW new, NEW parents, Publishes(b, tail, new, parents)
  PROVE  /\ \A chain \in ChainType : Within(chain, Heads)
              => \A pk : Shown(Pub', chain, pk) = Shown(Pub, chain, pk)
         /\ \A c \in DOMAIN commits : StateAtCommit(c)' = StateAtCommit(c)
         /\ \A x \in DOMAIN branches : x # b => HeadChain(x)' = HeadChain(x)
<1>1. PICK age : Lands(Pub, Pub', age, new, b, NextSeq(b), MaxSeq)
  BY DEF Publishes
<1>2. AtHead(Heads, b, NextSeq(b), MaxSeq)
  BY PublishRaises
<1>3. Numbered(Pub) /\ Placed(Pub, Heads, MaxSeq) /\ Apart(Pub)
  BY Types DEF StoreInv
<1>4. ASSUME NEW chain \in ChainType, NEW pk, Within(chain, Heads)
      PROVE  Shown(Pub', chain, pk) = Shown(Pub, chain, pk)
  BY <1>1, <1>2, <1>3, <1>4, LandsKeeps DEF ChainType
<1>5. ASSUME NEW c \in DOMAIN commits
      PROVE  StateAtCommit(c)' = StateAtCommit(c)
  <2>1. commits'[c] = commits[c]
    BY AfterPublish DEF StoreInv
  <2>2. commits[c].chain \in ChainType /\ Within(commits[c].chain, Heads)
    BY Types DEF StoreInv, ChainsWithin
  <2>3. StateAtCommit(c)' = [pk \in PKs |-> Shown(Pub', commits'[c].chain, pk)]
    BY ViewsAreNext
  <2>4. StateAtCommit(c) = [pk \in PKs |-> Shown(Pub, commits[c].chain, pk)]
    BY ViewsAre
  <2> QED
    BY <1>4, <2>1, <2>2, <2>3, <2>4
<1>6. \A x \in DOMAIN branches : x # b => branches'[x] = branches[x]
  BY AfterPublish DEF StoreInv
<1>7. ASSUME NEW x \in DOMAIN branches, x # b
      PROVE  HeadChain(x)' = HeadChain(x)
  BY <1>6, <1>7 DEF HeadChain, ChainFor
<1> QED
  BY <1>4, <1>5, <1>7

(* A commit's own state: what it wrote over the view it was made from.     *)
LEMMA PublishShows ==
  ASSUME StoreInv, NEW b, NEW tail, NEW new, NEW parents, Publishes(b, tail, new, parents),
         NEW n, n = NewId, NEW pk \in PKs
  PROVE  LET before == <<[branch |-> b, seq |-> Heads[b]]>> \o tail
         IN  /\ \A w \in new : w.pk = pk => StateAtCommit(n)'[pk] = w.row
             /\ ~(\E w \in new : w.pk = pk)
                  => StateAtCommit(n)'[pk] = Shown(Pub, before, pk)
             /\ Resolve(b)' = StateAtCommit(n)'
<1> DEFINE before == <<[branch |-> b, seq |-> Heads[b]]>> \o tail
           after == <<[branch |-> b, seq |-> NextSeq(b)]>> \o tail
<1>1. PICK age : Lands(Pub, Pub', age, new, b, NextSeq(b), MaxSeq)
  BY DEF Publishes
<1>2. AtHead(Heads, b, NextSeq(b), MaxSeq)
  BY PublishRaises
<1>3. Numbered(Pub) /\ Placed(Pub, Heads, MaxSeq) /\ Apart(Pub)
  BY Types DEF StoreInv
<1>4. b \in Branches /\ tail \in Chains(Branches) /\ Within(tail, Heads)
  BY Types DEF Publishes, ChainType, StoreInv
<1>5. /\ \A w \in new : w.pk = pk => Shown(Pub', after, pk) = w.row
      /\ ~(\E w \in new : w.pk = pk) => Shown(Pub', after, pk) = Shown(Pub, before, pk)
  BY <1>1, <1>2, <1>3, <1>4, LandsShows
<1>6. /\ commits'[n].chain = after
      /\ branches'[b].headSeq = NextSeq(b) /\ branches'[b].chain = tail
  BY AfterPublish DEF StoreInv
<1>7. HeadChain(b)' = after
  BY <1>6 DEF HeadChain, ChainFor, Segment
<1> HIDE DEF before, after
<1>8. StateAtCommit(n)' = [q \in PKs |-> Shown(Pub', after, q)]
  BY <1>6, ViewsAreNext
<1>9. Resolve(b)' = [q \in PKs |-> Shown(Pub', after, q)]
  BY <1>7, ViewsAreNext
<1> QED
  BY <1>5, <1>8, <1>9 DEF before

(* A commit keeps the invariant of the store.                              *)
LEMMA PublishKeeps ==
  ASSUME StoreInv, TypeOK',
         NEW b, NEW tail, NEW new, NEW parents, Publishes(b, tail, new, parents)
  PROVE  StoreInv'
<1> DEFINE after == <<[branch |-> b, seq |-> NextSeq(b)]>> \o tail
<1>1. PICK age : Lands(Pub, Pub', age, new, b, NextSeq(b), MaxSeq)
  BY DEF Publishes
<1>2. /\ AtHead(Heads, b, NextSeq(b), MaxSeq) /\ Raised(Heads, Heads', b, NextSeq(b))
      /\ DOMAIN Heads' = DOMAIN Heads
      /\ \A x \in DOMAIN Heads : /\ Heads[x] \in Nat /\ Heads'[x] \in Nat
                                 /\ Heads[x] <= Heads'[x]
      /\ Heads'[b] = NextSeq(b) /\ Len(commits) + 1 <= MaxCommits
  BY PublishRaises
<1>3. Numbered(Pub) /\ Placed(Pub, Heads, MaxSeq) /\ Apart(Pub)
  BY Types DEF StoreInv
<1>4. /\ b \in DOMAIN branches /\ b \in Branches /\ tail \in ChainType /\ Within(tail, Heads)
      /\ NextSeq(b) \in Nat /\ DOMAIN Heads = DOMAIN branches
      /\ Len(commits) \in Nat /\ DOMAIN commits = 1 .. Len(commits) /\ NewId = Len(commits) + 1
  BY Types DEF Publishes, StoreInv
<1>5. Apart(Pub') /\ Placed(Pub', Heads', MaxSeq)
  BY <1>1, <1>2, <1>3, LandsApart, LandsPlaced
<1>6. /\ DOMAIN branches' = DOMAIN branches
      /\ \A x \in DOMAIN branches : x # b => branches'[x] = branches[x]
      /\ branches'[b].chain = tail /\ branches'[b].head = NewId /\ branches'[b].headSeq = NextSeq(b)
      /\ Len(commits') = Len(commits) + 1 /\ DOMAIN commits' = 1 .. Len(commits) + 1
      /\ \A c \in DOMAIN commits : commits'[c] = commits[c]
      /\ commits'[NewId].chain = after
  BY AfterPublish DEF StoreInv
<1>7. ASSUME NEW chain \in ChainType, Within(chain, Heads) PROVE Within(chain, Heads')
  BY <1>2, <1>7, WithinHigher DEF ChainType
<1>8. Within(tail, Heads')
  BY <1>4, <1>7
<1>9. Within(after, Heads')
  BY <1>2, <1>4, <1>8, WithinPrepend DEF ChainType
<1> HIDE DEF after
<1>10. ChainsWithin'
  <2>1. ASSUME NEW x \in DOMAIN branches' PROVE Within(branches'[x].chain, Heads')
    <3>1. CASE x = b
      BY <1>6, <1>8, <3>1
    <3>2. CASE x # b
      <4>1. branches[x].chain \in ChainType /\ Within(branches[x].chain, Heads)
        BY <1>6, Types DEF StoreInv, ChainsWithin
      <4> QED
        BY <1>6, <1>7, <3>2, <4>1
    <3> QED
      BY <3>1, <3>2
  <2>2. ASSUME NEW c \in DOMAIN commits' PROVE Within(commits'[c].chain, Heads')
    <3>1. c \in DOMAIN commits \/ c = NewId
      BY <1>4, <1>6
    <3>2. CASE c \in DOMAIN commits
      <4>1. commits[c].chain \in ChainType /\ Within(commits[c].chain, Heads)
        BY <3>2, Types DEF StoreInv, ChainsWithin
      <4> QED
        BY <1>6, <1>7, <3>2, <4>1
    <3> QED
      BY <1>6, <1>9, <3>1, <3>2
  <2> QED
    BY <2>1, <2>2 DEF ChainsWithin
<1>11. HeadsBounded'
  <2>1. \A x \in DOMAIN branches : branches[x].headSeq < Len(commits) /\ branches[x].headSeq \in Nat
    BY Types DEF StoreInv, HeadsBounded
  <2>2. NextSeq(b) = branches[b].headSeq + 1
    BY DEF NextSeq
  <2>3. ASSUME NEW x \in DOMAIN branches PROVE branches'[x].headSeq < Len(commits')
    BY <1>4, <1>6, <2>1, <2>2
  <2> QED
    BY <1>2, <1>6, <2>3 DEF HeadsBounded
<1>12. HeadMatchesHistory'
  <2> SUFFICES ASSUME NEW x \in DOMAIN branches'
               PROVE  Resolve(x)' = StateAtCommit(branches[x].head)'
    BY DEF HeadMatchesHistory
  <2>1. PICK n : n = branches'[x].head
    OBVIOUS
  <2>2. StateAtCommit(branches[x].head)' = StateAtCommit(n)'
    BY <2>1 DEF StateAtCommit, ResolveChain
  <2>3. CASE x = b
    <3>1. n = NewId
      BY <1>6, <2>1, <2>3
    <3>2. HeadChain(b)' = after
      BY <1>6 DEF HeadChain, ChainFor, Segment, after
    <3>3. Resolve(b)' = [pk \in PKs |-> Shown(Pub', after, pk)]
      BY <3>2, ViewsAreNext
    <3>4. StateAtCommit(n)' = [pk \in PKs |-> Shown(Pub', after, pk)]
      BY <1>6, <3>1, ViewsAreNext
    <3> QED
      BY <2>2, <2>3, <3>3, <3>4
  <2>4. CASE x # b
    <3>1. n = branches[x].head /\ n \in DOMAIN commits /\ x \in DOMAIN branches
      BY <1>6, <2>1, <2>4, Types DEF StoreInv
    <3>2. StateAtCommit(n)' = StateAtCommit(n)
      BY <3>1, PublishStable
    <3>3. HeadChain(x)' = HeadChain(x)
      BY <2>4, <3>1, PublishStable
    <3>4. HeadChain(x) \in ChainType /\ Within(HeadChain(x), Heads)
      <4>1. /\ x \in Branches /\ branches[x].chain \in Chains(Branches) /\ Heads[x] \in Nat
            /\ HeadChain(x) = <<[branch |-> x, seq |-> Heads[x]]>> \o branches[x].chain
            /\ HeadChain(x) \in ChainType
        BY <1>2, <1>4, <3>1, Types DEF StoreInv, ChainType
      <4>2. Within(branches[x].chain, Heads)
        BY <3>1 DEF StoreInv, ChainsWithin
      <4>3. Within(<<[branch |-> x, seq |-> Heads[x]]>> \o branches[x].chain, Heads)
        BY <1>2, <1>4, <3>1, <4>1, <4>2, WithinPrepend
      <4> QED
        BY <4>1, <4>3
    <3>5. \A pk : Shown(Pub', HeadChain(x), pk) = Shown(Pub, HeadChain(x), pk)
      BY <3>4, PublishStable
    <3>6. Resolve(x)' = Resolve(x)
      BY <3>3, <3>5, ViewsAre, ViewsAreNext
    <3>7. Resolve(x) = StateAtCommit(n)
      BY <3>1 DEF StoreInv, HeadMatchesHistory
    <3> QED
      BY <2>2, <3>2, <3>6, <3>7
  <2> QED
    BY <2>3, <2>4
<1> QED
  BY <1>5, <1>10, <1>11, <1>12 DEF StoreInv

(* Types after a commit that opens no session.                             *)
LEMMA PublishTypes ==
  ASSUME TypeOK, NEW b, NEW tail, NEW new, NEW parents, Publishes(b, tail, new, parents),
         rows' \subseteq VersionType, DOMAIN sessions' \subseteq DOMAIN sessions,
         sessions' = [s \in DOMAIN sessions' |-> sessions[s]]
  PROVE  TypeOK'
<1>1. /\ DOMAIN branches' = DOMAIN branches
      /\ \A x \in DOMAIN branches : x # b => branches'[x] = branches[x]
      /\ branches'[b].head = NewId
      /\ branches'[b].parent = branches[b].parent
      /\ branches'[b].fork \in DOMAIN commits
      /\ branches' \in [DOMAIN branches -> BranchType]
      /\ \A c \in DOMAIN commits : c \in DOMAIN commits'
      /\ NewId \in DOMAIN commits'
      /\ commits' \in Seq(CommitType)
      /\ \A c \in DOMAIN commits' : commits'[c].parents \subseteq 1 .. c - 1
  BY AfterPublish
<1>2. b \in DOMAIN branches
  BY DEF Publishes
<1>3. /\ Main \in DOMAIN branches' /\ DOMAIN branches' \subseteq Branches
      /\ branches' \in [DOMAIN branches' -> BranchType]
  BY <1>1 DEF TypeOK
<1>4. ASSUME NEW x \in DOMAIN branches'
      PROVE  /\ branches'[x].parent \in DOMAIN branches'
             /\ branches'[x].head \in DOMAIN commits'
             /\ branches'[x].fork \in DOMAIN commits'
  <2>1. \A y \in DOMAIN branches : /\ branches[y].parent \in DOMAIN branches
                                   /\ branches[y].head \in DOMAIN commits
                                   /\ branches[y].fork \in DOMAIN commits
    BY DEF TypeOK
  <2> QED
    BY <1>1, <1>2, <2>1
<1>5. /\ DOMAIN sessions' \subseteq SessionIds
      /\ sessions' \in [DOMAIN sessions' -> SessionType]
      /\ \A s \in DOMAIN sessions' : /\ sessions'[s].branch \in DOMAIN branches' \ {Main}
                                     /\ sessions'[s].base \in DOMAIN commits'
  <2>1. /\ DOMAIN sessions \subseteq SessionIds
        /\ sessions \in [DOMAIN sessions -> SessionType]
        /\ \A s \in DOMAIN sessions : /\ sessions[s].branch \in DOMAIN branches \ {Main}
                                      /\ sessions[s].base \in DOMAIN commits
    BY DEF TypeOK
  <2>2. \A s \in DOMAIN sessions' : s \in DOMAIN sessions /\ sessions'[s] = sessions[s]
    OBVIOUS
  <2> QED
    BY <1>1, <2>1, <2>2
<1> QED
  BY <1>1, <1>3, <1>4, <1>5 DEF TypeOK

(* A write, its metadata and the move of the head are a commit             *)
(* (engine.go:437-500, 795-839).                                           *)
LEMMA WritePublishes ==
  ASSUME TypeOK, NEW b \in DOMAIN branches, NEW keys \in SUBSET PKs, NEW before, NEW after,
         \A pk \in keys : after[pk] \in Image, Write(b, keys, before, after),
         NEW tail \in ChainType, Within(tail, Heads), NEW parents \in SUBSET DOMAIN commits,
         RecordCommit(b, tail, parents), NEW fork \in DOMAIN commits,
         branches' = [branches EXCEPT ![b] =
           [headSeq |-> NextSeq(b), head |-> NewId, parent |-> branches[b].parent,
            fork |-> fork, chain |-> tail]]
  PROVE  /\ Publishes(b, tail, Fresh(b, keys, before, after), parents)
         /\ Stage' = Stage /\ rows' \subseteq VersionType
<1>1. /\ Lands(Pub, Pub', Age(b, keys), Fresh(b, keys, before, after), b, NextSeq(b), MaxSeq)
      /\ Stage' = Stage /\ rows' \subseteq VersionType
  BY WriteLands
<1> QED
  BY <1>1 DEF Publishes

(* The head moves and nothing else of the branch (engine.go:496).          *)
LEMMA HeadMoves ==
  ASSUME TypeOK, NEW b \in DOMAIN branches, MoveHead(b)
  PROVE  branches' = [branches EXCEPT ![b] =
           [headSeq |-> NextSeq(b), head |-> NewId, parent |-> branches[b].parent,
            fork |-> branches[b].fork, chain |-> branches[b].chain]]
<1>1. branches[b] \in BranchType
  BY Types
<1>2. branches' = [branches EXCEPT ![b] = [branches[b] EXCEPT !.headSeq = NextSeq(b), !.head = NewId]]
  BY Zenon DEF MoveHead
<1>3. [branches[b] EXCEPT !.headSeq = NextSeq(b), !.head = NewId]
        = [headSeq |-> NextSeq(b), head |-> NewId, parent |-> branches[b].parent,
           fork |-> branches[b].fork, chain |-> branches[b].chain]
  <2> DEFINE r == [branches[b] EXCEPT !.headSeq = NextSeq(b), !.head = NewId]
  <2>1. \A x \in BranchType : x = [headSeq |-> x.headSeq, head |-> x.head, parent |-> x.parent,
                                  fork |-> x.fork, chain |-> x.chain]
    BY DEF BranchType
  <2>2. NextSeq(b) \in Nat /\ NewId \in Nat
    <3>1. NextSeq(b) \in Nat /\ Len(commits) \in Nat /\ NewId = Len(commits) + 1
      BY Types
    <3> QED
      BY <3>1
  <2>3. /\ r \in BranchType /\ r.headSeq = NextSeq(b) /\ r.head = NewId
        /\ r.parent = branches[b].parent /\ r.fork = branches[b].fork
        /\ r.chain = branches[b].chain
    BY <1>1, <2>2 DEF BranchType
  <2> HIDE DEF r
  <2>4. r = [headSeq |-> NextSeq(b), head |-> NewId, parent |-> branches[b].parent,
             fork |-> branches[b].fork, chain |-> branches[b].chain]
    BY <2>1, <2>3
  <2> QED
    BY <2>4 DEF r
<1> QED
  BY <1>2, <1>3

-----------------------------------------------------------------------------
(* The four operations that commit.                                        *)

CommitWrites(b, cs) == Fresh(b, Effective(cs, Resolve(b)), Resolve(b), cs)

MergeView(b, tail) == ResolveChain(<<Segment(b, branches[b].headSeq)>> \o tail, NoSession)

MergeWrites(b, tail, result) ==
  Fresh(b, {pk \in PKs : result[pk] # MergeView(b, tail)[pk]}, MergeView(b, tail), result)

SessionWrites(s) ==
  {[v EXCEPT !.session = NoSession, !.commit = NewId,
             !.from = NextSeq(sessions[s].branch), !.to = MaxSeq] : v \in Staged(s)}

(* What a branch inherits is within the heads, and so is its head chain    *)
(* (engine.go:178-214).                                                    *)
LEMMA HeadChainWithin ==
  ASSUME TypeOK, ChainsWithin, NEW b \in DOMAIN branches
  PROVE  /\ branches[b].chain \in ChainType /\ Within(branches[b].chain, Heads)
         /\ HeadChain(b) \in ChainType /\ Within(HeadChain(b), Heads)
         /\ b \in DOMAIN Heads /\ Heads[b] \in Nat /\ Heads[b] <= Heads[b]
<1>1. /\ b \in Branches /\ branches[b].chain \in Chains(Branches)
      /\ branches[b].headSeq \in Nat /\ Heads[b] = branches[b].headSeq
      /\ DOMAIN Heads = DOMAIN branches
      /\ HeadChain(b) = <<[branch |-> b, seq |-> Heads[b]]>> \o branches[b].chain
      /\ HeadChain(b) \in ChainType
  BY Types DEF ChainType
<1>2. Within(branches[b].chain, Heads)
  BY DEF ChainsWithin
<1>3. Heads[b] \in Nat /\ Heads[b] <= Heads[b] /\ b \in DOMAIN Heads
  BY <1>1
<1>4. Within(<<[branch |-> b, seq |-> Heads[b]]>> \o branches[b].chain, Heads)
  BY <1>1, <1>2, <1>3, WithinPrepend
<1> QED
  BY <1>1, <1>2, <1>3, <1>4 DEF ChainType

(* Views and states are tables, merges of them too (merge.go:300-360).     *)
LEMMA MergeTypes ==
  ASSUME TypeOK
  PROVE  /\ \A b : Resolve(b) \in [PKs -> Image]
         /\ \A c : StateAtCommit(c) \in [PKs -> Image]
         /\ \A b, c, pk : MaskSince(b, c, pk) \subseteq Cols
         /\ \A into, from, base : /\ Candidates(into, from, base) \in [PKs -> SUBSET Cols]
                                  /\ MergeResultOf(into, from, base) \in [PKs -> Image]
<1>1. \A b : Resolve(b) \in [PKs -> Image]
  BY ViewsAre, ShownType
<1>2. \A c : StateAtCommit(c) \in [PKs -> Image]
  BY ViewsAre, ShownType
<1>3. ASSUME NEW b, NEW c, NEW pk PROVE MaskSince(b, c, pk) \subseteq Cols
  <2>1. \A v \in rows : v.changed \subseteq Cols
    BY DEF TypeOK, VersionType, Mask
  <2> QED
    BY <2>1 DEF MaskSince
<1>4. \A into, from, base : Candidates(into, from, base) \in [PKs -> SUBSET Cols]
  BY <1>3 DEF Candidates
<1>5. ASSUME NEW into, NEW from, NEW base
      PROVE  MergeResultOf(into, from, base) \in [PKs -> Image]
  <2> DEFINE cand == Candidates(into, from, base)
             m(pk) == MergedImage(StateAtCommit(base)[pk], Resolve(into)[pk],
                                  Resolve(from)[pk], cand[pk])
  <2>1. \A pk \in PKs : m(pk) \in Image
    <3> TAKE pk \in PKs
    <3>1. /\ StateAtCommit(base)[pk] \in Image /\ Resolve(into)[pk] \in Image
          /\ Resolve(from)[pk] \in Image /\ cand[pk] \in Mask
      BY <1>1, <1>2, <1>4 DEF Mask
    <3> HIDE DEF cand
    <3> QED
      BY <3>1, MergedImageType
  <2>2. MergeResultOf(into, from, base) = [pk \in PKs |-> m(pk)]
    BY DEF MergeResultOf, MergedTable
  <2> HIDE DEF m
  <2> QED
    BY <2>1, <2>2
<1> QED
  BY <1>1, <1>2, <1>3, <1>4, <1>5

(* Commit (engine.go:437-500).                                             *)
LEMMA CommitPublishes ==
  ASSUME EngineInv, NEW b \in DOMAIN branches, NEW cs \in ChangeSets, Commit(b, cs)
  PROVE  /\ Publishes(b, branches[b].chain, CommitWrites(b, cs), {branches[b].head})
         /\ Stage' = Stage /\ rows' \subseteq VersionType /\ UNCHANGED sessions
<1> DEFINE keys == Effective(cs, Resolve(b))
<1>1. /\ Write(b, keys, Resolve(b), cs) /\ UNCHANGED sessions /\ MoveHead(b)
      /\ RecordCommit(b, branches[b].chain, {branches[b].head})
  BY DEF Commit
<1>2. cs \in ChangeSet
  BY EngineAssumption
<1>3. keys \subseteq DOMAIN cs /\ DOMAIN cs \subseteq PKs /\ \A pk \in DOMAIN cs : cs[pk] \in Image
  BY <1>2 DEF ChangeSet, Effective
<1>4. /\ branches[b].chain \in ChainType /\ Within(branches[b].chain, Heads)
      /\ branches[b].head \in DOMAIN commits /\ branches[b].fork \in DOMAIN commits
  BY HeadChainWithin, Types DEF EngineInv
<1>5. branches' = [branches EXCEPT ![b] =
           [headSeq |-> NextSeq(b), head |-> NewId, parent |-> branches[b].parent,
            fork |-> branches[b].fork, chain |-> branches[b].chain]]
  BY <1>1, HeadMoves DEF EngineInv
<1>6. keys \in SUBSET PKs /\ \A pk \in keys : cs[pk] \in Image
  BY <1>3
<1> DEFINE parents == {branches[b].head}
           view == Resolve(b)
<1>7. parents \in SUBSET DOMAIN commits
  BY <1>4
<1>8. Write(b, keys, view, cs) /\ RecordCommit(b, branches[b].chain, parents)
  BY <1>1
<1> HIDE DEF keys, parents, view
<1>9. /\ Publishes(b, branches[b].chain, Fresh(b, keys, view, cs), parents)
      /\ Stage' = Stage /\ rows' \subseteq VersionType
  BY <1>4, <1>5, <1>6, <1>7, <1>8, WritePublishes DEF EngineInv
<1> QED
  BY <1>1, <1>9 DEF keys, parents, view, CommitWrites

(* Merge (engine.go:563-658).                                              *)
LEMMA MergePublishes ==
  ASSUME EngineInv, NEW from \in DOMAIN branches, NEW into \in DOMAIN branches,
         Merge(from, into)
  PROVE  \E base \in 1 .. Len(commits) :
           /\ MergeBases(branches[into].head, branches[from].head) = {base}
           /\ MergeConflictsOf(into, from, base) = {}
           /\ Publishes(into, branches[into].chain,
                MergeWrites(into, branches[into].chain, MergeResultOf(into, from, base)),
                {branches[into].head, branches[from].head})
           /\ Stage' = Stage /\ rows' \subseteq VersionType /\ UNCHANGED sessions
<1>1. PICK base \in 1 .. Len(commits) :
        /\ MergeBases(branches[into].head, branches[from].head) = {base}
        /\ MergeConflictsOf(into, from, base) = {}
        /\ ApplyMergeResult(into, branches[into].chain, MergeResultOf(into, from, base),
                            {branches[into].head, branches[from].head})
        /\ MoveHead(into)
        /\ UNCHANGED sessions
  BY DEF Merge
<1> DEFINE result == MergeResultOf(into, from, base)
           view == MergeView(into, branches[into].chain)
           keys == {pk \in PKs : result[pk] # view[pk]}
<1>2. /\ Write(into, keys, view, result)
      /\ RecordCommit(into, branches[into].chain, {branches[into].head, branches[from].head})
  BY <1>1 DEF ApplyMergeResult, MergeView
<1>3. \A pk \in PKs : result[pk] \in Image
  BY MergeTypes DEF EngineInv
<1>4. /\ branches[into].chain \in ChainType /\ Within(branches[into].chain, Heads)
      /\ branches[into].head \in DOMAIN commits /\ branches[into].fork \in DOMAIN commits
      /\ branches[from].head \in DOMAIN commits
  BY HeadChainWithin, Types DEF EngineInv
<1>5. branches' = [branches EXCEPT ![into] =
           [headSeq |-> NextSeq(into), head |-> NewId, parent |-> branches[into].parent,
            fork |-> branches[into].fork, chain |-> branches[into].chain]]
  BY <1>1, HeadMoves DEF EngineInv
<1>6. keys \in SUBSET PKs /\ \A pk \in keys : result[pk] \in Image
  BY <1>3
<1> DEFINE parents == {branches[into].head, branches[from].head}
<1>7. parents \in SUBSET DOMAIN commits
  BY <1>4
<1> HIDE DEF keys, result, view, parents
<1>8. /\ Publishes(into, branches[into].chain, Fresh(into, keys, view, result), parents)
      /\ Stage' = Stage /\ rows' \subseteq VersionType
  <2>1. RecordCommit(into, branches[into].chain, parents)
    BY <1>2 DEF parents
  <2> QED
    BY <1>2, <1>4, <1>5, <1>6, <1>7, <2>1, WritePublishes DEF EngineInv
<1> QED
  BY <1>1, <1>8 DEF keys, result, view, parents, MergeWrites

(* UpdateFromParent (engine.go:740-839).                                   *)
LEMMA UpdatePublishes ==
  ASSUME EngineInv, NEW b \in DOMAIN branches, UpdateFromParent(b)
  PROVE  LET p == branches[b].parent
         IN  /\ Publishes(b, HeadChain(p),
                  MergeWrites(b, HeadChain(p), MergeResultOf(b, p, branches[b].fork)),
                  {branches[b].head, branches[p].head})
             /\ Stage' = Stage /\ rows' \subseteq VersionType /\ UNCHANGED sessions
<1> DEFINE p == branches[b].parent
           tail == HeadChain(p)
           result == MergeResultOf(b, p, branches[b].fork)
           view == MergeView(b, tail)
           keys == {pk \in PKs : result[pk] # view[pk]}
<1>1. /\ ApplyMergeResult(b, tail, result, {branches[b].head, branches[p].head})
      /\ branches' = [branches EXCEPT ![b].headSeq = NextSeq(b), ![b].head = NewId,
                                      ![b].fork = branches[p].head, ![b].chain = tail]
      /\ UNCHANGED sessions
  BY DEF UpdateFromParent
<1>2. /\ Write(b, keys, view, result)
      /\ RecordCommit(b, tail, {branches[b].head, branches[p].head})
  BY <1>1 DEF ApplyMergeResult, MergeView
<1>3. \A pk \in PKs : result[pk] \in Image
  BY MergeTypes DEF EngineInv
<1>4. /\ p \in DOMAIN branches /\ branches[b] \in BranchType
      /\ branches[b].head \in DOMAIN commits
  BY Types DEF EngineInv
<1>5. tail \in ChainType /\ Within(tail, Heads) /\ branches[p].head \in DOMAIN commits
  BY <1>4, HeadChainWithin, Types DEF EngineInv
<1>6. branches' = [branches EXCEPT ![b] =
           [headSeq |-> NextSeq(b), head |-> NewId, parent |-> p,
            fork |-> branches[p].head, chain |-> tail]]
  <2> DEFINE r == [branches[b] EXCEPT !.headSeq = NextSeq(b), !.head = NewId,
                                      !.fork = branches[p].head, !.chain = tail]
  <2>1. \A x \in BranchType : x = [headSeq |-> x.headSeq, head |-> x.head, parent |-> x.parent,
                                  fork |-> x.fork, chain |-> x.chain]
    BY DEF BranchType
  <2>2. NextSeq(b) \in Nat /\ NewId \in Nat /\ branches[p].head \in Nat
    <3>1. NextSeq(b) \in Nat /\ Len(commits) \in Nat /\ NewId = Len(commits) + 1
          /\ DOMAIN commits = 1 .. Len(commits)
      BY Types DEF EngineInv
    <3> QED
      BY <1>5, <3>1
  <2>3. branches' = [branches EXCEPT ![b] = r]
    BY <1>1, Zenon
  <2> HIDE DEF p, tail
  <2>4. /\ r \in BranchType /\ r.headSeq = NextSeq(b) /\ r.head = NewId
        /\ r.parent = branches[b].parent /\ r.fork = branches[p].head
        /\ r.chain = tail
    BY <1>4, <1>5, <2>2 DEF BranchType
  <2> HIDE DEF r
  <2>5. r = [headSeq |-> NextSeq(b), head |-> NewId, parent |-> p,
             fork |-> branches[p].head, chain |-> tail]
    BY <2>1, <2>4 DEF p
  <2> QED
    BY <2>3, <2>5
<1>7. keys \in SUBSET PKs /\ \A pk \in keys : result[pk] \in Image
  BY <1>3
<1> DEFINE parents == {branches[b].head, branches[p].head}
<1>8. parents \in SUBSET DOMAIN commits
  BY <1>4, <1>5
<1> HIDE DEF keys, result, view, tail, parents
<1>9. /\ Publishes(b, tail, Fresh(b, keys, view, result), parents)
      /\ Stage' = Stage /\ rows' \subseteq VersionType
  <2>1. RecordCommit(b, tail, parents)
    BY <1>2 DEF parents
  <2> QED
    BY <1>2, <1>5, <1>6, <1>7, <1>8, <2>1, WritePublishes DEF EngineInv
<1> QED
  BY <1>1, <1>9 DEF keys, result, view, tail, parents, MergeWrites

(* What a session publishes is what it staged, moved to the next number of *)
(* its branch (engine.go:869-906).                                         *)
LEMMA SessionWritesAre ==
  ASSUME EngineInv, NEW s \in DOMAIN sessions
  PROVE  LET b == sessions[s].branch
         IN  /\ \A v \in Staged(s) : \E w \in SessionWrites(s) :
                  w.pk = v.pk /\ w.row = v.row /\ w.changed = v.changed
             /\ \A w \in SessionWrites(s) :
                  /\ w \in VersionType /\ w.branch = b /\ w.from = NextSeq(b) /\ w.to = MaxSeq
                  /\ w.session = NoSession
                  /\ \E v \in Staged(s) : w.pk = v.pk /\ w.row = v.row /\ w.changed = v.changed
             /\ \A w, x \in SessionWrites(s) : w.pk = x.pk => w = x
<1> DEFINE b == sessions[s].branch
           stamp(v) == [v EXCEPT !.session = NoSession, !.commit = NewId,
                                 !.from = NextSeq(b), !.to = MaxSeq]
<1>1. /\ s \in SessionIds /\ s # NoSession /\ b \in DOMAIN branches
  BY EngineAssumption DEF EngineInv, TypeOK
<1>2. NextSeq(b) \in Nat /\ NewId \in Nat /\ MaxSeq \in Nat
  <2>1. NextSeq(b) \in Nat /\ Len(commits) \in Nat /\ NewId = Len(commits) + 1
    BY <1>1, Types DEF EngineInv
  <2> QED
    BY <2>1, EngineAssumption
<1>3. \A v \in Staged(s) : /\ v \in VersionType /\ v.branch = b
                           /\ \A w \in Staged(s) : w.pk = v.pk => w = v
  BY <1>1 DEF EngineInv, TypeOK, StagedVersionsOwned, Staged
<1>4. \A v \in VersionType :
        /\ stamp(v) \in VersionType /\ stamp(v).branch = v.branch /\ stamp(v).pk = v.pk
        /\ stamp(v).from = NextSeq(b) /\ stamp(v).to = MaxSeq /\ stamp(v).session = NoSession
        /\ stamp(v).row = v.row /\ stamp(v).changed = v.changed
  BY <1>2 DEF VersionType
<1>5. SessionWrites(s) = {stamp(v) : v \in Staged(s)}
  BY DEF SessionWrites
<1> HIDE DEF stamp
<1>6. \A v \in Staged(s) : \E w \in SessionWrites(s) :
        w.pk = v.pk /\ w.row = v.row /\ w.changed = v.changed
  BY <1>3, <1>4, <1>5
<1>7. ASSUME NEW w \in SessionWrites(s)
      PROVE  /\ w \in VersionType /\ w.branch = b /\ w.from = NextSeq(b) /\ w.to = MaxSeq
             /\ w.session = NoSession
             /\ \E v \in Staged(s) : /\ w.pk = v.pk /\ w.row = v.row /\ w.changed = v.changed
                                     /\ w = stamp(v)
  <2>1. PICK v \in Staged(s) : w = stamp(v)
    BY <1>5
  <2> QED
    BY <1>3, <1>4, <2>1
<1>8. \A w, x \in SessionWrites(s) : w.pk = x.pk => w = x
  BY <1>3, <1>7
<1> QED
  BY <1>6, <1>7, <1>8

(* CommitSession (engine.go:869-906).                                      *)
LEMMA SessionPublishes ==
  ASSUME EngineInv, NEW s \in DOMAIN sessions, CommitSession(s)
  PROVE  LET b == sessions[s].branch
         IN  /\ Publishes(b, branches[b].chain, SessionWrites(s), {branches[b].head})
             /\ Stage' = Stage \ Staged(s) /\ rows' \subseteq VersionType
             /\ Close(s) /\ branches[b].head = sessions[s].base
<1> DEFINE b == sessions[s].branch
           keys == {v.pk : v \in Staged(s)}
           age == Age(b, keys)
           aged == {age[v] : v \in Pub}
           new == SessionWrites(s)
           parents == {branches[b].head}
<1>1. /\ s \in SessionIds /\ s # NoSession /\ b \in DOMAIN branches
  BY EngineAssumption DEF EngineInv, TypeOK
<1>2. /\ rows' = (CloseOpen(b, keys, NextSeq(b)) \ Staged(s)) \cup new
      /\ RecordCommit(b, branches[b].chain, parents)
      /\ MoveHead(b) /\ Close(s) /\ branches[b].head = sessions[s].base
  BY DEF CommitSession, SessionWrites, StillAtBase
<1>3. CloseOpen(b, keys, NextSeq(b)) = Stage \cup aged
  BY <1>1, CloseOpenIs DEF EngineInv
<1>4. /\ \A v \in Staged(s) : \E w \in new : w.pk = v.pk
      /\ \A w \in new : /\ w \in VersionType /\ w.branch = b /\ w.from = NextSeq(b)
                        /\ w.to = MaxSeq /\ w.session = NoSession
                        /\ \E v \in Staged(s) : w.pk = v.pk
      /\ \A w, x \in new : w.pk = x.pk => w = x
  BY SessionWritesAre
<1>5. \A v \in Pub : /\ age[v].branch = v.branch /\ age[v].pk = v.pk /\ age[v].from = v.from
                     /\ age[v].row = v.row /\ age[v].changed = v.changed
                     /\ age[v].session = NoSession /\ age[v] \in VersionType
                     /\ age[v].to = IF v.branch = b /\ v.to = MaxSeq /\ v.pk \in keys
                                    THEN NextSeq(b) ELSE v.to
  BY <1>1, AgeFacts DEF EngineInv
<1>6. \A k : k \in keys <=> \E w \in new : w.pk = k
  BY <1>4
<1> HIDE DEF age, new, keys
<1>7. /\ \A u \in aged : u.session = NoSession
      /\ \A u \in Stage : u.session # NoSession
      /\ \A u : u \in Staged(s) => u.session = s
      /\ \A u : u \in Pub' <=> u \in rows' /\ u.session = NoSession
      /\ \A u : u \in Stage' <=> u \in rows' /\ u.session # NoSession
  BY <1>5 DEF Stage, Staged, Pub
<1>8. rows' \subseteq VersionType
  <2>1. Stage \subseteq VersionType
    BY DEF Stage, EngineInv, TypeOK
  <2>2. aged \subseteq VersionType
    BY <1>5
  <2> HIDE DEF aged
  <2> QED
    BY <1>2, <1>3, <1>4, <2>1, <2>2
<1> HIDE DEF aged
<1>9. Pub' = aged \cup new
  BY <1>1, <1>2, <1>3, <1>4, <1>7
<1>10. Stage' = Stage \ Staged(s)
  BY <1>1, <1>2, <1>3, <1>4, <1>7
<1>11. Lands(Pub, Pub', age, new, b, NextSeq(b), MaxSeq)
  BY <1>4, <1>5, <1>6, <1>9 DEF Lands, aged
<1>12. branches' = [branches EXCEPT ![b] =
           [headSeq |-> NextSeq(b), head |-> NewId, parent |-> branches[b].parent,
            fork |-> branches[b].fork, chain |-> branches[b].chain]]
  BY <1>1, <1>2, HeadMoves DEF EngineInv
<1>13. /\ branches[b].chain \in ChainType /\ Within(branches[b].chain, Heads)
       /\ branches[b].head \in DOMAIN commits /\ branches[b].fork \in DOMAIN commits
  BY <1>1, HeadChainWithin, Types DEF EngineInv
<1>14. parents \subseteq DOMAIN commits
  BY <1>13
<1> HIDE DEF parents
<1>15. Publishes(b, branches[b].chain, new, parents)
  BY <1>1, <1>2, <1>11, <1>12, <1>13, <1>14 DEF Publishes
<1> QED
  BY <1>2, <1>8, <1>10, <1>15 DEF new, parents

-----------------------------------------------------------------------------
(* The operations that do not commit.                                      *)

SessionKeys(s, cs) == Effective(cs, SessionResolve(s))

(* A session write replaces the session's own versions of the keys it      *)
(* writes and touches no other version (engine.go:869-924).                *)
LEMMA SessionWriteIs ==
  ASSUME EngineInv, NEW s \in DOMAIN sessions, NEW cs \in ChangeSets, SessionWrite(s, cs)
  PROVE  LET keys == SessionKeys(s, cs)
             mine(pk) == {v \in Staged(s) : v.pk = pk}
         IN  /\ keys \subseteq DOMAIN cs /\ DOMAIN cs \subseteq PKs
             /\ rows' \subseteq VersionType /\ Pub' = Pub
             /\ \A w : w.session # s => (w \in Stage' <=> w \in Stage)
             /\ \A w : w.pk \notin keys => (w \in Staged(s)' <=> w \in Staged(s))
             /\ \A pk \in keys : \E w \in Staged(s)' : w.pk = pk
             /\ \A w \in Staged(s)' : w.pk \in keys =>
                  /\ w.branch = sessions[s].branch /\ w.row = cs[w.pk]
                  /\ MaskOf(SessionResolve(s)[w.pk], cs[w.pk]) \subseteq w.changed
                  /\ \A v \in mine(w.pk) : v.changed \subseteq w.changed
             /\ \A w, x \in Staged(s)' : w.pk \in keys /\ w.pk = x.pk => w = x
<1> DEFINE keys == SessionKeys(s, cs)
           b == sessions[s].branch
           mine(pk) == {v \in Staged(s) : v.pk = pk}
           mask(pk) == MaskOf(SessionResolve(s)[pk], cs[pk])
           first(pk) == Version(b, pk, NextSeq(b), 0, s, mask(pk), cs[pk])
           more(v) == [v EXCEPT !.row = cs[v.pk], !.changed = @ \cup mask(v.pk)]
           stage(pk) == IF mine(pk) = {} THEN {first(pk)}
                        ELSE {[v EXCEPT !.row = cs[pk], !.changed = @ \cup mask(pk)] : v \in mine(pk)}
<1>1. /\ s \in SessionIds /\ s # NoSession /\ b \in DOMAIN branches /\ b \in Branches
      /\ cs \in ChangeSet
  BY EngineAssumption DEF EngineInv, TypeOK
<1>2. keys \subseteq DOMAIN cs /\ DOMAIN cs \subseteq PKs /\ \A pk \in DOMAIN cs : cs[pk] \in Image
  BY <1>1 DEF ChangeSet, SessionKeys, Effective
<1>3. NextSeq(b) \in Nat /\ MaxSeq \in Nat
  BY <1>1, Types, EngineAssumption DEF EngineInv
<1>4. \A pk : mask(pk) \in Mask
  BY DEF MaskOf, Mask
<1>5. \A v \in Staged(s) : /\ v \in VersionType /\ v.branch = b /\ v.session = s
                           /\ \A w \in Staged(s) : w.pk = v.pk => w = v
  BY <1>1 DEF EngineInv, TypeOK, StagedVersionsOwned, Staged
<1>6. rows' = {v \in rows : ~(v.session = s /\ v.pk \in keys)} \cup UNION {stage(pk) : pk \in keys}
  BY DEF SessionWrite, SessionKeys
<1>7. \A pk \in keys : /\ first(pk).branch = b /\ first(pk).session = s /\ first(pk).pk = pk
                       /\ first(pk).row = cs[pk] /\ first(pk).changed = mask(pk)
                       /\ first(pk) \in VersionType
  BY <1>1, <1>2, <1>3, <1>4 DEF Version, VersionType
<1>8. \A v \in Staged(s) : v.pk \in keys =>
        /\ more(v).branch = b /\ more(v).session = s /\ more(v).pk = v.pk
        /\ more(v).row = cs[v.pk] /\ more(v).changed = v.changed \cup mask(v.pk)
        /\ more(v) \in VersionType
  BY <1>2, <1>4, <1>5 DEF VersionType, Mask
<1>9. ASSUME NEW pk \in keys
      PROVE  IF mine(pk) = {} THEN stage(pk) = {first(pk)}
             ELSE \E v \in mine(pk) : stage(pk) = {more(v)} /\ mine(pk) = {v}
  <2>1. CASE mine(pk) = {}
    BY <2>1
  <2>2. CASE mine(pk) # {}
    <3>1. PICK v \in mine(pk) : TRUE
      BY <2>2
    <3>2. mine(pk) = {v}
      BY <1>5, <3>1
    <3>3. v.pk = pk
      BY <3>1
    <3>4. stage(pk) = {more(v)}
      BY <2>2, <3>2, <3>3
    <3> QED
      BY <2>2, <3>1, <3>2, <3>4
  <2> QED
    BY <2>1, <2>2
<1> HIDE DEF keys, mask, first, more, stage
<1>10. ASSUME NEW pk \in keys
       PROVE  /\ \E w \in stage(pk) : TRUE
              /\ \A w, x \in stage(pk) : w = x
              /\ \A w \in stage(pk) :
                   /\ w.branch = b /\ w.session = s /\ w.pk = pk /\ w.row = cs[pk]
                   /\ w \in VersionType /\ mask(pk) \subseteq w.changed
                   /\ \A v \in mine(pk) : v.changed \subseteq w.changed
  <2>1. CASE mine(pk) = {}
    <3>1. stage(pk) = {first(pk)}
      BY <1>9, <2>1
    <3> QED
      BY <1>7, <2>1, <3>1
  <2>2. CASE mine(pk) # {}
    <3>1. PICK v \in mine(pk) : stage(pk) = {more(v)} /\ mine(pk) = {v}
      BY <1>9, <2>2
    <3>2. v \in Staged(s) /\ v.pk = pk
      BY <3>1
    <3> QED
      BY <1>8, <3>1, <3>2
  <2> QED
    BY <2>1, <2>2
<1>11. \A w : w \in rows' <=> \/ w \in rows /\ ~(w.session = s /\ w.pk \in keys)
                              \/ \E pk \in keys : w \in stage(pk)
  BY <1>6
<1>12. \A w : w.session # s => (w \in rows' <=> w \in rows)
  BY <1>10, <1>11
<1>13. Pub' = Pub /\ \A w : w.session # s => (w \in Stage' <=> w \in Stage)
  <2>1. /\ \A w : w \in Pub' <=> w \in rows' /\ w.session = NoSession
        /\ \A w : w \in Pub <=> w \in rows /\ w.session = NoSession
        /\ \A w : w \in Stage' <=> w \in rows' /\ w.session # NoSession
        /\ \A w : w \in Stage <=> w \in rows /\ w.session # NoSession
    BY DEF Pub, Stage
  <2>2. \A w : w \in Pub' <=> w \in Pub
    BY <1>1, <1>12, <2>1
  <2> QED
    BY <1>12, <2>1, <2>2
<1>14. /\ \A w : w \in Staged(s)' <=> w \in rows' /\ w.session = s
       /\ \A w : w \in Staged(s) <=> w \in rows /\ w.session = s
  BY DEF Staged
<1>15. \A w : w.pk \notin keys => (w \in Staged(s)' <=> w \in Staged(s))
  BY <1>10, <1>11, <1>14
<1>16. \A w \in Staged(s)' : w.pk \in keys => w \in stage(w.pk)
  BY <1>10, <1>11, <1>14
<1>17. \A pk \in keys : \E w \in Staged(s)' : w.pk = pk
  BY <1>10, <1>11, <1>14
<1>18. \A w \in Staged(s)' : w.pk \in keys =>
         /\ w.branch = b /\ w.row = cs[w.pk] /\ mask(w.pk) \subseteq w.changed
         /\ \A v \in mine(w.pk) : v.changed \subseteq w.changed
  BY <1>10, <1>16
<1>19. \A w, x \in Staged(s)' : w.pk \in keys /\ w.pk = x.pk => w = x
  BY <1>10, <1>16
<1>20. rows' \subseteq VersionType
  BY <1>10, <1>11 DEF EngineInv, TypeOK
<1> QED
  BY <1>2, <1>13, <1>15, <1>17, <1>18, <1>19, <1>20 DEF keys, mask

(* Ownership in terms of the staged versions, now and after a step.        *)
LEMMA OwnedIs ==
  /\ StagedVersionsOwned <=> \A v \in Stage :
       /\ v.session \in DOMAIN sessions
       /\ v.branch = sessions[v.session].branch /\ v.branch # Main
       /\ \A w \in Stage : w.session = v.session /\ w.pk = v.pk => w = v
  /\ StagedVersionsOwned' <=> \A v \in Stage' :
       /\ v.session \in DOMAIN sessions'
       /\ v.branch = sessions'[v.session].branch /\ v.branch # Main
       /\ \A w \in Stage' : w.session = v.session /\ w.pk = v.pk => w = v
BY DEF StagedVersionsOwned, Stage

(* A step that publishes nothing keeps what the store shows.               *)
LEMMA QuietKeeps ==
  ASSUME StoreInv, TypeOK', Pub' = Pub, UNCHANGED <<branches, commits>>
  PROVE  /\ StoreInv'
         /\ \A c : StateAtCommit(c)' = StateAtCommit(c)
         /\ \A b : Resolve(b)' = Resolve(b) /\ HeadChain(b)' = HeadChain(b)
<1>1. Heads' = Heads
  BY DEF Heads
<1>2. \A b : HeadChain(b)' = HeadChain(b)
  BY DEF HeadChain, ChainFor
<1>3. \A c : StateAtCommit(c)' = StateAtCommit(c)
  BY ViewsAre, ViewsAreNext
<1>4. \A b : Resolve(b)' = Resolve(b)
  BY <1>2, ViewsAre, ViewsAreNext
<1>5. HeadMatchesHistory'
  <2> SUFFICES ASSUME NEW b \in DOMAIN branches'
               PROVE  Resolve(b)' = StateAtCommit(branches[b].head)'
    BY DEF HeadMatchesHistory
  <2>1. PICK n : n = branches[b].head
    OBVIOUS
  <2>2. StateAtCommit(branches[b].head)' = StateAtCommit(n)'
    BY <2>1 DEF StateAtCommit, ResolveChain
  <2>3. Resolve(b) = StateAtCommit(n)
    BY <2>1 DEF StoreInv, HeadMatchesHistory
  <2> QED
    BY <1>3, <1>4, <2>2, <2>3
<1>6. ChainsWithin' /\ HeadsBounded'
  BY <1>1 DEF StoreInv, ChainsWithin, HeadsBounded
<1>7. Placed(Pub', Heads', MaxSeq) /\ Apart(Pub')
  BY <1>1 DEF StoreInv
<1> QED
  BY <1>2, <1>3, <1>4, <1>5, <1>6, <1>7 DEF StoreInv

(* The forked branch shows what its parent shows, and nothing else moves   *)
(* (engine.go:178-214).                                                    *)
LEMMA ForkKeeps ==
  ASSUME EngineInv, NEW n \in Branches, NEW from \in DOMAIN branches, CreateBranch(n, from)
  PROVE  /\ StoreInv'
         /\ DOMAIN branches' = DOMAIN branches \cup {n} /\ n \notin DOMAIN branches
         /\ branches'[n] = Fork(from) /\ \A b \in DOMAIN branches : branches'[b] = branches[b]
         /\ HeadChain(n)' = <<[branch |-> n, seq |-> 0]>> \o HeadChain(from)
         /\ Resolve(n)' = Resolve(from)
         /\ \A b \in DOMAIN branches : HeadChain(b)' = HeadChain(b) /\ Resolve(b)' = Resolve(b)
         /\ \A c : StateAtCommit(c)' = StateAtCommit(c)
<1>1. /\ n \notin DOMAIN branches
      /\ branches' = [b \in DOMAIN branches \cup {n} |->
           IF b = n THEN Fork(from) ELSE branches[b]]
      /\ UNCHANGED <<rows, commits, sessions>>
  BY DEF CreateBranch
<1>2. /\ DOMAIN branches' = DOMAIN branches \cup {n} /\ branches'[n] = Fork(from)
      /\ \A b \in DOMAIN branches : branches'[b] = branches[b]
  BY <1>1
<1>3. /\ Pub' = Pub /\ Numbered(Pub) /\ Placed(Pub, Heads, MaxSeq)
      /\ DOMAIN Heads = DOMAIN branches /\ \A b \in DOMAIN branches : Heads[b] \in Nat
      /\ \A b \in DOMAIN branches : Heads[b] = branches[b].headSeq
  BY <1>1, Types DEF Pub, EngineInv
<1>4. /\ HeadChain(from) \in ChainType /\ Within(HeadChain(from), Heads)
      /\ branches[from].head \in DOMAIN commits /\ branches[from].head \in Nat
      /\ from \in Branches
      /\ Len(commits) \in Nat /\ DOMAIN commits = 1 .. Len(commits)
  <2>1. /\ branches[from].head \in DOMAIN commits /\ from \in Branches
        /\ Len(commits) \in Nat /\ DOMAIN commits = 1 .. Len(commits)
    BY Types DEF EngineInv
  <2> QED
    BY <2>1, HeadChainWithin DEF EngineInv
<1>5. /\ Fork(from).headSeq = 0 /\ Fork(from).head = branches[from].head
      /\ Fork(from).parent = from /\ Fork(from).fork = branches[from].head
      /\ Fork(from).chain = HeadChain(from) /\ Fork(from) \in BranchType
  BY <1>4 DEF Fork, BranchType
<1>6. TypeOK'
  <2>1. branches' \in [DOMAIN branches' -> BranchType]
    BY <1>1, <1>5 DEF EngineInv, TypeOK
  <2>2. \A b \in DOMAIN branches' : /\ branches'[b].parent \in DOMAIN branches'
                                    /\ branches'[b].head \in DOMAIN commits'
                                    /\ branches'[b].fork \in DOMAIN commits'
    BY <1>1, <1>2, <1>4, <1>5 DEF EngineInv, TypeOK
  <2>3. \A s \in DOMAIN sessions' : /\ sessions'[s].branch \in DOMAIN branches' \ {Main}
                                    /\ sessions'[s].base \in DOMAIN commits'
    BY <1>1, <1>2 DEF EngineInv, TypeOK
  <2>4. Main \in DOMAIN branches' /\ DOMAIN branches' \subseteq Branches
    BY <1>2 DEF EngineInv, TypeOK
  <2> QED
    BY <1>1, <2>1, <2>2, <2>3, <2>4 DEF EngineInv, TypeOK
<1>7. /\ DOMAIN Heads' = DOMAIN Heads \cup {n} /\ Heads'[n] = 0
      /\ \A b \in DOMAIN Heads : Heads'[b] = Heads[b]
  <2>1. Heads' = [b \in DOMAIN branches' |-> branches'[b].headSeq]
    BY DEF Heads
  <2> QED
    BY <1>2, <1>3, <1>5, <2>1
<1>8. \A x \in DOMAIN Heads : Heads[x] \in Nat /\ Heads'[x] \in Nat /\ Heads[x] <= Heads'[x]
  BY <1>3, <1>7
<1>9. ASSUME NEW chain \in ChainType, Within(chain, Heads) PROVE Within(chain, Heads')
  BY <1>7, <1>8, <1>9, WithinHigher DEF ChainType
<1>10. ChainsWithin'
  <2>1. ASSUME NEW b \in DOMAIN branches' PROVE Within(branches'[b].chain, Heads')
    <3>1. CASE b = n
      BY <1>2, <1>4, <1>5, <1>9, <3>1
    <3>2. CASE b # n
      <4>1. branches[b].chain \in ChainType /\ Within(branches[b].chain, Heads)
        BY <1>2, <3>2, HeadChainWithin DEF EngineInv
      <4> QED
        BY <1>2, <1>9, <3>2, <4>1
    <3> QED
      BY <3>1, <3>2
  <2>2. ASSUME NEW c \in DOMAIN commits PROVE Within(commits[c].chain, Heads')
    BY <1>9, Types DEF EngineInv, ChainsWithin
  <2> QED
    BY <1>1, <2>1, <2>2 DEF ChainsWithin
<1>11. Placed(Pub', Heads', MaxSeq)
  BY <1>3, <1>7, <1>8 DEF Placed
<1>12. HeadsBounded'
  <2>1. 0 < Len(commits)
    BY <1>4
  <2> QED
    BY <1>1, <1>2, <1>5, <2>1 DEF EngineInv, HeadsBounded
<1>13. \A b \in DOMAIN branches : HeadChain(b)' = HeadChain(b)
  BY <1>2 DEF HeadChain, ChainFor
<1>14. HeadChain(n)' = <<[branch |-> n, seq |-> 0]>> \o HeadChain(from)
  BY <1>2, <1>5 DEF HeadChain, ChainFor, Segment
<1>15. \A c : StateAtCommit(c)' = StateAtCommit(c)
  BY <1>1, <1>3, ViewsAre, ViewsAreNext
<1>16. \A b \in DOMAIN branches : Resolve(b)' = Resolve(b)
  BY <1>3, <1>13, ViewsAre, ViewsAreNext
<1>17. Resolve(n)' = Resolve(from)
  <2>1. \A v \in Pub : 1 <= v.from
    BY <1>3 DEF Placed
  <2>2. \A pk : Shown(Pub, <<[branch |-> n, seq |-> 0]>> \o HeadChain(from), pk)
                  = Shown(Pub, HeadChain(from), pk)
    BY <1>3, <1>4, <2>1, ForkShows DEF ChainType
  <2> QED
    BY <1>3, <1>14, <2>2, ViewsAre, ViewsAreNext
<1>18. HeadMatchesHistory'
  <2> SUFFICES ASSUME NEW b \in DOMAIN branches'
               PROVE  Resolve(b)' = StateAtCommit(branches[b].head)'
    BY DEF HeadMatchesHistory
  <2>1. PICK m : m = branches'[b].head
    OBVIOUS
  <2>2. StateAtCommit(branches[b].head)' = StateAtCommit(m)'
    BY <2>1 DEF StateAtCommit, ResolveChain
  <2>3. \A x \in DOMAIN branches : Resolve(x) = StateAtCommit(branches[x].head)
    BY DEF EngineInv, HeadMatchesHistory
  <2>4. Resolve(b)' = StateAtCommit(m)
    BY <1>2, <1>5, <1>16, <1>17, <2>1, <2>3
  <2> QED
    BY <1>15, <2>2, <2>4
<1>19. StoreInv'
  BY <1>3, <1>6, <1>10, <1>11, <1>12, <1>18 DEF StoreInv, EngineInv
<1> QED
  BY <1>1, <1>2, <1>13, <1>14, <1>15, <1>16, <1>17, <1>19

-----------------------------------------------------------------------------
(* The invariant.                                                          *)

(* What every step leaves: commits are only added and keep their state,    *)
(* sessions keep their branch and base.                                    *)
Grows ==
  /\ \A c \in DOMAIN commits : c \in DOMAIN commits' /\ StateAtCommit(c)' = StateAtCommit(c)
  /\ \A s \in DOMAIN sessions \cap DOMAIN sessions' : sessions'[s] = sessions[s]

(* The two halves of the invariant are the whole of it (engine.go:216-258).*)
LEMMA EngineInvIs == EngineInv <=> StoreInv /\ StagedVersionsOwned
BY DEF EngineInv, StoreInv

(* A commit that opens no session and takes no staged version with it.     *)
LEMMA PublishSteps ==
  ASSUME EngineInv, NEW b, NEW tail, NEW new, NEW parents, Publishes(b, tail, new, parents),
         rows' \subseteq VersionType, Stage' = Stage, UNCHANGED sessions
  PROVE  EngineInv' /\ Grows
<1>1. StoreInv /\ TypeOK
  BY DEF EngineInv, StoreInv
<1>2. TypeOK'
  <2>1. sessions' = [s \in DOMAIN sessions' |-> sessions[s]]
    BY DEF EngineInv, TypeOK
  <2> QED
    BY <1>1, <2>1, PublishTypes
<1>3. StoreInv'
  BY <1>1, <1>2, PublishKeeps
<1>4. StagedVersionsOwned'
  BY OwnedIs DEF EngineInv
<1>5. /\ \A c \in DOMAIN commits : StateAtCommit(c)' = StateAtCommit(c)
      /\ \A c \in DOMAIN commits : c \in DOMAIN commits'
  BY <1>1, PublishStable, AfterPublish
<1> QED
  BY <1>3, <1>4, <1>5 DEF Grows, StoreInv, EngineInv

(* The staged versions of a session go with it, by a commit or not.        *)
LEMMA SessionEnds ==
  ASSUME EngineInv, NEW s \in DOMAIN sessions, Close(s), Stage' = Stage \ Staged(s)
  PROVE  /\ StagedVersionsOwned'
         /\ DOMAIN sessions' = DOMAIN sessions \ {s}
         /\ \A x \in DOMAIN sessions' : sessions'[x] = sessions[x]
         /\ sessions' = [x \in DOMAIN sessions' |-> sessions[x]]
<1>1. /\ DOMAIN sessions' = DOMAIN sessions \ {s}
      /\ \A x \in DOMAIN sessions' : sessions'[x] = sessions[x]
      /\ sessions' = [x \in DOMAIN sessions' |-> sessions[x]]
  BY DEF Close
<1>2. \A v \in Stage' : v \in Stage /\ v.session # s
  BY DEF Staged, Stage
<1>3. \A v \in Stage :
       /\ v.session \in DOMAIN sessions
       /\ v.branch = sessions[v.session].branch /\ v.branch # Main
       /\ \A w \in Stage : w.session = v.session /\ w.pk = v.pk => w = v
  BY OwnedIs DEF EngineInv
<1>4. StagedVersionsOwned'
  BY <1>1, <1>2, <1>3, OwnedIs
<1> QED
  BY <1>1, <1>4

(* CommitSession and AbandonSession (engine.go:869-924).                   *)
LEMMA SessionEndSteps ==
  ASSUME EngineInv, NEW s \in DOMAIN sessions, CommitSession(s) \/ AbandonSession(s)
  PROVE  EngineInv' /\ Grows
<1>0. StoreInv /\ TypeOK
  BY DEF EngineInv, StoreInv
<1>1. CASE CommitSession(s)
  <2> DEFINE b == sessions[s].branch
  <2>1. /\ Publishes(b, branches[b].chain, SessionWrites(s), {branches[b].head})
        /\ Stage' = Stage \ Staged(s) /\ rows' \subseteq VersionType /\ Close(s)
    BY <1>1, SessionPublishes
  <2>2. /\ StagedVersionsOwned' /\ DOMAIN sessions' = DOMAIN sessions \ {s}
        /\ \A x \in DOMAIN sessions' : sessions'[x] = sessions[x]
        /\ sessions' = [x \in DOMAIN sessions' |-> sessions[x]]
    BY <2>1, SessionEnds
  <2> HIDE DEF b
  <2>3. TypeOK'
    BY <1>0, <2>1, <2>2, PublishTypes
  <2>4. StoreInv'
    BY <1>0, <2>1, <2>3, PublishKeeps
  <2>5. \A c \in DOMAIN commits : c \in DOMAIN commits' /\ StateAtCommit(c)' = StateAtCommit(c)
    BY <1>0, <2>1, PublishStable, AfterPublish
  <2> QED
    BY <2>2, <2>4, <2>5 DEF Grows, StoreInv, EngineInv
<1>2. CASE AbandonSession(s)
  <2>1. rows' = rows \ Staged(s) /\ Close(s) /\ UNCHANGED <<branches, commits>>
    BY <1>2 DEF AbandonSession
  <2>2. s # NoSession
    BY EngineAssumption DEF EngineInv, TypeOK
  <2>3. Pub' = Pub /\ Stage' = Stage \ Staged(s)
    BY <2>1, <2>2 DEF Pub, Stage, Staged
  <2>4. /\ StagedVersionsOwned' /\ DOMAIN sessions' = DOMAIN sessions \ {s}
        /\ \A x \in DOMAIN sessions' : sessions'[x] = sessions[x]
        /\ sessions' = [x \in DOMAIN sessions' |-> sessions[x]]
    BY <2>1, <2>3, SessionEnds
  <2>5. TypeOK'
    <3>1. /\ DOMAIN sessions' \subseteq SessionIds
          /\ sessions' \in [DOMAIN sessions' -> SessionType]
          /\ \A x \in DOMAIN sessions' : /\ sessions'[x].branch \in DOMAIN branches \ {Main}
                                         /\ sessions'[x].base \in DOMAIN commits
      BY <1>0, <2>4 DEF TypeOK
    <3> QED
      BY <1>0, <2>1, <3>1 DEF TypeOK
  <2>6. StoreInv' /\ \A c : StateAtCommit(c)' = StateAtCommit(c)
    BY <1>0, <2>1, <2>3, <2>5, QuietKeeps
  <2> QED
    BY <2>1, <2>4, <2>6 DEF Grows, StoreInv, EngineInv
<1> QED
  BY <1>1, <1>2

(* OpenSession and SessionWrite (engine.go:849-924).                       *)
LEMMA SessionWorkSteps ==
  ASSUME EngineInv,
         \/ \E s \in SessionIds, b \in DOMAIN branches : OpenSession(s, b)
         \/ \E s \in DOMAIN sessions, cs \in ChangeSets : SessionWrite(s, cs)
  PROVE  EngineInv' /\ Grows
<1>0. StoreInv /\ TypeOK
  BY DEF EngineInv, StoreInv
<1>1. ASSUME NEW s \in SessionIds, NEW b \in DOMAIN branches, OpenSession(s, b)
      PROVE  EngineInv' /\ Grows
  <2>1. /\ b # Main /\ s \notin DOMAIN sessions /\ UNCHANGED <<rows, branches, commits>>
        /\ DOMAIN sessions' = DOMAIN sessions \cup {s}
        /\ \A x \in DOMAIN sessions : sessions'[x] = sessions[x]
        /\ sessions'[s] = [branch |-> b, base |-> branches[b].head]
        /\ sessions' = [x \in DOMAIN sessions' |-> sessions'[x]]
    BY <1>1 DEF OpenSession
  <2>2. branches[b].head \in DOMAIN commits /\ b \in Branches /\ branches[b].head \in Nat
    BY <1>0, Types DEF BranchType
  <2>3. TypeOK'
    <3>1. [branch |-> b, base |-> branches[b].head] \in SessionType
      BY <2>2 DEF SessionType
    <3>2. /\ DOMAIN sessions \subseteq SessionIds
          /\ \A x \in DOMAIN sessions : /\ sessions[x] \in SessionType
                                        /\ sessions[x].branch \in DOMAIN branches \ {Main}
                                        /\ sessions[x].base \in DOMAIN commits
      BY <1>0 DEF TypeOK
    <3>3. /\ sessions'[s].branch = b /\ sessions'[s].base = branches[b].head
          /\ sessions'[s] \in SessionType
      BY <2>1, <3>1
    <3>4. DOMAIN sessions' \subseteq SessionIds
      BY <2>1, <3>2
    <3>5. \A x \in DOMAIN sessions' : /\ sessions'[x] \in SessionType
                                      /\ sessions'[x].branch \in DOMAIN branches \ {Main}
                                      /\ sessions'[x].base \in DOMAIN commits
      BY <2>1, <2>2, <3>2, <3>3
    <3>6. sessions' \in [DOMAIN sessions' -> SessionType]
      BY <2>1, <3>5
    <3> QED
      BY <1>0, <2>1, <3>4, <3>5, <3>6 DEF TypeOK
  <2>4. Pub' = Pub /\ Stage' = Stage
    BY <2>1 DEF Pub, Stage
  <2>5. StoreInv' /\ \A c : StateAtCommit(c)' = StateAtCommit(c)
    BY <1>0, <2>1, <2>3, <2>4, QuietKeeps
  <2>6. StagedVersionsOwned'
    BY <2>1, <2>4, OwnedIs DEF EngineInv
  <2> QED
    BY <2>1, <2>5, <2>6 DEF Grows, StoreInv, EngineInv
<1>2. ASSUME NEW s \in DOMAIN sessions, NEW cs \in ChangeSets, SessionWrite(s, cs)
      PROVE  EngineInv' /\ Grows
  <2> DEFINE keys == SessionKeys(s, cs)
  <2>1. UNCHANGED <<branches, commits, sessions>>
    BY <1>2 DEF SessionWrite
  <2>2. /\ rows' \subseteq VersionType /\ Pub' = Pub
        /\ \A w : w.session # s => (w \in Stage' <=> w \in Stage)
        /\ \A w : w.pk \notin keys => (w \in Staged(s)' <=> w \in Staged(s))
        /\ \A w \in Staged(s)' : w.pk \in keys => w.branch = sessions[s].branch
        /\ \A w, x \in Staged(s)' : w.pk \in keys /\ w.pk = x.pk => w = x
    BY <1>2, SessionWriteIs
  <2> HIDE DEF keys
  <2>3. TypeOK'
    BY <1>0, <2>1, <2>2 DEF TypeOK
  <2>4. StoreInv' /\ \A c : StateAtCommit(c)' = StateAtCommit(c)
    BY <1>0, <2>1, <2>2, <2>3, QuietKeeps
  <2>5. /\ s # NoSession /\ sessions[s].branch # Main
        /\ \A w : w \in Staged(s)' <=> w \in Stage' /\ w.session = s
        /\ \A w : w \in Staged(s) <=> w \in Stage /\ w.session = s
    BY <1>0, EngineAssumption DEF TypeOK, Staged, Stage
  <2>6. \A v \in Stage :
          /\ v.session \in DOMAIN sessions
          /\ v.branch = sessions[v.session].branch /\ v.branch # Main
          /\ \A w \in Stage : w.session = v.session /\ w.pk = v.pk => w = v
    BY OwnedIs DEF EngineInv
  <2>7. ASSUME NEW v \in Stage'
        PROVE  /\ v.session \in DOMAIN sessions
               /\ v.branch = sessions[v.session].branch /\ v.branch # Main
               /\ \A w \in Stage' : w.session = v.session /\ w.pk = v.pk => w = v
    <3>1. CASE v.session # s
      BY <2>2, <2>6, <3>1
    <3>2. CASE v.session = s /\ v.pk \notin keys
      BY <2>2, <2>5, <2>6, <3>2
    <3>3. CASE v.session = s /\ v.pk \in keys
      BY <2>2, <2>5, <3>3
    <3> QED
      BY <3>1, <3>2, <3>3
  <2>8. StagedVersionsOwned'
    BY <2>1, <2>7, OwnedIs
  <2> QED
    BY <2>1, <2>4, <2>8 DEF Grows, StoreInv, EngineInv
<1> QED
  BY <1>1, <1>2

(* The invariant holds of the empty store (engine.go:85-120).              *)
LEMMA InitEstablishes == Init => EngineInv
<1> SUFFICES ASSUME Init PROVE EngineInv
  OBVIOUS
<1>1. /\ Main \in Branches /\ MaxCommits \in Nat /\ 1 <= MaxCommits
  BY EngineAssumption
<1>2. /\ rows = {} /\ commits = <<RootCommit>> /\ DOMAIN branches = {Main}
      /\ branches[Main] = [headSeq |-> 0, head |-> 1, parent |-> Main, fork |-> 1, chain |-> <<>>]
      /\ branches = [b \in {Main} |-> branches[Main]]
      /\ DOMAIN sessions = {} /\ sessions = [s \in {} |-> RootCommit]
  BY DEF Init
<1> DEFINE root == <<[branch |-> Main, seq |-> 0]>> \o <<>>
<1>3. <<>> \in ChainType /\ root \in ChainType
  <2>1. <<>> \in Chains(Branches)
    BY DEF Chains
  <2> QED
    BY <1>1, <2>1, Prepend DEF ChainType
<1>4. <<Segment(Main, 0)>> = root
  BY DEF Segment
<1> HIDE DEF root
<1>5. /\ RootCommit \in CommitType /\ RootCommit.parents = {} /\ RootCommit.chain = root
  BY <1>1, <1>3, <1>4 DEF RootCommit, CommitType
<1>6. /\ commits \in Seq(CommitType) /\ Len(commits) = 1 /\ DOMAIN commits = {1}
      /\ commits[1] = RootCommit
  BY <1>2, <1>5
<1>7. branches[Main] \in BranchType
  BY <1>1, <1>2, <1>3 DEF BranchType
<1>8. TypeOK
  <2>1. branches \in [DOMAIN branches -> BranchType]
    BY <1>2, <1>7
  <2>2. \A b \in DOMAIN branches : /\ branches[b].parent \in DOMAIN branches
                                   /\ branches[b].head \in DOMAIN commits
                                   /\ branches[b].fork \in DOMAIN commits
    BY <1>2, <1>6
  <2>3. \A c \in DOMAIN commits : commits[c].parents \subseteq 1 .. c - 1
    BY <1>5, <1>6
  <2>4. sessions \in [DOMAIN sessions -> SessionType]
    BY <1>2
  <2> QED
    BY <1>1, <1>2, <1>6, <2>1, <2>2, <2>3, <2>4 DEF TypeOK
<1>9. Pub = {} /\ Apart(Pub) /\ Placed(Pub, Heads, MaxSeq)
  BY <1>2 DEF Pub, Apart, Placed
<1>10. HeadChain(Main) = root
  BY <1>2, <1>4 DEF HeadChain, ChainFor
<1>11. DOMAIN Heads = {Main} /\ Heads[Main] = 0
  BY <1>2 DEF Heads
<1>12. ChainsWithin
  <2>1. Within(branches[Main].chain, Heads)
    BY <1>2 DEF Within
  <2>2. Within(root, Heads)
    <3>1. Within(<<>>, Heads)
      BY DEF Within
    <3>2. /\ <<>> \in Chains(Branches) /\ 0 <= Heads[Main] /\ 0 \in Nat
          /\ Main \in DOMAIN Heads /\ Main \in Branches
      BY <1>1, <1>3, <1>11 DEF ChainType
    <3> QED
      BY <3>1, <3>2, WithinPrepend DEF root
  <2> QED
    BY <1>2, <1>5, <1>6, <2>1, <2>2 DEF ChainsWithin
<1>13. HeadsBounded
  BY <1>1, <1>2, <1>6 DEF HeadsBounded
<1>14. HeadMatchesHistory
  <2>1. Resolve(Main) = [pk \in PKs |-> Shown(Pub, root, pk)]
    BY <1>10, ViewsAre
  <2>2. StateAtCommit(1) = [pk \in PKs |-> Shown(Pub, root, pk)]
    BY <1>5, <1>6, ViewsAre
  <2> QED
    BY <1>2, <2>1, <2>2 DEF HeadMatchesHistory
<1>15. StagedVersionsOwned
  BY <1>2 DEF StagedVersionsOwned
<1> QED
  BY <1>8, <1>9, <1>12, <1>13, <1>14, <1>15 DEF EngineInv

(* Every step keeps the invariant, and every commit its state.             *)
LEMMA StepKeeps ==
  ASSUME EngineInv, [Next]_vars
  PROVE  EngineInv' /\ Grows
<1>0. StoreInv /\ TypeOK
  BY DEF EngineInv, StoreInv
<1>1. ASSUME NEW b \in DOMAIN branches, NEW cs \in ChangeSets, Commit(b, cs)
      PROVE  EngineInv' /\ Grows
  <2>1. /\ Publishes(b, branches[b].chain, CommitWrites(b, cs), {branches[b].head})
        /\ Stage' = Stage /\ rows' \subseteq VersionType /\ UNCHANGED sessions
    BY <1>1, CommitPublishes
  <2> QED
    BY <2>1, PublishSteps
<1>2. ASSUME NEW n \in Branches, NEW from \in DOMAIN branches, CreateBranch(n, from)
      PROVE  EngineInv' /\ Grows
  <2>1. StoreInv' /\ \A c : StateAtCommit(c)' = StateAtCommit(c)
    BY <1>2, ForkKeeps
  <2>2. Stage' = Stage /\ UNCHANGED <<commits, sessions>>
    BY <1>2 DEF CreateBranch, Stage
  <2>3. StagedVersionsOwned'
    BY <2>2, OwnedIs DEF EngineInv
  <2> QED
    BY <2>1, <2>2, <2>3 DEF Grows, StoreInv, EngineInv
<1>3. ASSUME NEW from \in DOMAIN branches, NEW into \in DOMAIN branches, Merge(from, into)
      PROVE  EngineInv' /\ Grows
  <2>1. PICK base \in 1 .. Len(commits) :
           /\ Publishes(into, branches[into].chain,
                MergeWrites(into, branches[into].chain, MergeResultOf(into, from, base)),
                {branches[into].head, branches[from].head})
           /\ Stage' = Stage /\ rows' \subseteq VersionType /\ UNCHANGED sessions
    BY <1>3, MergePublishes
  <2> QED
    BY <2>1, PublishSteps
<1>4. ASSUME NEW b \in DOMAIN branches, UpdateFromParent(b)
      PROVE  EngineInv' /\ Grows
  <2> DEFINE p == branches[b].parent
  <2>1. /\ Publishes(b, HeadChain(p),
             MergeWrites(b, HeadChain(p), MergeResultOf(b, p, branches[b].fork)),
             {branches[b].head, branches[p].head})
        /\ Stage' = Stage /\ rows' \subseteq VersionType /\ UNCHANGED sessions
    BY <1>4, UpdatePublishes
  <2> QED
    BY <2>1, PublishSteps
<1>5. ASSUME NEW s \in DOMAIN sessions, CommitSession(s) \/ AbandonSession(s)
      PROVE  EngineInv' /\ Grows
  BY <1>5, SessionEndSteps
<1>6. ASSUME \/ \E s \in SessionIds, b \in DOMAIN branches : OpenSession(s, b)
             \/ \E s \in DOMAIN sessions, cs \in ChangeSets : SessionWrite(s, cs)
      PROVE  EngineInv' /\ Grows
  BY <1>6, SessionWorkSteps
<1>7. CASE UNCHANGED vars
  <2>1. /\ Pub' = Pub /\ Stage' = Stage /\ UNCHANGED <<branches, commits, sessions, rows>>
    BY <1>7 DEF vars, Pub, Stage
  <2>2. TypeOK'
    BY <1>0, <2>1 DEF TypeOK
  <2>3. StoreInv' /\ \A c : StateAtCommit(c)' = StateAtCommit(c)
    BY <1>0, <2>1, <2>2, QuietKeeps
  <2>4. StagedVersionsOwned'
    BY <2>1, OwnedIs DEF EngineInv
  <2> QED
    BY <2>1, <2>3, <2>4 DEF Grows, StoreInv, EngineInv
<1> QED
  BY <1>1, <1>2, <1>3, <1>4, <1>5, <1>6, <1>7 DEF Next

-----------------------------------------------------------------------------
(* What follows.                                                           *)

(* The inductive invariant: types, chains within the heads, versions in    *)
(* place and apart, staged versions owned, heads equal to their commits    *)
(* (engine.go:437-924).                                                    *)
THEOREM EngineInvariance == Spec => []EngineInv
<1>1. Init => EngineInv
  BY InitEstablishes
<1>2. EngineInv /\ [Next]_vars => EngineInv'
  BY StepKeeps
<1> QED
  BY <1>1, <1>2, PTL DEF Spec

(* No key has two versions at one sequence number of a branch, so          *)
(* resolution never picks a version by luck (engine.go:962-1002).          *)
THEOREM VersionsApart == Spec => []IntervalsSane
<1>1. EngineInv => IntervalsSane
  BY DEF EngineInv, Apart, Pub, IntervalsSane
<1> QED
  BY <1>1, EngineInvariance, PTL

(* A branch shows at its head what its head commit recorded, whatever      *)
(* other branches and sessions did since (finding F1).                     *)
THEOREM HeadsMatchHistory == Spec => []HeadMatchesHistory
<1>1. EngineInv => HeadMatchesHistory
  BY DEF EngineInv
<1> QED
  BY <1>1, EngineInvariance, PTL

(* A staged version belongs to an open session of its branch, once per     *)
(* key, until it is published or dropped (engine.go:869-924).              *)
THEOREM StagedOwned == Spec => []StagedVersionsOwned
<1>1. EngineInv => StagedVersionsOwned
  BY DEF EngineInv
<1> QED
  BY <1>1, EngineInvariance, PTL

(* Time travel: no step changes what an existing commit resolves to        *)
(* (engine.go:68-83).                                                      *)
THEOREM HistoryKept == Spec => HistoryStable
<1>1. EngineInv /\ [Next]_vars
        => [\A c \in 1 .. Len(commits) : StateAtCommit(c)' = StateAtCommit(c)]_vars
  <2> SUFFICES ASSUME EngineInv, [Next]_vars
               PROVE  \A c \in 1 .. Len(commits) : StateAtCommit(c)' = StateAtCommit(c)
    OBVIOUS
  <2>1. DOMAIN commits = 1 .. Len(commits)
    BY Types DEF EngineInv
  <2> QED
    BY <2>1, StepKeeps DEF Grows
<1> QED
  BY <1>1, EngineInvariance, PTL DEF Spec, HistoryStable

(* A session's view is its base commit's state under its own edits         *)
(* (engine.go:841-867).                                                    *)
LEMMA SessionViewIs ==
  /\ \A s : SessionResolve(s) = [pk \in PKs |->
       IF s # NoSession /\ \E v \in Staged(s) : v.pk = pk
       THEN (CHOOSE v \in {w \in Staged(s) : w.pk = pk} : TRUE).row
       ELSE StateAtCommit(sessions[s].base)[pk]]
  /\ \A s, m : m = sessions'[s].base => SessionResolve(s)' = [pk \in PKs |->
       IF s # NoSession /\ \E v \in Staged(s)' : v.pk = pk
       THEN (CHOOSE v \in {w \in Staged(s)' : w.pk = pk} : TRUE).row
       ELSE StateAtCommit(m)'[pk]]
<1>1. \A c, pk : pk \in PKs => StateAtCommit(c)[pk] = Shown(Pub, commits[c].chain, pk)
  BY ViewsAre
<1>2. \A c, pk : pk \in PKs => StateAtCommit(c)'[pk] = Shown(Pub', commits'[c].chain, pk)
  BY ViewsAreNext
<1>3. ASSUME NEW s
      PROVE  SessionResolve(s) = [pk \in PKs |->
        IF s # NoSession /\ \E v \in Staged(s) : v.pk = pk
        THEN (CHOOSE v \in {w \in Staged(s) : w.pk = pk} : TRUE).row
        ELSE StateAtCommit(sessions[s].base)[pk]]
  BY <1>1, ViewsAre
<1>4. ASSUME NEW s, NEW m, m = sessions'[s].base
      PROVE  SessionResolve(s)' = [pk \in PKs |->
        IF s # NoSession /\ \E v \in Staged(s)' : v.pk = pk
        THEN (CHOOSE v \in {w \in Staged(s)' : w.pk = pk} : TRUE).row
        ELSE StateAtCommit(m)'[pk]]
  BY <1>2, <1>4, ViewsAreNext
<1> QED
  BY <1>3, <1>4

(* The view of a session whose staged versions stay is the same after a    *)
(* step (engine.go:841-867).                                               *)
LEMMA SessionViewStays ==
  ASSUME EngineInv, Grows, NEW s \in DOMAIN sessions, s \in DOMAIN sessions',
         Staged(s)' = Staged(s)
  PROVE  SessionResolve(s)' = SessionResolve(s)
<1>1. PICK m : m = sessions[s].base
  OBVIOUS
<1>2. m \in DOMAIN commits
  BY <1>1 DEF EngineInv, TypeOK
<1>3. m = sessions'[s].base /\ StateAtCommit(m)' = StateAtCommit(m)
  BY <1>1, <1>2 DEF Grows
<1> DEFINE S == Staged(s)
           T == StateAtCommit(m)
           view == [pk \in PKs |-> IF s # NoSession /\ \E v \in S : v.pk = pk
                                  THEN (CHOOSE v \in {w \in S : w.pk = pk} : TRUE).row
                                  ELSE T[pk]]
<1>4. SessionResolve(s) = view
  BY <1>1, SessionViewIs
<1>5. SessionResolve(s)' = [pk \in PKs |->
        IF s # NoSession /\ \E v \in Staged(s)' : v.pk = pk
        THEN (CHOOSE v \in {w \in Staged(s)' : w.pk = pk} : TRUE).row
        ELSE StateAtCommit(m)'[pk]]
  BY <1>3, SessionViewIs
<1>6. Staged(s)' = S /\ StateAtCommit(m)' = T
  BY <1>3
<1> HIDE DEF S, T
<1>7. SessionResolve(s)' = view
  BY <1>5, <1>6
<1> QED
  BY <1>4, <1>7

(* A session sees what it based itself on and its own edits, although its  *)
(* branch moves meanwhile (finding F3).                                    *)
THEOREM SessionViewsPinned == Spec => SessionViewPinned
<1>1. EngineInv /\ [Next]_vars
        => [\A s \in DOMAIN sessions : (s \in DOMAIN sessions' /\ Staged(s)' = Staged(s))
              => SessionResolve(s)' = SessionResolve(s)]_vars
  BY StepKeeps, SessionViewStays
<1> QED
  BY <1>1, EngineInvariance, PTL DEF Spec, SessionViewPinned

(* A filtered read returns the matching rows of the view and no other: the *)
(* version a branch shows is a candidate wherever in the chain it lies     *)
(* (engine.go:259-300).                                                    *)
THEOREM FilteredReads == Spec => []FilteredReadExact
<1>1. FilteredReadExact
  <2> SUFFICES ASSUME NEW b \in DOMAIN branches, NEW c \in Cols, NEW x \in Vals
               PROVE  LET pred == {r \in Row : r[c] = x}
                      IN  ResolveFiltered(b, pred)
                            = [pk \in PKs |-> IF Resolve(b)[pk] \in pred THEN Resolve(b)[pk]
                                              ELSE Absent]
    BY DEF FilteredReadExact
  <2> DEFINE pred == {r \in Row : r[c] = x}
             candidates == {pk \in PKs : \E i \in DOMAIN HeadChain(b) :
                              \E v \in Hits(HeadChain(b), i, pk) : v.row \in pred}
  <2>1. Absent \notin pred
    BY RowsAssumption DEF Row
  <2>2. ASSUME NEW pk \in PKs, Resolve(b)[pk] \in pred PROVE pk \in candidates
    <3> DEFINE found == TopHits(Pub, HeadChain(b), pk)
    <3>1. Resolve(b)[pk] = Shown(Pub, HeadChain(b), pk)
      BY ViewsAre
    <3>2. found # {} /\ (CHOOSE v \in found : TRUE).row \in pred
      BY <2>1, <2>2, <3>1 DEF Shown
    <3>3. PICK v \in found : v.row \in pred
      BY <3>2
    <3>4. PICK i \in DOMAIN HeadChain(b) : v \in SegmentHits(Pub, HeadChain(b)[i], pk)
      BY <3>3 DEF TopHits
    <3>5. v \in Hits(HeadChain(b), i, pk)
      BY <3>4, HitsPublished
    <3> QED
      BY <3>3, <3>5
  <2>3. ResolveFiltered(b, pred) = [pk \in PKs |->
          IF pk \in candidates /\ Resolve(b)[pk] \in pred THEN Resolve(b)[pk] ELSE Absent]
    BY DEF ResolveFiltered
  <2> HIDE DEF pred, candidates
  <2>4. ResolveFiltered(b, pred)
          = [pk \in PKs |-> IF Resolve(b)[pk] \in pred THEN Resolve(b)[pk] ELSE Absent]
    BY <2>2, <2>3
  <2> QED
    BY <2>4 DEF pred
<1> QED
  BY <1>1, PTL

-----------------------------------------------------------------------------
(***************************************************************************)
(* The masks of the version store name every column in which a branch      *)
(* differs from a commit, so that a merge that looks at masks only loses   *)
(* no edit.                                                                *)
(*                                                                         *)
(* Two chains that have the same edits of a column behind them show the    *)
(* same value of it (Agree).  A commit keeps that by naming in its masks   *)
(* what it changes of the view it is made from.  An update from the parent *)
(* is made from a view that no chain had yet, the branch's own versions    *)
(* over the parent's head; it keeps Agree because its merge takes a column *)
(* from the side that edited it, and because fork points only advance.     *)
(***************************************************************************)

(* The inductive invariant.                                                *)

Names(chain) == {chain[i].branch : i \in DOMAIN chain}

Distinct(chain) == \A i, j \in DOMAIN chain : chain[i].branch = chain[j].branch => i = j

StoredChains ==
  {HeadChain(b) : b \in DOMAIN branches} \cup {commits[c].chain : c \in DOMAIN commits}

(* A branch inherits its parent and what its parent inherits, never itself.*)
Lineage ==
  \A b \in DOMAIN branches :
    /\ b \notin Names(branches[b].chain)
    /\ b = Main => Names(branches[b].chain) = {}
    /\ b # Main => Names(branches[b].chain)
                     = {branches[b].parent} \cup Names(branches[branches[b].parent].chain)
    /\ \A x \in Names(branches[b].chain) :
         Names(branches[x].chain) \subseteq Names(branches[b].chain)

ChainsDistinct ==
  /\ \A b \in DOMAIN branches : Distinct(branches[b].chain)
  /\ \A c \in DOMAIN commits : Distinct(commits[c].chain)

(* Fork points only advance: what a chain through b covers of b's          *)
(* ancestors, b inherits.                                                  *)
ForksAdvance ==
  \A chain \in StoredChains, b \in DOMAIN branches, v \in Pub :
    /\ b \in Names(chain) /\ v.branch \in Names(branches[b].chain) /\ Covers(chain, v)
    => Covers(branches[b].chain, v)

(* A head commit covers what its branch does, a fork commit what the       *)
(* branch inherits.                                                        *)
HeadsCover ==
  \A b \in DOMAIN branches, v \in Pub :
    /\ Covers(commits[branches[b].head].chain, v) <=> Covers(HeadChain(b), v)
    /\ b # Main => (Covers(commits[branches[b].fork].chain, v) <=> Covers(branches[b].chain, v))

(* A staged mask names what its session changes of the session's base.     *)
StagedMasks ==
  \A v \in rows : v.session # NoSession =>
    MaskOf(StateAtCommit(sessions[v.session].base)[v.pk], v.row) \subseteq v.changed

ForkInv == Lineage /\ ChainsDistinct /\ ForksAdvance /\ HeadsCover

MaskInv == EngineInv /\ ForkInv /\ StagedMasks /\ Agree(Pub, StoredChains)

-----------------------------------------------------------------------------
(* Chains.                                                                 *)

(* The branches of a chain with one more segment in front.                 *)
LEMMA NamesPrepend ==
  ASSUME NEW b \in Branches, NEW n \in Nat, NEW chain \in ChainType
  PROVE  LET new == <<[branch |-> b, seq |-> n]>> \o chain
         IN  /\ Names(new) = {b} \cup Names(chain)
             /\ Distinct(chain) /\ b \notin Names(chain) => Distinct(new)
<1> DEFINE s == [branch |-> b, seq |-> n]
           new == <<s>> \o chain
<1>1. /\ DOMAIN chain = 1 .. Len(chain) /\ DOMAIN new = 1 .. Len(chain) + 1
      /\ Len(chain) \in Nat
      /\ new[1] = s
      /\ \A i \in DOMAIN chain : new[i + 1] = chain[i]
      /\ \A i \in DOMAIN new : i # 1 => i - 1 \in DOMAIN chain /\ new[i] = chain[i - 1]
  BY Prepend DEF ChainType
<1>2. s.branch = b
  OBVIOUS
<1> HIDE DEF new, s
<1>3. \A x : x \in Names(new) <=> x = b \/ x \in Names(chain)
  <2>1. ASSUME NEW x \in Names(chain) PROVE x \in Names(new)
    <3>1. PICK i \in DOMAIN chain : x = chain[i].branch
      BY DEF Names
    <3>2. i + 1 \in DOMAIN new /\ new[i + 1] = chain[i]
      BY <1>1
    <3> QED
      BY <3>1, <3>2 DEF Names
  <2>2. b \in Names(new)
    BY <1>1, <1>2 DEF Names
  <2>3. ASSUME NEW x \in Names(new) PROVE x = b \/ x \in Names(chain)
    <3>1. PICK i \in DOMAIN new : x = new[i].branch
      BY DEF Names
    <3>2. CASE i = 1
      BY <1>1, <1>2, <3>1, <3>2
    <3>3. CASE i # 1
      BY <1>1, <3>1, <3>3 DEF Names
    <3> QED
      BY <3>2, <3>3
  <2> QED
    BY <2>1, <2>2, <2>3
<1>4. ASSUME Distinct(chain), b \notin Names(chain) PROVE Distinct(new)
  <2> SUFFICES ASSUME NEW i \in DOMAIN new, NEW j \in DOMAIN new, new[i].branch = new[j].branch
               PROVE  i = j
    BY DEF Distinct
  <2>1. \A k \in DOMAIN new : k # 1 => new[k].branch # b
    BY <1>1, <1>4 DEF Names
  <2>2. CASE i = 1 \/ j = 1
    BY <1>1, <1>2, <2>1, <2>2
  <2>3. CASE i # 1 /\ j # 1
    <3>1. /\ i - 1 \in DOMAIN chain /\ j - 1 \in DOMAIN chain
          /\ chain[i - 1].branch = chain[j - 1].branch
      BY <1>1, <2>3
    <3>2. i - 1 = j - 1
      BY <1>4, <3>1 DEF Distinct
    <3> QED
      BY <1>1, <3>2
  <2> QED
    BY <2>2, <2>3
<1> QED
  BY <1>3, <1>4 DEF new, s

(* A chain covers a version exactly up to what it has of its branch        *)
(* (engine.go:660-706).                                                    *)
LEMMA UpperCovers ==
  ASSUME NEW chain \in ChainType, Distinct(chain), NEW v, v.from \in Nat, 1 <= v.from
  PROVE  /\ Upper(chain, v.branch) \in Nat
         /\ Covers(chain, v) <=> v.from <= Upper(chain, v.branch)
<1>1. DOMAIN chain = 1 .. Len(chain) /\ \A i \in DOMAIN chain : chain[i].seq \in Nat
  BY ChainFacts DEF ChainType
<1>2. CASE \E i \in DOMAIN chain : chain[i].branch = v.branch
  <2>1. PICK k \in DOMAIN chain : /\ k = (CHOOSE i \in DOMAIN chain : chain[i].branch = v.branch)
                                  /\ chain[k].branch = v.branch
    BY <1>2
  <2>2. Upper(chain, v.branch) = chain[k].seq
    BY <1>2, <2>1 DEF Upper
  <2>3. \A i \in DOMAIN chain : chain[i].branch = v.branch => i = k
    BY <2>1 DEF Distinct
  <2> QED
    BY <1>1, <2>1, <2>2, <2>3 DEF Covers
<1>3. CASE ~(\E i \in DOMAIN chain : chain[i].branch = v.branch)
  <2>1. Upper(chain, v.branch) = 0
    BY <1>3 DEF Upper
  <2> QED
    BY <1>3, <2>1 DEF Covers
<1> QED
  BY <1>2, <1>3

(* A chain covers versions of its branches only.                           *)
LEMMA CoversNamed == \A chain, v : Covers(chain, v) => v.branch \in Names(chain)
BY DEF Covers, Names

(* What the stored chains are.                                             *)
LEMMA StoredFacts ==
  ASSUME EngineInv
  PROVE  /\ \A x \in StoredChains : x \in ChainType /\ Within(x, Heads)
         /\ \A x \in StoredChains : Names(x) \subseteq DOMAIN branches
         /\ \A b \in DOMAIN branches :
              /\ HeadChain(b) \in StoredChains
              /\ HeadChain(b) = <<[branch |-> b, seq |-> Heads[b]]>> \o branches[b].chain
              /\ Names(HeadChain(b)) = {b} \cup Names(branches[b].chain)
              /\ Names(branches[b].chain) \subseteq DOMAIN branches
              /\ \A v : Covers(HeadChain(b), v)
                          <=> (b = v.branch /\ v.from <= Heads[b]) \/ Covers(branches[b].chain, v)
         /\ \A c \in DOMAIN commits : commits[c].chain \in StoredChains
         /\ DOMAIN Heads = DOMAIN branches
<1>1. DOMAIN Heads = DOMAIN branches /\ \A b \in DOMAIN branches : Heads[b] \in Nat
  BY Types DEF EngineInv
<1>2. ASSUME NEW b \in DOMAIN branches
      PROVE  /\ HeadChain(b) \in StoredChains /\ HeadChain(b) \in ChainType
             /\ Within(HeadChain(b), Heads) /\ b \in Branches
             /\ branches[b].chain \in ChainType /\ Within(branches[b].chain, Heads)
             /\ HeadChain(b) = <<[branch |-> b, seq |-> Heads[b]]>> \o branches[b].chain
  BY Types, HeadChainWithin DEF EngineInv, StoredChains
<1>3. \A c \in DOMAIN commits : /\ commits[c].chain \in StoredChains
                                /\ commits[c].chain \in ChainType /\ Within(commits[c].chain, Heads)
  BY Types DEF EngineInv, ChainsWithin, StoredChains
<1>4. ASSUME NEW x, Within(x, Heads) PROVE Names(x) \subseteq DOMAIN branches
  BY <1>1, <1>4 DEF Within, Names
<1>5. \A x \in StoredChains : x \in ChainType /\ Within(x, Heads)
  BY <1>2, <1>3 DEF StoredChains
<1>6. ASSUME NEW b \in DOMAIN branches
      PROVE  /\ Names(HeadChain(b)) = {b} \cup Names(branches[b].chain)
             /\ \A v : Covers(HeadChain(b), v)
                         <=> (b = v.branch /\ v.from <= Heads[b]) \/ Covers(branches[b].chain, v)
  <2> DEFINE n == Heads[b]
             chain == branches[b].chain
             new == <<[branch |-> b, seq |-> n]>> \o chain
  <2>1. b \in Branches /\ n \in Nat /\ chain \in ChainType /\ HeadChain(b) = new
    BY <1>1, <1>2
  <2> HIDE DEF n, chain
  <2>2. Names(new) = {b} \cup Names(chain)
    BY <2>1, NamesPrepend
  <2>3. \A v : Covers(new, v) <=> (b = v.branch /\ v.from <= n) \/ Covers(chain, v)
    BY <2>1, CoversPrepend DEF ChainType
  <2> QED
    BY <2>1, <2>2, <2>3 DEF n, chain
<1>7. \A b \in DOMAIN branches : Names(branches[b].chain) \subseteq DOMAIN branches
  BY <1>2, <1>4
<1>8. \A x \in StoredChains : Names(x) \subseteq DOMAIN branches
  BY <1>4, <1>5
<1> QED
  BY <1>1, <1>2, <1>3, <1>5, <1>6, <1>7, <1>8

(* The masks of what one chain covers and the other does not name every    *)
(* column in which a branch differs from a commit (engine.go:660-706).     *)
LEMMA MasksCover ==
  ASSUME MaskInv, NEW b \in DOMAIN branches, NEW base \in DOMAIN commits, NEW pk \in PKs
  PROVE  MaskOf(StateAtCommit(base)[pk], Resolve(b)[pk]) \subseteq MaskSince(b, base, pk)
<1> DEFINE x == commits[base].chain
           y == HeadChain(b)
<1>1. /\ x \in StoredChains /\ y \in StoredChains /\ x \in ChainType /\ y \in ChainType
      /\ y = <<[branch |-> b, seq |-> Heads[b]]>> \o branches[b].chain
  BY StoredFacts DEF MaskInv
<1>2. Distinct(x) /\ Distinct(y)
  <2>1. /\ branches[b].chain \in ChainType /\ b \in Branches /\ Heads[b] \in Nat
    BY HeadChainWithin, Types DEF MaskInv, EngineInv
  <2>2. Distinct(branches[b].chain) /\ b \notin Names(branches[b].chain) /\ Distinct(x)
    BY DEF MaskInv, ForkInv, ChainsDistinct, Lineage
  <2> HIDE DEF x, y
  <2> QED
    BY <1>1, <2>1, <2>2, NamesPrepend
<1>3. StateAtCommit(base)[pk] = Shown(Pub, x, pk) /\ Resolve(b)[pk] = Shown(Pub, y, pk)
  BY ViewsAre
<1>4. MaskOf(Shown(Pub, x, pk), Shown(Pub, y, pk))
        \subseteq UNION {v.changed : v \in {w \in Pub :
                           w.pk = pk /\ ~(Covers(x, w) <=> Covers(y, w))}}
  BY <1>1, EditsCoverDivergence DEF MaskInv
<1>5. ASSUME NEW v \in Pub, v.pk = pk, ~(Covers(x, v) <=> Covers(y, v))
      PROVE  v.changed \subseteq MaskSince(b, base, pk)
  <2>1. v.from \in Nat /\ 1 <= v.from
    BY Types DEF MaskInv, EngineInv, Numbered, Placed
  <2>2. /\ Upper(x, v.branch) \in Nat /\ (Covers(x, v) <=> v.from <= Upper(x, v.branch))
        /\ Upper(y, v.branch) \in Nat /\ (Covers(y, v) <=> v.from <= Upper(y, v.branch))
    <3> HIDE DEF x, y
    <3> QED
      BY <1>1, <1>2, <2>1, UpperCovers
  <2>3. \/ Upper(x, v.branch) < v.from /\ v.from <= Upper(y, v.branch)
        \/ Upper(y, v.branch) < v.from /\ v.from <= Upper(x, v.branch)
    BY <1>5, <2>1, <2>2
  <2>4. v \in rows /\ v.session = NoSession
    BY DEF Pub
  <2> QED
    BY <1>5, <2>3, <2>4 DEF MaskSince
<1> QED
  BY <1>3, <1>4, <1>5

-----------------------------------------------------------------------------
(* What a commit does to the forks.                                        *)

(* What a commit may record as the chain that b inherits: the one b has,   *)
(* or one that covers more of the same branches (engine.go:437-500,        *)
(* 795-839).                                                               *)
Inherits(b, tail) ==
  /\ Names(tail) = Names(branches[b].chain) /\ Distinct(tail)
  /\ \A v \in Pub : Covers(branches[b].chain, v) => Covers(tail, v)
  /\ \E like \in StoredChains :
       /\ Names(tail) \subseteq Names(like)
       /\ \A v \in Pub : v.branch # b /\ Covers(tail, v) => Covers(like, v)

ForkCovers(b, tail, fork) ==
  b # Main => \A v \in Pub : Covers(commits[fork].chain, v) <=> Covers(tail, v)

(* The chain that b has is one.                                            *)
LEMMA InheritsOwn ==
  ASSUME EngineInv, ForkInv, NEW b \in DOMAIN branches
  PROVE  Inherits(b, branches[b].chain) /\ ForkCovers(b, branches[b].chain, branches[b].fork)
<1>1. Distinct(branches[b].chain)
  BY DEF ForkInv, ChainsDistinct
<1>2. /\ HeadChain(b) \in StoredChains
      /\ Names(branches[b].chain) \subseteq Names(HeadChain(b))
      /\ \A v : Covers(branches[b].chain, v) => Covers(HeadChain(b), v)
  BY StoredFacts
<1>3. ForkCovers(b, branches[b].chain, branches[b].fork)
  BY DEF ForkCovers, ForkInv, HeadsCover
<1> QED
  BY <1>1, <1>2, <1>3 DEF Inherits

(* The parent's head chain is another: fork points only advance.           *)
LEMMA InheritsParent ==
  ASSUME EngineInv, ForkInv, NEW b \in DOMAIN branches, b # Main,
         NEW p, p = branches[b].parent
  PROVE  Inherits(b, HeadChain(p)) /\ ForkCovers(b, HeadChain(p), branches[p].head)
<1>1. p \in DOMAIN branches
  BY Types DEF EngineInv
<1>2. /\ Names(branches[b].chain) = {p} \cup Names(branches[p].chain)
      /\ p \notin Names(branches[p].chain)
  BY <1>1 DEF ForkInv, Lineage
<1>3. /\ \A x \in DOMAIN branches : /\ HeadChain(x) \in StoredChains /\ HeadChain(x) \in ChainType
                                    /\ Names(HeadChain(x)) = {x} \cup Names(branches[x].chain)
      /\ \A x \in DOMAIN branches : \A v : Covers(HeadChain(x), v)
            <=> (x = v.branch /\ v.from <= Heads[x]) \/ Covers(branches[x].chain, v)
  BY StoredFacts
<1>4. Distinct(HeadChain(p))
  <2>1. /\ p \in Branches /\ branches[p].chain \in ChainType /\ Heads[p] \in Nat
        /\ HeadChain(p) = <<[branch |-> p, seq |-> Heads[p]]>> \o branches[p].chain
    BY <1>1, Types, HeadChainWithin DEF EngineInv
  <2>2. Distinct(branches[p].chain)
    BY <1>1 DEF ForkInv, ChainsDistinct
  <2> QED
    BY <1>2, <2>1, <2>2, NamesPrepend
<1>5. ASSUME NEW v \in Pub, Covers(branches[b].chain, v) PROVE Covers(HeadChain(p), v)
  <2>1. v.branch \in Names(branches[b].chain)
    BY <1>5, CoversNamed
  <2>2. CASE v.branch = p
    BY <1>1, <1>3, <2>2 DEF EngineInv, Placed
  <2>3. CASE v.branch \in Names(branches[p].chain)
    <3>1. Covers(HeadChain(b), v) /\ p \in Names(HeadChain(b)) /\ HeadChain(b) \in StoredChains
      BY <1>2, <1>3, <1>5
    <3>2. Covers(branches[p].chain, v)
      BY <1>1, <2>3, <3>1 DEF ForkInv, ForksAdvance
    <3> QED
      BY <1>1, <1>3, <3>2
  <2> QED
    BY <1>2, <2>1, <2>2, <2>3
<1>6. ForkCovers(b, HeadChain(p), branches[p].head)
  BY <1>1 DEF ForkCovers, ForkInv, HeadsCover
<1> QED
  BY <1>1, <1>2, <1>3, <1>4, <1>5, <1>6 DEF Inherits

(* The chain of a commit, above what its branch inherits.                  *)
LEMMA Extended ==
  ASSUME EngineInv, NEW b, NEW tail, NEW new, NEW parents, Publishes(b, tail, new, parents)
  PROVE  LET after == <<[branch |-> b, seq |-> NextSeq(b)]>> \o tail
         IN  /\ Names(after) = {b} \cup Names(tail)
             /\ after \in ChainType
             /\ Distinct(tail) /\ b \notin Names(tail) => Distinct(after)
             /\ \A v : Covers(after, v)
                         <=> (b = v.branch /\ v.from <= NextSeq(b)) \/ Covers(tail, v)
<1> DEFINE n == NextSeq(b)
           after == <<[branch |-> b, seq |-> n]>> \o tail
<1>1. b \in Branches /\ n \in Nat /\ tail \in ChainType
  BY Types DEF Publishes, EngineInv
<1> HIDE DEF n
<1>2. after \in ChainType
  BY <1>1, Prepend DEF ChainType
<1>3. /\ Names(after) = {b} \cup Names(tail)
      /\ Distinct(tail) /\ b \notin Names(tail) => Distinct(after)
  BY <1>1, NamesPrepend
<1>4. \A v : Covers(after, v) <=> (b = v.branch /\ v.from <= n) \/ Covers(tail, v)
  BY <1>1, CoversPrepend DEF ChainType
<1> QED
  BY <1>2, <1>3, <1>4 DEF n

(* The stored chains and what they cover after a commit.                   *)
LEMMA PublishCovers ==
  ASSUME EngineInv, NEW b, NEW tail, NEW new, NEW parents, Publishes(b, tail, new, parents),
         NEW after, after = <<[branch |-> b, seq |-> NextSeq(b)]>> \o tail
  PROVE  /\ \A u \in Pub' :
              \/ u.branch = b /\ u.from = NextSeq(b) /\ \A x \in StoredChains : ~Covers(x, u)
              \/ \E v \in Pub : /\ \A x : Covers(x, u) <=> Covers(x, v)
                                /\ u.branch = v.branch
         /\ HeadChain(b)' = after
         /\ \A x \in DOMAIN branches : x # b => HeadChain(x)' = HeadChain(x)
         /\ \A x \in StoredChains' : x \in StoredChains \/ x = after
<1>1. PICK age : Lands(Pub, Pub', age, new, b, NextSeq(b), MaxSeq)
  BY DEF Publishes
<1>2. AtHead(Heads, b, NextSeq(b), MaxSeq)
  BY EngineInvIs, PublishRaises
<1>3. /\ b \in Branches /\ NextSeq(b) \in Nat /\ tail \in ChainType /\ b \in DOMAIN branches
      /\ DOMAIN commits = 1 .. Len(commits) /\ Len(commits) \in Nat
  BY Types DEF Publishes, EngineInv
<1>4. \A x \in StoredChains : x \in ChainType /\ Within(x, Heads)
  BY StoredFacts
<1>5. ASSUME NEW w \in new
      PROVE  /\ w.branch = b /\ w.from = NextSeq(b)
             /\ \A x \in StoredChains : ~Covers(x, w)
  <2>1. w.branch = b /\ w.from = NextSeq(b)
    BY <1>1 DEF Lands
  <2>2. ASSUME NEW x \in StoredChains PROVE ~Covers(x, w)
    <3>1. x \in Chains(Branches) /\ Within(x, Heads)
      BY <1>4 DEF ChainType
    <3> QED
      BY <1>1, <1>2, <3>1, NewUncovered
  <2> QED
    BY <2>1, <2>2
<1>6. \A v \in Pub : age[v].branch = v.branch /\ \A x : Covers(x, age[v]) <=> Covers(x, v)
  BY <1>1 DEF Lands, Covers
<1>7. ASSUME NEW u \in Pub'
      PROVE  \/ u.branch = b /\ u.from = NextSeq(b) /\ \A x \in StoredChains : ~Covers(x, u)
             \/ \E v \in Pub : (\A x : Covers(x, u) <=> Covers(x, v)) /\ u.branch = v.branch
  <2>1. u \in new \/ \E v \in Pub : u = age[v]
    BY <1>1 DEF Lands
  <2> QED
    BY <1>5, <1>6, <2>1
<1>8. /\ branches'[b].headSeq = NextSeq(b) /\ branches'[b].chain = tail
      /\ DOMAIN branches' = DOMAIN branches
      /\ commits'[NewId].chain = after /\ DOMAIN commits' = 1 .. Len(commits) + 1
      /\ NewId = Len(commits) + 1
      /\ \A c \in DOMAIN commits : commits'[c] = commits[c]
  BY AfterPublish, EngineInvIs DEF StoreInv, NewId
<1>9. HeadChain(b)' = after
  BY <1>8 DEF HeadChain, ChainFor, Segment
<1>10. \A x \in DOMAIN branches : x # b => HeadChain(x)' = HeadChain(x)
  BY EngineInvIs, PublishStable
<1>11. ASSUME NEW x \in StoredChains' PROVE x \in StoredChains \/ x = after
  <2>1. CASE \E y \in DOMAIN branches' : x = HeadChain(y)'
    <3>1. PICK y \in DOMAIN branches : x = HeadChain(y)'
      BY <1>8, <2>1
    <3> QED
      BY <1>9, <1>10, <3>1 DEF StoredChains
  <2>2. CASE \E c \in DOMAIN commits' : x = commits'[c].chain
    <3>1. PICK c \in DOMAIN commits' : x = commits'[c].chain
      BY <2>2
    <3>2. c \in DOMAIN commits \/ c = NewId
      BY <1>3, <1>8
    <3> QED
      BY <1>8, <3>1, <3>2 DEF StoredChains
  <2> QED
    BY <2>1, <2>2 DEF StoredChains
<1> QED
  BY <1>7, <1>9, <1>10, <1>11

(* A commit keeps the invariant of the forks.                              *)
LEMMA PublishForks ==
  ASSUME EngineInv, ForkInv, NEW b, NEW tail, NEW new, NEW parents,
         Publishes(b, tail, new, parents), Inherits(b, tail),
         NEW fork, fork = branches'[b].fork, ForkCovers(b, tail, fork)
  PROVE  ForkInv'
<1>0. PICK after : after = <<[branch |-> b, seq |-> NextSeq(b)]>> \o tail
  OBVIOUS
<1>1. /\ \A u \in Pub' :
           \/ u.branch = b /\ u.from = NextSeq(b) /\ \A x \in StoredChains : ~Covers(x, u)
           \/ \E v \in Pub : /\ \A x : Covers(x, u) <=> Covers(x, v)
                             /\ u.branch = v.branch
      /\ Names(after) = {b} \cup Names(tail)
      /\ Distinct(tail) /\ b \notin Names(tail) => Distinct(after)
      /\ \A v : Covers(after, v) <=> (b = v.branch /\ v.from <= NextSeq(b)) \/ Covers(tail, v)
      /\ HeadChain(b)' = after
      /\ \A x \in DOMAIN branches : x # b => HeadChain(x)' = HeadChain(x)
      /\ \A x \in StoredChains' : x \in StoredChains \/ x = after
  <2> DEFINE n == NextSeq(b)
  <2>1. after = <<[branch |-> b, seq |-> n]>> \o tail
    BY <1>0
  <2>2. /\ Names(after) = {b} \cup Names(tail)
        /\ Distinct(tail) /\ b \notin Names(tail) => Distinct(after)
        /\ \A v : Covers(after, v) <=> (b = v.branch /\ v.from <= n) \/ Covers(tail, v)
    BY <1>0, Extended
  <2> QED
    BY <1>0, <2>2, PublishCovers
<1>2. /\ DOMAIN branches' = DOMAIN branches /\ b \in DOMAIN branches
      /\ \A x \in DOMAIN branches : x # b => branches'[x] = branches[x]
      /\ branches'[b].chain = tail /\ branches'[b].head = NewId
      /\ branches'[b].parent = branches[b].parent /\ fork \in DOMAIN commits
      /\ \A c \in DOMAIN commits : commits'[c] = commits[c]
      /\ commits'[NewId].chain = after
      /\ DOMAIN commits' = 1 .. Len(commits) + 1 /\ NewId = Len(commits) + 1
  BY <1>0, AfterPublish, EngineInvIs DEF StoreInv, NewId, Publishes
<1>3. /\ Len(commits) \in Nat /\ DOMAIN commits = 1 .. Len(commits)
      /\ \A x \in DOMAIN branches : /\ branches[x].head \in DOMAIN commits
                                    /\ branches[x].fork \in DOMAIN commits
                                    /\ branches[x].parent \in DOMAIN branches
  BY Types DEF EngineInv
<1>4. \A x \in DOMAIN branches : Names(branches'[x].chain) = Names(branches[x].chain)
  BY <1>2 DEF Inherits
<1>5. \A x \in DOMAIN branches : branches'[x].parent = branches[x].parent
  BY <1>2
<1>6. Lineage'
  <2>1. \A x \in DOMAIN branches : Names(branches[x].chain) \subseteq DOMAIN branches
    BY StoredFacts
  <2> SUFFICES ASSUME NEW x \in DOMAIN branches
               PROVE  /\ x \notin Names(branches'[x].chain)
                      /\ x = Main => Names(branches'[x].chain) = {}
                      /\ x # Main => Names(branches'[x].chain)
                           = {branches'[x].parent} \cup Names(branches'[branches'[x].parent].chain)
                      /\ \A y \in Names(branches'[x].chain) :
                           Names(branches'[y].chain) \subseteq Names(branches'[x].chain)
    BY <1>2 DEF Lineage
  <2>2. /\ x \notin Names(branches[x].chain)
        /\ x = Main => Names(branches[x].chain) = {}
        /\ x # Main => Names(branches[x].chain)
                         = {branches[x].parent} \cup Names(branches[branches[x].parent].chain)
        /\ \A y \in Names(branches[x].chain) :
             Names(branches[y].chain) \subseteq Names(branches[x].chain)
    BY DEF ForkInv, Lineage
  <2> QED
    BY <1>3, <1>4, <1>5, <2>1, <2>2
<1>7. b \notin Names(tail)
  BY <1>2 DEF Inherits, ForkInv, Lineage
<1>8. ChainsDistinct'
  <2>1. \A x \in DOMAIN branches : Distinct(branches'[x].chain)
    BY <1>2 DEF Inherits, ForkInv, ChainsDistinct
  <2>2. \A c \in DOMAIN commits' : Distinct(commits'[c].chain)
    <3>1. Distinct(after)
      BY <1>1, <1>7 DEF Inherits
    <3>2. \A c \in DOMAIN commits' : c \in DOMAIN commits \/ c = NewId
      BY <1>2, <1>3
    <3>3. \A c \in DOMAIN commits : Distinct(commits[c].chain)
      BY DEF ForkInv, ChainsDistinct
    <3> QED
      BY <1>2, <3>1, <3>2, <3>3
  <2> QED
    BY <1>2, <2>1, <2>2 DEF ChainsDistinct, Distinct
<1>9. \A v \in Pub : Covers(branches[b].chain, v) => Covers(tail, v)
  BY DEF Inherits
<1>10. ASSUME NEW x \in DOMAIN branches, NEW v \in Pub, Covers(branches[x].chain, v)
       PROVE  Covers(branches'[x].chain, v)
  BY <1>2, <1>9, <1>10
<1>11. ForksAdvance'
  <2> SUFFICES ASSUME NEW chain \in StoredChains', NEW x \in DOMAIN branches', NEW u \in Pub',
                      x \in Names(chain), u.branch \in Names(branches'[x].chain), Covers(chain, u)
               PROVE  Covers(branches'[x].chain, u)
    BY DEF ForksAdvance, Names, Covers
  <2>1. x \in DOMAIN branches /\ u.branch \in Names(branches[x].chain)
    BY <1>2, <1>4
  <2>2. \A y \in Names(tail) : b \notin Names(branches[y].chain)
    BY <1>2, <1>7 DEF Inherits, ForkInv, Lineage
  <2>3. CASE u.branch = b /\ u.from = NextSeq(b) /\ \A y \in StoredChains : ~Covers(y, u)
    <3>1. chain = after
      BY <1>1, <2>3
    <3>2. x = b \/ x \in Names(tail)
      BY <1>1, <3>1
    <3> QED
      BY <1>2, <2>1, <2>2, <2>3, <3>2 DEF ForkInv, Lineage
  <2>4. ASSUME NEW v \in Pub, \A y : Covers(y, u) <=> Covers(y, v), u.branch = v.branch
        PROVE  Covers(branches'[x].chain, u)
    <3>1. CASE chain \in StoredChains
      <4>1. Covers(branches[x].chain, v)
        BY <2>1, <2>4, <3>1 DEF ForkInv, ForksAdvance
      <4> QED
        BY <1>10, <2>1, <2>4, <4>1
    <3>2. CASE chain = after /\ x = b
      <4>1. u.branch # b
        BY <1>2, <2>1, <3>2 DEF ForkInv, Lineage
      <4> QED
        BY <1>1, <1>2, <3>2, <4>1
    <3>3. CASE chain = after /\ x # b
      <4>1. x \in Names(tail)
        BY <1>1, <3>3
      <4>2. u.branch # b
        BY <2>1, <2>2, <4>1
      <4>3. Covers(tail, v) /\ v.branch # b
        BY <1>1, <2>4, <3>3, <4>2
      <4>4. PICK like \in StoredChains : /\ Names(tail) \subseteq Names(like)
                                         /\ \A w \in Pub : w.branch # b /\ Covers(tail, w)
                                                             => Covers(like, w)
        BY DEF Inherits
      <4>5. Covers(branches[x].chain, v)
        BY <2>1, <2>4, <4>1, <4>3, <4>4 DEF ForkInv, ForksAdvance
      <4> QED
        BY <1>10, <2>1, <2>4, <4>5
    <3> QED
      BY <1>1, <3>1, <3>2, <3>3
  <2> QED
    BY <1>1, <2>3, <2>4
<1>12. HeadsCover'
  <2> SUFFICES ASSUME NEW x \in DOMAIN branches', NEW u \in Pub'
               PROVE  /\ Covers(commits'[branches'[x].head].chain, u) <=> Covers(HeadChain(x)', u)
                      /\ x # Main => (Covers(commits'[branches'[x].fork].chain, u)
                                        <=> Covers(branches'[x].chain, u))
    BY DEF HeadsCover, Covers
  <2>1. x \in DOMAIN branches
    BY <1>2
  <2>2. \A y \in DOMAIN branches :
          /\ HeadChain(y) \in StoredChains
          /\ \A v : Covers(branches[y].chain, v) => Covers(HeadChain(y), v)
    BY StoredFacts
  <2>3. \A c \in DOMAIN commits : commits[c].chain \in StoredChains
    BY StoredFacts
  <2>4. Covers(tail, u) /\ (\A y \in StoredChains : ~Covers(y, u)) => FALSE
    <3> SUFFICES ASSUME Covers(tail, u), \A y \in StoredChains : ~Covers(y, u) PROVE FALSE
      OBVIOUS
    <3>1. u.branch \in Names(tail)
      BY CoversNamed
    <3>2. u.branch # b
      BY <1>7, <3>1
    <3>3. PICK v \in Pub : (\A y : Covers(y, u) <=> Covers(y, v)) /\ u.branch = v.branch
      BY <1>1, <3>2
    <3> QED
      BY <3>2, <3>3 DEF Inherits
  <2>5. Covers(commits'[branches'[x].head].chain, u) <=> Covers(HeadChain(x)', u)
    <3>1. CASE x = b
      BY <1>1, <1>2, <3>1
    <3>2. CASE x # b
      <4>1. /\ commits'[branches'[x].head] = commits[branches[x].head]
            /\ HeadChain(x)' = HeadChain(x)
        BY <1>1, <1>2, <1>3, <2>1, <3>2
      <4>2. \A v \in Pub : Covers(commits[branches[x].head].chain, v) <=> Covers(HeadChain(x), v)
        BY <2>1 DEF ForkInv, HeadsCover
      <4> QED
        BY <1>1, <1>3, <2>1, <2>2, <2>3, <4>1, <4>2
    <3> QED
      BY <3>1, <3>2
  <2>6. ASSUME x # Main
        PROVE  Covers(commits'[branches'[x].fork].chain, u) <=> Covers(branches'[x].chain, u)
    <3>1. CASE x = b
      <4>1. /\ commits'[branches'[x].fork] = commits[fork] /\ branches'[x].chain = tail
            /\ commits[fork].chain \in StoredChains
        BY <1>2, <2>3, <3>1
      <4>2. \A v \in Pub : Covers(commits[fork].chain, v) <=> Covers(tail, v)
        BY <2>6, <3>1 DEF ForkCovers
      <4> QED
        BY <1>1, <2>4, <4>1, <4>2
    <3>2. CASE x # b
      <4>1. /\ commits'[branches'[x].fork] = commits[branches[x].fork]
            /\ branches'[x].chain = branches[x].chain
        BY <1>2, <1>3, <2>1, <3>2
      <4>2. \A v \in Pub : Covers(commits[branches[x].fork].chain, v) <=> Covers(branches[x].chain, v)
        BY <2>1, <2>6 DEF ForkInv, HeadsCover
      <4> QED
        BY <1>1, <1>3, <2>1, <2>2, <2>3, <4>1, <4>2
    <3> QED
      BY <3>1, <3>2
  <2> QED
    BY <2>5, <2>6
<1> QED
  BY <1>6, <1>8, <1>11, <1>12 DEF ForkInv

(* A fork keeps it: the new branch stands where its parent does            *)
(* (engine.go:178-214).                                                    *)
LEMMA ForkForks ==
  ASSUME EngineInv, ForkInv, Agree(Pub, StoredChains),
         NEW n \in Branches, NEW from \in DOMAIN branches, CreateBranch(n, from)
  PROVE  ForkInv' /\ Agree(Pub', StoredChains')
<1>0. PICK like, new : like = HeadChain(from) /\ new = <<[branch |-> n, seq |-> 0]>> \o like
  OBVIOUS
<1>1. /\ DOMAIN branches' = DOMAIN branches \cup {n} /\ n \notin DOMAIN branches
      /\ branches'[n] = Fork(from) /\ \A b \in DOMAIN branches : branches'[b] = branches[b]
      /\ HeadChain(n)' = new
      /\ \A b \in DOMAIN branches : HeadChain(b)' = HeadChain(b)
  BY <1>0, ForkKeeps
<1>2. UNCHANGED <<rows, commits, sessions>> /\ Pub' = Pub
  BY DEF CreateBranch, Pub
<1>3. /\ branches'[n].head = branches[from].head /\ branches'[n].parent = from
      /\ branches'[n].fork = branches[from].head /\ branches'[n].chain = like
  BY <1>0, <1>1 DEF Fork
<1>4. /\ like \in StoredChains /\ Names(like) = {from} \cup Names(branches[from].chain)
      /\ Names(like) \subseteq DOMAIN branches
      /\ \A x \in StoredChains : Names(x) \subseteq DOMAIN branches
      /\ \A b \in DOMAIN branches : Names(branches[b].chain) \subseteq DOMAIN branches
  BY <1>0, StoredFacts
<1>5. like \in ChainType /\ from \in Branches
  BY <1>0, HeadChainWithin, Types DEF EngineInv
<1>6. /\ Names(new) = {n} \cup Names(like)
      /\ Distinct(like) /\ n \notin Names(like) => Distinct(new)
  BY <1>0, <1>5, NamesPrepend
<1>7. \A v \in Pub : v.branch \in DOMAIN branches /\ v.from \in Nat /\ 1 <= v.from
  <2>1. Numbered(Pub) /\ DOMAIN Heads = DOMAIN branches
    BY Types DEF EngineInv
  <2> QED
    BY <2>1 DEF EngineInv, Placed, Numbered
<1>8. \A v \in Pub : Covers(new, v) <=> Covers(like, v)
  <2>1. \A v : Covers(new, v) <=> (n = v.branch /\ v.from <= 0) \/ Covers(like, v)
    BY <1>0, <1>5, CoversPrepend DEF ChainType
  <2> QED
    BY <1>1, <1>7, <2>1
<1>9. \A x \in StoredChains' : x \in StoredChains \/ x = new
  BY <1>1, <1>2 DEF StoredChains
<1>10. \A b \in DOMAIN branches : branches[b].parent \in DOMAIN branches /\ Main \in DOMAIN branches
  BY DEF EngineInv, TypeOK
<1>11. Lineage'
  <2> SUFFICES ASSUME NEW x \in DOMAIN branches'
               PROVE  /\ x \notin Names(branches'[x].chain)
                      /\ x = Main => Names(branches'[x].chain) = {}
                      /\ x # Main => Names(branches'[x].chain)
                           = {branches'[x].parent} \cup Names(branches'[branches'[x].parent].chain)
                      /\ \A y \in Names(branches'[x].chain) :
                           Names(branches'[y].chain) \subseteq Names(branches'[x].chain)
    BY DEF Lineage
  <2>1. \A b \in DOMAIN branches :
          /\ b \notin Names(branches[b].chain)
          /\ b = Main => Names(branches[b].chain) = {}
          /\ b # Main => Names(branches[b].chain)
                           = {branches[b].parent} \cup Names(branches[branches[b].parent].chain)
          /\ \A y \in Names(branches[b].chain) :
               Names(branches[y].chain) \subseteq Names(branches[b].chain)
    BY DEF ForkInv, Lineage
  <2>2. CASE x = n
    <3>1. branches'[x].chain = like /\ branches'[x].parent = from /\ branches'[from] = branches[from]
      BY <1>1, <1>3, <2>2
    <3>2. x # Main /\ x \notin Names(like)
      BY <1>1, <1>4, <1>10, <2>2
    <3>3. ASSUME NEW y \in Names(like) PROVE Names(branches'[y].chain) \subseteq Names(like)
      <4>1. y \in DOMAIN branches /\ branches'[y] = branches[y]
        BY <1>1, <1>4
      <4>2. y = from \/ y \in Names(branches[from].chain)
        BY <1>4
      <4> QED
        BY <1>4, <2>1, <4>1, <4>2
    <3> QED
      BY <1>4, <3>1, <3>2, <3>3
  <2>3. CASE x # n
    BY <1>1, <1>4, <1>10, <2>1, <2>3
  <2> QED
    BY <2>2, <2>3
<1>12. Distinct(like) /\ n \notin Names(like)
  <2>1. /\ from \in Branches /\ branches[from].chain \in ChainType /\ Heads[from] \in Nat
        /\ like = <<[branch |-> from, seq |-> Heads[from]]>> \o branches[from].chain
    BY <1>0, Types, HeadChainWithin DEF EngineInv
  <2>2. Distinct(branches[from].chain) /\ from \notin Names(branches[from].chain)
    BY DEF ForkInv, ChainsDistinct, Lineage
  <2> QED
    BY <1>1, <1>4, <2>1, <2>2, NamesPrepend
<1>13. ChainsDistinct'
  <2>1. ASSUME NEW x \in DOMAIN branches' PROVE Distinct(branches'[x].chain)
    <3>1. \A b \in DOMAIN branches : Distinct(branches[b].chain)
      BY DEF ForkInv, ChainsDistinct
    <3> QED
      BY <1>1, <1>3, <1>12, <3>1
  <2>2. \A c \in DOMAIN commits : Distinct(commits[c].chain)
    BY DEF ForkInv, ChainsDistinct
  <2> QED
    BY <1>2, <2>1, <2>2 DEF ChainsDistinct
<1>14. ForksAdvance'
  <2> SUFFICES ASSUME NEW chain \in StoredChains', NEW x \in DOMAIN branches', NEW u \in Pub',
                      x \in Names(chain), u.branch \in Names(branches'[x].chain), Covers(chain, u)
               PROVE  Covers(branches'[x].chain, u)
    BY DEF ForksAdvance
  <2>1. u \in Pub
    BY <1>2
  <2>2. CASE x = n
    <3>1. chain = new
      BY <1>1, <1>4, <1>9, <2>2
    <3> QED
      BY <1>3, <1>8, <2>1, <2>2, <3>1
  <2>3. CASE x # n
    <3>1. /\ x \in DOMAIN branches /\ branches'[x] = branches[x]
      BY <1>1, <2>3
    <3>2. PICK y \in StoredChains : x \in Names(y) /\ Covers(y, u)
      BY <1>4, <1>6, <1>8, <1>9, <2>1, <2>3
    <3> QED
      BY <2>1, <3>1, <3>2 DEF ForkInv, ForksAdvance
  <2> QED
    BY <2>2, <2>3
<1>15. HeadsCover'
  <2> SUFFICES ASSUME NEW x \in DOMAIN branches', NEW u \in Pub
               PROVE  /\ Covers(commits[branches'[x].head].chain, u) <=> Covers(HeadChain(x)', u)
                      /\ x # Main => (Covers(commits[branches'[x].fork].chain, u)
                                        <=> Covers(branches'[x].chain, u))
    BY <1>2 DEF HeadsCover
  <2>1. \A b \in DOMAIN branches :
          /\ Covers(commits[branches[b].head].chain, u) <=> Covers(HeadChain(b), u)
          /\ b # Main => (Covers(commits[branches[b].fork].chain, u) <=> Covers(branches[b].chain, u))
    BY DEF ForkInv, HeadsCover
  <2>2. CASE x = n
    BY <1>0, <1>1, <1>3, <1>8, <2>1, <2>2
  <2>3. CASE x # n
    BY <1>1, <2>1, <2>3
  <2> QED
    BY <2>2, <2>3
<1>16. Agree(Pub', StoredChains')
  <2>1. Numbered(Pub)
    BY Types DEF EngineInv
  <2>2. \A pk : Shown(Pub, new, pk) = Shown(Pub, like, pk)
    BY <1>0, <1>5, <1>7, <2>1, ForkShows DEF ChainType
  <2>3. Agree(Pub, StoredChains \cup {new})
    BY <1>4, <1>8, <2>2, AgreeWithLike
  <2> QED
    BY <1>2, <1>9, <2>3 DEF Agree
<1> QED
  BY <1>11, <1>13, <1>14, <1>15, <1>16 DEF ForkInv

-----------------------------------------------------------------------------
(* What a commit does to the masks.                                        *)

(* A commit from a view that agrees with the stored chains joins them      *)
(* (engine.go:437-500).                                                    *)
LEMMA PublishAgrees ==
  ASSUME EngineInv, Agree(Pub, StoredChains), NEW b, NEW tail, NEW new, NEW parents,
         Publishes(b, tail, new, parents), NEW n, n = Heads[b],
         NEW before, before = <<[branch |-> b, seq |-> n]>> \o tail,
         MasksName(Pub, before, new), ViewAgrees(Pub, StoredChains, before, new)
  PROVE  Agree(Pub', StoredChains')
<1>0. PICK m, after : m = NextSeq(b) /\ after = <<[branch |-> b, seq |-> m]>> \o tail
  OBVIOUS
<1>1. PICK age : Lands(Pub, Pub', age, new, b, m, MaxSeq)
  BY <1>0 DEF Publishes
<1>2. AtHead(Heads, b, m, MaxSeq)
  BY <1>0, EngineInvIs, PublishRaises
<1>3. Numbered(Pub) /\ Placed(Pub, Heads, MaxSeq) /\ Apart(Pub)
  BY Types DEF EngineInv
<1>4. b \in Branches /\ tail \in Chains(Branches) /\ Within(tail, Heads)
  BY Types DEF Publishes, EngineInv, ChainType
<1>5. AllWithin(StoredChains, Branches, Heads)
  BY StoredFacts DEF ChainType, AllWithin
<1>6. \A x \in StoredChains' : x \in StoredChains \/ x = after
  BY <1>0, PublishCovers, SMTT(60)
<1>7. before = <<[branch |-> b, seq |-> Heads[b]]>> \o tail
  OBVIOUS
<1>8. Agree(Pub', StoredChains \cup {after})
  BY <1>0, <1>1, <1>2, <1>3, <1>4, <1>5, <1>7, LandsAgree
<1>9. StoredChains' \in SUBSET (StoredChains \cup {after})
  BY <1>6
<1> QED
  BY <1>8, <1>9, AgreeFewer

(* The view of a branch at its head agrees as every stored chain does.     *)
LEMMA OwnViewAgrees ==
  ASSUME EngineInv, Agree(Pub, StoredChains), NEW b \in DOMAIN branches, NEW new
  PROVE  /\ HeadChain(b) = <<[branch |-> b, seq |-> Heads[b]]>> \o branches[b].chain
         /\ ViewAgrees(Pub, StoredChains, HeadChain(b), new)
<1>1. /\ HeadChain(b) \in StoredChains
      /\ HeadChain(b) = <<[branch |-> b, seq |-> Heads[b]]>> \o branches[b].chain
  BY StoredFacts
<1> QED
  BY <1>1 DEF ViewAgrees, Agree

(* A commit's masks are the difference from the view (engine.go:437-500).  *)
LEMMA FreshMasks ==
  ASSUME TypeOK, NEW b \in DOMAIN branches, NEW keys \in SUBSET PKs, NEW view, NEW after,
         \A pk \in keys : after[pk] \in Image, NEW before,
         \A pk \in PKs : view[pk] = Shown(Pub, before, pk)
  PROVE  MasksName(Pub, before, Fresh(b, keys, view, after))
<1>1. \A w \in Fresh(b, keys, view, after) :
        w.pk \in keys /\ w.row = after[w.pk] /\ w.changed = MaskOf(view[w.pk], after[w.pk])
  BY FreshFacts
<1> QED
  BY <1>1 DEF MasksName

(* What the staged masks become (engine.go:869-906).                       *)
LEMMA StampMasks ==
  ASSUME EngineInv, StagedMasks, NEW s \in DOMAIN sessions,
         NEW b, b = sessions[s].branch, branches[b].head = sessions[s].base
  PROVE  MasksName(Pub, HeadChain(b), SessionWrites(s))
<1>1. /\ b \in DOMAIN branches /\ s \in SessionIds /\ s # NoSession
  BY EngineAssumption DEF EngineInv, TypeOK
<1>2. \A v \in Staged(s) : /\ v.pk \in PKs
                           /\ MaskOf(StateAtCommit(sessions[s].base)[v.pk], v.row) \subseteq v.changed
  BY <1>1 DEF StagedMasks, Staged, EngineInv, TypeOK, VersionType
<1>3. Resolve(b) = StateAtCommit(sessions[s].base)
  BY <1>1 DEF EngineInv, HeadMatchesHistory
<1>4. \A pk \in PKs : Shown(Pub, HeadChain(b), pk) = StateAtCommit(sessions[s].base)[pk]
  BY <1>3, ViewsAre
<1>5. \A w \in SessionWrites(s) :
        \E v \in Staged(s) : w.pk = v.pk /\ w.row = v.row /\ w.changed = v.changed
  BY SessionWritesAre
<1> QED
  BY <1>2, <1>4, <1>5 DEF MasksName

(* The columns that a commit leaves alone are, in the result it writes, as *)
(* in the view it is made from.                                            *)
LeavesAlone(before, new, result) ==
  \A pk \in PKs, c \in Cols :
    ~(\E w \in new : w.pk = pk /\ c \in w.changed)
      => Get(Shown(Pub, before, pk), c) = Get(result[pk], c)

(* What an update writes is, where it leaves a column alone, what every    *)
(* chain with the same edits of it shows: where the branch has no edit of  *)
(* the column the merge took it from the parent, and where it has one, such*)
(* a chain goes through the branch, so that the branch inherits from it    *)
(* every edit of the parent's (engine.go:795-839).                         *)
LEMMA UpdateAgrees ==
  ASSUME MaskInv, NEW b \in DOMAIN branches, b # Main, NEW p, p = branches[b].parent,
         NEW f, f = branches[b].fork, MergeConflictsOf(b, p, f) = {},
         NEW tail, tail = HeadChain(p), NEW n, n = Heads[b],
         NEW before, before = <<[branch |-> b, seq |-> n]>> \o tail, NEW new,
         LeavesAlone(before, new, MergeResultOf(b, p, f))
  PROVE  ViewAgrees(Pub, StoredChains, before, new)
<1>1. /\ p \in DOMAIN branches /\ f \in DOMAIN commits
      /\ b \in Branches /\ Heads[b] \in Nat /\ tail \in ChainType
  BY Types DEF MaskInv, EngineInv
<1> DEFINE own == HeadChain(b)
           fork == commits[f].chain
<1>2. /\ own \in StoredChains /\ fork \in StoredChains /\ tail \in StoredChains
  BY <1>1, StoredFacts DEF MaskInv
<1>3. \A u \in Pub : /\ Covers(before, u) <=> b = u.branch \/ Covers(tail, u)
                     /\ Covers(own, u) <=> b = u.branch \/ Covers(branches[b].chain, u)
                     /\ Covers(fork, u) <=> Covers(branches[b].chain, u)
                     /\ Covers(branches[b].chain, u) => Covers(tail, u)
  <2> SUFFICES ASSUME NEW u \in Pub
               PROVE  /\ Covers(before, u) <=> b = u.branch \/ Covers(tail, u)
                      /\ Covers(own, u) <=> b = u.branch \/ Covers(branches[b].chain, u)
                      /\ Covers(fork, u) <=> Covers(branches[b].chain, u)
                      /\ Covers(branches[b].chain, u) => Covers(tail, u)
    OBVIOUS
  <2>1. u.branch = b => u.from <= Heads[b]
    BY DEF MaskInv, EngineInv, Placed
  <2>2. Covers(before, u) <=> (b = u.branch /\ u.from <= Heads[b]) \/ Covers(tail, u)
    BY <1>1, CoversPrepend DEF ChainType
  <2>3. Covers(own, u) <=> (b = u.branch /\ u.from <= Heads[b]) \/ Covers(branches[b].chain, u)
    BY StoredFacts DEF MaskInv
  <2>4. Covers(fork, u) <=> Covers(branches[b].chain, u)
    BY DEF MaskInv, ForkInv, HeadsCover
  <2>5. Covers(branches[b].chain, u) => Covers(tail, u)
    BY InheritsParent DEF MaskInv, Inherits
  <2> QED
    BY <2>1, <2>2, <2>3, <2>4, <2>5
<1>4. ASSUME NEW d \in StoredChains, NEW pk \in PKs, NEW c \in Cols,
             SameEdits(Pub, before, d, pk, c)
      PROVE  Get(MergeResultOf(b, p, f)[pk], c) = Get(Shown(Pub, d, pk), c)
  <2> DEFINE base == Shown(Pub, fork, pk)
             ours == Shown(Pub, own, pk)
             theirs == Shown(Pub, tail, pk)
             result == MergeResultOf(b, p, f)[pk]
  <2>1. /\ Get(ours, c) = Get(base, c) => Get(result, c) = Get(theirs, c)
        /\ Get(theirs, c) = Get(base, c) => Get(result, c) = Get(ours, c)
    <3> DEFINE cand == Candidates(b, p, f)[pk]
    <3>1. /\ base = StateAtCommit(f)[pk] /\ ours = Resolve(b)[pk] /\ theirs = Resolve(p)[pk]
          /\ base \in Image /\ ours \in Image /\ theirs \in Image
      BY <1>1, ViewsAre, ShownType DEF MaskInv, EngineInv
    <3>2. /\ cand \in Mask
          /\ cand = MaskSince(b, f, pk) \cup MaskSince(p, f, pk)
      BY MergeTypes DEF MaskInv, EngineInv, Candidates, Mask
    <3>3. Examined(cand, base, ours) /\ Examined(cand, base, theirs)
      BY <1>1, <3>1, <3>2, MasksCover DEF Examined
    <3>4. Settled(pk, base, ours, theirs, cand)
      BY <3>1 DEF MergeConflictsOf, MergeConflicts, Settled
    <3>5. result = MergedImage(base, ours, theirs, cand)
      BY <3>1 DEF MergeResultOf, MergedTable
    <3> HIDE DEF base, ours, theirs, result, cand
    <3>6. LET m == MergedImage(base, ours, theirs, cand)
          IN  /\ Get(ours, c) = Get(base, c) => Get(m, c) = Get(theirs, c)
              /\ Get(theirs, c) = Get(base, c) => Get(m, c) = Get(ours, c)
      BY <3>1, <3>2, <3>3, <3>4, ColumnMerges
    <3> QED
      BY <3>5, <3>6
  <2>2. CASE ~\E u \in Pub : u.pk = pk /\ c \in u.changed /\ u.branch = b
    <3>1. SameEdits(Pub, own, fork, pk, c) /\ SameEdits(Pub, tail, d, pk, c)
      BY <1>3, <1>4, <2>2 DEF SameEdits
    <3>2. Get(ours, c) = Get(base, c) /\ Get(theirs, c) = Get(Shown(Pub, d, pk), c)
      BY <1>2, <3>1 DEF MaskInv, Agree
    <3> QED
      BY <2>1, <3>2
  <2>3. CASE \E u \in Pub : u.pk = pk /\ c \in u.changed /\ u.branch = b
    <3>1. b \in Names(d)
      BY <1>3, <1>4, <2>3, CoversNamed DEF SameEdits
    <3>2. ASSUME NEW u \in Pub, u.pk = pk, c \in u.changed
          PROVE  Covers(tail, u) <=> Covers(branches[b].chain, u)
      <4>1. Covers(tail, u) => Covers(d, u) /\ u.branch \in Names(tail)
        BY <1>3, <1>4, <3>2, CoversNamed DEF SameEdits
      <4>2. Names(tail) = Names(branches[b].chain)
        BY InheritsParent DEF MaskInv, Inherits
      <4>3. Covers(d, u) /\ u.branch \in Names(branches[b].chain)
              => Covers(branches[b].chain, u)
        BY <3>1 DEF MaskInv, ForkInv, ForksAdvance
      <4> QED
        BY <1>3, <4>1, <4>2, <4>3
    <3>3. SameEdits(Pub, tail, fork, pk, c) /\ SameEdits(Pub, own, d, pk, c)
      BY <1>3, <1>4, <3>2 DEF SameEdits
    <3>4. Get(theirs, c) = Get(base, c) /\ Get(ours, c) = Get(Shown(Pub, d, pk), c)
      BY <1>2, <3>3 DEF MaskInv, Agree
    <3> QED
      BY <2>1, <3>4
  <2> QED
    BY <2>2, <2>3
<1> QED
  BY <1>4 DEF ViewAgrees, LeavesAlone

-----------------------------------------------------------------------------
(* The steps.                                                              *)

(* A commit of a branch from its own head keeps what concerns the published*)
(* versions (engine.go:437-500).                                           *)
LEMMA OwnMasks ==
  ASSUME MaskInv, NEW b \in DOMAIN branches, NEW new, NEW parents,
         Publishes(b, branches[b].chain, new, parents), branches'[b].fork = branches[b].fork,
         MasksName(Pub, HeadChain(b), new)
  PROVE  ForkInv' /\ Agree(Pub', StoredChains')
<1> DEFINE tail == branches[b].chain
           before == HeadChain(b)
<1>1. PICK n, fork : n = Heads[b] /\ fork = branches[b].fork
  OBVIOUS
<1>2. /\ before = <<[branch |-> b, seq |-> n]>> \o tail
      /\ ViewAgrees(Pub, StoredChains, before, new)
  BY <1>1, OwnViewAgrees DEF MaskInv
<1>3. Inherits(b, tail) /\ ForkCovers(b, tail, fork)
  BY <1>1, InheritsOwn DEF MaskInv
<1>4. fork = branches'[b].fork /\ Publishes(b, tail, new, parents) /\ MasksName(Pub, before, new)
  BY <1>1
<1>5. EngineInv /\ ForkInv /\ Agree(Pub, StoredChains)
  BY DEF MaskInv
<1> HIDE DEF tail, before
<1>6. ForkInv'
  BY <1>3, <1>4, <1>5, PublishForks
<1>7. Agree(Pub', StoredChains')
  BY <1>1, <1>2, <1>4, <1>5, PublishAgrees
<1> QED
  BY <1>6, <1>7

(* What is staged stays masked while sessions only end (engine.go:869-924).*)
LEMMA StagedKeep ==
  ASSUME EngineInv, EngineInv', StagedMasks, Grows, Stage' \subseteq Stage
  PROVE  StagedMasks'
<1>1. ASSUME NEW v \in rows', v.session # NoSession, NEW m, m = sessions'[v.session].base
      PROVE  MaskOf(StateAtCommit(m)'[v.pk], v.row) \subseteq v.changed
  <2>1. v \in Stage' /\ v \in Stage
    BY <1>1 DEF Stage
  <2>2. v.session \in DOMAIN sessions /\ v.session \in DOMAIN sessions'
    BY <2>1, OwnedIs DEF EngineInv
  <2>3. m = sessions[v.session].base /\ m \in DOMAIN commits
    BY <1>1, <2>2 DEF Grows, EngineInv, TypeOK
  <2>4. StateAtCommit(m)' = StateAtCommit(m)
    BY <2>3 DEF Grows
  <2>5. MaskOf(StateAtCommit(m)[v.pk], v.row) \subseteq v.changed
    BY <2>1, <2>3 DEF StagedMasks, Stage
  <2> QED
    BY <2>4, <2>5
<1> QED
  BY <1>1 DEF StagedMasks

(* A step that leaves the published versions alone.                        *)
LEMMA QuietMasks ==
  ASSUME ForkInv, Agree(Pub, StoredChains), Pub' = Pub, UNCHANGED <<branches, commits>>
  PROVE  ForkInv' /\ Agree(Pub', StoredChains')
<1>1. \A b : HeadChain(b)' = HeadChain(b)
  BY DEF HeadChain, ChainFor, Segment
<1>2. StoredChains' = StoredChains
  BY <1>1 DEF StoredChains
<1>3. Lineage' /\ ChainsDistinct'
  BY DEF ForkInv, Lineage, ChainsDistinct
<1>4. ForksAdvance' /\ HeadsCover'
  BY <1>1, <1>2 DEF ForkInv, ForksAdvance, HeadsCover
<1> QED
  BY <1>2, <1>3, <1>4 DEF ForkInv

(* A commit moves the head and not the fork point (engine.go:437-500).     *)
LEMMA ForkStays ==
  ASSUME TypeOK, NEW b \in DOMAIN branches, MoveHead(b)
  PROVE  branches'[b].fork = branches[b].fork
<1>1. branches' = [branches EXCEPT ![b] =
           [headSeq |-> NextSeq(b), head |-> NewId, parent |-> branches[b].parent,
            fork |-> branches[b].fork, chain |-> branches[b].chain]]
  BY HeadMoves
<1>2. branches \in [DOMAIN branches -> BranchType]
  BY DEF TypeOK
<1> QED
  BY <1>1, <1>2

(* A write of a change set does (engine.go:437-500).                       *)
LEMMA CommitMasks ==
  ASSUME MaskInv, NEW b \in DOMAIN branches, NEW cs \in ChangeSets, Commit(b, cs)
  PROVE  ForkInv' /\ Agree(Pub', StoredChains')
<1> DEFINE view == Resolve(b)
           keys == Effective(cs, view)
           before == HeadChain(b)
<1>1. keys \in SUBSET PKs /\ \A pk \in keys : cs[pk] \in Image
  BY EngineAssumption DEF ChangeSet, Effective
<1>2. \A pk \in PKs : view[pk] = Shown(Pub, before, pk)
  BY ViewsAre
<1>3. MasksName(Pub, before, Fresh(b, keys, view, cs))
  <2> HIDE DEF keys, view, before
  <2> QED
    BY <1>1, <1>2, FreshMasks DEF MaskInv, EngineInv
<1>4. CommitWrites(b, cs) = Fresh(b, keys, view, cs)
  BY DEF CommitWrites
<1>5. branches'[b].fork = branches[b].fork
  <2>1. MoveHead(b)
    BY DEF Commit
  <2> QED
    BY <2>1, ForkStays DEF MaskInv, EngineInv
<1>6. PICK new, parents : /\ Publishes(b, branches[b].chain, new, parents)
                          /\ new = CommitWrites(b, cs)
  BY CommitPublishes DEF MaskInv
<1> HIDE DEF keys, view
<1> QED
  BY <1>3, <1>4, <1>5, <1>6, OwnMasks

(* What a merge is made from, and what it writes (engine.go:795-839).      *)
LEMMA MergeWritesMasks ==
  ASSUME TypeOK, NEW b \in DOMAIN branches, NEW tail, NEW result \in [PKs -> Image],
         NEW n, n = Heads[b], NEW before, before = <<[branch |-> b, seq |-> n]>> \o tail
  PROVE  /\ MasksName(Pub, before, MergeWrites(b, tail, result))
         /\ LeavesAlone(before, MergeWrites(b, tail, result), result)
<1> DEFINE view == MergeView(b, tail)
           keys == {pk \in PKs : result[pk] # view[pk]}
           new == Fresh(b, keys, view, result)
<1>1. before = <<Segment(b, branches[b].headSeq)>> \o tail
  BY Types DEF Segment
<1>2. \A pk \in PKs : view[pk] = Shown(Pub, before, pk)
  BY <1>1, ViewsAre DEF MergeView
<1>3. keys \in SUBSET PKs /\ \A pk \in keys : result[pk] \in Image
  OBVIOUS
<1>4. MergeWrites(b, tail, result) = new
  BY DEF MergeWrites
<1>5. \A pk \in PKs : pk \notin keys => result[pk] = view[pk]
  OBVIOUS
<1> HIDE DEF keys, view
<1>6. MasksName(Pub, before, new)
  BY <1>2, <1>3, FreshMasks, SMTT(60)
<1>7. /\ \A pk \in keys : \E w \in new : w.pk = pk
      /\ \A w \in new : w.row = result[w.pk] /\ w.changed = MaskOf(view[w.pk], result[w.pk])
  BY <1>3, FreshFacts, SMTT(60)
<1>8. ASSUME NEW pk \in PKs, NEW c \in Cols, ~(\E w \in new : w.pk = pk /\ c \in w.changed)
      PROVE  Get(Shown(Pub, before, pk), c) = Get(result[pk], c)
  <2>1. CASE pk \in keys
    BY <1>2, <1>7, <1>8, <2>1 DEF MaskOf
  <2>2. CASE pk \notin keys
    BY <1>2, <1>5, <2>2
  <2> QED
    BY <2>1, <2>2
<1> QED
  BY <1>4, <1>6, <1>8 DEF LeavesAlone

(* A merge of two branches does (engine.go:795-839).                       *)
LEMMA MergeMasks ==
  ASSUME MaskInv, NEW from \in DOMAIN branches, NEW into \in DOMAIN branches, Merge(from, into)
  PROVE  ForkInv' /\ Agree(Pub', StoredChains')
<1>1. PICK base : Publishes(into, branches[into].chain,
                    MergeWrites(into, branches[into].chain, MergeResultOf(into, from, base)),
                    {branches[into].head, branches[from].head})
  BY MergePublishes DEF MaskInv
<1>2. PICK result, parents : /\ result = MergeResultOf(into, from, base)
                             /\ parents = {branches[into].head, branches[from].head}
  OBVIOUS
<1> DEFINE tail == branches[into].chain
           new == MergeWrites(into, tail, result)
<1>3. result \in [PKs -> Image]
  BY <1>2, MergeTypes DEF MaskInv, EngineInv
<1>4. HeadChain(into) = <<[branch |-> into, seq |-> Heads[into]]>> \o tail
  BY Types DEF MaskInv, EngineInv
<1>5. MasksName(Pub, HeadChain(into), new)
  BY <1>3, <1>4, MergeWritesMasks DEF MaskInv, EngineInv
<1>6. branches'[into].fork = branches[into].fork
  <2>1. MoveHead(into)
    BY DEF Merge
  <2> QED
    BY <2>1, ForkStays DEF MaskInv, EngineInv
<1>7. Publishes(into, branches[into].chain, new, parents)
  BY <1>1, <1>2
<1> HIDE DEF tail, new
<1> QED
  BY <1>5, <1>6, <1>7, OwnMasks

(* An update from the parent does (engine.go:795-839).                     *)
LEMMA UpdateMasks ==
  ASSUME MaskInv, NEW b \in DOMAIN branches, UpdateFromParent(b)
  PROVE  ForkInv' /\ Agree(Pub', StoredChains')
<1>1. PICK p, f, n : p = branches[b].parent /\ f = branches[b].fork /\ n = Heads[b]
  OBVIOUS
<1>2. PICK tail, result : tail = HeadChain(p) /\ result = MergeResultOf(b, p, f)
  OBVIOUS
<1>3. EngineInv /\ TypeOK /\ ForkInv /\ Agree(Pub, StoredChains)
  BY DEF MaskInv, EngineInv
<1>4. PICK new, parents : /\ new = MergeWrites(b, tail, result)
                          /\ Publishes(b, tail, new, parents)
  BY <1>1, <1>2, <1>3, UpdatePublishes
<1>5. b # Main /\ MergeConflictsOf(b, p, f) = {}
  BY <1>1 DEF UpdateFromParent
<1>6. PICK fork : fork = branches'[b].fork /\ fork = branches[p].head
  <2>1. branches' = [branches EXCEPT ![b].headSeq = NextSeq(b), ![b].head = NewId,
                                     ![b].fork = branches[p].head, ![b].chain = HeadChain(p)]
    BY <1>1 DEF UpdateFromParent
  <2>2. branches \in [DOMAIN branches -> BranchType]
    BY <1>3 DEF TypeOK
  <2> QED
    BY <2>1, <2>2 DEF BranchType
<1>7. Inherits(b, tail) /\ ForkCovers(b, tail, fork)
  BY <1>1, <1>2, <1>3, <1>5, <1>6, InheritsParent
<1>8. ForkInv'
  BY <1>3, <1>4, <1>6, <1>7, PublishForks
<1>9. PICK before : before = <<[branch |-> b, seq |-> n]>> \o tail
  OBVIOUS
<1>10. result \in [PKs -> Image]
  BY <1>2, <1>3, MergeTypes
<1>11. MasksName(Pub, before, new) /\ LeavesAlone(before, new, result)
  BY <1>1, <1>3, <1>4, <1>9, <1>10, MergeWritesMasks
<1>12. ViewAgrees(Pub, StoredChains, before, new)
  BY <1>1, <1>2, <1>5, <1>9, <1>11, UpdateAgrees
<1>13. Agree(Pub', StoredChains')
  BY <1>1, <1>3, <1>4, <1>9, <1>11, <1>12, PublishAgrees
<1> QED
  BY <1>8, <1>13

(* The publication of a session does (engine.go:869-906).                  *)
LEMMA SessionMasks ==
  ASSUME MaskInv, NEW s \in DOMAIN sessions, CommitSession(s)
  PROVE  ForkInv' /\ Agree(Pub', StoredChains')
<1>1. PICK b, new, parents : b = sessions[s].branch /\ new = SessionWrites(s)
                             /\ parents = {branches[b].head}
  OBVIOUS
<1>2. /\ Publishes(b, branches[b].chain, new, parents) /\ branches[b].head = sessions[s].base
      /\ MoveHead(b) /\ b \in DOMAIN branches
  BY <1>1, SessionPublishes DEF MaskInv, CommitSession, Publishes
<1>3. MasksName(Pub, HeadChain(b), new)
  BY <1>1, <1>2, StampMasks DEF MaskInv
<1>4. branches'[b].fork = branches[b].fork
  BY <1>2, ForkStays DEF MaskInv, EngineInv
<1> QED
  BY <1>2, <1>3, <1>4, OwnMasks

(* A write in a session masks what it changes of the session's view, and   *)
(* keeps the mask of the staged version it replaces (engine.go:841-867,    *)
(* store.go:555-596).                                                      *)
LEMMA StageMasks ==
  ASSUME MaskInv, EngineInv', Grows,
         NEW s \in DOMAIN sessions, NEW cs \in ChangeSets, SessionWrite(s, cs)
  PROVE  StagedMasks'
<1> DEFINE keys == SessionKeys(s, cs)
<1>1. /\ keys \subseteq PKs
      /\ \A w : w.session # s => (w \in Stage' <=> w \in Stage)
      /\ \A w : w.pk \notin keys => (w \in Staged(s)' <=> w \in Staged(s))
      /\ \A w \in Staged(s)' : w.pk \in keys =>
           /\ w.row = cs[w.pk] /\ MaskOf(SessionResolve(s)[w.pk], cs[w.pk]) \subseteq w.changed
           /\ \A v \in Staged(s) : v.pk = w.pk => v.changed \subseteq w.changed
  BY SessionWriteIs DEF MaskInv
<1> HIDE DEF keys
<1>2. ASSUME NEW v \in Stage PROVE MaskOf(StateAtCommit(sessions[v.session].base)[v.pk], v.row)
                                     \subseteq v.changed
  BY DEF MaskInv, StagedMasks, Stage
<1>3. s \in SessionIds /\ s # NoSession
  BY EngineAssumption DEF MaskInv, EngineInv, TypeOK
<1>4. \A x \in DOMAIN sessions' : x \in DOMAIN sessions /\ sessions'[x] = sessions[x]
  BY DEF SessionWrite
<1>5. ASSUME NEW v \in rows', v.session # NoSession, NEW m, m = sessions'[v.session].base
      PROVE  MaskOf(StateAtCommit(m)'[v.pk], v.row) \subseteq v.changed
  <2>1. v \in Stage'
    BY <1>5 DEF Stage
  <2>2. v.session \in DOMAIN sessions'
    BY <2>1, OwnedIs DEF EngineInv
  <2>3. m = sessions[v.session].base /\ m \in DOMAIN commits
    BY <1>4, <1>5, <2>2 DEF MaskInv, EngineInv, TypeOK
  <2>4. StateAtCommit(m)' = StateAtCommit(m)
    BY <2>3 DEF Grows
  <2>5. CASE v \in Stage
    BY <1>2, <2>3, <2>4, <2>5
  <2>6. CASE v \notin Stage
    <3>1. v.session = s /\ v \in Staged(s)'
      BY <1>1, <2>1, <2>6 DEF Staged, Stage
    <3>2. v \notin Staged(s)
      BY <1>3, <2>6 DEF Staged, Stage
    <3>3. v.pk \in keys /\ v.pk \in PKs
      BY <1>1, <3>1, <3>2
    <3>4. /\ v.row = cs[v.pk] /\ MaskOf(SessionResolve(s)[v.pk], v.row) \subseteq v.changed
          /\ \A u \in Staged(s) : u.pk = v.pk => u.changed \subseteq v.changed
      BY <1>1, <3>1, <3>3
    <3>5. CASE \E u \in Staged(s) : u.pk = v.pk
      <4>1. PICK u \in {w \in Staged(s) : w.pk = v.pk} : SessionResolve(s)[v.pk] = u.row
        <5>1. SessionResolve(s)[v.pk] = (CHOOSE u \in {w \in Staged(s) : w.pk = v.pk} : TRUE).row
          BY <1>3, <3>3, <3>5, SessionViewIs
        <5> QED
          BY <3>5, <5>1
      <4>2. u \in Stage /\ u.session = s
        BY <1>3 DEF Staged, Stage
      <4>3. MaskOf(StateAtCommit(m)[v.pk], u.row) \subseteq v.changed
        BY <1>2, <2>3, <3>1, <3>4, <4>2
      <4>4. MaskOf(StateAtCommit(m)[v.pk], v.row) \subseteq v.changed
        BY <3>4, <4>1, <4>3, MaskThrough
      <4> QED
        BY <2>4, <4>4
    <3>6. CASE ~\E u \in Staged(s) : u.pk = v.pk
      <4>1. SessionResolve(s)[v.pk] = StateAtCommit(m)[v.pk]
        BY <2>3, <3>1, <3>3, <3>6, SessionViewIs
      <4> QED
        BY <2>4, <3>4, <4>1
    <3> QED
      BY <3>5, <3>6
  <2> QED
    BY <2>5, <2>6
<1> QED
  BY <1>5 DEF StagedMasks

(* At the start only the root commit's chain and its like are stored.      *)
LEMMA InitMasks == Init => MaskInv
<1> SUFFICES ASSUME Init PROVE MaskInv
  OBVIOUS
<1>1. EngineInv
  BY InitEstablishes
<1>2. /\ rows = {} /\ DOMAIN branches = {Main} /\ branches[Main].chain = <<>>
      /\ branches[Main].headSeq = 0
      /\ DOMAIN commits = {1} /\ commits[1].chain = <<[branch |-> Main, seq |-> 0]>>
  BY DEF Init, RootCommit, Segment
<1>3. HeadChain(Main) = commits[1].chain
  BY <1>2 DEF HeadChain, ChainFor, Segment
<1>4. StoredChains = {HeadChain(Main)}
  BY <1>2, <1>3 DEF StoredChains
<1>5. Pub = {} /\ StagedMasks
  BY <1>2 DEF Pub, StagedMasks
<1>6. Names(<<>>) = {} /\ Distinct(<<>>)
  BY DEF Names, Distinct
<1>7. Lineage /\ ForksAdvance /\ HeadsCover
  BY <1>2, <1>5, <1>6 DEF Lineage, ForksAdvance, HeadsCover
<1>8. ChainsDistinct
  BY <1>2, <1>6 DEF ChainsDistinct, Distinct
<1>9. Agree(Pub, StoredChains)
  BY <1>4 DEF Agree
<1> QED
  BY <1>1, <1>5, <1>7, <1>8, <1>9 DEF MaskInv, ForkInv

(* Every operation of the engine keeps the invariant of the masks, however *)
(* commits, forks, merges, updates and sessions interleave                 *)
(* (engine.go:437-924).                                                    *)
LEMMA MaskStepKeeps ==
  ASSUME MaskInv, [Next]_vars
  PROVE  MaskInv'
<1>1. EngineInv' /\ Grows /\ EngineInv
  BY StepKeeps DEF MaskInv
<1>2. ForkInv /\ StagedMasks /\ Agree(Pub, StoredChains)
  BY DEF MaskInv
<1>3. ASSUME NEW b \in DOMAIN branches, NEW cs \in ChangeSets, Commit(b, cs)
      PROVE  MaskInv'
  <2>1. Stage' = Stage
    BY <1>1, <1>3, CommitPublishes
  <2> QED
    BY <1>1, <1>2, <1>3, <2>1, CommitMasks, StagedKeep DEF MaskInv
<1>4. ASSUME NEW n \in Branches, NEW from \in DOMAIN branches, CreateBranch(n, from)
      PROVE  MaskInv'
  <2>1. Stage' = Stage
    BY <1>4 DEF CreateBranch, Stage
  <2> QED
    BY <1>1, <1>2, <1>4, <2>1, ForkForks, StagedKeep DEF MaskInv
<1>5. ASSUME NEW from \in DOMAIN branches, NEW into \in DOMAIN branches, Merge(from, into)
      PROVE  MaskInv'
  <2>1. Stage' = Stage
    BY <1>1, <1>5, MergePublishes
  <2> QED
    BY <1>1, <1>2, <1>5, <2>1, MergeMasks, StagedKeep DEF MaskInv
<1>6. ASSUME NEW b \in DOMAIN branches, UpdateFromParent(b)
      PROVE  MaskInv'
  <2>1. Stage' = Stage
    BY <1>1, <1>6, UpdatePublishes
  <2> QED
    BY <1>1, <1>2, <1>6, <2>1, UpdateMasks, StagedKeep DEF MaskInv
<1>7. ASSUME NEW s \in SessionIds, NEW b \in DOMAIN branches, OpenSession(s, b)
      PROVE  MaskInv'
  <2>1. Stage' = Stage /\ Pub' = Pub /\ UNCHANGED <<branches, commits>>
    BY <1>7 DEF OpenSession, Stage, Pub
  <2> QED
    BY <1>1, <1>2, <2>1, QuietMasks, StagedKeep DEF MaskInv
<1>8. ASSUME NEW s \in DOMAIN sessions, NEW cs \in ChangeSets, SessionWrite(s, cs)
      PROVE  MaskInv'
  <2>1. Pub' = Pub /\ UNCHANGED <<branches, commits>>
    BY <1>1, <1>8, SessionWriteIs DEF SessionWrite
  <2>2. StagedMasks'
    BY <1>1, <1>8, StageMasks
  <2> QED
    BY <1>1, <1>2, <2>1, <2>2, QuietMasks DEF MaskInv
<1>9. ASSUME NEW s \in DOMAIN sessions, CommitSession(s)
      PROVE  MaskInv'
  <2>1. Stage' \subseteq Stage
    BY <1>1, <1>9, SessionPublishes
  <2> QED
    BY <1>1, <1>2, <1>9, <2>1, SessionMasks, StagedKeep DEF MaskInv
<1>10. ASSUME NEW s \in DOMAIN sessions, AbandonSession(s)
       PROVE  MaskInv'
  <2>1. Stage' \subseteq Stage /\ UNCHANGED <<branches, commits>>
    BY <1>10 DEF AbandonSession, Stage
  <2>2. Pub' = Pub
    BY <1>10, EngineAssumption DEF AbandonSession, Pub, Staged, MaskInv, EngineInv, TypeOK
  <2> QED
    BY <1>1, <1>2, <2>1, <2>2, QuietMasks, StagedKeep DEF MaskInv
<1>11. CASE UNCHANGED vars
  <2>1. Stage' = Stage /\ Pub' = Pub /\ UNCHANGED <<branches, commits>>
    BY <1>11 DEF vars, Stage, Pub
  <2> QED
    BY <1>1, <1>2, <2>1, QuietMasks, StagedKeep DEF MaskInv
<1> QED
  BY <1>3, <1>4, <1>5, <1>6, <1>7, <1>8, <1>9, <1>10, <1>11 DEF Next

-----------------------------------------------------------------------------
(* What follows.                                                           *)

(* The inductive invariant of the masks: chains with the same edits behind *)
(* them agree, fork points only advance (engine.go:437-924).               *)
THEOREM MaskInvariance == Spec => []MaskInv
<1>1. Init => MaskInv
  BY InitMasks
<1>2. MaskInv /\ [Next]_vars => MaskInv'
  BY MaskStepKeeps
<1> QED
  BY <1>1, <1>2, PTL DEF Spec

(* No merge can miss a column that a branch changed since the base, or that*)
(* the base has and the branch lacks: the masks name it (engine.go:660-706,*)
(* findings F4 and F5).                                                    *)
THEOREM NoEditIsUnmasked == Spec => []MasksCoverDivergence
<1>1. MaskInv => MasksCoverDivergence
  <2> SUFFICES ASSUME MaskInv, NEW b \in DOMAIN branches, NEW base \in 1 .. Len(commits),
                      NEW pk \in PKs
               PROVE  MaskOf(StateAtCommit(base)[pk], Resolve(b)[pk])
                        \subseteq MaskSince(b, base, pk)
    BY DEF MasksCoverDivergence
  <2>1. base \in DOMAIN commits
    BY Types DEF MaskInv, EngineInv
  <2> QED
    BY <2>1, MasksCover
<1> QED
  BY <1>1, MaskInvariance, PTL
=============================================================================
