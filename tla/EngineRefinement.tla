-------------------------- MODULE EngineRefinement --------------------------
(***************************************************************************)
(* The version store implements the reference model: every operation of    *)
(* the engine has the effect that the model gives it on full snapshots.    *)
(*                                                                         *)
(* Resolution shows the snapshot (EngineProofs), masks narrow a merge      *)
(* without changing what it decides (EngineMaskProofs).  What is left is   *)
(* that the merge base found by walking the commit graph breadth first is  *)
(* the one defined by recursion on commits: both reach what is above a     *)
(* commit in every set that is closed under parents.                       *)
(***************************************************************************)
EXTENDS EngineProofs

-----------------------------------------------------------------------------
(* Merge bases.                                                            *)

Parents == [d \in 1 .. Len(commits) |-> commits[d].parents]

(* The commits form such a graph (engine.go:437-500).                      *)
LEMMA CommitsAreGraph ==
  ASSUME TypeOK
  PROVE  /\ Graph(Parents, Len(commits)) /\ Len(commits) \in Nat
         /\ \A d \in 1 .. Len(commits) :
              /\ Parents[d] = commits[d].parents
              /\ AbsCommits[d].parents = commits[d].parents
         /\ DOMAIN commits = 1 .. Len(commits)
<1>1. Len(commits) \in Nat /\ DOMAIN commits = 1 .. Len(commits)
  BY Types
<1>2. \A d \in 1 .. Len(commits) : commits[d].parents \subseteq 1 .. d - 1
  BY <1>1 DEF TypeOK
<1> QED
  BY <1>1, <1>2 DEF Graph, Parents, AbsCommits

(* The breadth-first search finds what is above a commit                   *)
(* (engine.go:400-430).                                                    *)
LEMMA ReachAbove ==
  ASSUME TypeOK, NEW c \in 1 .. Len(commits)
  PROVE  Reach(c) = Above(Parents, Len(commits), c)
<1> DEFINE N == Len(commits)
           P == Parents
           up(f) == [n \in 0 .. N |-> IF n = 0 THEN {c}
                       ELSE f[n - 1] \cup UNION {commits[d].parents : d \in f[n - 1]}]
           level == CHOOSE f : f = up(f)
           ends == [n \in 0 .. N |-> Ends(P, N, c, n)]
<1>1. /\ Graph(P, N) /\ N \in Nat /\ c \in 1 .. N
      /\ \A d \in 1 .. N : commits[d].parents = P[d]
  BY CommitsAreGraph
<1>2. Reach(c) = level[N]
  BY DEF Reach
<1> HIDE DEF N, P
<1>3. \A n \in Nat : /\ Ends(P, N, c, n) \subseteq 1 .. N
                     /\ Ends(P, N, c, n)
                          = IF n = 0 THEN {c}
                            ELSE Ends(P, N, c, n - 1) \cup UNION {P[d] : d \in Ends(P, N, c, n - 1)}
  <2>1. \A n \in Nat : Ends(P, N, c, n) \subseteq 1 .. N
    BY <1>1 DEF Ends, Walks
  <2> QED
    BY <1>1, <2>1, EndsUnfold
<1>4. \A n \in 0 .. N : n # 0 =>
        Ends(P, N, c, n) = Ends(P, N, c, n - 1)
                             \cup UNION {commits[d].parents : d \in Ends(P, N, c, n - 1)}
  <2> SUFFICES ASSUME NEW n \in 0 .. N, n # 0, NEW m, m = n - 1
               PROVE  Ends(P, N, c, n) = Ends(P, N, c, m)
                        \cup UNION {commits[d].parents : d \in Ends(P, N, c, m)}
    OBVIOUS
  <2>1. m \in Nat /\ n \in Nat
    BY <1>1
  <2>2. Ends(P, N, c, n) = Ends(P, N, c, m) \cup UNION {P[d] : d \in Ends(P, N, c, m)}
    BY <1>3, <2>1
  <2>3. \A d \in Ends(P, N, c, m) : P[d] = commits[d].parents
    BY <1>1, <1>3, <2>1
  <2> QED
    BY <2>2, <2>3
<1>5. ends = up(ends)
  <2>1. \A n \in 0 .. N : n # 0 => n - 1 \in 0 .. N
    BY <1>1
  <2>2. Ends(P, N, c, 0) = {c}
    BY <1>3
  <2> QED
    BY <1>4, <2>1, <2>2
<1>6. level = up(level)
  <2> HIDE DEF up, ends
  <2> QED
    BY <1>5
<1>7. \A n \in 0 .. N : level[n] = Ends(P, N, c, n)
  <2> HIDE DEF level
  <2> DEFINE T == {n \in 0 .. N : level[n] # Ends(P, N, c, n)}
  <2>1. CASE T # {}
    <3>1. T \in SUBSET Nat
      BY <1>1
    <3>2. PICK n \in T : \A m \in T : n <= m
      <4> HIDE DEF T
      <4> QED
        BY <2>1, <3>1, NatLeast
    <3>3. level[0] = {c} /\ Ends(P, N, c, 0) = {c}
      BY <1>1, <1>3, <1>6
    <3>4. n \in 0 .. N /\ n # 0
      BY <3>2, <3>3
    <3>5. PICK m : m = n - 1 /\ m \in 0 .. N /\ m \notin T
      BY <1>1, <3>2, <3>4
    <3>6. level[m] = Ends(P, N, c, m)
      BY <3>5
    <3>7. level[n] = level[m] \cup UNION {commits[d].parents : d \in level[m]}
      BY <1>6, <3>4, <3>5
    <3>8. Ends(P, N, c, n) = Ends(P, N, c, m)
                               \cup UNION {commits[d].parents : d \in Ends(P, N, c, m)}
      BY <1>4, <3>4, <3>5
    <3> QED
      BY <3>2, <3>6, <3>7, <3>8, Zenon
  <2> QED
    BY <2>1
<1>8. level[N] = Ends(P, N, c, N)
  BY <1>1, <1>7
<1>9. Ends(P, N, c, N) = Above(P, N, c)
  BY <1>1, EndsAbove
<1> QED
  BY <1>2, <1>8, <1>9 DEF N, P

(* So does the model's recursion (model.go:177-200).                       *)
LEMMA ModelAncestorsAbove ==
  ASSUME TypeOK, NEW c \in 1 .. Len(commits)
  PROVE  Model!Ancestors(c) = Above(Parents, Len(commits), c)
<1> DEFINE N == Len(commits)
           P == Parents
           up(f) == [d \in 1 .. c |-> {d} \cup UNION {f[p] : p \in AbsCommits[d].parents}]
           anc == CHOOSE f : f = up(f)
           above == [d \in 1 .. c |-> Above(P, N, d)]
<1>1. /\ Graph(P, N) /\ N \in Nat /\ c \in 1 .. N
      /\ \A d \in 1 .. N : AbsCommits[d].parents = P[d]
  BY CommitsAreGraph
<1>2. Model!Ancestors(c) = anc[c]
  BY DEF Model!Ancestors
<1> HIDE DEF N, P
<1>3. \A d \in 1 .. c : /\ d \in 1 .. N /\ AbsCommits[d].parents = P[d]
                        /\ P[d] \subseteq 1 .. c
  BY <1>1 DEF Graph
<1>4. above = up(above)
  <2>1. ASSUME NEW d \in 1 .. c
        PROVE  above[d] = {d} \cup UNION {above[p] : p \in AbsCommits[d].parents}
    <3>1. Above(P, N, d) = {d} \cup UNION {Above(P, N, p) : p \in P[d]}
      BY <1>1, <1>3, AboveUnfolds
    <3>2. \A p \in P[d] : above[p] = Above(P, N, p)
      BY <1>3
    <3>3. above[d] = Above(P, N, d)
      OBVIOUS
    <3> HIDE DEF above
    <3> QED
      BY <1>3, <3>1, <3>2, <3>3
  <2> QED
    BY <2>1
<1>5. anc = up(anc)
  <2> HIDE DEF up, above
  <2> QED
    BY <1>4
<1> HIDE DEF anc
<1>6. anc = [d \in 1 .. c |-> {d} \cup UNION {anc[p] : p \in P[d]}]
  BY <1>3, <1>5
<1>7. anc[c] = Above(P, N, c)
  BY <1>1, <1>6, AncestorsAbove
<1> QED
  BY <1>2, <1>7 DEF N, P

(* So a merge has the same bases in both (engine.go:397-445).              *)
LEMMA BasesAgree ==
  ASSUME TypeOK, NEW c \in DOMAIN commits, NEW d \in DOMAIN commits
  PROVE  MergeBases(c, d) = Model!MergeBases(c, d)
<1> DEFINE N == Len(commits)
           up(x) == Above(Parents, N, x)
           bases(x, y) == LET common == up(x) \cap up(y)
                          IN  {z \in common : \A w \in common \ {z} : z \notin up(w)}
<1>1. \A x \in 1 .. N : Reach(x) = up(x) /\ Model!Ancestors(x) = up(x) /\ up(x) \subseteq 1 .. N
  BY ReachAbove, ModelAncestorsAbove DEF Above
<1>2. c \in 1 .. N /\ d \in 1 .. N
  BY CommitsAreGraph
<1> HIDE DEF up, N
<1>3. MergeBases(c, d) = bases(c, d)
  BY <1>1, <1>2 DEF MergeBases
<1>4. Model!MergeBases(c, d) = bases(c, d)
  BY <1>1, <1>2 DEF Model!MergeBases
<1> QED
  BY <1>3, <1>4

-----------------------------------------------------------------------------
(* The mapping.                                                            *)

(* What the model sees of the engine's state (engine.go:68-83, 216-258).   *)
LEMMA AbsIs ==
  ASSUME EngineInv
  PROVE  /\ Len(AbsCommits) = Len(commits) /\ DOMAIN AbsCommits = DOMAIN commits
         /\ Model!NewId = NewId
         /\ \A c \in DOMAIN commits : Model!StateOf(c) = StateAtCommit(c)
         /\ DOMAIN AbsBranches = DOMAIN branches
         /\ \A b \in DOMAIN branches :
              /\ AbsBranches[b].head = branches[b].head
              /\ AbsBranches[b].parent = branches[b].parent
              /\ AbsBranches[b].fork = branches[b].fork
              /\ Model!Resolve(b) = Resolve(b)
              /\ Resolve(b) = StateAtCommit(branches[b].head)
         /\ DOMAIN AbsSessions = DOMAIN sessions
         /\ \A s \in DOMAIN sessions :
              AbsSessions[s] = [branch |-> sessions[s].branch, base |-> sessions[s].base,
                                overlay |-> SessionResolve(s)]
<1>1. Len(commits) \in Nat /\ DOMAIN commits = 1 .. Len(commits)
  BY Types DEF EngineInv
<1>2. /\ AbsCommits = [c \in 1 .. Len(commits) |->
           [parents |-> commits[c].parents, branch |-> commits[c].branch,
            state |-> StateAtCommit(c)]]
      /\ DOMAIN AbsCommits = 1 .. Len(commits)
  BY DEF AbsCommits
<1>3. Len(AbsCommits) = Len(commits)
  BY <1>1, <1>2
<1>4. \A c \in DOMAIN commits : Model!StateOf(c) = StateAtCommit(c)
  BY <1>1, <1>2 DEF Model!StateOf
<1>5. \A b \in DOMAIN branches : /\ branches[b].head \in DOMAIN commits
                                 /\ AbsBranches[b].head = branches[b].head
                                 /\ AbsBranches[b].parent = branches[b].parent
                                 /\ AbsBranches[b].fork = branches[b].fork
  BY DEF EngineInv, TypeOK, AbsBranches
<1>6. \A b \in DOMAIN branches : /\ Resolve(b) = StateAtCommit(branches[b].head)
                                 /\ Model!Resolve(b) = Resolve(b)
  BY <1>4, <1>5 DEF EngineInv, HeadMatchesHistory, Model!Resolve
<1>7. Model!NewId = NewId
  BY <1>3 DEF Model!NewId, NewId
<1> QED
  BY <1>1, <1>2, <1>3, <1>4, <1>5, <1>6, <1>7 DEF AbsBranches, AbsSessions

(* A commit of the engine is a commit of the model, whose state is what the*)
(* new commit shows (engine.go:437-500).                                   *)
LEMMA AbsPublish ==
  ASSUME EngineInv, NEW b, NEW tail, NEW new, NEW parents, Publishes(b, tail, new, parents),
         NEW n, n = NewId, NEW others, parents = {branches[b].head} \cup others
  PROVE  /\ Model!NewCommit(b, StateAtCommit(n)', others)
         /\ DOMAIN AbsBranches' = DOMAIN branches
         /\ \A x \in DOMAIN branches : x # b => AbsBranches'[x] = AbsBranches[x]
         /\ AbsBranches'[b] = [head |-> n, parent |-> branches[b].parent,
                               fork |-> branches'[b].fork]
<1>1. StoreInv /\ b \in DOMAIN branches /\ TypeOK
  BY EngineInvIs DEF Publishes, StoreInv
<1>2. /\ Len(commits) \in Nat /\ DOMAIN commits = 1 .. Len(commits) /\ n = Len(commits) + 1
      /\ Len(commits') = Len(commits) + 1 /\ DOMAIN commits' = 1 .. Len(commits) + 1
      /\ \A c \in DOMAIN commits : commits'[c] = commits[c]
      /\ commits'[n].parents = parents /\ commits'[n].branch = b
  <2>1. /\ Len(commits) \in Nat /\ DOMAIN commits = 1 .. Len(commits)
        /\ NewId = Len(commits) + 1
    BY <1>1, Types
  <2>2. /\ Len(commits') = Len(commits) + 1 /\ DOMAIN commits' = 1 .. Len(commits) + 1
        /\ \A c \in DOMAIN commits : commits'[c] = commits[c]
        /\ commits'[NewId].parents = parents /\ commits'[NewId].branch = b
    BY <1>1, AfterPublish
  <2> QED
    BY <2>1, <2>2
<1>3. \A c \in DOMAIN commits : StateAtCommit(c)' = StateAtCommit(c)
  BY <1>1, PublishStable
<1>4. Len(commits) + 1 <= MaxCommits /\ MaxCommits \in Nat
  BY <1>1, PublishRaises, EngineAssumption
<1> DEFINE record == [parents |-> {AbsBranches[b].head} \cup others, branch |-> b,
                      state |-> StateAtCommit(n)']
<1>5. AbsBranches[b].head = branches[b].head /\ Len(AbsCommits) = Len(commits)
  BY <1>1, AbsIs
<1>6. AbsCommits' = Append(AbsCommits, record)
  <2>1. AbsCommits' = [c \in 1 .. Len(commits) + 1 |->
           [parents |-> commits'[c].parents, branch |-> commits'[c].branch,
            state |-> StateAtCommit(c)']]
    BY <1>2 DEF AbsCommits
  <2>2. Append(AbsCommits, record)
          = [c \in 1 .. Len(commits) + 1 |-> IF c \in 1 .. Len(commits) THEN AbsCommits[c] ELSE record]
    BY <1>2, <1>5
  <2>3. \A c \in 1 .. Len(commits) : AbsCommits[c] = AbsCommits'[c]
    BY <1>2, <1>3, <2>1 DEF AbsCommits
  <2>4. AbsCommits'[n] = record
    <3>1. n \in 1 .. Len(commits) + 1
      BY <1>2
    <3>2. AbsCommits'[n] = [parents |-> commits'[n].parents, branch |-> commits'[n].branch,
                            state |-> StateAtCommit(n)']
      BY <2>1, <3>1
    <3> QED
      BY <1>2, <1>5, <3>2
  <2>5. \A c \in 1 .. Len(commits) + 1 : c \in 1 .. Len(commits) \/ c = n
    BY <1>2
  <2> HIDE DEF record
  <2> QED
    BY <2>1, <2>2, <2>3, <2>4, <2>5
<1>7. Model!NewCommit(b, StateAtCommit(n)', others)
  <2>1. Len(AbsCommits) < MaxCommits
    BY <1>2, <1>4, <1>5
  <2> QED
    BY <1>6, <2>1 DEF Model!NewCommit
<1>8. /\ DOMAIN branches' = DOMAIN branches
      /\ \A x \in DOMAIN branches : x # b => branches'[x] = branches[x]
      /\ branches'[b].head = n /\ branches'[b].parent = branches[b].parent
  BY <1>1, AfterPublish
<1> QED
  BY <1>1, <1>7, <1>8 DEF AbsBranches

(* The sessions are untouched by the commits of others.                    *)
LEMMA AbsSessionsStay ==
  ASSUME EngineInv, Grows, UNCHANGED sessions, Stage' = Stage
  PROVE  AbsSessions' = AbsSessions
<1>1. ASSUME NEW s \in DOMAIN sessions PROVE SessionResolve(s)' = SessionResolve(s)
  <2>1. s # NoSession
    BY EngineAssumption DEF EngineInv, TypeOK
  <2>2. Staged(s)' = Staged(s)
    BY <2>1 DEF Staged, Stage
  <2> QED
    BY <2>2, SessionViewStays
<1> QED
  BY <1>1 DEF AbsSessions

(* A commit that leaves the fork point alone moves the model's head.       *)
LEMMA AbsMoves ==
  ASSUME EngineInv, NEW b, NEW tail, NEW new, NEW parents, Publishes(b, tail, new, parents),
         NEW others, parents = {branches[b].head} \cup others,
         branches'[b].fork = branches[b].fork
  PROVE  Model!MoveHead(b)
<1>1. PICK n : n = NewId
  OBVIOUS
<1>2. /\ DOMAIN AbsBranches' = DOMAIN branches
      /\ \A x \in DOMAIN branches : x # b => AbsBranches'[x] = AbsBranches[x]
      /\ AbsBranches'[b] = [head |-> n, parent |-> branches[b].parent, fork |-> branches[b].fork]
  BY <1>1, AbsPublish
<1>3. /\ b \in DOMAIN branches /\ DOMAIN AbsBranches = DOMAIN branches /\ Model!NewId = n
  BY <1>1, AbsIs DEF Publishes
<1>4. AbsBranches[b] = [head |-> branches[b].head, parent |-> branches[b].parent,
                        fork |-> branches[b].fork]
  BY <1>3 DEF AbsBranches
<1>5. [AbsBranches[b] EXCEPT !.head = n] = AbsBranches'[b]
  BY <1>2, <1>4
<1>6. AbsBranches' = [x \in DOMAIN branches |-> AbsBranches'[x]]
  BY <1>2 DEF AbsBranches
<1>7. AbsBranches' = [AbsBranches EXCEPT ![b].head = n]
  <2>1. AbsBranches = [x \in DOMAIN branches |-> AbsBranches[x]]
    BY DEF AbsBranches
  <2> DEFINE moved == [AbsBranches EXCEPT ![b].head = n]
  <2>2. DOMAIN moved = DOMAIN branches /\ moved = [x \in DOMAIN branches |-> moved[x]]
    BY <1>3
  <2>3. \A x \in DOMAIN branches : moved[x] = AbsBranches'[x]
    BY <1>2, <1>3, <1>5
  <2> HIDE DEF moved
  <2>4. AbsBranches' = moved
    BY <1>6, <2>2, <2>3
  <2> QED
    BY <2>4 DEF moved
<1> QED
  BY <1>3, <1>7 DEF Model!MoveHead

(* What a write opens, and the view it is made from, by name.              *)
Wrote(new, keys, images) ==
  /\ keys \in SUBSET PKs
  /\ \A pk \in keys : \E w \in new : w.pk = pk
  /\ \A w \in new : w.pk \in keys /\ w.row = images[w.pk]

IsView(view, chain) == \A pk \in PKs : view[pk] = Shown(Pub, chain, pk)

Over(view, keys, images) == [pk \in PKs |-> IF pk \in keys THEN images[pk] ELSE view[pk]]

(* The versions a commit opens carry the images of its keys                *)
(* (engine.go:437-500).                                                    *)
LEMMA FreshWrites ==
  ASSUME TypeOK, NEW b \in DOMAIN branches, NEW keys \in SUBSET PKs, NEW view, NEW images,
         \A pk \in keys : images[pk] \in Image
  PROVE  Wrote(Fresh(b, keys, view, images), keys, images)
<1>1. /\ \A pk \in keys : \E w \in Fresh(b, keys, view, images) : w.pk = pk
      /\ \A w \in Fresh(b, keys, view, images) : w.pk \in keys /\ w.row = images[w.pk]
  BY FreshFacts
<1> QED
  BY <1>1 DEF Wrote

(* What the new commit shows after a write: the images written, and below  *)
(* them the view it was made from (engine.go:437-500).                     *)
LEMMA WriteShows ==
  ASSUME EngineInv, NEW b \in DOMAIN branches, NEW tail, NEW parents, NEW new,
         Publishes(b, tail, new, parents), NEW keys, NEW images, Wrote(new, keys, images),
         NEW n, n = NewId, NEW m, m = Heads[b],
         NEW view, IsView(view, <<[branch |-> b, seq |-> m]>> \o tail)
  PROVE  StateAtCommit(n)' = Over(view, keys, images)
<1>1. StoreInv /\ TypeOK
  BY EngineInvIs DEF StoreInv
<1> DEFINE before == <<[branch |-> b, seq |-> m]>> \o tail
<1>2. ASSUME NEW pk \in PKs
      PROVE  /\ \A w \in new : w.pk = pk => StateAtCommit(n)'[pk] = w.row
             /\ ~(\E w \in new : w.pk = pk) => StateAtCommit(n)'[pk] = Shown(Pub, before, pk)
  BY <1>1, PublishShows
<1>3. \A pk \in PKs : view[pk] = Shown(Pub, before, pk)
  BY DEF IsView
<1> HIDE DEF before
<1>4. ASSUME NEW pk \in PKs
      PROVE  StateAtCommit(n)'[pk] = IF pk \in keys THEN images[pk] ELSE view[pk]
  BY <1>2, <1>3 DEF Wrote
<1>5. StateAtCommit(n)' = [pk \in PKs |-> StateAtCommit(n)'[pk]]
  BY ViewsAreNext
<1> QED
  BY <1>4, <1>5 DEF Over

(* The view of a branch at its head (engine.go:216-258).                   *)
LEMMA HeadView ==
  ASSUME EngineInv, NEW b \in DOMAIN branches, NEW m, m = Heads[b]
  PROVE  IsView(Resolve(b), <<[branch |-> b, seq |-> m]>> \o branches[b].chain)
<1>1. HeadChain(b) = <<[branch |-> b, seq |-> m]>> \o branches[b].chain
  BY Types DEF EngineInv
<1>2. IsView(Resolve(b), HeadChain(b))
  BY ViewsAre DEF IsView
<1> QED
  BY <1>1, <1>2

(* Writing a change set applies it to the snapshot (engine.go:437-500).    *)
LEMMA CommitMaps ==
  ASSUME EngineInv, Grows, NEW b \in DOMAIN branches, NEW cs \in ChangeSets, Commit(b, cs)
  PROVE  Model!Commit(b, cs)
<1> DEFINE view == Resolve(b)
           keys == Effective(cs, view)
           new == CommitWrites(b, cs)
           tail == branches[b].chain
           parents == {branches[b].head}
<1>1. keys \in SUBSET PKs /\ (\A pk \in keys : cs[pk] \in Image) /\ DOMAIN cs \subseteq PKs
  BY EngineAssumption DEF ChangeSet, Effective
<1>2. TypeOK
  BY DEF EngineInv
<1>3. Wrote(new, keys, cs)
  BY <1>1, <1>2, FreshWrites DEF CommitWrites
<1>4. Publishes(b, tail, new, parents) /\ Stage' = Stage /\ UNCHANGED sessions
  BY CommitPublishes
<1>5. PICK n, m : n = NewId /\ m = Heads[b]
  OBVIOUS
<1>6. IsView(view, <<[branch |-> b, seq |-> m]>> \o tail)
  BY <1>5, HeadView
<1>7. branches'[b].fork = branches[b].fork
  <2>1. MoveHead(b)
    BY DEF Commit
  <2> QED
    BY <1>2, <2>1, ForkStays
<1>8. parents = {branches[b].head} \cup {}
  OBVIOUS
<1>9. \A pk \in PKs : (pk \in DOMAIN cs /\ pk \notin keys => cs[pk] = view[pk])
                      /\ (pk \in keys => pk \in DOMAIN cs)
  BY DEF Effective
<1>10. view = Model!Resolve(b)
  BY AbsIs
<1> HIDE DEF view, keys, tail, parents, new
<1>11. StateAtCommit(n)' = Over(view, keys, cs)
  BY <1>3, <1>4, <1>5, <1>6, WriteShows
<1>12. Over(view, keys, cs) = Model!Apply(Model!Resolve(b), cs)
  BY <1>9, <1>10 DEF Model!Apply, Over
<1>13. Model!NewCommit(b, StateAtCommit(n)', {})
  BY <1>4, <1>5, <1>8, AbsPublish
<1>14. Model!MoveHead(b)
  BY <1>4, <1>7, <1>8, AbsMoves
<1>15. AbsSessions' = AbsSessions
  BY <1>4, AbsSessionsStay
<1> QED
  BY <1>11, <1>12, <1>13, <1>14, <1>15 DEF Model!Commit

(* A merge that compares the masked columns only decides and produces what *)
(* a comparison of whole snapshots does (merge.go:300-360,                 *)
(* engine.go:660-706).                                                     *)
LEMMA MergeAgrees ==
  ASSUME MaskInv, NEW into \in DOMAIN branches, NEW from \in DOMAIN branches,
         NEW base \in DOMAIN commits
  PROVE  /\ MergeConflictsOf(into, from, base)
              = MergeConflicts(StateAtCommit(base), Resolve(into), Resolve(from), AllCols)
         /\ MergeResultOf(into, from, base)
              = MergedTable(StateAtCommit(base), Resolve(into), Resolve(from), AllCols)
<1> DEFINE b == StateAtCommit(base)
           a == Resolve(into)
           t == Resolve(from)
           cand == Candidates(into, from, base)
<1>1. TypeOK
  BY DEF MaskInv, EngineInv
<1>2. b \in [PKs -> Image] /\ a \in [PKs -> Image] /\ t \in [PKs -> Image]
  BY <1>1, MergeTypes
<1>3. cand \in [PKs -> Mask]
  BY <1>1, MergeTypes DEF Mask
<1>4. ASSUME NEW pk \in PKs
      PROVE  Examined(cand[pk], b[pk], a[pk]) /\ Examined(cand[pk], b[pk], t[pk])
  <2>1. cand[pk] = MaskSince(into, base, pk) \cup MaskSince(from, base, pk)
    BY DEF Candidates
  <2>2. MaskOf(b[pk], a[pk]) \subseteq MaskSince(into, base, pk)
    BY MasksCover
  <2>3. MaskOf(b[pk], t[pk]) \subseteq MaskSince(from, base, pk)
    BY MasksCover
  <2> QED
    BY <2>1, <2>2, <2>3 DEF Examined
<1>5. /\ MergeConflictsOf(into, from, base) = MergeConflicts(b, a, t, cand)
      /\ MergeResultOf(into, from, base) = MergedTable(b, a, t, cand)
  BY DEF MergeConflictsOf, MergeResultOf
<1> HIDE DEF a, b, t, cand
<1>6. ASSUME NEW pk \in PKs
      PROVE  /\ KeyConflicts(pk, b[pk], a[pk], t[pk], cand[pk])
                  = KeyConflicts(pk, b[pk], a[pk], t[pk], Cols)
             /\ MergedImage(b[pk], a[pk], t[pk], cand[pk])
                  = MergedImage(b[pk], a[pk], t[pk], Cols)
  <2>1. b[pk] \in Image /\ a[pk] \in Image /\ t[pk] \in Image /\ cand[pk] \in Mask
    BY <1>2, <1>3
  <2> QED
    BY <2>1, <1>4, NarrowMerge
<1>7. MergeConflicts(b, a, t, cand) = MergeConflicts(b, a, t, AllCols)
  BY <1>6 DEF MergeConflicts, AllCols
<1>8. MergedTable(b, a, t, cand) = MergedTable(b, a, t, AllCols)
  BY <1>6 DEF MergedTable, AllCols
<1> QED
  BY <1>5, <1>7, <1>8 DEF a, b, t

(* The commit of a merge shows the result, although it stores only what    *)
(* differs from the view it is made from (engine.go:795-839).              *)
LEMMA MergeShows ==
  ASSUME EngineInv, NEW b \in DOMAIN branches, NEW tail, NEW parents,
         NEW result \in [PKs -> Image],
         Publishes(b, tail, MergeWrites(b, tail, result), parents), NEW n, n = NewId
  PROVE  StateAtCommit(n)' = result
<1> DEFINE view == MergeView(b, tail)
           keys == {pk \in PKs : result[pk] # view[pk]}
           new == MergeWrites(b, tail, result)
<1>1. TypeOK
  BY DEF EngineInv
<1>2. keys \in SUBSET PKs /\ \A pk \in keys : result[pk] \in Image
  OBVIOUS
<1>3. Wrote(new, keys, result)
  BY <1>1, <1>2, FreshWrites DEF MergeWrites
<1>4. PICK m : m = Heads[b]
  OBVIOUS
<1>5. IsView(view, <<[branch |-> b, seq |-> m]>> \o tail)
  <2>1. m = branches[b].headSeq
    BY <1>1, <1>4, Types
  <2>2. view = ResolveChain(<<[branch |-> b, seq |-> m]>> \o tail, NoSession)
    BY <2>1 DEF MergeView, Segment
  <2> QED
    BY <2>2, ViewsAre DEF IsView
<1>6. \A pk \in PKs : pk \notin keys => view[pk] = result[pk]
  OBVIOUS
<1> HIDE DEF view, keys, new
<1>7. StateAtCommit(n)' = Over(view, keys, result)
  BY <1>3, <1>4, <1>5, WriteShows DEF new
<1> QED
  BY <1>6, <1>7 DEF Over

(* The model merges by the same comparison (core/merge.go).                *)
LEMMA SameMerge ==
  ASSUME NEW b, NEW a, NEW t
  PROVE  /\ Model!MergeConflicts(b, a, t, Model!AllCols) = MergeConflicts(b, a, t, AllCols)
         /\ Model!MergedTable(b, a, t, Model!AllCols) = MergedTable(b, a, t, AllCols)
<1>1. Model!AllCols = AllCols
  BY DEF AllCols, Model!AllCols
<1>2. \A x, y, z, c : Model!Clash(x, y, z, c) <=> Clash(x, y, z, c)
  BY DEF Clash, Model!Clash
<1>3. \A x, y, z : Model!OneSided(x, y, z) <=> OneSided(x, y, z)
  BY DEF OneSided, Model!OneSided
<1>4. \A pk, x, y, z, cand : Model!KeyConflicts(pk, x, y, z, cand) = KeyConflicts(pk, x, y, z, cand)
  BY <1>2, <1>3 DEF KeyConflicts, Model!KeyConflicts, Conflict, Model!Conflict
<1>5. \A x, y, z, cand : Model!MergedImage(x, y, z, cand) = MergedImage(x, y, z, cand)
  BY <1>2, <1>3 DEF MergedImage, Model!MergedImage
<1>6. Model!MergeConflicts(b, a, t, AllCols) = MergeConflicts(b, a, t, AllCols)
  BY <1>4 DEF MergeConflicts, Model!MergeConflicts
<1>7. Model!MergedTable(b, a, t, AllCols) = MergedTable(b, a, t, AllCols)
  BY <1>5 DEF MergedTable, Model!MergedTable
<1> QED
  BY <1>1, <1>6, <1>7

(* A merge (engine.go:563-658).                                            *)
LEMMA MergeMaps ==
  ASSUME MaskInv, Grows, NEW from \in DOMAIN branches, NEW into \in DOMAIN branches,
         Merge(from, into)
  PROVE  Model!Merge(from, into)
<1>1. EngineInv /\ TypeOK
  BY DEF MaskInv, EngineInv
<1> DEFINE ours == branches[into].head
           theirs == branches[from].head
           tail == branches[into].chain
           parents == {ours, theirs}
<1>2. PICK base \in 1 .. Len(commits) :
        /\ MergeBases(ours, theirs) = {base}
        /\ MergeConflictsOf(into, from, base) = {}
        /\ Publishes(into, tail, MergeWrites(into, tail, MergeResultOf(into, from, base)), parents)
        /\ Stage' = Stage /\ UNCHANGED sessions
  BY <1>1, MergePublishes
<1> DEFINE result == MergeResultOf(into, from, base)
           new == MergeWrites(into, tail, result)
<1>3. base \in DOMAIN commits /\ ours \in DOMAIN commits /\ theirs \in DOMAIN commits
  BY <1>1, Types
<1>4. PICK n : n = NewId
  OBVIOUS
<1>5. result \in [PKs -> Image]
  BY <1>1, MergeTypes
<1>6. /\ Model!StateOf(base) = StateAtCommit(base)
      /\ Model!StateOf(ours) = Resolve(into) /\ Model!StateOf(theirs) = Resolve(from)
      /\ AbsBranches[into].head = ours /\ AbsBranches[from].head = theirs
      /\ Len(AbsCommits) = Len(commits)
  BY <1>1, <1>3, AbsIs
<1>7. /\ Model!MergeConflicts(Model!StateOf(base), Model!StateOf(ours), Model!StateOf(theirs),
                              Model!AllCols) = {}
      /\ Model!MergedTable(Model!StateOf(base), Model!StateOf(ours), Model!StateOf(theirs),
                           Model!AllCols) = result
  BY <1>2, <1>3, <1>6, MergeAgrees, SameMerge
<1>8. branches'[into].fork = branches[into].fork
  <2>1. MoveHead(into)
    BY DEF Merge
  <2> QED
    BY <1>1, <2>1, ForkStays
<1>9. parents = {branches[into].head} \cup {theirs}
  OBVIOUS
<1>10. Model!MergeBases(ours, theirs) = {base}
  BY <1>1, <1>2, <1>3, BasesAgree
<1> HIDE DEF result
<1>11. StateAtCommit(n)' = result
  BY <1>1, <1>2, <1>4, <1>5, MergeShows DEF result
<1>12. Publishes(into, tail, new, parents)
  BY <1>2 DEF result
<1> HIDE DEF parents, new, tail
<1>13. Model!NewCommit(into, StateAtCommit(n)', {theirs})
  BY <1>1, <1>4, <1>9, <1>12, AbsPublish
<1>14. Model!MoveHead(into)
  BY <1>1, <1>8, <1>9, <1>12, AbsMoves
<1>15. AbsSessions' = AbsSessions
  BY <1>1, <1>2, AbsSessionsStay
<1> HIDE DEF ours, theirs
<1> QED
  BY <1>2, <1>6, <1>7, <1>10, <1>11, <1>13, <1>14, <1>15 DEF Model!Merge

(* A head and a fork point set at once (engine.go:795-839).                *)
Forward(f, x, n, t) == [f EXCEPT ![x].head = n, ![x].fork = t]

(* What they become; the parent stays (engine.go:795-839).                 *)
LEMMA TwoFields ==
  ASSUME NEW f, NEW x \in DOMAIN f, NEW head, NEW parent, NEW fork,
         f[x] = [head |-> head, parent |-> parent, fork |-> fork], NEW n, NEW t
  PROVE  Forward(f, x, n, t)[x]
           = [head |-> n, parent |-> parent, fork |-> t]
<1> DEFINE r == f[x]
<1>1. r = [head |-> head, parent |-> parent, fork |-> fork]
  OBVIOUS
<1> HIDE DEF r
<1>2. Forward(f, x, n, t)[x] = [[r EXCEPT !.head = n] EXCEPT !.fork = t]
  BY DEF r, Forward
<1>3. [r EXCEPT !.head = n] = [head |-> n, parent |-> parent, fork |-> fork]
  BY <1>1
<1>4. [[head |-> n, parent |-> parent, fork |-> fork] EXCEPT !.fork = t]
        = [head |-> n, parent |-> parent, fork |-> t]
  OBVIOUS
<1> QED
  BY <1>2, <1>3, <1>4

(* An update from the parent (engine.go:740-839).                          *)
LEMMA UpdateMaps ==
  ASSUME MaskInv, Grows, NEW b \in DOMAIN branches, UpdateFromParent(b)
  PROVE  Model!UpdateFromParent(b)
<1>1. EngineInv /\ TypeOK
  BY DEF MaskInv, EngineInv
<1>2. PICK p, f, theirs : /\ p = branches[b].parent /\ f = branches[b].fork
                          /\ theirs = branches[p].head
  OBVIOUS
<1>3. /\ p \in DOMAIN branches /\ f \in DOMAIN commits /\ theirs \in DOMAIN commits
      /\ branches[b] \in BranchType
  BY <1>1, <1>2, Types
<1> DEFINE result == MergeResultOf(b, p, f)
           tail == HeadChain(p)
           new == MergeWrites(b, tail, result)
           parents == {branches[b].head, theirs}
<1>4. Publishes(b, tail, new, parents) /\ Stage' = Stage /\ UNCHANGED sessions
  BY <1>1, <1>2, UpdatePublishes
<1>5. /\ b # Main /\ theirs # f /\ MergeConflictsOf(b, p, f) = {}
      /\ branches' = [branches EXCEPT ![b].headSeq = NextSeq(b), ![b].head = NewId,
                                      ![b].fork = theirs, ![b].chain = tail]
  BY <1>2 DEF UpdateFromParent
<1>6. branches'[b].fork = theirs
  BY <1>3, <1>5 DEF BranchType
<1>7. PICK n : n = NewId
  OBVIOUS
<1>8. result \in [PKs -> Image]
  BY <1>1, MergeTypes
<1>9. /\ Model!StateOf(f) = StateAtCommit(f) /\ Model!Resolve(b) = Resolve(b)
      /\ Model!StateOf(theirs) = Resolve(p) /\ Model!NewId = n
      /\ DOMAIN AbsBranches = DOMAIN branches
      /\ AbsBranches[b].fork = f /\ AbsBranches[b].parent = p /\ AbsBranches[p].head = theirs
  BY <1>1, <1>2, <1>3, <1>7, AbsIs
<1>10. /\ Model!MergeConflicts(Model!StateOf(f), Model!Resolve(b), Model!StateOf(theirs),
                               Model!AllCols) = {}
       /\ Model!MergedTable(Model!StateOf(f), Model!Resolve(b), Model!StateOf(theirs),
                            Model!AllCols) = result
  BY <1>3, <1>5, <1>9, MergeAgrees, SameMerge
<1>11. parents = {branches[b].head} \cup {theirs}
  OBVIOUS
<1>12. StateAtCommit(n)' = result
  BY <1>1, <1>4, <1>7, <1>8, MergeShows
<1> HIDE DEF result, tail, new, parents
<1>13. /\ Model!NewCommit(b, StateAtCommit(n)', {theirs})
       /\ DOMAIN AbsBranches' = DOMAIN branches
       /\ \A x \in DOMAIN branches : x # b => AbsBranches'[x] = AbsBranches[x]
       /\ AbsBranches'[b] = [head |-> n, parent |-> branches[b].parent,
                             fork |-> branches'[b].fork]
  BY <1>1, <1>4, <1>7, <1>11, AbsPublish
<1>14. AbsBranches' = [AbsBranches EXCEPT ![b].head = Model!NewId, ![b].fork = theirs]
  <2> DEFINE moved == Forward(AbsBranches, b, n, theirs)
  <2>1. AbsBranches[b] = [head |-> branches[b].head, parent |-> branches[b].parent,
                          fork |-> branches[b].fork]
    BY DEF AbsBranches
  <2>2. AbsBranches'[b] = [head |-> n, parent |-> branches[b].parent, fork |-> theirs]
    BY <1>6, <1>13
  <2>3. AbsBranches' = [x \in DOMAIN branches |-> AbsBranches'[x]]
    BY <1>13 DEF AbsBranches
  <2>4. DOMAIN moved = DOMAIN branches /\ moved = [x \in DOMAIN branches |-> moved[x]]
    BY <1>9 DEF Forward
  <2>5. moved[b] = [head |-> n, parent |-> branches[b].parent, fork |-> theirs]
    BY <1>9, <2>1, TwoFields
  <2>6. \A x \in DOMAIN branches : x # b => moved[x] = AbsBranches[x]
    BY <1>9 DEF Forward
  <2>7. \A x \in DOMAIN branches : moved[x] = AbsBranches'[x]
    BY <1>13, <2>2, <2>5, <2>6
  <2> HIDE DEF moved
  <2>8. AbsBranches' = moved
    BY <2>3, <2>4, <2>7
  <2> QED
    BY <1>9, <2>8 DEF moved, Forward
<1>15. AbsSessions' = AbsSessions
  BY <1>1, <1>4, AbsSessionsStay
<1> QED
  BY <1>5, <1>9, <1>10, <1>12, <1>13, <1>14, <1>15 DEF Model!UpdateFromParent

(* A step without a commit leaves the model's commits alone.               *)
LEMMA AbsCommitsStay ==
  ASSUME TypeOK, Grows, UNCHANGED commits
  PROVE  AbsCommits' = AbsCommits
<1>1. DOMAIN commits = 1 .. Len(commits)
  BY Types
<1>2. \A c \in 1 .. Len(commits) : StateAtCommit(c)' = StateAtCommit(c)
  BY <1>1 DEF Grows
<1> QED
  BY <1>2 DEF AbsCommits

(* A session that stays, and whose staged versions stay, is the same in    *)
(* the model (engine.go:841-867).                                          *)
LEMMA AbsSessionStays ==
  ASSUME EngineInv, Grows, NEW s \in DOMAIN sessions, s \in DOMAIN sessions',
         Staged(s)' = Staged(s)
  PROVE  AbsSessions'[s] = AbsSessions[s]
<1>1. SessionResolve(s)' = SessionResolve(s)
  BY SessionViewStays
<1>2. sessions'[s] = sessions[s]
  BY DEF Grows
<1> QED
  BY <1>1, <1>2 DEF AbsSessions

(* A fork (engine.go:178-214).                                             *)
LEMMA ForkMaps ==
  ASSUME EngineInv, Grows, NEW n \in Branches, NEW from \in DOMAIN branches,
         CreateBranch(n, from)
  PROVE  Model!CreateBranch(n, from)
<1>1. /\ n \notin DOMAIN branches /\ UNCHANGED <<rows, commits, sessions>>
      /\ DOMAIN branches' = DOMAIN branches \cup {n}
  BY ForkKeeps DEF CreateBranch
<1>2. /\ branches'[n] = Fork(from)
      /\ \A b \in DOMAIN branches : branches'[b] = branches[b]
  BY ForkKeeps
<1>3. TypeOK /\ DOMAIN AbsBranches = DOMAIN branches /\ AbsBranches[from].head = branches[from].head
  BY AbsIs DEF EngineInv
<1>4. AbsCommits' = AbsCommits
  BY <1>1, <1>3, AbsCommitsStay
<1>5. AbsSessions' = AbsSessions
  <2>1. Stage' = Stage
    BY <1>1 DEF Stage
  <2> QED
    BY <1>1, <2>1, AbsSessionsStay
<1>6. /\ branches'[n].head = branches[from].head /\ branches'[n].parent = from
      /\ branches'[n].fork = branches[from].head
  BY <1>2 DEF Fork
<1>7. AbsBranches' = [b \in DOMAIN branches \cup {n} |->
        IF b = n THEN [head |-> branches[from].head, parent |-> from,
                       fork |-> branches[from].head]
        ELSE AbsBranches[b]]
  BY <1>1, <1>2, <1>6 DEF AbsBranches
<1> QED
  BY <1>1, <1>3, <1>4, <1>5, <1>7 DEF Model!CreateBranch

(* What a session shows of a key: its staged version, or its base commit   *)
(* (engine.go:841-867).                                                    *)
LEMMA SessionShows ==
  ASSUME EngineInv, NEW s \in DOMAIN sessions, NEW pk \in PKs
  PROVE  /\ \A v \in Staged(s) : v.pk = pk => SessionResolve(s)[pk] = v.row
         /\ ~(\E v \in Staged(s) : v.pk = pk)
              => SessionResolve(s)[pk] = StateAtCommit(sessions[s].base)[pk]
<1>1. s # NoSession
  BY EngineAssumption DEF EngineInv, TypeOK
<1>2. \A v, w \in Staged(s) : w.pk = v.pk => w = v
  BY <1>1 DEF EngineInv, StagedVersionsOwned, Staged
<1>3. SessionResolve(s)[pk] = IF \E v \in Staged(s) : v.pk = pk
        THEN (CHOOSE v \in {w \in Staged(s) : w.pk = pk} : TRUE).row
        ELSE StateAtCommit(sessions[s].base)[pk]
  BY <1>1, SessionViewIs
<1>4. ASSUME NEW v \in Staged(s), v.pk = pk PROVE SessionResolve(s)[pk] = v.row
  <2>1. {w \in Staged(s) : w.pk = pk} = {v}
    BY <1>2, <1>4
  <2>2. (CHOOSE w \in {v} : TRUE) = v
    OBVIOUS
  <2> QED
    BY <1>3, <1>4, <2>1, <2>2
<1> QED
  BY <1>3, <1>4

(* Opening a session: it sees the head of its branch (engine.go:849-867).  *)
LEMMA OpenMaps ==
  ASSUME EngineInv, Grows, NEW s \in SessionIds, NEW b \in DOMAIN branches, OpenSession(s, b)
  PROVE  Model!OpenSession(s, b)
<1>1. /\ b # Main /\ s \notin DOMAIN sessions /\ UNCHANGED <<rows, branches, commits>>
      /\ sessions' = [x \in DOMAIN sessions \cup {s} |->
           IF x = s THEN [branch |-> b, base |-> branches[b].head] ELSE sessions[x]]
  BY DEF OpenSession
<1>2. TypeOK /\ branches[b].head \in DOMAIN commits
  BY Types DEF EngineInv
<1>3. AbsCommits' = AbsCommits /\ AbsBranches' = AbsBranches
  <2>1. AbsBranches' = AbsBranches
    BY <1>1 DEF AbsBranches
  <2> QED
    BY <1>1, <1>2, <2>1, AbsCommitsStay
<1>4. DOMAIN sessions' = DOMAIN sessions \cup {s}
  BY <1>1
<1>5. \A x \in DOMAIN sessions : AbsSessions'[x] = AbsSessions[x]
  <2> SUFFICES ASSUME NEW x \in DOMAIN sessions PROVE AbsSessions'[x] = AbsSessions[x]
    OBVIOUS
  <2>1. Staged(x)' = Staged(x) /\ x \in DOMAIN sessions'
    BY <1>1, <1>4 DEF Staged
  <2> QED
    BY <2>1, AbsSessionStays
<1>6. AbsSessions'[s] = [branch |-> b, base |-> branches[b].head, overlay |-> Resolve(b)]
  <2>1. PICK m : m = branches[b].head
    OBVIOUS
  <2>2. sessions'[s] = [branch |-> b, base |-> m]
    BY <1>1, <2>1
  <2>3. Staged(s)' = {}
    BY <1>1, EngineAssumption DEF EngineInv, StagedVersionsOwned, Staged
  <2>4. StateAtCommit(m)' = StateAtCommit(m) /\ StateAtCommit(m) = Resolve(b)
    BY <1>2, <2>1 DEF Grows, EngineInv, HeadMatchesHistory
  <2>5. SessionResolve(s)' = [pk \in PKs |-> StateAtCommit(m)'[pk]]
    <3>1. m = sessions'[s].base
      BY <2>2
    <3> QED
      BY <2>3, <3>1, SessionViewIs
  <2>6. SessionResolve(s)' = Resolve(b)
    BY <2>4, <2>5, ViewsAre
  <2> QED
    BY <1>4, <2>1, <2>2, <2>6 DEF AbsSessions
<1>7. /\ DOMAIN AbsSessions = DOMAIN sessions /\ AbsBranches[b].head = branches[b].head
      /\ Model!Resolve(b) = Resolve(b)
  BY AbsIs
<1>8. AbsSessions' = [x \in DOMAIN sessions \cup {s} |-> AbsSessions'[x]]
  BY <1>4 DEF AbsSessions
<1>9. AbsSessions' = [x \in DOMAIN AbsSessions \cup {s} |->
        IF x = s THEN [branch |-> b, base |-> AbsBranches[b].head, overlay |-> Model!Resolve(b)]
        ELSE AbsSessions[x]]
  BY <1>5, <1>6, <1>7, <1>8
<1> QED
  BY <1>1, <1>3, <1>7, <1>9 DEF Model!OpenSession

(* The branches of a step that leaves them alone.                          *)
LEMMA AbsBranchesStay ==
  ASSUME UNCHANGED branches
  PROVE  AbsBranches' = AbsBranches
BY DEF AbsBranches

(* What a session shows of a key after a step that keeps its base.         *)
LEMMA SessionShowsNext ==
  ASSUME EngineInv', Grows, EngineInv, NEW s \in DOMAIN sessions, s \in DOMAIN sessions',
         NEW pk \in PKs
  PROVE  /\ \A v \in Staged(s)' : v.pk = pk => SessionResolve(s)'[pk] = v.row
         /\ ~(\E v \in Staged(s)' : v.pk = pk)
              => SessionResolve(s)'[pk] = StateAtCommit(sessions[s].base)[pk]
<1>1. s # NoSession
  BY EngineAssumption DEF EngineInv, TypeOK
<1>2. \A v, w \in Staged(s)' : w.pk = v.pk => w = v
  BY <1>1 DEF EngineInv, StagedVersionsOwned, Staged
<1>3. PICK m : m = sessions[s].base
  OBVIOUS
<1>4. sessions'[s] = sessions[s] /\ m = sessions'[s].base /\ m \in DOMAIN commits
  BY <1>3 DEF Grows, EngineInv, TypeOK
<1>5. SessionResolve(s)'[pk] = IF \E v \in Staged(s)' : v.pk = pk
        THEN (CHOOSE v \in {w \in Staged(s)' : w.pk = pk} : TRUE).row
        ELSE StateAtCommit(m)'[pk]
  BY <1>1, <1>4, SessionViewIs
<1>6. StateAtCommit(m)' = StateAtCommit(m)
  BY <1>4 DEF Grows
<1>7. ASSUME NEW v \in Staged(s)', v.pk = pk PROVE SessionResolve(s)'[pk] = v.row
  <2>1. {w \in Staged(s)' : w.pk = pk} = {v}
    BY <1>2, <1>7
  <2>2. (CHOOSE w \in {v} : TRUE) = v
    OBVIOUS
  <2> QED
    BY <1>5, <1>7, <2>1, <2>2
<1> QED
  BY <1>3, <1>5, <1>6, <1>7

(* A session write applies the change set to the session's table           *)
(* (engine.go:869-924).                                                    *)
LEMMA SessionWriteMaps ==
  ASSUME EngineInv, EngineInv', Grows,
         NEW s \in DOMAIN sessions, NEW cs \in ChangeSets, SessionWrite(s, cs)
  PROVE  Model!SessionWrite(s, cs)
<1> DEFINE keys == SessionKeys(s, cs)
           view == SessionResolve(s)
<1>1. UNCHANGED <<branches, commits, sessions>>
  BY DEF SessionWrite
<1>2. TypeOK
  BY DEF EngineInv
<1>3. AbsCommits' = AbsCommits /\ AbsBranches' = AbsBranches
  BY <1>1, <1>2, AbsCommitsStay, AbsBranchesStay
<1>4. \A pk \in PKs : (pk \in DOMAIN cs /\ pk \notin keys => cs[pk] = view[pk])
                      /\ (pk \in keys => pk \in DOMAIN cs)
  BY DEF SessionKeys, Effective
<1>5. /\ \A w : w.session # s => (w \in Stage' <=> w \in Stage)
      /\ \A w : w.pk \notin keys => (w \in Staged(s)' <=> w \in Staged(s))
      /\ \A pk \in keys : \E w \in Staged(s)' : w.pk = pk
      /\ \A w \in Staged(s)' : w.pk \in keys => w.row = cs[w.pk]
  BY SessionWriteIs
<1> HIDE DEF keys, view
<1>6. ASSUME NEW pk \in PKs
      PROVE  SessionResolve(s)'[pk] = IF pk \in DOMAIN cs THEN cs[pk] ELSE view[pk]
  <2>1. /\ \A v \in Staged(s)' : v.pk = pk => SessionResolve(s)'[pk] = v.row
        /\ ~(\E v \in Staged(s)' : v.pk = pk)
             => SessionResolve(s)'[pk] = StateAtCommit(sessions[s].base)[pk]
    BY <1>1, SessionShowsNext
  <2>2. CASE pk \in keys
    <3>1. PICK w \in Staged(s)' : w.pk = pk
      BY <1>5, <2>2
    <3> QED
      BY <1>4, <1>5, <2>1, <2>2, <3>1
  <2>3. CASE pk \notin keys
    <3>1. /\ \A v \in Staged(s) : v.pk = pk => view[pk] = v.row
          /\ ~(\E v \in Staged(s) : v.pk = pk)
               => view[pk] = StateAtCommit(sessions[s].base)[pk]
      BY SessionShows DEF view
    <3>2. SessionResolve(s)'[pk] = view[pk]
      BY <1>5, <2>1, <2>3, <3>1
    <3> QED
      BY <1>4, <2>3, <3>2
  <2> QED
    BY <2>2, <2>3
<1>7. SessionResolve(s)' = Model!Apply(view, cs)
  <2>1. SessionResolve(s)' = [pk \in PKs |-> SessionResolve(s)'[pk]]
    <3>1. PICK m : m = sessions'[s].base
      OBVIOUS
    <3> QED
      BY <3>1, SessionViewIs
  <2> QED
    BY <1>6, <2>1 DEF Model!Apply
<1>8. \A x \in DOMAIN sessions : x # s => AbsSessions'[x] = AbsSessions[x]
  <2> SUFFICES ASSUME NEW x \in DOMAIN sessions, x # s PROVE AbsSessions'[x] = AbsSessions[x]
    OBVIOUS
  <2>1. x # NoSession
    BY EngineAssumption DEF EngineInv, TypeOK
  <2>2. \A w : w \in Staged(x)' <=> w \in Staged(x)
    BY <1>5, <2>1 DEF Stage, Staged
  <2>3. Staged(x)' = Staged(x)
    BY <2>2 DEF Staged
  <2> QED
    BY <1>1, <2>3, AbsSessionStays
<1>9. /\ DOMAIN AbsSessions = DOMAIN sessions
      /\ AbsSessions[s] = [branch |-> sessions[s].branch, base |-> sessions[s].base,
                           overlay |-> view]
  BY DEF AbsSessions, view
<1>10. AbsSessions'[s] = [branch |-> sessions[s].branch, base |-> sessions[s].base,
                          overlay |-> Model!Apply(view, cs)]
  BY <1>1, <1>7 DEF AbsSessions
<1>11. AbsSessions' = [AbsSessions EXCEPT ![s].overlay = Model!Apply(@, cs)]
  <2> DEFINE written == [AbsSessions EXCEPT ![s].overlay = Model!Apply(@, cs)]
  <2>1. AbsSessions' = [x \in DOMAIN sessions |-> AbsSessions'[x]]
    BY <1>1 DEF AbsSessions
  <2>2. DOMAIN written = DOMAIN sessions /\ written = [x \in DOMAIN sessions |-> written[x]]
    BY <1>9
  <2>3. \A x \in DOMAIN sessions : x # s => written[x] = AbsSessions[x]
    BY <1>9
  <2>4. written[s] = [AbsSessions[s] EXCEPT !.overlay = Model!Apply(@, cs)]
    BY <1>9
  <2>5. [AbsSessions[s] EXCEPT !.overlay = Model!Apply(@, cs)]
          = [branch |-> sessions[s].branch, base |-> sessions[s].base,
             overlay |-> Model!Apply(view, cs)]
    BY <1>9
  <2> HIDE DEF written
  <2>6. AbsSessions' = written
    BY <1>8, <1>10, <2>1, <2>2, <2>3, <2>4, <2>5
  <2> QED
    BY <2>6 DEF written
<1> QED
  BY <1>3, <1>11 DEF Model!SessionWrite

(* The end of a session leaves the others as they are                      *)
(* (engine.go:869-924).                                                    *)
LEMMA CloseMaps ==
  ASSUME EngineInv, Grows, NEW s \in DOMAIN sessions, Close(s), Stage' = Stage \ Staged(s)
  PROVE  Model!Close(s)
<1>1. DOMAIN sessions' = DOMAIN sessions \ {s} /\ DOMAIN AbsSessions = DOMAIN sessions
  BY DEF Close, AbsSessions
<1>2. ASSUME NEW x \in DOMAIN sessions \ {s} PROVE AbsSessions'[x] = AbsSessions[x]
  <2>1. x # NoSession
    BY EngineAssumption DEF EngineInv, TypeOK
  <2>2. \A w : w \in Staged(x)' <=> w \in Staged(x)
    BY <2>1 DEF Stage, Staged
  <2>3. Staged(x)' = Staged(x)
    BY <2>2 DEF Staged
  <2> QED
    BY <1>1, <2>3, AbsSessionStays
<1>3. AbsSessions' = [x \in DOMAIN sessions' |-> AbsSessions'[x]]
  BY DEF AbsSessions
<1> QED
  BY <1>1, <1>2, <1>3 DEF Model!Close

(* What a session publishes is its table (engine.go:869-906).              *)
LEMMA SessionPublishesView ==
  ASSUME EngineInv, NEW s \in DOMAIN sessions, NEW b, b = sessions[s].branch,
         branches[b].head = sessions[s].base, NEW parents,
         Publishes(b, branches[b].chain, SessionWrites(s), parents), NEW n, n = NewId
  PROVE  StateAtCommit(n)' = SessionResolve(s)
<1> DEFINE keys == {v.pk : v \in Staged(s)}
           images == SessionResolve(s)
           view == Resolve(b)
           tail == branches[b].chain
           new == SessionWrites(s)
<1>1. b \in DOMAIN branches
  BY DEF Publishes
<1>2. \A v \in Staged(s) : v.pk \in PKs
  BY DEF EngineInv, TypeOK, Staged, VersionType
<1>3. /\ \A v \in Staged(s) : \E w \in new : w.pk = v.pk /\ w.row = v.row
      /\ \A w \in new : \E v \in Staged(s) : w.pk = v.pk /\ w.row = v.row
  BY SessionWritesAre
<1>4. \A v \in Staged(s) : images[v.pk] = v.row
  BY <1>2, SessionShows
<1>5. \A pk \in PKs : pk \notin keys => images[pk] = view[pk]
  <2> SUFFICES ASSUME NEW pk \in PKs, pk \notin keys PROVE images[pk] = view[pk]
    OBVIOUS
  <2>1. images[pk] = StateAtCommit(sessions[s].base)[pk]
    BY SessionShows
  <2>2. view = StateAtCommit(branches[b].head)
    BY <1>1 DEF EngineInv, HeadMatchesHistory
  <2> QED
    BY <2>1, <2>2
<1>6. PICK m : m = Heads[b]
  OBVIOUS
<1>7. IsView(view, <<[branch |-> b, seq |-> m]>> \o tail)
  BY <1>1, <1>6, HeadView
<1>8. images = [pk \in PKs |-> images[pk]]
  BY ViewsAre
<1>9. keys \in SUBSET PKs /\ \A v \in Staged(s) : v.pk \in keys
  BY <1>2
<1>10. \A pk \in keys : \E v \in Staged(s) : v.pk = pk
  OBVIOUS
<1> HIDE DEF keys, images, view, tail, new
<1>11. Wrote(new, keys, images)
  BY <1>3, <1>4, <1>9, <1>10 DEF Wrote
<1>12. StateAtCommit(n)' = Over(view, keys, images)
  BY <1>1, <1>6, <1>7, <1>11, WriteShows DEF tail, new
<1>13. Over(view, keys, images) = images
  BY <1>5, <1>8 DEF Over
<1> QED
  BY <1>12, <1>13 DEF images

(* The publication of a session (engine.go:869-906).                       *)
LEMMA CommitSessionMaps ==
  ASSUME EngineInv, Grows, NEW s \in DOMAIN sessions, CommitSession(s)
  PROVE  Model!CommitSession(s)
<1>1. PICK b, n : b = sessions[s].branch /\ n = NewId
  OBVIOUS
<1> DEFINE tail == branches[b].chain
           parents == {branches[b].head}
           new == SessionWrites(s)
<1>2. /\ Publishes(b, tail, new, parents) /\ Stage' = Stage \ Staged(s)
      /\ Close(s) /\ branches[b].head = sessions[s].base
  BY <1>1, SessionPublishes
<1>3. b \in DOMAIN branches
  BY <1>2 DEF Publishes
<1>4. StateAtCommit(n)' = SessionResolve(s)
  BY <1>1, <1>2, SessionPublishesView
<1>5. branches'[b].fork = branches[b].fork
  <2>1. MoveHead(b) /\ TypeOK
    BY <1>1 DEF CommitSession, EngineInv
  <2> QED
    BY <1>3, <2>1, ForkStays
<1>6. parents = {branches[b].head} \cup {}
  OBVIOUS
<1> HIDE DEF tail, parents, new
<1>7. Model!NewCommit(b, StateAtCommit(n)', {})
  BY <1>1, <1>2, <1>6, AbsPublish
<1>8. Model!MoveHead(b)
  BY <1>2, <1>5, <1>6, AbsMoves
<1>9. Model!Close(s)
  BY <1>2, CloseMaps
<1>10. /\ AbsSessions[s] = [branch |-> b, base |-> sessions[s].base,
                            overlay |-> SessionResolve(s)]
       /\ AbsBranches[b].head = branches[b].head
  BY <1>1, <1>3, AbsIs
<1> QED
  BY <1>2, <1>4, <1>7, <1>8, <1>9, <1>10 DEF Model!CommitSession

(* A session given up (engine.go:908-924).                                 *)
LEMMA AbandonMaps ==
  ASSUME EngineInv, Grows, NEW s \in DOMAIN sessions, AbandonSession(s)
  PROVE  Model!AbandonSession(s)
<1>1. Close(s) /\ UNCHANGED <<branches, commits>> /\ rows' = rows \ Staged(s)
  BY DEF AbandonSession
<1>2. Stage' = Stage \ Staged(s)
  BY <1>1 DEF Stage
<1>3. AbsCommits' = AbsCommits /\ AbsBranches' = AbsBranches
  BY <1>1, AbsCommitsStay, AbsBranchesStay DEF EngineInv
<1>4. Model!Close(s)
  BY <1>1, <1>2, CloseMaps
<1> QED
  BY <1>3, <1>4 DEF Model!AbandonSession

-----------------------------------------------------------------------------
(* The refinement.                                                         *)

(* Every step of the engine is a step of the model, or leaves it alone     *)
(* (engine.go:178-924).                                                    *)
LEMMA StepMaps ==
  ASSUME MaskInv, [Next]_vars
  PROVE  [Model!Next]_(Model!vars)
<1>1. EngineInv /\ EngineInv' /\ Grows
  BY StepKeeps DEF MaskInv
<1>2. DOMAIN AbsBranches = DOMAIN branches /\ DOMAIN AbsSessions = DOMAIN sessions
  BY DEF AbsBranches, AbsSessions
<1>3. ASSUME NEW b \in DOMAIN branches, NEW cs \in ChangeSets, Commit(b, cs)
      PROVE  Model!Next
  <2>1. Model!Commit(b, cs)
    BY <1>1, <1>3, CommitMaps
  <2> QED
    BY <1>2, <2>1 DEF Model!Next
<1>4. ASSUME NEW n \in Branches, NEW from \in DOMAIN branches, CreateBranch(n, from)
      PROVE  Model!Next
  <2>1. Model!CreateBranch(n, from)
    BY <1>1, <1>4, ForkMaps
  <2> QED
    BY <1>2, <2>1 DEF Model!Next
<1>5. ASSUME NEW from \in DOMAIN branches, NEW into \in DOMAIN branches, Merge(from, into)
      PROVE  Model!Next
  <2>1. Model!Merge(from, into)
    BY <1>1, <1>5, MergeMaps
  <2> QED
    BY <1>2, <2>1 DEF Model!Next
<1>6. ASSUME NEW b \in DOMAIN branches, UpdateFromParent(b)
      PROVE  Model!Next
  <2>1. Model!UpdateFromParent(b)
    BY <1>1, <1>6, UpdateMaps
  <2> QED
    BY <1>2, <2>1 DEF Model!Next
<1>7. ASSUME NEW s \in SessionIds, NEW b \in DOMAIN branches, OpenSession(s, b)
      PROVE  Model!Next
  <2>1. Model!OpenSession(s, b)
    BY <1>1, <1>7, OpenMaps
  <2> QED
    BY <1>2, <2>1 DEF Model!Next
<1>8. ASSUME NEW s \in DOMAIN sessions, NEW cs \in ChangeSets, SessionWrite(s, cs)
      PROVE  Model!Next
  <2>1. Model!SessionWrite(s, cs)
    BY <1>1, <1>8, SessionWriteMaps
  <2> QED
    BY <1>2, <2>1 DEF Model!Next
<1>9. ASSUME NEW s \in DOMAIN sessions, CommitSession(s) \/ AbandonSession(s)
      PROVE  Model!Next
  <2>1. Model!CommitSession(s) \/ Model!AbandonSession(s)
    BY <1>1, <1>9, CommitSessionMaps, AbandonMaps
  <2> QED
    BY <1>2, <2>1 DEF Model!Next
<1>10. ASSUME UNCHANGED vars
       PROVE  UNCHANGED Model!vars
  <2>1. UNCHANGED <<rows, branches, commits, sessions>> /\ Stage' = Stage
    BY <1>10 DEF vars, Stage
  <2>2. AbsCommits' = AbsCommits /\ AbsBranches' = AbsBranches
    BY <1>1, <2>1, AbsCommitsStay, AbsBranchesStay DEF EngineInv
  <2>3. AbsSessions' = AbsSessions
    BY <1>1, <2>1, AbsSessionsStay
  <2> QED
    BY <2>2, <2>3 DEF Model!vars
<1> QED
  BY <1>3, <1>4, <1>5, <1>6, <1>7, <1>8, <1>9, <1>10 DEF Next

(* The empty store is the empty model (engine.go:85-120).                  *)
LEMMA InitMaps == Init => Model!Init
<1> SUFFICES ASSUME Init PROVE Model!Init
  OBVIOUS
<1>1. commits = <<RootCommit>> /\ rows = {} /\ DOMAIN branches = {Main} /\ DOMAIN sessions = {}
  BY DEF Init
<1>2. /\ Len(commits) = 1 /\ commits[1].parents = {} /\ commits[1].branch = Main
  BY <1>1 DEF RootCommit
<1>3. StateAtCommit(1) = Model!EmptyTable
  <2>1. \A chain, pk : FirstHits(chain, pk) = {}
    BY <1>1 DEF FirstHits, Hits
  <2>2. \A chain, pk : Winner(chain, NoSession, pk) = Absent
    BY <1>1, <2>1 DEF Winner
  <2> QED
    BY <2>2 DEF StateAtCommit, ResolveChain, Model!EmptyTable
<1>4. AbsCommits = <<Model!RootCommit>>
  <2>1. AbsCommits = [c \in 1 .. 1 |-> [parents |-> commits[c].parents,
                        branch |-> commits[c].branch, state |-> StateAtCommit(c)]]
    BY <1>2 DEF AbsCommits
  <2>2. <<Model!RootCommit>> = [c \in 1 .. 1 |-> Model!RootCommit]
    OBVIOUS
  <2>3. Model!RootCommit = [parents |-> {}, branch |-> Main, state |-> Model!EmptyTable]
    BY DEF Model!RootCommit
  <2>4. \A c \in 1 .. 1 : c = 1
    OBVIOUS
  <2>5. \A c \in 1 .. 1 : [parents |-> commits[c].parents, branch |-> commits[c].branch,
                           state |-> StateAtCommit(c)] = Model!RootCommit
    BY <1>2, <1>3, <2>3, <2>4
  <2> QED
    BY <2>1, <2>2, <2>5
<1>5. AbsBranches = [b \in {Main} |-> [head |-> 1, parent |-> Main, fork |-> 1]]
  BY DEF Init, AbsBranches
<1>6. AbsSessions = [s \in {} |-> Model!RootCommit]
  BY <1>1 DEF AbsSessions
<1> QED
  BY <1>4, <1>5, <1>6 DEF Model!Init

(* The version store implements the snapshot model: resolution by intervals*)
(* and chains equals the snapshot, a mask-narrowed merge accepts, refuses  *)
(* and produces what the comparison of whole snapshots does, a session     *)
(* publishes the table it shows, for any number of branches, keys, columns,*)
(* sessions and commits (engine.go:178-924, test/property).                *)
THEOREM EngineImplementsModel == Spec => ImplementsModel
<1>1. Init => Model!Init
  BY InitMaps
<1>2. MaskInv /\ [Next]_vars => [Model!Next]_(Model!vars)
  BY StepMaps
<1>3. Spec => []MaskInv
  BY MaskInvariance
<1> QED
  BY <1>1, <1>2, <1>3, PTL DEF Spec, ImplementsModel, Model!Spec
=============================================================================
