----------------------------- MODULE Resolution -----------------------------
(***************************************************************************)
(* What a chain of segments shows of a set of published row versions, and  *)
(* what a commit does to it: facts about resolution that hold whichever    *)
(* program keeps the versions.  internal/engine (engine.go:216-258) and    *)
(* internal/store (read.go:87-119) resolve by the same rule.  Also what    *)
(* merges of a row do, and what is above a commit in the commit graph.     *)
(*                                                                         *)
(* Operators here are functions of their parameters only; store and later  *)
(* are the versions before and after a commit, heads the sequence number   *)
(* of each branch's head and max the sentinel of open versions.            *)
(***************************************************************************)
EXTENDS Rows, WellFoundedInduction, TLAPS

Chains(B) == Seq([branch : B, seq : Nat])

SegmentHits(store, segment, pk) ==
  {v \in store : /\ v.pk = pk /\ v.branch = segment.branch
                 /\ v.from <= segment.seq /\ segment.seq < v.to}

TopHits(store, chain, pk) ==
  UNION {SegmentHits(store, chain[i], pk) : i \in {k \in DOMAIN chain :
           \A j \in 1 .. k - 1 : SegmentHits(store, chain[j], pk) = {}}}

Shown(store, chain, pk) ==
  LET found == TopHits(store, chain, pk)
  IN  IF found = {} THEN Absent ELSE (CHOOSE v \in found : TRUE).row

Numbered(store) == \A v \in store : v.from \in Nat /\ v.to \in Nat

(* Two versions of one key on one branch are valid at no common number.    *)
Apart(store) ==
  \A v, w \in store : v.branch = w.branch /\ v.pk = w.pk /\ v # w
                        => v.to <= w.from \/ w.to <= v.from

(* Versions begin and end by the head of their branch, or are open.        *)
Placed(store, heads, max) ==
  \A v \in store : /\ v.branch \in DOMAIN heads
                   /\ 1 <= v.from /\ v.from <= heads[v.branch]
                   /\ v.to = max \/ v.to <= heads[v.branch]

(* No segment reaches past the head of its branch.                         *)
Within(chain, heads) ==
  \A i \in DOMAIN chain : /\ chain[i].branch \in DOMAIN heads
                          /\ chain[i].seq <= heads[chain[i].branch]

-----------------------------------------------------------------------------
(* A segment in front of a chain.                                          *)
LEMMA Prepend ==
  ASSUME NEW B, NEW b \in B, NEW n \in Nat, NEW chain \in Chains(B)
  PROVE  LET new == <<[branch |-> b, seq |-> n]>> \o chain
         IN  /\ new \in Chains(B) /\ Len(chain) \in Nat
             /\ DOMAIN chain = 1 .. Len(chain) /\ DOMAIN new = 1 .. Len(chain) + 1
             /\ new[1] = [branch |-> b, seq |-> n]
             /\ \A i \in DOMAIN chain : new[i + 1] = chain[i]
             /\ \A i \in DOMAIN new : i # 1 => i - 1 \in DOMAIN chain /\ new[i] = chain[i - 1]
<1> DEFINE s == [branch |-> b, seq |-> n]
           S == [branch : B, seq : Nat]
<1>1. s \in S /\ chain \in Seq(S)
  BY DEF Chains
<1> HIDE DEF s, S
<1>2. /\ <<s>> \o chain \in Seq(S) /\ Len(chain) \in Nat /\ DOMAIN chain = 1 .. Len(chain)
      /\ Len(<<s>> \o chain) = Len(chain) + 1
      /\ DOMAIN (<<s>> \o chain) = 1 .. Len(chain) + 1
      /\ (<<s>> \o chain)[1] = s
      /\ \A i \in DOMAIN chain : (<<s>> \o chain)[i + 1] = chain[i]
  BY <1>1
<1>3. \A i \in DOMAIN (<<s>> \o chain) :
        i # 1 => i - 1 \in DOMAIN chain /\ (<<s>> \o chain)[i] = chain[i - 1]
  BY <1>1, <1>2
<1> QED
  BY <1>2, <1>3 DEF Chains, s, S

(* A segment of a chain has a branch and a number.                         *)
LEMMA ChainFacts ==
  ASSUME NEW B, NEW chain \in Chains(B)
  PROVE  /\ Len(chain) \in Nat /\ DOMAIN chain = 1 .. Len(chain)
         /\ \A i \in DOMAIN chain : chain[i].branch \in B /\ chain[i].seq \in Nat
<1> DEFINE S == [branch : B, seq : Nat]
<1>1. chain \in Seq(S)
  BY DEF Chains
<1> HIDE DEF S
<1>2. /\ Len(chain) \in Nat /\ DOMAIN chain = 1 .. Len(chain)
      /\ \A i \in DOMAIN chain : chain[i] \in S
  BY <1>1
<1> QED
  BY <1>2 DEF S

(* The first segment that has a version of the key wins (engine.go:236).   *)
LEMMA TopOfPrepend ==
  ASSUME NEW B, NEW b \in B, NEW n \in Nat, NEW chain \in Chains(B), NEW store, NEW pk
  PROVE  LET s == [branch |-> b, seq |-> n]
         IN  TopHits(store, <<s>> \o chain, pk)
               = IF SegmentHits(store, s, pk) # {} THEN SegmentHits(store, s, pk)
                 ELSE TopHits(store, chain, pk)
<1> DEFINE s == [branch |-> b, seq |-> n]
           new == <<s>> \o chain
           hits(x) == SegmentHits(store, x, pk)
<1>1. /\ Len(chain) \in Nat
      /\ DOMAIN chain = 1 .. Len(chain) /\ DOMAIN new = 1 .. Len(chain) + 1
      /\ new[1] = s
      /\ \A i \in DOMAIN chain : new[i + 1] = chain[i]
      /\ \A i \in DOMAIN new : i # 1 => i - 1 \in DOMAIN chain /\ new[i] = chain[i - 1]
  BY Prepend
<1>2. TopHits(store, new, pk) = UNION {hits(new[i]) : i \in {k \in DOMAIN new :
                                          \A j \in 1 .. k - 1 : hits(new[j]) = {}}}
  BY DEF TopHits
<1>3. TopHits(store, chain, pk) = UNION {hits(chain[i]) : i \in {k \in DOMAIN chain :
                                          \A j \in 1 .. k - 1 : hits(chain[j]) = {}}}
  BY DEF TopHits
<1> HIDE DEF new, hits, s
<1>4. CASE hits(s) # {}
  <2>1. \A k \in DOMAIN new : (\A j \in 1 .. k - 1 : hits(new[j]) = {}) <=> k = 1
    <3> SUFFICES ASSUME NEW k \in DOMAIN new
                 PROVE  (\A j \in 1 .. k - 1 : hits(new[j]) = {}) <=> k = 1
      OBVIOUS
    <3>1. CASE k = 1
      <4>1. 1 .. k - 1 = {}
        BY <3>1
      <4> QED
        BY <3>1, <4>1
    <3>2. CASE k # 1
      <4>1. 1 \in 1 .. k - 1
        BY <1>1, <3>2
      <4> QED
        BY <1>1, <1>4, <3>2, <4>1
    <3> QED
      BY <3>1, <3>2
  <2>2. 1 \in DOMAIN new
    BY <1>1
  <2>3. {k \in DOMAIN new : \A j \in 1 .. k - 1 : hits(new[j]) = {}} = {1}
    BY <2>1, <2>2
  <2>4. TopHits(store, new, pk) = hits(s)
    BY <1>1, <1>2, <2>3
  <2> QED
    BY <1>4, <2>4 DEF new, hits, s
<1>5. CASE hits(s) = {}
  <2>1. ASSUME NEW k \in DOMAIN chain
        PROVE  (\A j \in 1 .. k - 1 : hits(chain[j]) = {})
                 <=> (\A j \in 1 .. (k + 1) - 1 : hits(new[j]) = {})
    <3>1. ASSUME \A j \in 1 .. k - 1 : hits(chain[j]) = {}, NEW j \in 1 .. (k + 1) - 1
          PROVE  hits(new[j]) = {}
      <4>1. j = 1 \/ (j - 1 \in 1 .. k - 1 /\ new[j] = chain[j - 1])
        BY <1>1, <3>1
      <4> QED
        BY <1>1, <1>5, <3>1, <4>1
    <3>2. ASSUME \A j \in 1 .. (k + 1) - 1 : hits(new[j]) = {}, NEW j \in 1 .. k - 1
          PROVE  hits(chain[j]) = {}
      <4>1. j \in DOMAIN chain /\ j + 1 \in 1 .. (k + 1) - 1
        BY <1>1, <3>2
      <4>2. new[j + 1] = chain[j]
        BY <1>1, <4>1
      <4> QED
        BY <3>2, <4>1, <4>2
    <3> QED
      BY <3>1, <3>2
  <2>2. ASSUME NEW v \in TopHits(store, new, pk) PROVE v \in TopHits(store, chain, pk)
    <3>1. PICK i \in DOMAIN new : v \in hits(new[i]) /\ \A j \in 1 .. i - 1 : hits(new[j]) = {}
      BY <1>2, <2>2
    <3>2. i # 1
      BY <1>1, <1>5, <3>1
    <3>3. /\ i - 1 \in DOMAIN chain /\ new[i] = chain[i - 1] /\ (i - 1) + 1 = i
      BY <1>1, <3>2
    <3>4. \A j \in 1 .. (i - 1) - 1 : hits(chain[j]) = {}
      BY <2>1, <3>1, <3>3
    <3> QED
      BY <1>3, <3>1, <3>3, <3>4
  <2>3. ASSUME NEW v \in TopHits(store, chain, pk) PROVE v \in TopHits(store, new, pk)
    <3>1. PICK i \in DOMAIN chain :
            v \in hits(chain[i]) /\ \A j \in 1 .. i - 1 : hits(chain[j]) = {}
      BY <1>3, <2>3
    <3>2. i + 1 \in DOMAIN new /\ new[i + 1] = chain[i]
      BY <1>1
    <3>3. \A j \in 1 .. (i + 1) - 1 : hits(new[j]) = {}
      BY <2>1, <3>1
    <3> QED
      BY <1>2, <3>1, <3>2, <3>3
  <2>4. TopHits(store, new, pk) = TopHits(store, chain, pk)
    BY <2>2, <2>3
  <2> QED
    BY <1>5, <2>4 DEF new, hits, s
<1> QED
  BY <1>4, <1>5

(* Versions that are apart: at most one of them is in a segment.           *)
LEMMA OneInSegment ==
  ASSUME NEW store, Numbered(store), Apart(store), NEW segment, segment.seq \in Nat, NEW pk,
         NEW v \in SegmentHits(store, segment, pk), NEW w \in SegmentHits(store, segment, pk)
  PROVE  v = w
<1>1. /\ v \in store /\ w \in store /\ v.branch = w.branch /\ v.pk = w.pk
      /\ v.from <= segment.seq /\ segment.seq < v.to
      /\ w.from <= segment.seq /\ segment.seq < w.to
  BY DEF SegmentHits
<1>2. v.from \in Nat /\ v.to \in Nat /\ w.from \in Nat /\ w.to \in Nat
  BY <1>1 DEF Numbered
<1>3. ~(v.to <= w.from) /\ ~(w.to <= v.from)
  BY <1>1, <1>2
<1> QED
  BY <1>1, <1>3 DEF Apart

(* So a chain shows the row of any version it puts on top.                 *)
LEMMA ShownIs ==
  ASSUME NEW store, Numbered(store), Apart(store), NEW B, NEW chain \in Chains(B), NEW pk,
         NEW v \in TopHits(store, chain, pk)
  PROVE  Shown(store, chain, pk) = v.row
<1> DEFINE hits(i) == SegmentHits(store, chain[i], pk)
<1>1. \A w \in TopHits(store, chain, pk) :
        \E i \in DOMAIN chain : w \in hits(i) /\ \A j \in 1 .. i - 1 : hits(j) = {}
  BY DEF TopHits
<1>2. DOMAIN chain = 1 .. Len(chain) /\ Len(chain) \in Nat
      /\ \A i \in DOMAIN chain : chain[i].seq \in Nat
  BY ChainFacts
<1>3. ASSUME NEW w \in TopHits(store, chain, pk) PROVE w = v
  <2>1. PICK i \in DOMAIN chain : v \in hits(i) /\ \A j \in 1 .. i - 1 : hits(j) = {}
    BY <1>1
  <2>2. PICK k \in DOMAIN chain : w \in hits(k) /\ \A j \in 1 .. k - 1 : hits(j) = {}
    BY <1>1
  <2> HIDE DEF hits
  <2>3. ~(i < k) /\ ~(k < i)
    BY <1>2, <2>1, <2>2
  <2>4. i = k
    BY <1>2, <2>3
  <2> QED
    BY <1>2, <2>1, <2>2, <2>4, OneInSegment DEF hits
<1>4. (CHOOSE w \in TopHits(store, chain, pk) : TRUE) = v
  BY <1>3
<1> QED
  BY <1>4 DEF Shown

(* What a chain shows with one more segment in front (engine.go:228-246).  *)
LEMMA ShownOfPrepend ==
  ASSUME NEW B, NEW b \in B, NEW n \in Nat, NEW chain \in Chains(B), NEW store, NEW pk
  PROVE  LET s == [branch |-> b, seq |-> n]
             new == <<s>> \o chain
         IN  /\ SegmentHits(store, s, pk) = {} => Shown(store, new, pk) = Shown(store, chain, pk)
             /\ Numbered(store) /\ Apart(store)
                  => \A v \in SegmentHits(store, s, pk) : Shown(store, new, pk) = v.row
<1> DEFINE s == [branch |-> b, seq |-> n]
           new == <<s>> \o chain
<1>1. TopHits(store, new, pk) = IF SegmentHits(store, s, pk) # {} THEN SegmentHits(store, s, pk)
                                ELSE TopHits(store, chain, pk)
  BY TopOfPrepend
<1>2. new \in Chains(B)
  BY Prepend
<1> HIDE DEF new, s
<1>3. SegmentHits(store, s, pk) = {} => Shown(store, new, pk) = Shown(store, chain, pk)
  BY <1>1 DEF Shown
<1>4. ASSUME Numbered(store), Apart(store), NEW v \in SegmentHits(store, s, pk)
      PROVE  Shown(store, new, pk) = v.row
  <2>1. v \in TopHits(store, new, pk)
    BY <1>1, <1>4
  <2> QED
    BY <1>2, <1>4, <2>1, ShownIs
<1> QED
  BY <1>3, <1>4 DEF new, s

(* A chain with the same rows in every segment of two stores shows the     *)
(* same of both.                                                           *)
LEMMA SameShown ==
  ASSUME NEW s, Numbered(s), Apart(s), NEW t, Numbered(t), Apart(t),
         NEW B, NEW chain \in Chains(B), NEW pk,
         \A i \in DOMAIN chain :
           /\ \A v \in SegmentHits(s, chain[i], pk) :
                \E w \in SegmentHits(t, chain[i], pk) : w.row = v.row
           /\ \A w \in SegmentHits(t, chain[i], pk) :
                \E v \in SegmentHits(s, chain[i], pk) : w.row = v.row
  PROVE  Shown(s, chain, pk) = Shown(t, chain, pk)
<1> DEFINE h(i) == SegmentHits(s, chain[i], pk)
           g(i) == SegmentHits(t, chain[i], pk)
<1>1. /\ \A v : v \in TopHits(s, chain, pk) <=> \E i \in DOMAIN chain :
                    v \in h(i) /\ \A j \in 1 .. i - 1 : h(j) = {}
      /\ \A v : v \in TopHits(t, chain, pk) <=> \E i \in DOMAIN chain :
                    v \in g(i) /\ \A j \in 1 .. i - 1 : g(j) = {}
  BY DEF TopHits
<1>2. DOMAIN chain = 1 .. Len(chain) /\ Len(chain) \in Nat
  BY ChainFacts
<1>3. \A i \in DOMAIN chain : /\ \A v \in h(i) : \E w \in g(i) : w.row = v.row
                              /\ \A w \in g(i) : \E v \in h(i) : w.row = v.row
  OBVIOUS
<1> HIDE DEF h, g
<1>4. \A i \in DOMAIN chain : h(i) = {} <=> g(i) = {}
  BY <1>3
<1>5. \A k \in DOMAIN chain : (\A j \in 1 .. k - 1 : h(j) = {}) <=> (\A j \in 1 .. k - 1 : g(j) = {})
  BY <1>2, <1>4
<1>6. CASE TopHits(s, chain, pk) = {}
  <2>1. \A i \in DOMAIN chain : (\A j \in 1 .. i - 1 : h(j) = {}) => h(i) = {}
    BY <1>1, <1>6
  <2>2. \A i \in DOMAIN chain : (\A j \in 1 .. i - 1 : g(j) = {}) => g(i) = {}
    BY <1>4, <1>5, <2>1
  <2>3. TopHits(t, chain, pk) = {}
    BY <1>1, <2>2
  <2> QED
    BY <1>6, <2>3 DEF Shown
<1>7. CASE TopHits(s, chain, pk) # {}
  <2>1. PICK v : v \in TopHits(s, chain, pk)
    BY <1>7
  <2>2. PICK i \in DOMAIN chain : v \in h(i) /\ \A j \in 1 .. i - 1 : h(j) = {}
    BY <1>1, <2>1
  <2>3. PICK w \in g(i) : w.row = v.row
    BY <1>3, <2>2
  <2>4. w \in TopHits(t, chain, pk)
    BY <1>1, <1>5, <2>2, <2>3
  <2> QED
    BY <2>1, <2>3, <2>4, ShownIs
<1> QED
  BY <1>6, <1>7

-----------------------------------------------------------------------------
(* A commit on branch b: age[v] is what becomes of version v, new the      *)
(* versions it opens at seq.  The open versions of the same keys on b are  *)
(* closed there (engine.go:437-500, store.go:428-446, 555-596).            *)
Lands(store, later, age, new, b, seq, max) ==
  /\ later = {age[v] : v \in store} \cup new
  /\ \A v \in store :
       /\ age[v].branch = v.branch /\ age[v].pk = v.pk /\ age[v].from = v.from
       /\ age[v].row = v.row /\ age[v].changed = v.changed
       /\ age[v].to = IF v.branch = b /\ v.to = max /\ (\E w \in new : w.pk = v.pk)
                      THEN seq ELSE v.to
  /\ \A w \in new : w.branch = b /\ w.from = seq /\ w.to = max
  /\ \A w, x \in new : w.pk = x.pk => w = x

(* The numbers a commit works with: right above the head, below the        *)
(* sentinel.                                                               *)
AtHead(heads, b, seq, max) ==
  /\ b \in DOMAIN heads /\ \A x \in DOMAIN heads : heads[x] \in Nat
  /\ seq = heads[b] + 1 /\ max \in Nat /\ seq < max

(* What becomes of a version (engine.go:445-462).                          *)
LEMMA Aging ==
  ASSUME NEW store, NEW later, NEW age, NEW new, NEW heads, NEW b, NEW seq, NEW max,
         Lands(store, later, age, new, b, seq, max), AtHead(heads, b, seq, max),
         Numbered(store), Placed(store, heads, max)
  PROVE  /\ \A v \in store :
              /\ age[v] \in later
              /\ age[v].to \in Nat /\ age[v].to <= v.to
              /\ v.branch = b /\ (\E w \in new : w.pk = v.pk) => age[v].to <= seq
              /\ v.branch # b \/ v.to # max \/ ~(\E w \in new : w.pk = v.pk)
                   => age[v].to = v.to
         /\ Numbered(later)
<1>1. seq \in Nat /\ max \in Nat /\ heads[b] \in Nat /\ seq = heads[b] + 1 /\ seq < max
  BY DEF AtHead
<1>2. ASSUME NEW v \in store
      PROVE  /\ age[v] \in later
             /\ age[v].to \in Nat /\ age[v].to <= v.to /\ age[v].from \in Nat
             /\ v.branch = b /\ (\E w \in new : w.pk = v.pk) => age[v].to <= seq
             /\ v.branch # b \/ v.to # max \/ ~(\E w \in new : w.pk = v.pk) => age[v].to = v.to
  <2>1. v.from \in Nat /\ v.to \in Nat
    BY DEF Numbered
  <2>2. v.to = max \/ v.to <= heads[v.branch]
    BY DEF Placed
  <2>3. age[v] \in later /\ age[v].from = v.from
    BY DEF Lands
  <2>4. age[v].to = IF v.branch = b /\ v.to = max /\ (\E w \in new : w.pk = v.pk)
                    THEN seq ELSE v.to
    BY DEF Lands
  <2> DEFINE taken == \E w \in new : w.pk = v.pk
  <2> HIDE DEF taken
  <2>5. age[v].to = IF v.branch = b /\ v.to = max /\ taken THEN seq ELSE v.to
    BY <2>4 DEF taken
  <2>6. CASE v.branch = b /\ v.to = max /\ taken
    <3>1. age[v].to = seq
      BY <2>5, <2>6
    <3> QED
      BY <1>1, <2>1, <2>3, <2>6, <3>1 DEF taken
  <2>7. CASE ~(v.branch = b /\ v.to = max /\ taken)
    <3>1. age[v].to = v.to
      BY <2>5, <2>7
    <3>2. v.branch = b /\ taken => v.to <= heads[b]
      BY <2>2, <2>7
    <3> QED
      BY <1>1, <2>1, <2>3, <3>1, <3>2 DEF taken
  <2> QED
    BY <2>6, <2>7
<1>3. Numbered(later)
  <2>1. \A w \in new : w.from \in Nat /\ w.to \in Nat
    BY <1>1 DEF Lands
  <2>2. later = {age[v] : v \in store} \cup new
    BY DEF Lands
  <2> QED
    BY <1>2, <2>1, <2>2 DEF Numbered
<1> QED
  BY <1>2, <1>3

(* Versions stay apart (engine.go:437-500).                                *)
LEMMA LandsApart ==
  ASSUME NEW store, NEW later, NEW age, NEW new, NEW heads, NEW b, NEW seq, NEW max,
         Lands(store, later, age, new, b, seq, max), AtHead(heads, b, seq, max),
         Numbered(store), Placed(store, heads, max), Apart(store)
  PROVE  Apart(later)
<1> SUFFICES ASSUME NEW v \in later, NEW w \in later, v.branch = w.branch, v.pk = w.pk, v # w
             PROVE  v.to <= w.from \/ w.to <= v.from
  BY DEF Apart
<1>1. /\ later = {age[x] : x \in store} \cup new
      /\ \A x \in store : age[x].branch = x.branch /\ age[x].pk = x.pk /\ age[x].from = x.from
      /\ \A x \in new : x.branch = b /\ x.from = seq
      /\ \A x, y \in new : x.pk = y.pk => x = y
  BY DEF Lands
<1>2. \A x \in store : /\ x.from \in Nat /\ x.to \in Nat
                       /\ age[x].to \in Nat /\ age[x].to <= x.to
                       /\ x.branch = b /\ (\E y \in new : y.pk = x.pk) => age[x].to <= seq
  BY Aging DEF Numbered
<1>3. CASE v \in new /\ w \in new
  BY <1>1, <1>3
<1>4. CASE v \in new /\ w \notin new
  <2>1. PICK x \in store : w = age[x]
    BY <1>1, <1>4
  <2>2. x.branch = b /\ x.pk = v.pk /\ v.from = seq
    BY <1>1, <1>4, <2>1
  <2> QED
    BY <1>2, <1>4, <2>1, <2>2
<1>5. CASE v \notin new /\ w \in new
  <2>1. PICK x \in store : v = age[x]
    BY <1>1, <1>5
  <2>2. x.branch = b /\ x.pk = w.pk /\ w.from = seq
    BY <1>1, <1>5, <2>1
  <2> QED
    BY <1>2, <1>5, <2>1, <2>2
<1>6. CASE v \notin new /\ w \notin new
  <2>1. PICK x \in store, y \in store : v = age[x] /\ w = age[y]
    BY <1>1, <1>6
  <2>2. x.branch = y.branch /\ x.pk = y.pk /\ x # y /\ v.from = x.from /\ w.from = y.from
    BY <1>1, <2>1
  <2>3. x.to <= y.from \/ y.to <= x.from
    BY <2>2 DEF Apart
  <2>4. /\ x.from \in Nat /\ x.to \in Nat /\ y.from \in Nat /\ y.to \in Nat
        /\ v.to \in Nat /\ v.to <= x.to /\ w.to \in Nat /\ w.to <= y.to
    BY <1>2, <2>1
  <2> QED
    BY <2>2, <2>3, <2>4
<1> QED
  BY <1>3, <1>4, <1>5, <1>6

(* The heads after a commit: that of b is at seq.                          *)
Raised(heads, higher, b, seq) ==
  /\ DOMAIN higher = DOMAIN heads /\ higher[b] = seq
  /\ \A x \in DOMAIN heads \ {b} : higher[x] = heads[x]

(* Versions stay in place (engine.go:437-500).                             *)
LEMMA LandsPlaced ==
  ASSUME NEW store, NEW later, NEW age, NEW new, NEW heads, NEW higher, NEW b, NEW seq, NEW max,
         Lands(store, later, age, new, b, seq, max), AtHead(heads, b, seq, max),
         Raised(heads, higher, b, seq), Numbered(store), Placed(store, heads, max)
  PROVE  Placed(later, higher, max)
<1> SUFFICES ASSUME NEW w \in later
             PROVE  /\ w.branch \in DOMAIN higher
                    /\ 1 <= w.from /\ w.from <= higher[w.branch]
                    /\ w.to = max \/ w.to <= higher[w.branch]
  BY DEF Placed
<1>1. /\ seq \in Nat /\ max \in Nat /\ heads[b] \in Nat /\ seq = heads[b] + 1
      /\ b \in DOMAIN heads /\ \A x \in DOMAIN heads : heads[x] \in Nat
  BY DEF AtHead
<1>2. \A x \in DOMAIN heads : heads[x] <= higher[x] /\ higher[x] \in Nat
  BY <1>1 DEF Raised
<1>3. CASE w \in new
  <2>1. w.branch = b /\ w.from = seq /\ w.to = max
    BY <1>3 DEF Lands
  <2> QED
    BY <1>1, <2>1 DEF Raised
<1>4. CASE w \notin new
  <2>1. PICK v \in store : w = age[v]
    BY <1>4 DEF Lands
  <2>2. w.branch = v.branch /\ w.from = v.from
    BY <2>1 DEF Lands
  <2>3. /\ v.branch \in DOMAIN heads /\ 1 <= v.from /\ v.from <= heads[v.branch]
        /\ v.to = max \/ v.to <= heads[v.branch]
        /\ v.from \in Nat /\ v.to \in Nat
    BY DEF Placed, Numbered
  <2>4. w.to = v.to \/ (v.branch = b /\ w.to = seq)
    BY <2>1 DEF Lands
  <2> QED
    BY <1>1, <1>2, <2>2, <2>3, <2>4 DEF Raised
<1> QED
  BY <1>3, <1>4

(* What is within some heads is within higher ones.                        *)
LEMMA WithinHigher ==
  ASSUME NEW B, NEW chain \in Chains(B), NEW heads, NEW higher, Within(chain, heads),
         DOMAIN heads \subseteq DOMAIN higher,
         \A x \in DOMAIN heads : heads[x] \in Nat /\ higher[x] \in Nat /\ heads[x] <= higher[x]
  PROVE  Within(chain, higher)
<1>1. \A i \in DOMAIN chain : chain[i].seq \in Nat
  BY ChainFacts
<1> QED
  BY <1>1 DEF Within

(* A segment within the heads in front of a chain within them.             *)
LEMMA WithinPrepend ==
  ASSUME NEW B, NEW b \in B, NEW n \in Nat, NEW chain \in Chains(B), NEW heads,
         Within(chain, heads), b \in DOMAIN heads, n <= heads[b]
  PROVE  Within(<<[branch |-> b, seq |-> n]>> \o chain, heads)
<1> DEFINE s == [branch |-> b, seq |-> n]
           new == <<s>> \o chain
<1>1. /\ new[1] = s
      /\ \A i \in DOMAIN new : i # 1 => i - 1 \in DOMAIN chain /\ new[i] = chain[i - 1]
  BY Prepend
<1>2. s.branch = b /\ s.seq = n
  OBVIOUS
<1> HIDE DEF new, s
<1>3. ASSUME NEW i \in DOMAIN new
      PROVE  new[i].branch \in DOMAIN heads /\ new[i].seq <= heads[new[i].branch]
  <2>1. CASE i = 1
    BY <1>1, <1>2, <2>1
  <2>2. CASE i # 1
    BY <1>1, <1>3, <2>2 DEF Within
  <2> QED
    BY <2>1, <2>2
<1> QED
  BY <1>3 DEF Within, new, s

(* A commit changes nothing that a chain of before it shows                *)
(* (engine.go:437-500, store.go:555-596).                                  *)
LEMMA LandsKeeps ==
  ASSUME NEW store, NEW later, NEW age, NEW new, NEW heads, NEW b, NEW seq, NEW max,
         Lands(store, later, age, new, b, seq, max), AtHead(heads, b, seq, max),
         Numbered(store), Placed(store, heads, max), Apart(store),
         NEW B, NEW chain \in Chains(B), Within(chain, heads), NEW pk
  PROVE  Shown(later, chain, pk) = Shown(store, chain, pk)
<1>1. \A i \in DOMAIN chain : chain[i].seq \in Nat
  BY ChainFacts
<1>2. Numbered(later) /\ Apart(later)
  BY Aging, LandsApart
<1>3. ASSUME NEW i \in DOMAIN chain, NEW v \in SegmentHits(store, chain[i], pk)
      PROVE  \E w \in SegmentHits(later, chain[i], pk) : w.row = v.row
  <2>1. /\ v \in store /\ v.pk = pk /\ v.branch = chain[i].branch
        /\ v.from <= chain[i].seq /\ chain[i].seq < v.to
    BY DEF SegmentHits
  <2>2. /\ age[v] \in later /\ age[v].branch = v.branch /\ age[v].pk = v.pk
        /\ age[v].from = v.from /\ age[v].row = v.row
        /\ age[v].to = v.to \/ (v.branch = b /\ age[v].to = seq)
    BY <2>1 DEF Lands
  <2>3. chain[i].branch = b => chain[i].seq < seq
    BY <1>1 DEF Within, AtHead
  <2>4. chain[i].seq < age[v].to
    BY <2>1, <2>2, <2>3
  <2>5. age[v] \in SegmentHits(later, chain[i], pk)
    BY <2>1, <2>2, <2>4 DEF SegmentHits
  <2> QED
    BY <2>2, <2>5
<1>4. ASSUME NEW i \in DOMAIN chain, NEW w \in SegmentHits(later, chain[i], pk)
      PROVE  \E v \in SegmentHits(store, chain[i], pk) : w.row = v.row
  <2>1. /\ w \in later /\ w.pk = pk /\ w.branch = chain[i].branch
        /\ w.from <= chain[i].seq /\ chain[i].seq < w.to
    BY DEF SegmentHits
  <2>2. chain[i].branch = b => chain[i].seq < seq
    BY <1>1 DEF Within, AtHead
  <2>3. seq \in Nat
    BY DEF AtHead
  <2>4. w \notin new
    BY <1>1, <2>1, <2>2, <2>3 DEF Lands
  <2>5. PICK v \in store : w = age[v]
    BY <2>1, <2>4 DEF Lands
  <2>6. /\ w.branch = v.branch /\ w.pk = v.pk /\ w.from = v.from /\ w.row = v.row
    BY <2>5 DEF Lands
  <2>7. w.to \in Nat /\ v.to \in Nat /\ w.to <= v.to
    BY <2>5, Aging DEF Numbered
  <2>8. chain[i].seq < v.to
    BY <1>1, <2>1, <2>7
  <2> QED
    BY <2>1, <2>6, <2>8 DEF SegmentHits
<1> QED
  BY <1>2, <1>3, <1>4, SameShown

(* A commit shows what it wrote, over the view it was made from: its       *)
(* branch at its head, above the tail the commit records                   *)
(* (engine.go:437-500, 795-839; store.go:418-446).                         *)
LEMMA LandsShows ==
  ASSUME NEW store, NEW later, NEW age, NEW new, NEW heads, NEW b, NEW seq, NEW max,
         Lands(store, later, age, new, b, seq, max), AtHead(heads, b, seq, max),
         Numbered(store), Placed(store, heads, max), Apart(store),
         NEW B, b \in B, NEW tail \in Chains(B), Within(tail, heads), NEW pk
  PROVE  LET after == <<[branch |-> b, seq |-> seq]>> \o tail
             before == <<[branch |-> b, seq |-> heads[b]]>> \o tail
         IN  /\ \A w \in new : w.pk = pk => Shown(later, after, pk) = w.row
             /\ ~(\E w \in new : w.pk = pk)
                  => Shown(later, after, pk) = Shown(store, before, pk)
<1> DEFINE top == [branch |-> b, seq |-> seq]
           was == [branch |-> b, seq |-> heads[b]]
           after == <<top>> \o tail
           before == <<was>> \o tail
<1>1. /\ seq \in Nat /\ max \in Nat /\ heads[b] \in Nat /\ seq = heads[b] + 1 /\ seq < max
  BY DEF AtHead
<1>2. Numbered(later) /\ Apart(later)
  BY Aging, LandsApart
<1>3. top.branch = b /\ top.seq = seq /\ was.branch = b /\ was.seq = heads[b]
  OBVIOUS
<1>4. /\ SegmentHits(later, top, pk) = {} => Shown(later, after, pk) = Shown(later, tail, pk)
      /\ \A v \in SegmentHits(later, top, pk) : Shown(later, after, pk) = v.row
      /\ SegmentHits(store, was, pk) = {} => Shown(store, before, pk) = Shown(store, tail, pk)
      /\ \A v \in SegmentHits(store, was, pk) : Shown(store, before, pk) = v.row
  BY <1>1, <1>2, ShownOfPrepend
<1>5. Shown(later, tail, pk) = Shown(store, tail, pk)
  BY LandsKeeps
<1> HIDE DEF after, before, top, was
<1>6. ASSUME NEW w \in new, w.pk = pk PROVE Shown(later, after, pk) = w.row
  <2>1. w \in later /\ w.branch = b /\ w.from = seq /\ w.to = max
    BY DEF Lands
  <2>2. w \in SegmentHits(later, top, pk)
    BY <1>1, <1>3, <1>6, <2>1 DEF SegmentHits
  <2> QED
    BY <1>4, <2>2
<1>7. ASSUME ~(\E w \in new : w.pk = pk)
      PROVE  Shown(later, after, pk) = Shown(store, before, pk)
  <2>1. ASSUME NEW v \in SegmentHits(store, was, pk)
        PROVE  age[v] \in SegmentHits(later, top, pk) /\ age[v].row = v.row
    <3>1. /\ v \in store /\ v.pk = pk /\ v.branch = b /\ v.from <= heads[b] /\ heads[b] < v.to
      BY <1>3 DEF SegmentHits
    <3>2. v.from \in Nat /\ v.to \in Nat /\ (v.to = max \/ v.to <= heads[b])
      BY <3>1 DEF Numbered, Placed
    <3>3. v.to = max
      BY <1>1, <3>1, <3>2
    <3>4. /\ age[v] \in later /\ age[v].branch = b /\ age[v].pk = pk /\ age[v].from = v.from
          /\ age[v].row = v.row /\ age[v].to = max
      BY <1>7, <3>1, <3>3 DEF Lands
    <3> QED
      BY <1>1, <1>3, <3>1, <3>2, <3>4 DEF SegmentHits
  <2>2. ASSUME NEW w \in SegmentHits(later, top, pk)
        PROVE  SegmentHits(store, was, pk) # {}
    <3>1. w \in later /\ w.pk = pk /\ w.branch = b /\ w.from <= seq /\ seq < w.to
      BY <1>3 DEF SegmentHits
    <3>2. PICK v \in store : w = age[v]
      BY <1>7, <3>1 DEF Lands
    <3>3. v.branch = b /\ v.pk = pk
      BY <3>1, <3>2 DEF Lands
    <3>4. /\ w.to \in Nat /\ w.to <= v.to /\ v.to \in Nat /\ v.from \in Nat
          /\ v.from <= heads[b]
      BY <3>2, <3>3, Aging DEF Numbered, Placed
    <3>5. v \in SegmentHits(store, was, pk)
      BY <1>1, <1>3, <3>1, <3>3, <3>4 DEF SegmentHits
    <3> QED
      BY <3>5
  <2>3. CASE SegmentHits(store, was, pk) = {}
    BY <1>4, <1>5, <2>2, <2>3
  <2>4. CASE SegmentHits(store, was, pk) # {}
    BY <1>4, <2>1, <2>4
  <2> QED
    BY <2>3, <2>4
<1> QED
  BY <1>6, <1>7 DEF after, before, top, was

(* A fork shows what its parent's chain shows: a branch has no version at  *)
(* number 0 (engine.go:178-214, branch.go:36-86).                          *)
LEMMA ForkShows ==
  ASSUME NEW B, NEW b \in B, NEW chain \in Chains(B), NEW store, Numbered(store),
         \A v \in store : 1 <= v.from, NEW pk
  PROVE  Shown(store, <<[branch |-> b, seq |-> 0]>> \o chain, pk) = Shown(store, chain, pk)
<1> DEFINE s == [branch |-> b, seq |-> 0]
<1>1. SegmentHits(store, s, pk) = {}
  BY DEF SegmentHits, Numbered
<1> QED
  BY <1>1, ShownOfPrepend

-----------------------------------------------------------------------------
(* Masks.                                                                  *)

(* The chain reaches the commit that wrote the version.                    *)
Covers(chain, v) == \E i \in DOMAIN chain : chain[i].branch = v.branch /\ v.from <= chain[i].seq

(* Two chains with the same edits of column c of pk behind them.           *)
SameEdits(store, chain, other, pk, c) ==
  \A v \in store : v.pk = pk /\ c \in v.changed => (Covers(chain, v) <=> Covers(other, v))

(* Chains with the same edits of a column behind them show the same value  *)
(* of it.                                                                  *)
Agree(store, chains) ==
  \A x, y \in chains, pk \in PKs, c \in Cols :
    SameEdits(store, x, y, pk, c) => Get(Shown(store, x, pk), c) = Get(Shown(store, y, pk), c)

(* Then the versions behind one of two chains only name in their masks     *)
(* every column in which the two differ (engine.go:660-706).               *)
LEMMA EditsCoverDivergence ==
  ASSUME NEW store, NEW chains, Agree(store, chains), NEW x \in chains, NEW y \in chains,
         NEW pk \in PKs
  PROVE  MaskOf(Shown(store, x, pk), Shown(store, y, pk))
           \subseteq UNION {v.changed : v \in {w \in store :
                              w.pk = pk /\ ~(Covers(x, w) <=> Covers(y, w))}}
<1> SUFFICES ASSUME NEW c \in MaskOf(Shown(store, x, pk), Shown(store, y, pk))
             PROVE  \E v \in store : /\ v.pk = pk /\ ~(Covers(x, v) <=> Covers(y, v))
                                     /\ c \in v.changed
  OBVIOUS
<1>1. c \in Cols /\ Get(Shown(store, x, pk), c) # Get(Shown(store, y, pk), c)
  BY DEF MaskOf
<1>2. ~SameEdits(store, x, y, pk, c)
  BY <1>1 DEF Agree
<1> QED
  BY <1>2 DEF SameEdits

(* A chain that covers and shows what one of the chains does joins them    *)
(* (a fork).                                                               *)
LEMMA AgreeWithLike ==
  ASSUME NEW store, NEW chains, Agree(store, chains), NEW like \in chains, NEW new,
         \A v \in store : Covers(new, v) <=> Covers(like, v),
         \A pk \in PKs : Shown(store, new, pk) = Shown(store, like, pk)
  PROVE  Agree(store, chains \cup {new})
<1> SUFFICES ASSUME NEW x \in chains \cup {new}, NEW y \in chains \cup {new},
                    NEW pk \in PKs, NEW c \in Cols, SameEdits(store, x, y, pk, c)
             PROVE  Get(Shown(store, x, pk), c) = Get(Shown(store, y, pk), c)
  BY DEF Agree
<1>1. PICK x1 \in chains : /\ \A v \in store : Covers(x, v) <=> Covers(x1, v)
                           /\ Shown(store, x, pk) = Shown(store, x1, pk)
  OBVIOUS
<1>2. PICK y1 \in chains : /\ \A v \in store : Covers(y, v) <=> Covers(y1, v)
                           /\ Shown(store, y, pk) = Shown(store, y1, pk)
  OBVIOUS
<1>3. SameEdits(store, x1, y1, pk, c)
  BY <1>1, <1>2 DEF SameEdits
<1> QED
  BY <1>1, <1>2, <1>3 DEF Agree

(* What a chain with one more segment in front covers.                     *)
LEMMA CoversPrepend ==
  ASSUME NEW B, NEW b \in B, NEW n \in Nat, NEW chain \in Chains(B), NEW v
  PROVE  Covers(<<[branch |-> b, seq |-> n]>> \o chain, v)
           <=> (b = v.branch /\ v.from <= n) \/ Covers(chain, v)
<1> DEFINE s == [branch |-> b, seq |-> n]
           new == <<s>> \o chain
<1>1. /\ DOMAIN chain = 1 .. Len(chain) /\ DOMAIN new = 1 .. Len(chain) + 1
      /\ Len(chain) \in Nat
      /\ new[1] = s
      /\ \A i \in DOMAIN chain : new[i + 1] = chain[i]
      /\ \A i \in DOMAIN new : i # 1 => i - 1 \in DOMAIN chain /\ new[i] = chain[i - 1]
  BY Prepend
<1>2. s.branch = b /\ s.seq = n
  OBVIOUS
<1> HIDE DEF new, s
<1>3. ASSUME b = v.branch, v.from <= n PROVE Covers(new, v)
  BY <1>1, <1>2, <1>3 DEF Covers
<1>4. ASSUME Covers(chain, v) PROVE Covers(new, v)
  <2>1. PICK i \in DOMAIN chain : chain[i].branch = v.branch /\ v.from <= chain[i].seq
    BY <1>4 DEF Covers
  <2>2. i + 1 \in DOMAIN new /\ new[i + 1] = chain[i]
    BY <1>1
  <2> QED
    BY <2>1, <2>2 DEF Covers
<1>5. ASSUME Covers(new, v) PROVE (b = v.branch /\ v.from <= n) \/ Covers(chain, v)
  <2>1. PICK i \in DOMAIN new : new[i].branch = v.branch /\ v.from <= new[i].seq
    BY <1>5 DEF Covers
  <2>2. CASE i = 1
    BY <1>1, <1>2, <2>1, <2>2
  <2>3. CASE i # 1
    BY <1>1, <2>1, <2>3 DEF Covers
  <2> QED
    BY <2>2, <2>3
<1> QED
  BY <1>3, <1>4, <1>5 DEF new, s

(* No chain of before covers a version that a commit opens.                *)
LEMMA NewUncovered ==
  ASSUME NEW store, NEW later, NEW age, NEW new, NEW heads, NEW b, NEW seq, NEW max,
         Lands(store, later, age, new, b, seq, max), AtHead(heads, b, seq, max),
         NEW B, NEW chain \in Chains(B), Within(chain, heads), NEW w \in new
  PROVE  ~Covers(chain, w)
<1>1. /\ w.branch = b /\ w.from = seq /\ seq = heads[b] + 1 /\ heads[b] \in Nat
      /\ \A i \in DOMAIN chain : chain[i].seq \in Nat
  BY ChainFacts DEF Lands, AtHead
<1> QED
  BY <1>1 DEF Covers, Within

(* The masks of a commit name what it changes of the view it is made from. *)
MasksName(store, before, new) ==
  \A w \in new : MaskOf(Shown(store, before, w.pk), w.row) \subseteq w.changed

(* Where the commit leaves a column alone, that view agrees with every     *)
(* chain that has the same edits of it.                                    *)
ViewAgrees(store, chains, before, new) ==
  \A x \in chains, pk \in PKs, c \in Cols :
    SameEdits(store, before, x, pk, c) /\ ~(\E w \in new : w.pk = pk /\ c \in w.changed)
      => Get(Shown(store, before, pk), c) = Get(Shown(store, x, pk), c)

AllWithin(chains, B, heads) == \A x \in chains : x \in Chains(B) /\ Within(x, heads)

(* A commit made from the view before, whose masks name what it changes of *)
(* it, agrees with the chains of before if that view does, where the       *)
(* commit leaves a column alone (engine.go:437-500, 795-839).              *)
LEMMA LandsAgree ==
  ASSUME NEW store, NEW later, NEW age, NEW new, NEW heads, NEW b, NEW seq, NEW max,
         Lands(store, later, age, new, b, seq, max), AtHead(heads, b, seq, max),
         Numbered(store), Placed(store, heads, max), Apart(store),
         NEW B, b \in B, NEW tail \in Chains(B), Within(tail, heads),
         NEW before, before = <<[branch |-> b, seq |-> heads[b]]>> \o tail,
         NEW after, after = <<[branch |-> b, seq |-> seq]>> \o tail,
         NEW chains, Agree(store, chains),
         AllWithin(chains, B, heads), MasksName(store, before, new),
         ViewAgrees(store, chains, before, new)
  PROVE  Agree(later, chains \cup {after})
<1>0. /\ \A x \in chains : x \in Chains(B) /\ Within(x, heads)
      /\ \A w \in new : MaskOf(Shown(store, before, w.pk), w.row) \subseteq w.changed
      /\ \A x \in chains, pk \in PKs, c \in Cols :
           SameEdits(store, before, x, pk, c) /\ ~(\E w \in new : w.pk = pk /\ c \in w.changed)
             => Get(Shown(store, before, pk), c) = Get(Shown(store, x, pk), c)
  BY DEF AllWithin, MasksName, ViewAgrees
<1>1. \A x \in chains : \A pk : Shown(later, x, pk) = Shown(store, x, pk)
  BY <1>0, LandsKeeps
<1>2. \A v \in store : /\ age[v] \in later /\ age[v].branch = v.branch /\ age[v].pk = v.pk
                       /\ age[v].from = v.from /\ age[v].changed = v.changed
  BY DEF Lands
<1>3. \A x : \A v \in store : Covers(x, age[v]) <=> Covers(x, v)
  BY <1>2 DEF Covers
<1>4. \A v \in store : Covers(after, v) <=> Covers(before, v)
  <2> SUFFICES ASSUME NEW v \in store PROVE Covers(after, v) <=> Covers(before, v)
    OBVIOUS
  <2>1. heads[b] \in Nat /\ seq \in Nat /\ seq = heads[b] + 1
    BY DEF AtHead
  <2>2. v.from \in Nat /\ (v.branch = b => v.from <= heads[b])
    BY DEF Numbered, Placed
  <2>3. /\ Covers(after, v) <=> (b = v.branch /\ v.from <= seq) \/ Covers(tail, v)
        /\ Covers(before, v) <=> (b = v.branch /\ v.from <= heads[b]) \/ Covers(tail, v)
    BY <2>1, CoversPrepend
  <2> QED
    BY <2>1, <2>2, <2>3
<1>5. ASSUME NEW x \in chains, NEW pk \in PKs, NEW c \in Cols, SameEdits(later, after, x, pk, c)
      PROVE  Get(Shown(later, after, pk), c) = Get(Shown(later, x, pk), c)
  <2>1. ~(\E w \in new : w.pk = pk /\ c \in w.changed)
    <3> SUFFICES ASSUME NEW w \in new, w.pk = pk, c \in w.changed PROVE FALSE
      OBVIOUS
    <3>1. ~Covers(x, w)
      BY <1>0, NewUncovered
    <3>2. w \in later /\ w.branch = b /\ w.from = seq /\ seq \in Nat
      BY DEF Lands, AtHead
    <3>3. Covers(after, w)
      BY <3>2, CoversPrepend
    <3> QED
      BY <1>5, <3>1, <3>2, <3>3 DEF SameEdits
  <2>2. SameEdits(store, before, x, pk, c)
    BY <1>2, <1>3, <1>4, <1>5 DEF SameEdits
  <2>3. Get(Shown(store, before, pk), c) = Get(Shown(store, x, pk), c)
    BY <1>0, <2>1, <2>2
  <2>4. /\ \A w \in new : w.pk = pk => Shown(later, after, pk) = w.row
        /\ ~(\E w \in new : w.pk = pk) => Shown(later, after, pk) = Shown(store, before, pk)
    BY LandsShows
  <2>5. Get(Shown(later, after, pk), c) = Get(Shown(store, before, pk), c)
    <3>1. CASE \E w \in new : w.pk = pk
      <4>1. PICK w \in new : w.pk = pk
        BY <3>1
      <4>2. c \notin MaskOf(Shown(store, before, pk), w.row)
        BY <1>0, <2>1, <4>1
      <4> QED
        BY <2>4, <4>1, <4>2 DEF MaskOf
    <3>2. CASE ~(\E w \in new : w.pk = pk)
      BY <2>4, <3>2
    <3> QED
      BY <3>1, <3>2
  <2> QED
    BY <1>1, <2>3, <2>5
<1>6. ASSUME NEW x \in chains, NEW y \in chains, NEW pk \in PKs, NEW c \in Cols,
             SameEdits(later, x, y, pk, c)
      PROVE  Get(Shown(later, x, pk), c) = Get(Shown(later, y, pk), c)
  <2>1. SameEdits(store, x, y, pk, c)
    BY <1>2, <1>3, <1>6 DEF SameEdits
  <2> QED
    BY <1>1, <2>1 DEF Agree
<1>7. \A x, y, pk, c : SameEdits(later, x, y, pk, c) => SameEdits(later, y, x, pk, c)
  BY DEF SameEdits
<1>8. ASSUME NEW x \in chains \cup {after}, NEW y \in chains \cup {after},
             NEW pk \in PKs, NEW c \in Cols, SameEdits(later, x, y, pk, c)
      PROVE  Get(Shown(later, x, pk), c) = Get(Shown(later, y, pk), c)
  <2>1. CASE x \in chains /\ y \in chains
    BY <1>6, <1>8, <2>1
  <2>2. CASE x \in chains /\ y = after
    BY <1>5, <1>7, <1>8, <2>2
  <2>3. CASE x = after /\ y \in chains
    BY <1>5, <1>8, <2>3
  <2>4. CASE x = after /\ y = after
    BY <2>4
  <2> QED
    BY <2>1, <2>2, <2>3, <2>4
<1> QED
  BY <1>8 DEF Agree

(* Fewer chains agree if more do.                                          *)
LEMMA AgreeFewer ==
  ASSUME NEW store, NEW chains, Agree(store, chains), NEW fewer \in SUBSET chains
  PROVE  Agree(store, fewer)
BY DEF Agree

-----------------------------------------------------------------------------
(* Merging with masks.                                                     *)

(* The columns in which x differs from b are among those compared.         *)
Examined(cand, b, x) == MaskOf(b, x) \subseteq cand

(* A merge that compares the columns of cand only decides as one that      *)
(* compares them all, provided that cand names every column in which a     *)
(* side differs from the base (core/merge.go, merge.go:300-314).           *)
LEMMA NarrowMerge ==
  ASSUME NEW b \in Image, NEW a \in Image, NEW t \in Image, NEW cand \in Mask, NEW pk,
         Examined(cand, b, a), Examined(cand, b, t)
  PROVE  /\ KeyConflicts(pk, b, a, t, cand) = KeyConflicts(pk, b, a, t, Cols)
         /\ MergedImage(b, a, t, cand) = MergedImage(b, a, t, Cols)
<1>1. CASE OneSided(b, a, t) \/ b = Absent \/ Absent \in {a, t}
  BY <1>1 DEF KeyConflicts, MergedImage, OneSided
<1>2. CASE ~OneSided(b, a, t) /\ b # Absent /\ Absent \notin {a, t}
  <2>1. \A c \in Cols \ cand : a[c] = b[c] /\ t[c] = b[c]
    BY <1>2 DEF Examined, MaskOf, Get
  <2>2. {d \in cand : Clash(b, a, t, d)} = {d \in Cols : Clash(b, a, t, d)}
    BY <2>1 DEF Clash, Mask
  <2>3. KeyConflicts(pk, b, a, t, cand) = KeyConflicts(pk, b, a, t, Cols)
    BY <1>2, <2>2 DEF KeyConflicts
  <2>4. (\E c \in cand : Clash(b, a, t, c)) <=> (\E c \in Cols : Clash(b, a, t, c))
    BY <2>2
  <2>5. [c \in Cols |-> IF c \notin cand THEN b[c] ELSE IF a[c] = b[c] THEN t[c] ELSE a[c]]
          = [c \in Cols |-> IF c \notin Cols THEN b[c] ELSE IF a[c] = b[c] THEN t[c] ELSE a[c]]
    BY <2>1
  <2>6. MergedImage(b, a, t, cand) = MergedImage(b, a, t, Cols)
    BY <1>2, <2>4, <2>5 DEF MergedImage, OneSided
  <2> QED
    BY <2>3, <2>6
<1> QED
  BY <1>1, <1>2

(* No conflict of a key.                                                   *)
Settled(pk, b, a, t, cand) == KeyConflicts(pk, b, a, t, cand) = {}

(* A merge without conflict takes a column from the side that changed it.  *)
LEMMA ColumnMerges ==
  ASSUME NEW b \in Image, NEW a \in Image, NEW t \in Image, NEW cand \in Mask, NEW pk,
         Examined(cand, b, a), Examined(cand, b, t),
         Settled(pk, b, a, t, cand), NEW c \in Cols
  PROVE  LET m == MergedImage(b, a, t, cand)
         IN  /\ Get(a, c) = Get(b, c) => Get(m, c) = Get(t, c)
             /\ Get(t, c) = Get(b, c) => Get(m, c) = Get(a, c)
<1> DEFINE m == MergedImage(b, a, t, cand)
<1>1. CASE OneSided(b, a, t)
  <2>1. m = IF a = b THEN t ELSE a
    BY <1>1 DEF MergedImage
  <2> HIDE DEF m
  <2>2. a = b \/ t = b \/ a = t
    BY <1>1 DEF OneSided
  <2>3. CASE a = b
    BY <2>1, <2>3 DEF m
  <2>4. CASE a # b
    BY <2>1, <2>2, <2>4 DEF m
  <2> QED
    BY <2>3, <2>4
<1>2. CASE ~OneSided(b, a, t)
  <2>1. b # Absent /\ a # Absent /\ t # Absent
    BY <1>2 DEF KeyConflicts, Settled
  <2>2. \A d \in cand : ~Clash(b, a, t, d)
    <3>1. KeyConflicts(pk, b, a, t, cand)
            = {Conflict(pk, "cell", d) : d \in {e \in cand : Clash(b, a, t, e)}}
      BY <1>2, <2>1 DEF KeyConflicts
    <3> QED
      BY <3>1 DEF Settled
  <2>3. m = [d \in Cols |-> IF d \notin cand THEN b[d]
                            ELSE IF a[d] = b[d] THEN t[d] ELSE a[d]]
    BY <1>2, <2>1, <2>2 DEF MergedImage, OneSided
  <2>4. m[c] = IF c \notin cand THEN b[c] ELSE IF a[c] = b[c] THEN t[c] ELSE a[c]
    BY <2>3
  <2>5. m # Absent
    <3>1. m \in [Cols -> Vals]
      <4>1. b \in [Cols -> Vals] /\ a \in [Cols -> Vals] /\ t \in [Cols -> Vals]
        BY <2>1 DEF Image, Row
      <4> QED
        BY <2>3, <4>1
    <3> QED
      BY <3>1, RowsAssumption
  <2>6. c \notin cand => a[c] = b[c] /\ t[c] = b[c]
    BY <2>1 DEF Examined, MaskOf, Get
  <2>7. Get(m, c) = m[c] /\ Get(a, c) = a[c] /\ Get(b, c) = b[c] /\ Get(t, c) = t[c]
    BY <2>1, <2>5 DEF Get
  <2> HIDE DEF m
  <2> QED
    BY <2>4, <2>6, <2>7 DEF m
<1> QED
  BY <1>1, <1>2

(* A merge yields images.                                                  *)
LEMMA MergedImageType ==
  ASSUME NEW b \in Image, NEW a \in Image, NEW t \in Image, NEW cand
  PROVE  MergedImage(b, a, t, cand) \in Image
<1>1. CASE Absent \in {b, a, t}
  BY <1>1 DEF MergedImage, Image
<1>2. CASE Absent \notin {b, a, t}
  <2>1. b \in [Cols -> Vals] /\ a \in [Cols -> Vals] /\ t \in [Cols -> Vals]
    BY <1>2 DEF Image, Row
  <2>2. [c \in Cols |-> IF c \notin cand THEN b[c]
                        ELSE IF a[c] = b[c] THEN t[c] ELSE a[c]] \in [Cols -> Vals]
    BY <2>1
  <2> QED
    BY <2>2 DEF MergedImage, Image, Row
<1> QED
  BY <1>1, <1>2

(* The columns in which two images differ are among those in which one of  *)
(* them differs from a third.                                              *)
LEMMA MaskThrough ==
  ASSUME NEW a, NEW b, NEW c
  PROVE  MaskOf(a, c) \subseteq MaskOf(a, b) \cup MaskOf(b, c)
BY DEF MaskOf

-----------------------------------------------------------------------------
(* Commits and their parents as a graph: parents come before their child.  *)
(* Walking it breadth first (engine.go:400-430, branch.go:161-228) and     *)
(* recursion on commits (model.go:177-200) both give what is above a       *)
(* commit, that is, in every set that has it and is closed under parents.  *)
(* What is above a commit stays the same as commits are added.  P gives    *)
(* the parents of the commits 1 .. N.                                      *)


(* Parents come before their child (engine.go:437-500).                    *)
Graph(P, N) == N \in Nat /\ \A d \in 1 .. N : P[d] \subseteq 1 .. d - 1

UpClosed(P, S) == \A y \in S : P[y] \subseteq S

(* What is in every closed set that has c.                                 *)
Above(P, N, c) == {x \in 1 .. N : \A S \in SUBSET (1 .. N) : c \in S /\ UpClosed(P, S) => x \in S}

(* A set of numbers has a least one.                                       *)
LEMMA NatLeast ==
  ASSUME NEW T \in SUBSET Nat, T # {}
  PROVE  \E x \in T : \A y \in T : x <= y
<1> DEFINE R == {p \in Nat \X Nat : p[1] < p[2]}
<1>1. IsWellFoundedOn(R, Nat)
  BY NatLessThanWellFounded DEF OpToRel
<1> HIDE DEF R
<1>2. PICK x \in T : \A y \in T : ~(<<y, x>> \in R)
  BY <1>1, WFMin
<1>3. \A y \in T : ~(y < x)
  BY <1>2 DEF R
<1> QED
  BY <1>2, <1>3

(* Above a commit are the commit itself and what is above its parents.     *)
LEMMA AboveUnfolds ==
  ASSUME NEW P, NEW N, Graph(P, N), NEW c \in 1 .. N
  PROVE  Above(P, N, c) = {c} \cup UNION {Above(P, N, p) : p \in P[c]}
<1> DEFINE all == {c} \cup UNION {Above(P, N, p) : p \in P[c]}
<1>1. P[c] \subseteq 1 .. N /\ \A d \in 1 .. N : P[d] \subseteq 1 .. N
  BY DEF Graph
<1>2. all \in SUBSET (1 .. N)
  BY DEF Above
<1>3. \A p \in P[c] : p \in Above(P, N, p)
  BY <1>1 DEF Above
<1>4. ASSUME NEW p \in P[c], NEW y \in Above(P, N, p) PROVE P[y] \subseteq Above(P, N, p)
  BY <1>1 DEF Above, UpClosed
<1>5. UpClosed(P, all)
  BY <1>3, <1>4 DEF UpClosed
<1>6. Above(P, N, c) \subseteq all
  BY <1>2, <1>5 DEF Above
<1>7. all \subseteq Above(P, N, c)
  BY DEF Above, UpClosed
<1> QED
  BY <1>6, <1>7

(* The recursive definition of the ancestors of a commit, solved           *)
(* (model.go:177-200).                                                     *)
LEMMA AncestorsAbove ==
  ASSUME NEW P, NEW N, Graph(P, N), NEW c \in 1 .. N,
         NEW anc, anc = [d \in 1 .. c |-> {d} \cup UNION {anc[p] : p \in P[d]}]
  PROVE  anc[c] = Above(P, N, c)
<1> DEFINE T == {d \in 1 .. c : anc[d] # Above(P, N, d)}
<1>1. SUFFICES ASSUME T # {} PROVE FALSE
  BY DEF Graph
<1>2. PICK d \in T : \A y \in T : d <= y
  <2>1. T \in SUBSET Nat
    OBVIOUS
  <2> HIDE DEF T
  <2> QED
    BY <1>1, <2>1, NatLeast
<1>3. d \in 1 .. N /\ P[d] \subseteq 1 .. d - 1 /\ d \in 1 .. c
  BY DEF Graph
<1>4. \A p \in P[d] : anc[p] = Above(P, N, p)
  BY <1>2, <1>3
<1>5. anc[d] = {d} \cup UNION {anc[p] : p \in P[d]}
  BY <1>3
<1>6. anc[d] = {d} \cup UNION {Above(P, N, p) : p \in P[d]}
  BY <1>4, <1>5, Zenon
<1>7. Above(P, N, d) = {d} \cup UNION {Above(P, N, p) : p \in P[d]}
  BY <1>3, AboveUnfolds
<1>8. anc[d] = Above(P, N, d)
  BY <1>6, <1>7, Zenon
<1> QED
  BY <1>8

(* Walking the commit graph, n steps of which some may stay, gives the     *)
(* breadth-first levels (engine.go:400-430).                               *)
Walks(P, N, c, n) ==
  {q \in [0 .. n -> 1 .. N] :
     q[0] = c /\ \A i \in 0 .. n - 1 : q[i + 1] \in {q[i]} \cup P[q[i]]}

Ends(P, N, c, n) == {q[n] : q \in Walks(P, N, c, n)}

(* The walks of n steps are those of n - 1 with one more.                  *)
LEMMA EndsUnfold ==
  ASSUME NEW P, NEW N, Graph(P, N), NEW c \in 1 .. N, NEW n \in Nat
  PROVE  Ends(P, N, c, n)
           = IF n = 0 THEN {c}
             ELSE Ends(P, N, c, n - 1) \cup UNION {P[d] : d \in Ends(P, N, c, n - 1)}
<1>0. N \in Nat /\ \A d \in 1 .. N : P[d] \subseteq 1 .. N
  BY DEF Graph
<1>1. CASE n = 0
  <2> DEFINE q == [i \in 0 .. 0 |-> c]
  <2>1. q \in Walks(P, N, c, 0) /\ q[0] = c
    BY DEF Walks
  <2>2. \A x \in Ends(P, N, c, 0) : x = c
    BY DEF Ends, Walks
  <2>3. c \in Ends(P, N, c, 0)
    BY <2>1 DEF Ends
  <2> QED
    BY <1>1, <2>2, <2>3
<1>2. CASE n # 0
  <2> DEFINE m == n - 1
             step(d) == {d} \cup P[d]
  <2>0. m \in Nat /\ n = m + 1
    BY <1>2
  <2> HIDE DEF m
  <2>1. ASSUME NEW q \in Walks(P, N, c, n)
        PROVE  \E d \in Ends(P, N, c, m) : q[n] \in step(d)
    <3> DEFINE r == [i \in 0 .. m |-> q[i]]
    <3>1. /\ q \in [0 .. n -> 1 .. N] /\ q[0] = c
          /\ \A i \in 0 .. n - 1 : q[i + 1] \in {q[i]} \cup P[q[i]]
      BY DEF Walks
    <3>2. r \in Walks(P, N, c, m) /\ r[m] = q[m]
      <4>1. r \in [0 .. m -> 1 .. N] /\ r[0] = c /\ r[m] = q[m]
        BY <2>0, <3>1
      <4>2. \A i \in 0 .. m - 1 : r[i] = q[i] /\ r[i + 1] = q[i + 1] /\ i \in 0 .. n - 1
        BY <2>0
      <4>3. \A i \in 0 .. m - 1 : r[i + 1] \in {r[i]} \cup P[r[i]]
        BY <3>1, <4>2
      <4> HIDE DEF r
      <4> QED
        BY <4>1, <4>3 DEF Walks
    <3>3. q[n] \in step(q[m])
      BY <2>0, <3>1
    <3> HIDE DEF r
    <3>4. q[m] \in Ends(P, N, c, m)
      BY <3>2 DEF Ends
    <3> QED
      BY <3>3, <3>4
  <2>2. ASSUME NEW d \in Ends(P, N, c, m), NEW x \in step(d)
        PROVE  x \in Ends(P, N, c, n)
    <3>1. PICK r \in Walks(P, N, c, m) : d = r[m]
      BY DEF Ends
    <3>2. /\ r \in [0 .. m -> 1 .. N] /\ r[0] = c
          /\ \A i \in 0 .. m - 1 : r[i + 1] \in {r[i]} \cup P[r[i]]
      BY DEF Walks
    <3>3. x \in 1 .. N
      BY <1>0, <2>0, <3>1, <3>2
    <3> DEFINE q == [i \in 0 .. n |-> IF i = n THEN x ELSE r[i]]
    <3>4. q \in [0 .. n -> 1 .. N] /\ q[0] = c /\ q[n] = x
      BY <2>0, <3>2, <3>3
    <3>5. ASSUME NEW i \in 0 .. n - 1 PROVE q[i + 1] \in {q[i]} \cup P[q[i]]
      <4>1. CASE i = m
        BY <2>0, <3>1, <4>1
      <4>2. CASE i # m
        BY <2>0, <3>2, <4>2
      <4> QED
        BY <4>1, <4>2
    <3> HIDE DEF q
    <3>6. q \in Walks(P, N, c, n)
      BY <3>4, <3>5 DEF Walks
    <3> QED
      BY <3>4, <3>6 DEF Ends
  <2>3. \A x : x \in Ends(P, N, c, n) <=> \E d \in Ends(P, N, c, m) : x \in step(d)
    BY <2>1, <2>2 DEF Ends
  <2>4. Ends(P, N, c, n) = Ends(P, N, c, m) \cup UNION {P[d] : d \in Ends(P, N, c, m)}
    BY <2>3
  <2> QED
    BY <1>2, <2>4 DEF m
<1> QED
  BY <1>1, <1>2

(* Enough levels reach what is above the commit: a parent is a smaller     *)
(* number, so a walk of N steps can stay where it is (engine.go:400-430).  *)
LEMMA EndsAbove ==
  ASSUME NEW P, NEW N, Graph(P, N), NEW c \in 1 .. N
  PROVE  Ends(P, N, c, N) = Above(P, N, c)
<1>0. N \in Nat /\ \A d \in 1 .. N : P[d] \subseteq 1 .. d - 1
  BY DEF Graph
<1>1. \A n \in Nat : Ends(P, N, c, n) \subseteq 1 .. N
  BY DEF Ends, Walks
<1>2. ASSUME NEW n \in Nat
      PROVE  /\ Ends(P, N, c, 0) = {c}
             /\ Ends(P, N, c, n + 1)
                  = Ends(P, N, c, n) \cup UNION {P[d] : d \in Ends(P, N, c, n)}
  <2>1. n + 1 \in Nat /\ n + 1 # 0 /\ (n + 1) - 1 = n /\ 0 \in Nat
    OBVIOUS
  <2>2. Ends(P, N, c, 0) = {c}
    BY EndsUnfold
  <2>3. Ends(P, N, c, n + 1) = Ends(P, N, c, (n + 1) - 1)
                                 \cup UNION {P[d] : d \in Ends(P, N, c, (n + 1) - 1)}
    BY <2>1, EndsUnfold
  <2> QED
    BY <2>1, <2>2, <2>3
<1>3. ASSUME NEW x \in Above(P, N, c) PROVE x \in Ends(P, N, c, N)
  <2> DEFINE S == {y \in 1 .. N : \A n \in Nat : c <= n + y => y \in Ends(P, N, c, n)}
  <2>1. c \in S
    <3>1. ASSUME NEW n \in Nat PROVE c \in Ends(P, N, c, n)
      <4> DEFINE q == [i \in 0 .. n |-> c]
      <4>1. q \in Walks(P, N, c, n) /\ q[n] = c
        BY DEF Walks
      <4> QED
        BY <4>1 DEF Ends
    <3> QED
      BY <3>1
  <2>2. ASSUME NEW y \in S, NEW p \in P[y] PROVE p \in S
    <3>1. p \in 1 .. N /\ p < y /\ y \in 1 .. N
      BY <1>0
    <3>2. ASSUME NEW n \in Nat, c <= n + p PROVE p \in Ends(P, N, c, n)
      <4>1. CASE n = 0
        <5>1. c < y
          BY <1>0, <3>1, <3>2, <4>1
        <5>2. y \in Ends(P, N, c, 0)
          BY <5>1
        <5> QED
          BY <1>2, <5>1, <5>2
      <4>2. CASE n # 0
        <5>1. PICK m \in Nat : n = m + 1
          BY <4>2
        <5>2. y \in Ends(P, N, c, m)
          BY <3>1, <3>2, <5>1
        <5> QED
          BY <1>2, <5>1, <5>2
      <4> QED
        BY <4>1, <4>2
    <3> QED
      BY <3>1, <3>2
  <2>3. x \in S
    <3>1. UpClosed(P, S) /\ S \in SUBSET (1 .. N)
      BY <2>2 DEF UpClosed
    <3> HIDE DEF S
    <3> QED
      BY <2>1, <3>1 DEF Above
  <2> QED
    BY <1>0, <2>3
<1>4. ASSUME NEW S \in SUBSET (1 .. N), c \in S, UpClosed(P, S)
      PROVE  Ends(P, N, c, N) \subseteq S
  <2> DEFINE T == {n \in Nat : ~(Ends(P, N, c, n) \subseteq S)}
  <2>1. CASE T = {}
    BY <1>0, <2>1
  <2>2. CASE T # {}
    <3>1. T \in SUBSET Nat
      OBVIOUS
    <3>2. PICK n \in T : \A m \in T : n <= m
      <4> HIDE DEF T
      <4> QED
        BY <2>2, <3>1, NatLeast
    <3>3. n # 0
      BY <1>2, <1>4, <3>2
    <3>4. PICK m \in Nat : n = m + 1
      BY <3>1, <3>2, <3>3
    <3>5. Ends(P, N, c, m) \subseteq S
      BY <3>2, <3>4
    <3>6. Ends(P, N, c, n) = Ends(P, N, c, m) \cup UNION {P[d] : d \in Ends(P, N, c, m)}
      BY <1>2, <3>4
    <3>7. Ends(P, N, c, n) \subseteq S
      BY <1>4, <3>5, <3>6 DEF UpClosed
    <3> QED
      BY <3>2, <3>7
  <2> QED
    BY <2>1, <2>2
<1>5. Ends(P, N, c, N) \subseteq Above(P, N, c)
  BY <1>0, <1>1, <1>4 DEF Above
<1> QED
  BY <1>3, <1>5

(* More commits put nothing else above a commit.                           *)
LEMMA AboveStays ==
  ASSUME NEW P, NEW N, Graph(P, N), NEW Q, NEW M, Graph(Q, M), N <= M,
         \A d \in 1 .. N : Q[d] = P[d],
         NEW c \in 1 .. N
  PROVE  Above(Q, M, c) = Above(P, N, c)
<1>1. /\ N \in Nat /\ M \in Nat /\ 1 .. N \subseteq 1 .. M
      /\ \A d \in 1 .. N : P[d] \subseteq 1 .. N
  BY DEF Graph
<1>2. ASSUME NEW x \in Above(Q, M, c) PROVE x \in Above(P, N, c)
  <2>1. ASSUME NEW S \in SUBSET (1 .. N), c \in S, UpClosed(P, S) PROVE x \in S
    <3>1. S \in SUBSET (1 .. M) /\ UpClosed(Q, S)
      BY <1>1, <2>1 DEF UpClosed
    <3> QED
      BY <2>1, <3>1 DEF Above
  <2>2. x \in 1 .. N
    <3>1. 1 .. N \in SUBSET (1 .. N) /\ c \in 1 .. N /\ UpClosed(P, 1 .. N)
      BY <1>1 DEF UpClosed
    <3> QED
      BY <2>1, <3>1
  <2> QED
    BY <2>1, <2>2 DEF Above
<1>3. ASSUME NEW x \in Above(P, N, c) PROVE x \in Above(Q, M, c)
  <2>1. ASSUME NEW S \in SUBSET (1 .. M), c \in S, UpClosed(Q, S) PROVE x \in S
    <3> DEFINE T == S \cap 1 .. N
    <3>1. T \in SUBSET (1 .. N) /\ c \in T /\ UpClosed(P, T)
      BY <1>1, <2>1 DEF UpClosed
    <3> HIDE DEF T
    <3>2. x \in T
      BY <3>1 DEF Above
    <3> QED
      BY <3>2 DEF T
  <2> QED
    BY <1>1, <2>1 DEF Above
<1> QED
  BY <1>2, <1>3
=============================================================================
