---------------------------- MODULE ErasureProofs ---------------------------
(***************************************************************************)
(* What is proved of personal data: whatever commits, designations and     *)
(* erasures run at a time and wherever they die, an erased subject stays   *)
(* erased, and sealing loses nothing of the others.                        *)
(***************************************************************************)
EXTENDS Erasure, FiniteSetTheorems, TLAPS

(* The rows of the sidecar, and what identifies one in its branch.         *)
Words == Texts \cup {""}
StoredValue == [text : Words, seals : Nat]
StoredVersion ==
  [line : Lines, pk : Keys, subject : Subjects, seq : Nat, value : StoredValue,
   wrote : Words, via : {"write", "merge", "erase"}, asked : BOOLEAN]

(* What a deleted row stores.                                              *)
LEMMA NothingParts ==
  /\ Nothing \in StoredValue
  /\ Nothing.seals = 0
  /\ Nothing = [text |-> Nothing.text, seals |-> 0]
<1>1. \E empty : empty = "" /\ Nothing = [text |-> empty, seals |-> 0]
  BY Zenon DEF Nothing
<1>2. PICK empty : empty \in Words /\ Nothing = [text |-> empty, seals |-> 0]
  BY <1>1, Zenon DEF Words
<1>3. QED
  BY <1>2 DEF StoredValue

OnLine(S, line) == {v \in S : v.line = line}
Ids(S) == {Id(v) : v \in S}

(* The versions of a branch are numbered, none beyond how many there are,  *)
(* so that the next number is free.                                        *)
InSequence(S) ==
  /\ IsFiniteSet(S)
  /\ \A v \in S : v.seq <= Cardinality(OnLine(S, v.line))
  /\ \A u, v \in S : Id(u) = Id(v) => u = v

(* What is stored takes the next numbers of one branch.                    *)
Follows(T, S, line) ==
  /\ IsFiniteSet(T)
  /\ \A t \in T : /\ t.line = line
                  /\ t.seq > Cardinality(OnLine(S, line))
                  /\ t.seq <= Cardinality(OnLine(S, line)) + Cardinality(T)
  /\ \A s, t \in T : s.seq = t.seq => s = t

LEMMA LineFinite ==
  ASSUME NEW S, IsFiniteSet(S), NEW line
  PROVE  IsFiniteSet(OnLine(S, line)) /\ Cardinality(OnLine(S, line)) \in Nat
<1>1. OnLine(S, line) \in SUBSET S
  BY DEF OnLine
<1>2. IsFiniteSet(OnLine(S, line))
  BY <1>1, FS_Subset
<1>3. QED
  BY <1>2, FS_CardinalityType

(* Two rows of one identity agree in each of its parts.                    *)
LEMMA IdParts ==
  ASSUME NEW u, NEW v
  PROVE  Id(u) = Id(v) <=> u.line = v.line /\ u.pk = v.pk /\ u.seq = v.seq
BY DEF Id

LEMMA FollowersAreNew ==
  ASSUME NEW S \in SUBSET StoredVersion, NEW T \in SUBSET StoredVersion, NEW line,
         InSequence(S), Follows(T, S, line)
  PROVE  /\ \A t \in T : Id(t) \notin Ids(S)
         /\ T \cap S = {}
<1>1. ASSUME NEW t \in T, NEW s \in S, Id(s) = Id(t)  PROVE FALSE
  <2>1. s.line = line /\ s.seq = t.seq
    BY <1>1, IdParts DEF Follows
  <2>2. s.seq <= Cardinality(OnLine(S, line)) /\ s.seq > Cardinality(OnLine(S, line))
    BY <2>1 DEF InSequence, Follows
  <2>3. Cardinality(OnLine(S, line)) \in Nat
    BY LineFinite DEF InSequence
  <2>4. s.seq \in Nat
    BY DEF StoredVersion
  <2>5. QED
    BY <2>2, <2>3, <2>4
<1>2. \A t \in T : Id(t) \notin Ids(S)
  BY <1>1 DEF Ids
<1>3. T \cap S = {}
  BY <1>1
<1>4. QED
  BY <1>2, <1>3

LEMMA NumberedGrows ==
  ASSUME NEW S \in SUBSET StoredVersion, NEW T \in SUBSET StoredVersion, NEW line,
         InSequence(S), Follows(T, S, line)
  PROVE  InSequence(S \cup T)
<1> DEFINE U == S \cup T
<1>1. IsFiniteSet(U)
  BY FS_Union DEF InSequence, Follows
<1>2. Cardinality(OnLine(U, line)) = Cardinality(OnLine(S, line)) + Cardinality(T)
  <2>1. OnLine(U, line) = OnLine(S, line) \cup T
    BY DEF OnLine, Follows
  <2>2. OnLine(S, line) \cap T = {}
    <3>1. T \cap S = {}
      BY FollowersAreNew
    <3>2. QED
      BY <3>1 DEF OnLine
  <2>3. IsFiniteSet(OnLine(S, line)) /\ IsFiniteSet(T)
    BY LineFinite DEF InSequence, Follows
  <2>4. Cardinality(OnLine(S, line) \cup T)
          = Cardinality(OnLine(S, line)) + Cardinality(T) - Cardinality({})
    BY <2>2, <2>3, FS_Union
  <2>5. Cardinality(OnLine(S, line)) \in Nat /\ Cardinality(T) \in Nat
    BY <2>3, FS_CardinalityType
  <2>6. Cardinality({}) = 0
    BY FS_EmptySet
  <2>7. Cardinality(OnLine(S, line) \cup T) = Cardinality(OnLine(S, line)) + Cardinality(T)
    BY <2>4, <2>5, <2>6
  <2>8. QED
    BY <2>1, <2>7, Zenon
<1>3. ASSUME NEW other, other # line  PROVE OnLine(U, other) = OnLine(S, other)
  BY <1>3 DEF OnLine, Follows
<1>4. Cardinality(OnLine(S, line)) \in Nat /\ Cardinality(T) \in Nat
  BY LineFinite, FS_CardinalityType DEF InSequence, Follows
<1>5. ASSUME NEW v \in U  PROVE v.seq <= Cardinality(OnLine(U, v.line))
  <2>1. v.seq \in Nat
    BY DEF StoredVersion
  <2>2. CASE v \in T
    BY <2>2, <1>2 DEF Follows
  <2>3. CASE v \in S /\ v.line # line
    BY <2>3, <1>3 DEF InSequence
  <2>4. CASE v \in S /\ v.line = line
    <3>1. v.seq <= Cardinality(OnLine(S, line))
      BY <2>4 DEF InSequence
    <3>2. QED
      BY <3>1, <1>2, <1>4, <2>1, <2>4
  <2>5. QED
    BY <2>2, <2>3, <2>4
<1>6. ASSUME NEW u \in U, NEW v \in U, Id(u) = Id(v)  PROVE u = v
  <2>1. CASE u \in S /\ v \in S
    BY <2>1, <1>6 DEF InSequence
  <2>2. CASE u \in T /\ v \in T
    BY <2>2, <1>6, IdParts DEF Follows
  <2>3. CASE u \in T /\ v \in S
    BY <2>3, <1>6, FollowersAreNew DEF Ids
  <2>4. CASE u \in S /\ v \in T
    BY <2>4, <1>6, FollowersAreNew DEF Ids
  <2>5. QED
    BY <2>1, <2>2, <2>3, <2>4
<1>7. QED
  BY <1>1, <1>5, <1>6 DEF InSequence

(* Requests that store a value, erasures and designations at work.         *)
Putting ==
  [pc : {"key", "land"}, line : Lines, pk : Keys, subject : Subjects, value : StoredValue,
   via : {"write", "merge"}, asked : BOOLEAN]
Erasing == [pc : {"delete", "destroy"}, subject : Subjects, keys : SUBSET Keys]
Sealing == [pc : {"seal"}, todo : SUBSET StoredVersion,
            found : SUBSET [line : Lines, pk : Keys, seq : Nat]]

ErasureShape ==
  /\ designated \in BOOLEAN
  /\ dek \in [Subjects -> {"none", "live", "destroyed"}]
  /\ stored \in SUBSET StoredVersion
  /\ writer \in [Writers -> {Quiet} \cup Putting]
  /\ eraser \in {Quiet} \cup Erasing
  /\ scan \in {Quiet, [pc |-> "scan"]} \cup Sealing
  /\ erased \in SUBSET Subjects
  /\ \A w \in Writers : writer[w] # Quiet /\ writer[w].via = "write" => writer[w].value.seals = 0
  /\ eraser # Quiet => IsFiniteSet(eraser.keys)

KeysDestroyed == \A s \in erased : dek[s] = "destroyed"

(* What designations found is still there.                                 *)
FoundIsStored ==
  /\ sealedUpTo \subseteq Ids(stored)
  /\ scan.pc = "seal" => scan.found \subseteq Ids(stored)

InTheClear(v) == v.value # Nothing /\ v.value.seals = 0

(* A value is in the clear when its commit did not know of a designation,  *)
(* no designation that completed found it, and the one at work has yet to  *)
(* seal it if it found it.                                                 *)
SealedOrDue ==
  /\ \A v \in stored : InTheClear(v) =>
       /\ ~v.asked /\ Id(v) \notin sealedUpTo
       /\ scan.pc = "seal" /\ Id(v) \in scan.found => v \in scan.todo
  /\ scan.pc = "seal" => \A v \in scan.todo : v.value.seals = 0

(* A write's version holds its text, sealed at most once, unless sealing   *)
(* rewrote several versions of its row.                                    *)
Faithful ==
  \A v \in stored : v.via = "write" /\ <<v.line, v.pk>> \notin smeared =>
    v.value.text = v.wrote /\ v.value.seals \in {0, 1}

ErasureInv ==
  /\ ErasureShape
  /\ InSequence(stored)
  /\ KeysDestroyed
  /\ FoundIsStored
  /\ SealedOrDue
  /\ Faithful

(* Storing more versions keeps what is said of those that are there, if    *)
(* the new ones are sealed as their commits knew to.                       *)
LEMMA StoringKeeps ==
  ASSUME ErasureInv, NEW T \in SUBSET StoredVersion, NEW line, Follows(T, stored, line),
         stored' = stored \cup T, UNCHANGED <<scan, sealedUpTo, smeared>>,
         \A t \in T : InTheClear(t) => ~t.asked,
         \A t \in T : t.via = "write" => t.value.text = t.wrote /\ t.value.seals \in {0, 1}
  PROVE  InSequence(stored)' /\ FoundIsStored' /\ SealedOrDue' /\ Faithful'
<1>1. stored \in SUBSET StoredVersion /\ InSequence(stored)
  BY DEF ErasureInv, ErasureShape
<1>2. InSequence(stored \cup T)
  BY <1>1, NumberedGrows
<1>3. \A t \in T : Id(t) \notin Ids(stored)
  BY <1>1, FollowersAreNew
<1>4. InSequence(stored)'
  BY <1>2, Zenon
<1>5. FoundIsStored'
  BY DEF ErasureInv, FoundIsStored, Ids
<1>6. SealedOrDue'
  <2>1. ASSUME NEW v \in stored', InTheClear(v)
        PROVE  /\ ~v.asked /\ Id(v) \notin sealedUpTo
               /\ scan.pc = "seal" /\ Id(v) \in scan.found => v \in scan.todo
    <3>1. CASE v \in stored
      BY <2>1, <3>1 DEF ErasureInv, SealedOrDue
    <3>2. CASE v \in T
      BY <2>1, <3>2, <1>3 DEF ErasureInv, FoundIsStored
    <3>3. QED
      BY <3>1, <3>2
  <2>2. scan.pc = "seal" => \A v \in scan.todo : v.value.seals = 0
    BY DEF ErasureInv, SealedOrDue
  <2>3. QED
    BY <2>1, <2>2 DEF SealedOrDue, InTheClear
<1>7. Faithful'
  BY DEF ErasureInv, Faithful
<1>8. QED
  BY <1>4, <1>5, <1>6, <1>7

(* What a designation's update makes of the versions of a row.             *)
Resealed(u, v) ==
  IF u.line = v.line /\ u.pk = v.pk
  THEN [u EXCEPT !.value = [text |-> v.value.text, seals |-> v.value.seals + 1]] ELSE u

LEMMA ResealedParts ==
  ASSUME NEW u \in StoredVersion, NEW v \in StoredVersion
  PROVE  /\ Resealed(u, v) \in StoredVersion
         /\ Resealed(u, v).line = u.line /\ Resealed(u, v).pk = u.pk
         /\ Resealed(u, v).seq = u.seq /\ Resealed(u, v).subject = u.subject
         /\ Resealed(u, v).wrote = u.wrote /\ Resealed(u, v).via = u.via
         /\ Resealed(u, v).asked = u.asked
         /\ u.line = v.line /\ u.pk = v.pk =>
              Resealed(u, v).value = [text |-> v.value.text, seals |-> v.value.seals + 1]
         /\ ~(u.line = v.line /\ u.pk = v.pk) => Resealed(u, v) = u
<1> DEFINE value == [text |-> v.value.text, seals |-> v.value.seals + 1]
           new == [u EXCEPT !.value = value]
<1>1. value \in StoredValue
  <2>1. v.value \in StoredValue
    BY DEF StoredVersion
  <2>2. v.value.text \in Words /\ v.value.seals \in Nat
    BY <2>1 DEF StoredValue
  <2>3. v.value.seals + 1 \in Nat
    BY <2>2
  <2>4. QED
    BY <2>2, <2>3 DEF StoredValue
<1> HIDE DEF value
<1>2. /\ new \in StoredVersion
      /\ new.line = u.line /\ new.pk = u.pk /\ new.seq = u.seq
      /\ new.subject = u.subject /\ new.wrote = u.wrote /\ new.via = u.via
      /\ new.asked = u.asked /\ new.value = value
  BY <1>1 DEF StoredVersion
<1> HIDE DEF new
<1>3. Resealed(u, v) = IF u.line = v.line /\ u.pk = v.pk THEN new ELSE u
  BY DEF Resealed, new, value
<1>4. CASE u.line = v.line /\ u.pk = v.pk
  BY <1>2, <1>3, <1>4 DEF value
<1>5. CASE ~(u.line = v.line /\ u.pk = v.pk)
  BY <1>3, <1>5
<1>6. QED
  BY <1>4, <1>5

(* It keeps the identity of every version, and so their numbers.           *)
LEMMA ResealedNumbered ==
  ASSUME NEW S \in SUBSET StoredVersion, NEW v \in StoredVersion, InSequence(S)
  PROVE  InSequence({Resealed(u, v) : u \in S})
<1> DEFINE R == {Resealed(u, v) : u \in S}
<1>1. \A u \in S : Id(Resealed(u, v)) = Id(u)
  BY ResealedParts, IdParts
<1>2. \A t, u \in S : Resealed(t, v) = Resealed(u, v) => t = u
  BY <1>1 DEF InSequence
<1>3. ASSUME NEW U \in SUBSET S
      PROVE  /\ IsFiniteSet({Resealed(u, v) : u \in U})
             /\ Cardinality({Resealed(u, v) : u \in U}) = Cardinality(U)
  <2> DEFINE V == {Resealed(u, v) : u \in U}
             f == [u \in U |-> Resealed(u, v)]
  <2>1. f \in Bijection(U, V)
    <3>1. f \in [U -> V]
      OBVIOUS
    <3>2. \A t, u \in U : f[t] = f[u] => t = u
      BY <1>2
    <3>3. \A y \in V : \E u \in U : f[u] = y
      OBVIOUS
    <3>4. QED
      BY <3>1, <3>2, <3>3 DEF Bijection, Injection, Surjection, IsInjective
  <2>2. ExistsBijection(U, V)
    BY <2>1 DEF ExistsBijection
  <2>3. IsFiniteSet(U)
    BY FS_Subset DEF InSequence
  <2> HIDE DEF V, f
  <2>4. IsFiniteSet(V) /\ Cardinality(V) = Cardinality(U)
    BY <2>2, <2>3, FS_Bijection
  <2>5. QED
    BY <2>4 DEF V
<1>4. ASSUME NEW line  PROVE OnLine(R, line) = {Resealed(u, v) : u \in OnLine(S, line)}
  <2>1. \A u \in S : Resealed(u, v).line = u.line
    BY ResealedParts
  <2>2. QED
    BY <2>1 DEF OnLine
<1>5. IsFiniteSet(R)
  BY <1>3
<1>6. ASSUME NEW w \in R  PROVE w.seq <= Cardinality(OnLine(R, w.line))
  <2>1. PICK u \in S : w = Resealed(u, v)
    OBVIOUS
  <2>2. w.seq = u.seq /\ w.line = u.line
    BY <2>1, ResealedParts
  <2>3. OnLine(S, u.line) \in SUBSET S
    BY DEF OnLine
  <2>4. Cardinality(OnLine(R, u.line)) = Cardinality(OnLine(S, u.line))
    <3>1. Cardinality({Resealed(y, v) : y \in OnLine(S, u.line)})
            = Cardinality(OnLine(S, u.line))
      BY <2>3, <1>3
    <3>2. OnLine(R, u.line) = {Resealed(y, v) : y \in OnLine(S, u.line)}
      BY <1>4
    <3>3. QED
      BY <3>1, <3>2, Zenon
  <2>5. u.seq <= Cardinality(OnLine(S, u.line))
    BY DEF InSequence
  <2>6. QED
    BY <2>2, <2>4, <2>5
<1>7. ASSUME NEW w \in R, NEW x \in R, Id(w) = Id(x)  PROVE w = x
  <2>1. PICK t \in S, u \in S : w = Resealed(t, v) /\ x = Resealed(u, v)
    OBVIOUS
  <2>2. Id(t) = Id(u)
    BY <2>1, <1>1, <1>7
  <2>3. QED
    BY <2>1, <2>2 DEF InSequence
<1>8. QED
  BY <1>5, <1>6, <1>7 DEF InSequence

-----------------------------------------------------------------------------
(* The invariant, one action after the other.                              *)

LEMMA ErasureBegins == ErasureInit => ErasureInv
<1> SUFFICES ASSUME ErasureInit  PROVE ErasureInv
  OBVIOUS
<1>1. ErasureShape
  BY DEF ErasureInit, ErasureShape, Quiet
<1>2. InSequence(stored)
  BY FS_EmptySet DEF ErasureInit, InSequence
<1>3. KeysDestroyed /\ FoundIsStored /\ SealedOrDue /\ Faithful
  BY DEF ErasureInit, KeysDestroyed, FoundIsStored, SealedOrDue, Faithful, Quiet
<1>4. QED
  BY <1>1, <1>2, <1>3 DEF ErasureInv

(* What a step that stores nothing leaves as it is.                        *)
LEMMA StoringNothing ==
  ASSUME ErasureInv, UNCHANGED <<stored, scan, sealedUpTo, smeared>>
  PROVE  InSequence(stored)' /\ FoundIsStored' /\ SealedOrDue' /\ Faithful'
<1>1. InSequence(stored)'
  BY Zenon DEF ErasureInv
<1>2. FoundIsStored'
  BY DEF ErasureInv, FoundIsStored
<1>3. SealedOrDue'
  BY DEF ErasureInv, SealedOrDue, InTheClear
<1>4. Faithful'
  BY DEF ErasureInv, Faithful
<1>5. QED
  BY <1>1, <1>2, <1>3, <1>4

(* A commit begins to write or to merge: only its writer changes.          *)
LEMMA StartKeeps ==
  ASSUME ErasureInv, NEW w \in Writers, NEW line \in Lines, NEW pk \in Keys,
         NEW subject \in Subjects, NEW value \in StoredValue, NEW via \in {"write", "merge"},
         via = "write" => value.seals = 0, Start(w, line, pk, subject, value, via)
  PROVE  ErasureInv'
<1> DEFINE job == [pc |-> "key", line |-> line, pk |-> pk, subject |-> subject,
                   value |-> value, via |-> via, asked |-> designated]
<1>1. job \in Putting
  BY DEF ErasureInv, ErasureShape, Putting
<1>2. job.via = via /\ job.value = value
  OBVIOUS
<1>3. writer' = [writer EXCEPT ![w] = job]
  BY DEF Start
<1> HIDE DEF job
<1>4. UNCHANGED <<designated, dek, stored, eraser, scan, erased, sealedUpTo, smeared>>
  BY DEF Start
<1>5. ErasureShape'
  BY <1>1, <1>2, <1>3, <1>4 DEF ErasureInv, ErasureShape
<1>6. KeysDestroyed'
  BY <1>4 DEF ErasureInv, KeysDestroyed
<1>7. QED
  BY <1>4, <1>5, <1>6, StoringNothing DEF ErasureInv

(* A client's value is in the clear, a merged one as it is stored.         *)
LEMMA PutKeeps ==
  ASSUME ErasureInv, NEW w \in Writers, NEW line \in Lines, NEW pk \in Keys,
         NEW subject \in Subjects, NEW text \in Texts, Put(w, line, pk, subject, text)
  PROVE  ErasureInv'
<1>1. PICK value : value = [text |-> text, seals |-> 0]
  OBVIOUS
<1>2. value \in StoredValue /\ value.seals = 0
  BY <1>1 DEF StoredValue, Words
<1>3. Start(w, line, pk, subject, value, "write")
  BY <1>1 DEF Put
<1>4. QED
  BY <1>2, <1>3, StartKeeps

LEMMA PutMergedKeeps ==
  ASSUME ErasureInv, NEW w \in Writers, NEW pk \in Keys, PutMerged(w, pk)
  PROVE  ErasureInv'
<1>1. PICK line \in Lines \ {Trunk} : \E v \in Latest(line, pk) :
        v.value # Nothing /\ Start(w, Trunk, pk, v.subject, v.value, "merge")
  BY DEF PutMerged
<1>2. PICK v \in Latest(line, pk) : Start(w, Trunk, pk, v.subject, v.value, "merge")
  BY <1>1
<1>3. v \in StoredVersion
  BY DEF Latest, VersionsOf, ErasureInv, ErasureShape
<1>4. v.subject \in Subjects /\ v.value \in StoredValue
  BY <1>3 DEF StoredVersion
<1>5. QED
  BY <1>2, <1>4, StartKeeps, ErasureAssumption

(* A subject's key is issued, but no destroyed one.                        *)
LEMMA IssueKeeps ==
  ASSUME ErasureInv, NEW s \in Subjects, CanSeal(s), Issue(s), UNCHANGED erased
  PROVE  /\ dek' \in [Subjects -> {"none", "live", "destroyed"}]
         /\ KeysDestroyed'
<1>1. dek \in [Subjects -> {"none", "live", "destroyed"}] /\ erased \in SUBSET Subjects
  BY DEF ErasureInv, ErasureShape
<1>2. dek' \in [Subjects -> {"none", "live", "destroyed"}]
  BY <1>1 DEF Issue
<1>3. s \notin erased
  BY DEF ErasureInv, KeysDestroyed, CanSeal
<1>4. KeysDestroyed'
  BY <1>1, <1>3 DEF ErasureInv, KeysDestroyed, Issue
<1>5. QED
  BY <1>2, <1>4

LEMMA FetchKeyKeeps ==
  ASSUME ErasureInv, NEW w \in Writers, FetchKey(w)
  PROVE  ErasureInv'
<1>1. UNCHANGED <<designated, stored, eraser, scan, erased, sealedUpTo, smeared>>
  BY DEF FetchKey
<1>2. writer[w] \in Putting
  BY DEF ErasureInv, ErasureShape, FetchKey, Quiet
<1>3. [writer[w] EXCEPT !.pc = "land"] \in Putting
  BY <1>2 DEF Putting
<1>4. /\ [writer[w] EXCEPT !.pc = "land"].via = writer[w].via
      /\ [writer[w] EXCEPT !.pc = "land"].value = writer[w].value
      /\ writer[w] # Quiet
  BY <1>2 DEF Putting, Quiet
<1>5. writer \in [Writers -> {Quiet} \cup Putting]
  BY DEF ErasureInv, ErasureShape
<1>6. \/ writer' = [writer EXCEPT ![w] = [writer[w] EXCEPT !.pc = "land"]]
      \/ writer' = [writer EXCEPT ![w] = Quiet]
  BY <1>5 DEF FetchKey
<1>7. /\ writer' \in [Writers -> {Quiet} \cup Putting]
      /\ \A u \in Writers : writer'[u] # Quiet /\ writer'[u].via = "write"
                              => writer'[u].value.seals = 0
  BY <1>3, <1>4, <1>5, <1>6 DEF ErasureInv, ErasureShape
<1>8. dek' \in [Subjects -> {"none", "live", "destroyed"}] /\ KeysDestroyed'
  <2>1. CASE UNCHANGED dek
    BY <2>1, <1>1 DEF ErasureInv, ErasureShape, KeysDestroyed
  <2>2. CASE CanSeal(writer[w].subject) /\ Issue(writer[w].subject)
    <3>1. writer[w].subject \in Subjects
      BY <1>2 DEF Putting
    <3>2. QED
      BY <2>2, <3>1, <1>1, IssueKeeps
  <2>3. QED
    BY <2>1, <2>2 DEF FetchKey
<1>9. ErasureShape'
  BY <1>1, <1>7, <1>8 DEF ErasureInv, ErasureShape
<1>10. QED
  BY <1>1, <1>8, <1>9, StoringNothing DEF ErasureInv

(* A refused commit and a process that dies leave what is stored.          *)
LEMMA WriterDiesKeeps ==
  ASSUME ErasureInv, NEW w \in Writers, WriterDies(w)
  PROVE  ErasureInv'
<1>1. UNCHANGED <<designated, dek, stored, eraser, scan, erased, sealedUpTo, smeared>>
  BY DEF WriterDies
<1>2. ErasureShape'
  BY <1>1 DEF ErasureInv, ErasureShape, WriterDies
<1>3. KeysDestroyed'
  BY <1>1 DEF ErasureInv, KeysDestroyed
<1>4. QED
  BY <1>1, <1>2, <1>3, StoringNothing DEF ErasureInv

(* A commit stores its version, sealed once more if it knew of the         *)
(* designation, under the next number of its branch.                       *)
LEMMA LandPutKeeps ==
  ASSUME ErasureInv, NEW w \in Writers, LandPut(w)
  PROVE  ErasureInv'
<1> DEFINE job == writer[w]
           seals == job.value.seals + IF job.asked /\ job.value # Nothing THEN 1 ELSE 0
           value == [text |-> job.value.text, seals |-> seals]
           next == 1 + Cardinality({v \in stored : v.line = job.line})
           version == [line |-> job.line, pk |-> job.pk, subject |-> job.subject,
                       seq |-> next, value |-> value, wrote |-> job.value.text,
                       via |-> job.via, asked |-> job.asked]
<1>1. job \in Putting
  BY DEF ErasureInv, ErasureShape, LandPut, Quiet
<1>2. /\ job.line \in Lines /\ job.pk \in Keys /\ job.subject \in Subjects
      /\ job.via \in {"write", "merge"} /\ job.asked \in BOOLEAN
      /\ job.value \in StoredValue
  BY <1>1 DEF Putting
<1>3. job.value.text \in Words /\ job.value.seals \in Nat
  BY <1>2 DEF StoredValue
<1>4. seals \in Nat /\ (job.value # Nothing /\ job.asked => seals # 0)
      /\ (job.value.seals = 0 => seals \in {0, 1})
  BY <1>3
<1>5. value \in StoredValue
  BY <1>3, <1>4 DEF StoredValue
<1>6. stored \in SUBSET StoredVersion /\ InSequence(stored)
  BY DEF ErasureInv, ErasureShape
<1>7. /\ Cardinality(OnLine(stored, job.line)) \in Nat
      /\ next = 1 + Cardinality(OnLine(stored, job.line))
  BY <1>6, LineFinite DEF InSequence, OnLine
<1>8. stored' = stored \cup {version}
  BY DEF LandPut
<1>9. UNCHANGED <<designated, dek, eraser, scan, erased, sealedUpTo, smeared>>
  BY DEF LandPut
<1>10. job.asked => value = Nothing \/ value.seals # 0
  <2>1. CASE job.value = Nothing
    <3>1. seals = 0
      BY <2>1, NothingParts
    <3>2. QED
      BY <2>1, <3>1, NothingParts
  <2>2. CASE job.value # Nothing
    BY <2>2, <1>4
  <2>3. QED
    BY <2>1, <2>2
<1>11. job.via = "write" => job.value.seals = 0
  <2>1. job # Quiet
    BY <1>1 DEF Putting, Quiet
  <2>2. QED
    BY <2>1 DEF ErasureInv, ErasureShape
<1>12. job.via = "write" => value.text = job.value.text /\ value.seals \in {0, 1}
  BY <1>4, <1>11
<1> HIDE DEF value, seals, next
<1>13. next \in Nat
  BY <1>7
<1>14. /\ version \in StoredVersion
       /\ version.line = job.line /\ version.seq = next /\ version.value = value
       /\ version.wrote = job.value.text /\ version.via = job.via /\ version.asked = job.asked
  BY <1>2, <1>3, <1>5, <1>13 DEF StoredVersion
<1> HIDE DEF version
<1>15. IsFiniteSet({version}) /\ Cardinality({version}) = 1
  BY FS_Singleton
<1>16. Follows({version}, stored, job.line)
  BY <1>7, <1>14, <1>15 DEF Follows
<1>17. InSequence(stored)' /\ FoundIsStored' /\ SealedOrDue' /\ Faithful'
  <2>1. InTheClear(version) => ~version.asked
    BY <1>10, <1>14 DEF InTheClear
  <2>2. version.via = "write" => version.value.text = version.wrote
                                   /\ version.value.seals \in {0, 1}
    BY <1>12, <1>14
  <2>3. {version} \in SUBSET StoredVersion
    BY <1>14
  <2>4. QED
    BY <1>8, <1>9, <1>16, <2>1, <2>2, <2>3, StoringKeeps
<1>18. KeysDestroyed'
  BY <1>9 DEF ErasureInv, KeysDestroyed
<1>19. ErasureShape'
  <2>1. writer' = [writer EXCEPT ![w] = Quiet]
    BY DEF LandPut
  <2>2. stored' \in SUBSET StoredVersion
    BY <1>6, <1>8, <1>14
  <2>3. QED
    BY <1>9, <2>1, <2>2 DEF ErasureInv, ErasureShape
<1>20. QED
  BY <1>17, <1>18, <1>19 DEF ErasureInv

(* A designation begins or dies: what it had yet to seal is not asked for, *)
(* and what a completed one found stays sealed.                            *)
LEMMA DesignateKeeps ==
  ASSUME ErasureInv, Designate \/ DesignationDies
  PROVE  ErasureInv'
<1>1. /\ UNCHANGED <<dek, stored, writer, eraser, sealedUpTo, smeared, erased>>
      /\ designated' \in BOOLEAN
      /\ scan' = Quiet \/ scan' = [pc |-> "scan"]
  BY DEF Designate, DesignationDies, ErasureInv, ErasureShape
<1>2. scan'.pc # "seal"
  BY <1>1 DEF Quiet
<1>3. ErasureShape'
  BY <1>1 DEF ErasureInv, ErasureShape
<1>4. InSequence(stored)'
  BY <1>1, Zenon DEF ErasureInv
<1>5. KeysDestroyed' /\ FoundIsStored' /\ Faithful'
  BY <1>1, <1>2 DEF ErasureInv, KeysDestroyed, FoundIsStored, Faithful
<1>6. SealedOrDue'
  BY <1>1, <1>2 DEF ErasureInv, SealedOrDue, InTheClear
<1>7. QED
  BY <1>3, <1>4, <1>5, <1>6 DEF ErasureInv

LEMMA ScanStoredKeeps ==
  ASSUME ErasureInv, ScanStored
  PROVE  ErasureInv'
<1>1. UNCHANGED <<designated, dek, stored, writer, eraser, sealedUpTo, smeared, erased>>
  BY DEF ScanStored
<1>2. stored \in SUBSET StoredVersion
  BY DEF ErasureInv, ErasureShape
<1>3. Ids(stored) \in SUBSET [line : Lines, pk : Keys, seq : Nat]
  BY <1>2 DEF Ids, Id, StoredVersion
<1>4. scan' = [pc |-> "seal", todo |-> InClear, found |-> Ids(stored)]
  BY DEF ScanStored, Ids
<1>5. InClear = {v \in stored : InTheClear(v)}
  BY DEF InClear, InTheClear
<1>6. /\ scan' \in Sealing
      /\ scan'.todo = {v \in stored : InTheClear(v)} /\ scan'.found = Ids(stored)
  <2>1. InClear \in SUBSET StoredVersion
    BY <1>2, <1>5
  <2>2. QED
    BY <1>3, <1>4, <1>5, <2>1 DEF Sealing
<1>7. ErasureShape'
  BY <1>1, <1>6 DEF ErasureInv, ErasureShape
<1>8. InSequence(stored)'
  BY <1>1, Zenon DEF ErasureInv
<1>9. KeysDestroyed' /\ Faithful'
  BY <1>1 DEF ErasureInv, KeysDestroyed, Faithful
<1>10. FoundIsStored'
  BY <1>1, <1>6 DEF ErasureInv, FoundIsStored, Ids
<1>11. SealedOrDue'
  BY <1>1, <1>6 DEF ErasureInv, SealedOrDue, InTheClear
<1>12. QED
  BY <1>7, <1>8, <1>9, <1>10, <1>11 DEF ErasureInv

(* Nothing is left to seal: what the designation found is sealed.          *)
LEMMA DesignationEndsKeeps ==
  ASSUME ErasureInv, DesignationEnds
  PROVE  ErasureInv'
<1>1. /\ UNCHANGED <<designated, dek, stored, writer, eraser, smeared, erased>>
      /\ sealedUpTo' = sealedUpTo \cup scan.found
      /\ scan' = Quiet /\ scan.pc = "seal" /\ scan.todo = {}
  BY DEF DesignationEnds
<1>2. scan'.pc # "seal"
  BY <1>1 DEF Quiet
<1>3. ErasureShape'
  BY <1>1 DEF ErasureInv, ErasureShape
<1>4. InSequence(stored)'
  BY <1>1, Zenon DEF ErasureInv
<1>5. KeysDestroyed' /\ FoundIsStored' /\ Faithful'
  BY <1>1, <1>2 DEF ErasureInv, KeysDestroyed, FoundIsStored, Faithful, Ids
<1>6. SealedOrDue'
  BY <1>1, <1>2 DEF ErasureInv, SealedOrDue, InTheClear
<1>7. QED
  BY <1>3, <1>4, <1>5, <1>6 DEF ErasureInv

(* A version is sealed, and with it every other of its row.                *)
LEMMA SealExistingKeeps ==
  ASSUME ErasureInv, NEW v \in stored, SealExisting(v)
  PROVE  ErasureInv'
<1>1. /\ UNCHANGED <<designated, writer, eraser, sealedUpTo, erased>>
      /\ scan.pc = "seal" /\ v \in scan.todo
      /\ CanSeal(v.subject) /\ Issue(v.subject)
      /\ scan' = [scan EXCEPT !.todo = @ \ {v}]
  BY DEF SealExisting
<1>2. stored \in SUBSET StoredVersion /\ v \in StoredVersion /\ InSequence(stored)
  BY DEF ErasureInv, ErasureShape
<1>3. stored' = {Resealed(u, v) : u \in stored}
  <2>1. \A u \in stored : u \in VersionsOf(v.line, v.pk) <=> u.line = v.line /\ u.pk = v.pk
    BY DEF VersionsOf
  <2>2. QED
    BY <2>1 DEF SealExisting, Resealed
<1>4. scan \in Sealing
  BY <1>1 DEF ErasureInv, ErasureShape, Quiet
<1>5. /\ scan' \in Sealing /\ scan'.pc = "seal"
      /\ scan'.found = scan.found /\ scan'.todo = scan.todo \ {v}
  BY <1>1, <1>4 DEF Sealing
<1>6. v.value.seals = 0 /\ v.value.text \in Words
  BY <1>1, <1>2 DEF ErasureInv, SealedOrDue, StoredVersion, StoredValue
<1>7. \A u \in stored : Id(Resealed(u, v)) = Id(u)
  BY <1>2, ResealedParts, IdParts
<1>8. InSequence(stored)'
  <2>1. InSequence({Resealed(u, v) : u \in stored})
    BY <1>2, ResealedNumbered
  <2>2. QED
    BY <1>3, <2>1, Zenon
<1>9. /\ dek' \in [Subjects -> {"none", "live", "destroyed"}]
      /\ KeysDestroyed'
  <2>1. v.subject \in Subjects
    BY <1>2 DEF StoredVersion
  <2>2. QED
    BY <1>1, <2>1, IssueKeeps
<1>10. ErasureShape'
  <2>1. stored' \in SUBSET StoredVersion
    BY <1>2, <1>3, ResealedParts
  <2>2. QED
    BY <1>1, <1>5, <1>9, <2>1 DEF ErasureInv, ErasureShape
<1>11. Ids(stored)' = Ids(stored)
  BY <1>3, <1>7 DEF Ids
<1>12. FoundIsStored'
  BY <1>1, <1>5, <1>11 DEF ErasureInv, FoundIsStored
<1>13. SealedOrDue'
  <2>1. ASSUME NEW x \in stored', InTheClear(x)
        PROVE  /\ ~x.asked /\ Id(x) \notin sealedUpTo
               /\ Id(x) \in scan.found => x \in scan.todo \ {v}
    <3>1. PICK u \in stored : x = Resealed(u, v)
      BY <1>3
    <3>2. ASSUME u.line = v.line, u.pk = v.pk  PROVE FALSE
      <4>1. x.value = [text |-> v.value.text, seals |-> v.value.seals + 1]
        BY <3>1, <3>2, <1>2, ResealedParts
      <4>2. x.value.seals = 1
        BY <4>1, <1>6
      <4>3. QED
        BY <4>2, <2>1 DEF InTheClear
    <3>3. x = u /\ x # v
      BY <3>1, <3>2, <1>2, ResealedParts
    <3>4. QED
      BY <3>3, <2>1, <1>1 DEF ErasureInv, SealedOrDue
  <2>2. \A x \in scan.todo \ {v} : x.value.seals = 0
    BY <1>1 DEF ErasureInv, SealedOrDue
  <2>3. QED
    BY <1>1, <1>5, <2>1, <2>2 DEF SealedOrDue, InTheClear
<1>14. Faithful'
  <2>1. ASSUME NEW x \in stored', x.via = "write", <<x.line, x.pk>> \notin smeared'
        PROVE  x.value.text = x.wrote /\ x.value.seals \in {0, 1}
    <3>1. PICK u \in stored : x = Resealed(u, v)
      BY <1>3
    <3>2. u.via = "write" /\ x.wrote = u.wrote /\ x.line = u.line /\ x.pk = u.pk
      BY <3>1, <1>2, <2>1, ResealedParts
    <3>3. smeared \subseteq smeared'
      BY DEF SealExisting
    <3>4. u.value.text = u.wrote /\ u.value.seals \in {0, 1}
      BY <2>1, <3>2, <3>3 DEF ErasureInv, Faithful
    <3>5. CASE u.line = v.line /\ u.pk = v.pk
      <4>1. ~(Cardinality(VersionsOf(v.line, v.pk)) > 1)
        BY <2>1, <3>2, <3>5 DEF SealExisting
      <4>2. VersionsOf(v.line, v.pk) \in SUBSET stored
        BY DEF VersionsOf
      <4>3. IsFiniteSet(VersionsOf(v.line, v.pk))
        BY <1>2, <4>2, FS_Subset DEF InSequence
      <4>4. {u, v} \in SUBSET VersionsOf(v.line, v.pk)
        BY <3>5 DEF VersionsOf
      <4>5. u = v
        <5>1. SUFFICES ASSUME u # v  PROVE FALSE
          OBVIOUS
        <5>2. Cardinality({u, v}) = 2
          <6>1. IsFiniteSet({u}) /\ Cardinality({u}) = 1
            BY FS_Singleton
          <6>2. Cardinality({u} \cup {v}) = 2
            BY <5>1, <6>1, FS_AddElement
          <6>3. {u} \cup {v} = {u, v}
            OBVIOUS
          <6>4. QED
            BY <6>2, <6>3, Zenon
        <5>3. Cardinality({u, v}) <= Cardinality(VersionsOf(v.line, v.pk))
          BY <4>3, <4>4, FS_Subset
        <5>4. Cardinality(VersionsOf(v.line, v.pk)) \in Nat
          BY <4>3, FS_CardinalityType
        <5>5. QED
          BY <4>1, <5>2, <5>3, <5>4
      <4>6. x.value = [text |-> v.value.text, seals |-> v.value.seals + 1]
        BY <3>1, <3>5, <1>2, ResealedParts
      <4>7. QED
        BY <4>5, <4>6, <3>2, <3>4, <1>6
    <3>6. CASE ~(u.line = v.line /\ u.pk = v.pk)
      BY <3>1, <3>4, <3>6, <1>2, ResealedParts
    <3>7. QED
      BY <3>5, <3>6
  <2>2. QED
    BY <2>1 DEF Faithful
<1>15. QED
  BY <1>8, <1>9, <1>10, <1>12, <1>13, <1>14 DEF ErasureInv

(* An erasure looks up the current rows of its subject.                    *)
LEMMA BeginEraseKeeps ==
  ASSUME ErasureInv, NEW s \in Subjects, BeginErase(s)
  PROVE  ErasureInv'
<1> DEFINE keys == {k \in Keys : \E v \in Latest(Trunk, k) :
                                    v.subject = s /\ v.value # Nothing}
<1>1. /\ UNCHANGED <<designated, dek, stored, writer, scan, sealedUpTo, smeared, erased>>
      /\ eraser' = [pc |-> "delete", subject |-> s, keys |-> keys]
  BY DEF BeginErase
<1>2. IsFiniteSet(keys)
  <2> DEFINE latest == [k \in keys |-> CHOOSE v \in Latest(Trunk, k) : TRUE]
  <2>1. \A k \in keys : latest[k] \in stored /\ latest[k].pk = k
    BY DEF Latest, VersionsOf
  <2>2. latest \in Injection(keys, stored)
    <3>1. latest \in [keys -> stored]
      BY <2>1
    <3>2. \A j, k \in keys : latest[j] = latest[k] => j = k
      <4> HIDE DEF latest
      <4>1. QED
        BY <2>1
    <3>3. QED
      BY <3>1, <3>2 DEF Injection, IsInjective
  <2>3. IsFiniteSet(stored)
    BY DEF ErasureInv, InSequence
  <2> HIDE DEF latest, keys
  <2>4. QED
    BY <2>2, <2>3, FS_Injection
<1>3. keys \in SUBSET Keys
  OBVIOUS
<1> HIDE DEF keys
<1>4. eraser' \in Erasing /\ eraser'.keys = keys
  BY <1>1, <1>3 DEF Erasing
<1>5. ErasureShape'
  BY <1>1, <1>2, <1>4 DEF ErasureInv, ErasureShape
<1>6. KeysDestroyed'
  BY <1>1 DEF ErasureInv, KeysDestroyed
<1>7. QED
  BY <1>1, <1>5, <1>6, StoringNothing DEF ErasureInv

(* A commit deletes them, under numbers of their own.                      *)
LEMMA EraseRowsKeeps ==
  ASSUME ErasureInv, EraseRows
  PROVE  ErasureInv'
<1> DEFINE seq == Cardinality({v \in stored : v.line = Trunk})
           keys == eraser.keys
           row(k, n) == [line |-> Trunk, pk |-> k, subject |-> eraser.subject, seq |-> n,
                         value |-> Nothing, wrote |-> "", via |-> "erase", asked |-> TRUE]
<1>1. /\ UNCHANGED <<designated, dek, writer, scan, sealedUpTo, smeared, erased>>
      /\ eraser' = [eraser EXCEPT !.pc = "destroy"] /\ eraser.pc = "delete"
  BY DEF EraseRows
<1>2. PICK order \in [keys -> 1 .. Cardinality(keys)] :
        /\ \A j, k \in keys : j # k => order[j] # order[k]
        /\ stored' = stored \cup {row(k, seq + order[k]) : k \in keys}
  BY DEF EraseRows
<1> DEFINE T == {row(k, seq + order[k]) : k \in keys}
<1>3. eraser \in Erasing /\ eraser # Quiet
  BY <1>1 DEF ErasureInv, ErasureShape, Quiet
<1>4. keys \in SUBSET Keys /\ eraser.subject \in Subjects /\ IsFiniteSet(keys)
  BY <1>3 DEF ErasureInv, ErasureShape, Erasing
<1>5. Cardinality(keys) \in Nat
  BY <1>4, FS_CardinalityType
<1>6. stored \in SUBSET StoredVersion /\ InSequence(stored)
  BY DEF ErasureInv, ErasureShape
<1>7. seq \in Nat /\ seq = Cardinality(OnLine(stored, Trunk))
  BY <1>6, LineFinite DEF InSequence, OnLine
<1> HIDE DEF seq, keys
<1>8. ASSUME NEW k \in keys
      PROVE  order[k] \in Nat /\ order[k] > 0 /\ order[k] <= Cardinality(keys)
  BY <1>5
<1>9. ASSUME NEW k \in keys, NEW n \in Nat
      PROVE  /\ row(k, n) \in StoredVersion
             /\ row(k, n).line = Trunk /\ row(k, n).pk = k /\ row(k, n).seq = n
             /\ row(k, n).value = Nothing /\ row(k, n).via = "erase"
  <2>1. PICK empty : empty = "" /\ empty \in Words
    BY Zenon DEF Words
  <2>2. row(k, n) = [line |-> Trunk, pk |-> k, subject |-> eraser.subject, seq |-> n,
                     value |-> Nothing, wrote |-> empty, via |-> "erase", asked |-> TRUE]
    BY <2>1, Zenon
  <2> HIDE DEF row
  <2>3. k \in Keys /\ Trunk \in Lines /\ Nothing \in StoredValue
    BY <1>4, ErasureAssumption, NothingParts
  <2>4. empty \in Words
    BY <2>1
  <2>5. QED
    BY <1>4, <2>2, <2>3, <2>4 DEF StoredVersion
<1> HIDE DEF row
<1>10. ASSUME NEW t \in T
       PROVE  \E k \in keys : t = row(k, seq + order[k]) /\ seq + order[k] \in Nat
  BY <1>7, <1>8
<1>11. T \in SUBSET StoredVersion
  BY <1>9, <1>10
<1>12. IsFiniteSet(T) /\ Cardinality(T) = Cardinality(keys)
  <2> DEFINE f == [k \in keys |-> row(k, seq + order[k])]
  <2>1. f \in [keys -> T]
    OBVIOUS
  <2>2. \A k \in keys : f[k].pk = k
    BY <1>7, <1>8, <1>9
  <2>3. \A j, k \in keys : f[j] = f[k] => j = k
    <3> HIDE DEF f, T
    <3>1. QED
      BY <2>2
  <2>4. \A t \in T : \E k \in keys : f[k] = t
    OBVIOUS
  <2> HIDE DEF f, T
  <2>5. f \in Bijection(keys, T)
    BY <2>1, <2>3, <2>4 DEF Bijection, Injection, Surjection, IsInjective
  <2>6. ExistsBijection(keys, T)
    BY <2>5 DEF ExistsBijection
  <2>7. QED
    BY <1>4, <2>6, FS_Bijection
<1>13. Follows(T, stored, Trunk)
  <2>1. ASSUME NEW t \in T
        PROVE  t.line = Trunk /\ t.seq > seq /\ t.seq <= seq + Cardinality(T)
    <3>1. PICK k \in keys : t = row(k, seq + order[k]) /\ seq + order[k] \in Nat
      BY <1>10
    <3>2. t.line = Trunk /\ t.seq = seq + order[k]
      BY <3>1, <1>9
    <3>3. QED
      BY <3>2, <1>5, <1>7, <1>8, <1>12
  <2>2. ASSUME NEW s \in T, NEW t \in T, s.seq = t.seq  PROVE s = t
    <3>1. PICK j \in keys : s = row(j, seq + order[j]) /\ seq + order[j] \in Nat
      BY <1>10
    <3>2. PICK k \in keys : t = row(k, seq + order[k]) /\ seq + order[k] \in Nat
      BY <1>10
    <3>3. seq + order[j] = seq + order[k]
      BY <2>2, <3>1, <3>2, <1>9
    <3>4. order[j] = order[k]
      BY <3>3, <1>7, <1>8
    <3>5. j = k
      BY <3>4, <1>2
    <3>6. QED
      BY <3>1, <3>2, <3>5
  <2> HIDE DEF T
  <2>3. QED
    BY <1>7, <1>12, <2>1, <2>2 DEF Follows
<1>14. \A t \in T : t.value = Nothing /\ t.via = "erase"
  BY <1>9, <1>10
<1>15. stored' = stored \cup T
  BY <1>2
<1> HIDE DEF T
<1>16. InSequence(stored)' /\ FoundIsStored' /\ SealedOrDue' /\ Faithful'
  <2>1. \A t \in T : InTheClear(t) => ~t.asked
    BY <1>14 DEF InTheClear
  <2>2. \A t \in T : t.via = "write" => t.value.text = t.wrote /\ t.value.seals \in {0, 1}
    BY <1>14
  <2>3. QED
    BY <1>1, <1>11, <1>13, <1>15, <2>1, <2>2, StoringKeeps
<1>17. KeysDestroyed'
  BY <1>1 DEF ErasureInv, KeysDestroyed
<1>18. ErasureShape'
  <2>1. eraser' \in Erasing /\ eraser'.keys = keys
    BY <1>1, <1>3 DEF Erasing, keys
  <2>2. stored' \in SUBSET StoredVersion
    BY <1>6, <1>11, <1>15
  <2>3. QED
    BY <1>1, <1>4, <2>1, <2>2 DEF ErasureInv, ErasureShape
<1>19. QED
  BY <1>16, <1>17, <1>18 DEF ErasureInv

(* The key is destroyed, and with it the subject is erased.                *)
LEMMA DestroyKeyKeeps ==
  ASSUME ErasureInv, DestroyKey
  PROVE  ErasureInv'
<1>1. /\ UNCHANGED <<designated, stored, writer, scan, sealedUpTo, smeared>>
      /\ eraser' = Quiet /\ eraser.pc = "destroy"
      /\ dek' = [dek EXCEPT ![eraser.subject] = IF @ = "none" THEN @ ELSE "destroyed"]
      /\ erased' = IF dek[eraser.subject] = "none" THEN erased
                   ELSE erased \cup {eraser.subject}
  BY DEF DestroyKey
<1>2. eraser.subject \in Subjects
  BY <1>1 DEF ErasureInv, ErasureShape, Erasing, Quiet
<1>3. dek \in [Subjects -> {"none", "live", "destroyed"}] /\ erased \in SUBSET Subjects
  BY DEF ErasureInv, ErasureShape
<1>4. dek' \in [Subjects -> {"none", "live", "destroyed"}] /\ erased' \in SUBSET Subjects
  BY <1>1, <1>2, <1>3
<1>5. ErasureShape'
  BY <1>1, <1>4 DEF ErasureInv, ErasureShape
<1>6. KeysDestroyed'
  BY <1>1, <1>2, <1>3 DEF ErasureInv, KeysDestroyed
<1>7. QED
  BY <1>1, <1>5, <1>6, StoringNothing DEF ErasureInv

LEMMA EraserDiesKeeps ==
  ASSUME ErasureInv, EraserDies
  PROVE  ErasureInv'
<1>1. /\ UNCHANGED <<designated, dek, stored, writer, scan, sealedUpTo, smeared, erased>>
      /\ eraser' = Quiet
  BY DEF EraserDies
<1>2. ErasureShape'
  BY <1>1 DEF ErasureInv, ErasureShape
<1>3. KeysDestroyed'
  BY <1>1 DEF ErasureInv, KeysDestroyed
<1>4. QED
  BY <1>1, <1>2, <1>3, StoringNothing DEF ErasureInv

LEMMA ErasureStutters == ErasureInv /\ UNCHANGED erasureVars => ErasureInv'
<1> SUFFICES ASSUME ErasureInv, UNCHANGED erasureVars  PROVE ErasureInv'
  OBVIOUS
<1>1. UNCHANGED <<designated, dek, stored, writer, eraser, scan, erased, sealedUpTo, smeared>>
  BY DEF erasureVars
<1>2. ErasureShape'
  BY <1>1 DEF ErasureInv, ErasureShape
<1>3. KeysDestroyed'
  BY <1>1 DEF ErasureInv, KeysDestroyed
<1>4. QED
  BY <1>1, <1>2, <1>3, StoringNothing DEF ErasureInv

-----------------------------------------------------------------------------
(* What follows from the invariant.                                        *)

LEMMA InvKeepsErased == ErasureInv => ErasedStaysErased
BY DEF ErasureInv, KeysDestroyed, SealedOrDue, InTheClear, ErasedStaysErased

LEMMA InvKeepsReadable == ErasureInv => HistoryReadable
<1> SUFFICES ASSUME ErasureInv, NEW v \in stored, dek[v.subject] = "live", v.via = "write",
                    <<v.line, v.pk>> \notin smeared
             PROVE  DecryptPII(v) = [text |-> v.wrote, seals |-> 0]
  BY DEF HistoryReadable
<1>1. v.value.text = v.wrote /\ v.value.seals \in {0, 1}
  BY DEF ErasureInv, Faithful
<1>2. v.value \in StoredValue
  BY DEF ErasureInv, ErasureShape, StoredVersion
<1>3. CASE v.value.seals = 0
  BY <1>1, <1>2, <1>3 DEF DecryptPII, StoredValue
<1>4. CASE v.value.seals = 1
  BY <1>1, <1>2, <1>4 DEF DecryptPII, StoredValue
<1>5. QED
  BY <1>1, <1>3, <1>4
=============================================================================
