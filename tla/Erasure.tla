------------------------------- MODULE Erasure -------------------------------
(***************************************************************************)
(* Personal data in one column of one table: designating the column seals  *)
(* what the sidecar holds of it, commits seal what they store under a key  *)
(* per data subject, and erasing a subject deletes its current rows and    *)
(* destroys its key.                                                       *)
(*                                                                         *)
(* A value is a text and how many times it was sealed.  Of a commit this   *)
(* module keeps the reads and writes that matter here, under the lock of   *)
(* its branch.                                                             *)
(***************************************************************************)
EXTENDS Integers, FiniteSets

CONSTANTS
  Keys, Subjects, Texts, Lines,  \* rows, data subjects, plain texts, branches
  Trunk,                         \* the default branch
  Writers,                       \* requests that commit at the same time
  MaxVersions

ASSUME ErasureAssumption == Trunk \in Lines /\ MaxVersions \in Nat

VARIABLES
  designated,  \* datagit_pii_column: whether the column is designated
  dek,         \* datagit_dek: no key, a live one, or a destroyed one
  stored,      \* the sidecar's versions
  shown,       \* the live table: key -> its row, as a set
  writer,      \* what each commit is doing
  scan,        \* a designation at work: what it has yet to seal
  eraser,      \* an erasure at work
  sealedUpTo,  \* auxiliary: the versions that a completed designation found
  smeared,     \* auxiliary: keys of which sealing rewrote several versions
  erased       \* auxiliary: the subjects whose erasure destroyed a key

erasureVars ==
  <<designated, dek, stored, shown, writer, scan, eraser, sealedUpTo, smeared, erased>>

Nothing == [text |-> "", seals |-> 0]   \* NULL: what a deleted row stores
Quiet == [pc |-> "idle"]

ErasureInit ==
  /\ designated = FALSE
  /\ dek = [s \in Subjects |-> "none"]
  /\ stored = {} /\ shown = [k \in Keys |-> {}]
  /\ writer = [w \in Writers |-> Quiet]
  /\ scan = Quiet /\ eraser = Quiet
  /\ sealedUpTo = {} /\ smeared = {} /\ erased = {}

Id(v) == [line |-> v.line, pk |-> v.pk, seq |-> v.seq]
VersionsOf(line, pk) == {v \in stored : v.line = line /\ v.pk = pk}
Latest(line, pk) ==
  {v \in VersionsOf(line, pk) : \A u \in VersionsOf(line, pk) : u.seq <= v.seq}

(* dekFor: a key is issued on first use; a destroyed one is refused.       *)
CanSeal(s) == dek[s] # "destroyed"
Issue(s) == dek' = [dek EXCEPT ![s] = "live"]

-----------------------------------------------------------------------------
(* Commits.                                                                *)

(* A commit takes its branch's lock and looks up whether the column is     *)
(* designated.                                                             *)
Start(w, line, pk, subject, value, via) ==
  /\ writer[w] = Quiet
  /\ \A u \in Writers : writer[u] # Quiet => writer[u].line # line
  /\ Cardinality(stored) < MaxVersions
  /\ writer' = [writer EXCEPT ![w] =
       [pc |-> "key", line |-> line, pk |-> pk, subject |-> subject, value |-> value,
        via |-> via, asked |-> designated]]
  /\ UNCHANGED <<designated, dek, stored, shown, scan, eraser, sealedUpTo, smeared, erased>>

Put(w, line, pk, subject, text) ==
  Start(w, line, pk, subject, [text |-> text, seals |-> 0], "write")

(* A merge reads the other branch's row as it is stored, sealed or not.    *)
PutMerged(w, pk) ==
  \E line \in Lines \ {Trunk} : \E v \in Latest(line, pk) :
    v.value # Nothing /\ Start(w, Trunk, pk, v.subject, v.value, "merge")

(* The subject's key, when there is something to seal: issued on first     *)
(* use, in a transaction of its own; a destroyed one refuses the commit.   *)
FetchKey(w) ==
  /\ writer[w].pc = "key"
  /\ IF ~writer[w].asked \/ writer[w].value = Nothing
     THEN UNCHANGED dek /\ writer' = [writer EXCEPT ![w].pc = "land"]
     ELSE IF CanSeal(writer[w].subject)
     THEN Issue(writer[w].subject) /\ writer' = [writer EXCEPT ![w].pc = "land"]
     ELSE UNCHANGED dek /\ writer' = [writer EXCEPT ![w] = Quiet]
  /\ UNCHANGED <<designated, stored, shown, scan, eraser, sealedUpTo, smeared, erased>>

(* The version is stored sealed; the live table of the default branch      *)
(* shows what the commit was given.                                        *)
LandPut(w) ==
  LET job == writer[w]
      seals == job.value.seals + IF job.asked /\ job.value # Nothing THEN 1 ELSE 0
      version == [line |-> job.line, pk |-> job.pk, subject |-> job.subject,
                  seq |-> 1 + Cardinality({v \in stored : v.line = job.line}),
                  value |-> [text |-> job.value.text, seals |-> seals],
                  wrote |-> job.value.text, via |-> job.via, asked |-> job.asked]
  IN  /\ job.pc = "land"
      /\ stored' = stored \cup {version}
      /\ shown' = IF job.line # Trunk THEN shown
                  ELSE [shown EXCEPT ![job.pk] =
                    IF job.value = Nothing THEN {}
                    ELSE {[subject |-> job.subject, value |-> job.value]}]
      /\ writer' = [writer EXCEPT ![w] = Quiet]
      /\ UNCHANGED <<designated, dek, scan, eraser, sealedUpTo, smeared, erased>>

(* A commit is refused, or its process dies.                               *)
WriterDies(w) ==
  /\ writer[w] # Quiet
  /\ writer' = [writer EXCEPT ![w] = Quiet]
  /\ UNCHANGED <<designated, dek, stored, shown, scan, eraser, sealedUpTo, smeared, erased>>

-----------------------------------------------------------------------------
(* Designation.                                                            *)

Designate ==
  /\ scan = Quiet
  /\ designated' = TRUE
  /\ scan' = [pc |-> "scan"]
  /\ UNCHANGED <<dek, stored, shown, writer, eraser, sealedUpTo, smeared, erased>>

(* Mutants: what is sealed already is sealed again; only the default       *)
(* branch is scanned.                                                      *)
InClearOrNot == {v \in stored : v.value # Nothing}
InClearOnTrunk == {v \in stored : v.line = Trunk /\ v.value # Nothing /\ v.value.seals = 0}

(* The versions, on every branch, whose value is in clear.                 *)
InClear == {v \in stored : v.value # Nothing /\ v.value.seals = 0}

ScanStored ==
  /\ scan.pc = "scan"
  /\ scan' = [pc |-> "seal", todo |-> InClear, found |-> {Id(v) : v \in stored}]
  /\ UNCHANGED <<designated, dek, stored, shown, writer, eraser, sealedUpTo, smeared, erased>>

(* One after the other: the subject's key, then an update of every version *)
(* of that key on that branch, whatever its number.                        *)
SealExisting(v) ==
  /\ scan.pc = "seal" /\ v \in scan.todo
  /\ CanSeal(v.subject)
  /\ Issue(v.subject)
  /\ stored' = {IF u \in VersionsOf(v.line, v.pk)
                THEN [u EXCEPT !.value = [text |-> v.value.text, seals |-> v.value.seals + 1]]
                ELSE u : u \in stored}
  /\ smeared' = IF Cardinality(VersionsOf(v.line, v.pk)) > 1 THEN smeared \cup {<<v.line, v.pk>>}
                ELSE smeared
  /\ scan' = [scan EXCEPT !.todo = @ \ {v}]
  /\ UNCHANGED <<designated, shown, writer, eraser, sealedUpTo, erased>>

DesignationEnds ==
  /\ scan.pc = "seal" /\ scan.todo = {}
  /\ sealedUpTo' = sealedUpTo \cup scan.found
  /\ scan' = Quiet
  /\ UNCHANGED <<designated, dek, stored, shown, writer, eraser, smeared, erased>>

(* A destroyed key ends it, and so does a crash.                           *)
DesignationDies ==
  /\ scan # Quiet
  /\ scan' = Quiet
  /\ UNCHANGED <<designated, dek, stored, shown, writer, eraser, sealedUpTo, smeared, erased>>

-----------------------------------------------------------------------------
(* Erasure.                                                                *)

(* The subject's current rows on the default branch, and no lock.          *)
BeginErase(s) ==
  /\ designated /\ eraser = Quiet
  /\ eraser' = [pc |-> "delete", subject |-> s,
                keys |-> {k \in Keys : \E v \in Latest(Trunk, k) :
                                         v.subject = s /\ v.value # Nothing}]
  /\ UNCHANGED <<designated, dek, stored, shown, writer, scan, sealedUpTo, smeared, erased>>

(* An ordinary commit deletes them, under the lock of the branch.          *)
EraseRows ==
  LET seq == Cardinality({v \in stored : v.line = Trunk})
  IN  /\ eraser.pc = "delete"
      /\ \A u \in Writers : writer[u] # Quiet => writer[u].line # Trunk
      /\ \E order \in [eraser.keys -> 1 .. Cardinality(eraser.keys)] :
           /\ \A j, k \in eraser.keys : j # k => order[j] # order[k]
           /\ stored' = stored \cup
                {[line |-> Trunk, pk |-> k, subject |-> eraser.subject, seq |-> seq + order[k],
                  value |-> Nothing, wrote |-> "", via |-> "erase", asked |-> TRUE]
                   : k \in eraser.keys}
      /\ shown' = [k \in Keys |-> IF k \in eraser.keys THEN {} ELSE shown[k]]
      /\ eraser' = [eraser EXCEPT !.pc = "destroy"]
      /\ UNCHANGED <<designated, dek, writer, scan, sealedUpTo, smeared, erased>>

(* The key's row is emptied and stays; a subject that never had a key has  *)
(* no row.                                                                 *)
DestroyKey ==
  /\ eraser.pc = "destroy"
  /\ dek' = [dek EXCEPT ![eraser.subject] = IF @ = "none" THEN @ ELSE "destroyed"]
  /\ erased' = IF dek[eraser.subject] = "none" THEN erased ELSE erased \cup {eraser.subject}
  /\ eraser' = Quiet
  /\ UNCHANGED <<designated, stored, shown, writer, scan, sealedUpTo, smeared>>

EraserDies ==
  /\ eraser # Quiet
  /\ eraser' = Quiet
  /\ UNCHANGED <<designated, dek, stored, shown, writer, scan, sealedUpTo, smeared, erased>>

-----------------------------------------------------------------------------
(* Correctness.                                                            *)

(* History: the value opened once; "<erased>" without a live key.          *)
DecryptPII(v) ==
  IF dek[v.subject] # "live" THEN [text |-> "<erased>", seals |-> 0]
  ELSE IF v.value.seals = 0 THEN v.value
  ELSE [v.value EXCEPT !.seals = @ - 1]

(* An erased subject stays erased: its key is never issued again, and no   *)
(* version that its column's designation found, or that a commit stored    *)
(* knowing of the designation, holds its data in clear on any branch       *)
(* (pii.go:83-88, 243-289, 451-463).                                       *)
ErasedStaysErased ==
  \A s \in erased :
    /\ dek[s] = "destroyed"
    /\ \A v \in stored :
         v.subject = s /\ v.value # Nothing /\ v.value.seals = 0
           => Id(v) \notin sealedUpTo /\ ~v.asked

(* Sealing loses nothing of a subject that is not erased: what a commit    *)
(* wrote is what history shows, before the designation, after it and after *)
(* one that was cut off and run again; but for keys of which sealing       *)
(* rewrote several versions, and for merges (pii.go:90-94, 393-398).       *)
HistoryReadable ==
  \A v \in stored :
    (dek[v.subject] = "live" /\ v.value # Nothing /\ v.via = "write"
      /\ <<v.line, v.pk>> \notin smeared)
       => DecryptPII(v) = [text |-> v.wrote, seals |-> 0]
=============================================================================
