--------------------------- MODULE WorkbenchProofs ---------------------------
(* Proofs about the scenes of MCWorkbench, for every value of the constants:   *)
(* the data store and the log it implements (StoreInv), the ledger of         *)
(* predictions (LedgerInv), the frozen contest (ContestInv) and the daily     *)
(* refresh of the lake (LakeInv).                                             *)
EXTENDS MCWorkbench, WellFoundedInduction, SequenceTheorems, FiniteSetTheorems,
        TLAPS

(* A nonempty set of numbers that is bounded has a greatest one.              *)
LEMMA Greatest ==
  ASSUME NEW S \in SUBSET Nat, S # {}, NEW n \in Nat, \A d \in S : d <= n
  PROVE  \E x \in S : \A y \in S : y <= x
<1> DEFINE T == {n - d : d \in S}
<1>1. T \in SUBSET Nat /\ T # {}
  <2>1. \A d \in S : n - d \in Nat
    OBVIOUS
  <2> QED
    BY <2>1
<1>2. PICK t \in T : \A y \in T : ~ (<<y, t>> \in OpToRel(<, Nat))
  BY <1>1, NatLessThanWellFounded, WFMin
<1>3. \A y \in T : ~ (y < t)
  BY <1>1, <1>2 DEF OpToRel
<1>4. PICK x \in S : t = n - x
  OBVIOUS
<1>5. \A y \in S : ~ (n - y < n - x)
  BY <1>3, <1>4
<1> QED
  BY <1>5

------------------------------------------------------------------------------
(* The research data store.                                                   *)

Records == [key : Keys, version : Versions, digest : Contents]
Kinds == {"stage", "temp", "rollback"}
Markers == [kind : Kinds \union {"orphan_blob"}, n : Nat, of : Contents \union {None},
            sealed : BOOLEAN]
Before == {"stage", "staged", "decide"}
Publishing == {"mark", "rollback", "rolled", "temp", "written", "replace"}
Operations == [pc : Before \union {"move", "moved"} \union Publishing \union {"sync", "finally"},
               key : Keys, version : Versions, digest : Contents, n : Nat,
               known : SUBSET Kinds, old : Seq(Records), published : BOOLEAN]

StoreTypeOK ==
    /\ manifest \in Seq(Records) /\ handed \in SUBSET Records
    /\ blobs \in SUBSET Contents
    /\ strays \in SUBSET [kind : Kinds, n : Nat, size : Nat]
    /\ markers \in SUBSET Markers
    /\ op \in {None} \union Operations
    /\ calls \in Nat

(* What the records of a manifest refer to, and whether a file has a marker.  *)
RefersTo(m) == {r.digest : r \in Store!Range(m)}
Marked(kind, n) == \E m \in markers : m.kind = kind /\ m.n = n

(* Every call has a number of its own.                                        *)
NumbersOwn ==
    /\ \A m \in markers : m.n <= calls
    /\ op # None => /\ op.n <= calls
                    /\ \A m \in markers : m.kind = "orphan_blob" /\ m.n = op.n => m.of = op.digest

(* A file has its marker before it is written.                                *)
FilesMarked == \A f \in strays : Marked(f.kind, f.n)
MarkedAhead ==
    op # None => /\ op.pc = "stage" => Marked("stage", op.n)
                 /\ op.pc = "rollback" => Marked("rollback", op.n)
                 /\ op.pc \in {"rollback", "rolled", "temp"} => Marked("temp", op.n)

(* A blob that nothing kept refers to has the marker of the call that brought *)
(* it, which has it before the blob gets its name.                            *)
BlobsMarked ==
    /\ \A d \in blobs \ RefersTo(Store!Settled) : \E m \in markers : m.kind = "orphan_blob" /\ m.of = d
    /\ op # None /\ op.pc = "move" =>
         \E m \in markers : m.kind = "orphan_blob" /\ m.of = op.digest

(* What is published has its blob, a version of its own, and is in the        *)
(* manifest that a rollback would restore, unless it is just being replaced.  *)
PublishedKept ==
    /\ handed \subseteq Store!Range(Store!Settled)
    /\ RefersTo(manifest) \subseteq blobs
    /\ op # None =>
         /\ op.pc \in {"moved"} \union Publishing => op.digest \in blobs
         /\ op.pc \in {"move", "moved"} \union Publishing \union {"sync"} =>
              \A r \in Store!Range(Store!Settled) : r.key # op.key \/ r.version # op.version
         /\ op.pc = "sync" => manifest = Append(op.old, Store!Record(op))
         /\ op.published => Store!Record(op) \in Store!Range(manifest) /\ op.pc = "finally"

StoreInv == StoreTypeOK /\ NumbersOwn /\ FilesMarked /\ MarkedAhead /\ BlobsMarked /\ PublishedKept

(* A record appended to a manifest is one more record of it.                  *)
LEMMA RangeAppend ==
  ASSUME NEW m \in Seq(Records), NEW r \in Records
  PROVE  /\ Append(m, r) \in Seq(Records)
         /\ Store!Range(Append(m, r)) = Store!Range(m) \union {r}
<1> DEFINE t == Append(m, r)
<1>1. t \in Seq(Records) /\ DOMAIN t = 1..(Len(m) + 1) /\ DOMAIN m = 1..Len(m) /\ Len(m) \in Nat
  OBVIOUS
<1>2. t[Len(m) + 1] = r /\ \A i \in 1..Len(m) : t[i] = m[i]
  OBVIOUS
<1> HIDE DEF t
<1>3. Store!Range(t) \subseteq Store!Range(m) \union {r}
  <2> SUFFICES ASSUME NEW i \in DOMAIN t
               PROVE  t[i] \in Store!Range(m) \union {r}
    BY DEF Store!Range
  <2>1. i = Len(m) + 1 \/ i \in 1..Len(m)
    BY <1>1
  <2> QED
    BY <1>1, <1>2, <2>1 DEF Store!Range
<1>4. Store!Range(m) \subseteq Store!Range(t)
  <2> SUFFICES ASSUME NEW i \in DOMAIN m
               PROVE  m[i] \in Store!Range(t)
    BY DEF Store!Range
  <2>1. i \in DOMAIN t /\ t[i] = m[i]
    BY <1>1, <1>2
  <2> QED
    BY <2>1 DEF Store!Range
<1>5. r \in Store!Range(t)
  <2>1. Len(m) + 1 \in DOMAIN t
    BY <1>1
  <2> QED
    BY <1>2, <2>1 DEF Store!Range
<1> QED
  BY <1>1, <1>3, <1>4, <1>5 DEF t

(* The records of a manifest are records.                                     *)
LEMMA RangeRecords ==
  ASSUME NEW m \in Seq(Records)
  PROVE  Store!Range(m) \subseteq Records
BY DEF Store!Range

(* What holds of the store holds when nothing of it changes.                  *)
LEMMA StoreUnchanged ==
  ASSUME StoreInv, UNCHANGED storeVars
  PROVE  StoreInv'
BY DEF StoreInv, StoreTypeOK, NumbersOwn, FilesMarked, MarkedAhead, BlobsMarked, PublishedKept,
       Store!Settled, RefersTo, Marked, storeVars, Store!Record, Store!Range

(* An empty store has nothing to keep.                                        *)
LEMMA StoreStarts ==
  ASSUME Store!StoreInit
  PROVE  StoreInv
<1>1. manifest = <<>> /\ blobs = {} /\ strays = {} /\ markers = {} /\ op = None /\ handed = {}
      /\ calls = 0
  BY DEF Store!StoreInit
<1>2. StoreTypeOK
  BY <1>1 DEF StoreTypeOK
<1>3. RefersTo(manifest) = {}
  BY <1>1 DEF RefersTo, Store!Range
<1> QED
  BY <1>1, <1>2, <1>3 DEF StoreInv, NumbersOwn, FilesMarked, MarkedAhead, BlobsMarked, PublishedKept

(* Begin: a call has a new number, and its stage its marker.                  *)
LEMMA StoreBegins ==
  ASSUME StoreInv, NEW k \in Keys, NEW v \in Versions, NEW d \in Contents, Store!Begin(k, v, d)
  PROVE  StoreInv'
<1> DEFINE mark == Store!MarkerOf("stage", calls + 1, None)
<1>1. /\ op = None /\ calls' = calls + 1 /\ markers' = markers \union {mark}
      /\ op' = [pc |-> "stage", key |-> k, version |-> v, digest |-> d, n |-> calls + 1,
                known |-> {}, old |-> <<>>, published |-> FALSE]
      /\ UNCHANGED <<manifest, blobs, damaged, strays, handed>>
  BY DEF Store!Begin, Store!LockFree
<1>2. mark.kind = "stage" /\ mark.n = calls + 1 /\ mark \in Markers /\ calls \in Nat
  BY DEF Store!MarkerOf, Markers, StoreInv, StoreTypeOK, Kinds
<1> HIDE DEF mark
<1>3. op' \in Operations /\ op'.pc = "stage" /\ op'.n = calls + 1 /\ op'.published = FALSE
  <2>1. <<>> \in Seq(Records)
    OBVIOUS
  <2> QED
    BY <1>1, <1>2, <2>1 DEF Operations, Before
<1>4. StoreTypeOK'
  BY <1>1, <1>2, <1>3 DEF StoreInv, StoreTypeOK
<1>5. NumbersOwn'
  BY <1>1, <1>2, <1>3 DEF StoreInv, StoreTypeOK, NumbersOwn, Markers
<1>6. FilesMarked' /\ MarkedAhead'
  BY <1>1, <1>2, <1>3 DEF StoreInv, FilesMarked, MarkedAhead, Marked
<1>7. Store!Settled = manifest /\ Store!Settled' = manifest
  BY <1>1, <1>3 DEF Store!Settled
<1>8. BlobsMarked' /\ PublishedKept'
  BY <1>1, <1>3, <1>7 DEF StoreInv, BlobsMarked, PublishedKept, RefersTo, Store!Range, Publishing
<1> QED
  BY <1>4, <1>5, <1>6, <1>8 DEF StoreInv

(* The files a call writes, and the steps around.                             *)
Written == {<<"stage", "staged", "stage">>, <<"rollback", "rolled", "rollback">>,
            <<"temp", "written", "temp">>}
Sealings == {<<"staged", "decide", "stage">>, <<"moved", "mark", "orphan_blob">>,
             <<"rolled", "temp", "rollback">>, <<"written", "replace", "temp">>}

(* A file is written under its marker.                                        *)
LEMMA StoreWrites ==
  ASSUME StoreInv, NEW from, NEW to, NEW kind, NEW size \in Nat,
         <<from, to, kind>> \in Written, Store!Write(from, to, kind, size)
  PROVE  StoreInv'
<1> DEFINE file == Store!File(kind, size)
<1>1. /\ op # None /\ op.pc = from /\ strays' = strays \union {file}
      /\ op' = [op EXCEPT !.pc = to, !.known = @ \union {kind}]
      /\ UNCHANGED <<manifest, blobs, damaged, markers, handed, calls>>
  BY DEF Store!Write
<1>2. op \in Operations
  BY <1>1 DEF StoreInv, StoreTypeOK
<1>3. /\ kind \in Kinds
      /\ file.kind = kind /\ file.n = op.n /\ file \in [kind : Kinds, n : Nat, size : Nat]
  BY <1>2 DEF Store!File, Written, Kinds, Operations
<1> HIDE DEF file
<1>4. /\ op' \in Operations /\ op'.pc = to /\ op'.n = op.n /\ op'.digest = op.digest
      /\ op'.key = op.key /\ op'.version = op.version /\ op'.published = op.published
  BY <1>1, <1>2, <1>3 DEF Operations, Before, Publishing, Written
<1>5. /\ from = "stage" => to = "staged" /\ kind = "stage"
      /\ from = "rollback" => to = "rolled" /\ kind = "rollback"
      /\ from = "temp" => to = "written" /\ kind = "temp"
      /\ from \in {"stage", "rollback", "temp"}
  BY DEF Written
<1>6. Marked(kind, op.n)
  BY <1>1, <1>5 DEF StoreInv, MarkedAhead
<1>7. StoreTypeOK'
  BY <1>1, <1>3, <1>4 DEF StoreInv, StoreTypeOK
<1>8. NumbersOwn'
  BY <1>1, <1>4 DEF StoreInv, NumbersOwn
<1>9. FilesMarked'
  BY <1>1, <1>3, <1>6 DEF StoreInv, FilesMarked, Marked
<1>10. MarkedAhead'
  BY <1>1, <1>4, <1>5 DEF StoreInv, MarkedAhead, Marked
<1>11. Store!Settled = manifest /\ Store!Settled' = manifest
  BY <1>1, <1>4, <1>5 DEF Store!Settled
<1>12. BlobsMarked'
  BY <1>1, <1>4, <1>5, <1>11 DEF StoreInv, BlobsMarked, RefersTo, Store!Range
<1>13. PublishedKept'
  BY <1>1, <1>4, <1>5, <1>11 DEF StoreInv, PublishedKept, RefersTo, Store!Range, Publishing, Store!Record
<1> QED
  BY <1>7, <1>8, <1>9, <1>10, <1>12, <1>13 DEF StoreInv

(* A marker is sealed for what it names.                                      *)
LEMMA StoreSeals ==
  ASSUME StoreInv, NEW from, NEW to, NEW kind,
         <<from, to, kind>> \in Sealings, Store!Seal(from, to, kind)
  PROVE  StoreInv'
<1>1. /\ op # None /\ op.pc = from /\ op' = [op EXCEPT !.pc = to]
      /\ markers' = (markers \ Store!Mine(kind)) \union {Store!Sealed(m) : m \in Store!Mine(kind)}
      /\ UNCHANGED <<manifest, blobs, damaged, strays, handed, calls>>
  BY DEF Store!Seal, Store!SealMine
<1>2. op \in Operations /\ markers \in SUBSET Markers
  BY <1>1 DEF StoreInv, StoreTypeOK
<1>3. \A m \in Markers : /\ Store!Sealed(m) \in Markers
                         /\ Store!Sealed(m).kind = m.kind /\ Store!Sealed(m).n = m.n
                         /\ Store!Sealed(m).of = m.of
  BY DEF Store!Sealed, Markers
<1>4. Store!Mine(kind) \subseteq markers
  BY DEF Store!Mine
<1>5. /\ markers' \subseteq Markers
      /\ \A m \in markers : \E w \in markers' : w.kind = m.kind /\ w.n = m.n /\ w.of = m.of
      /\ \A w \in markers' : \E m \in markers : w.kind = m.kind /\ w.n = m.n /\ w.of = m.of
  BY <1>1, <1>2, <1>3, <1>4
<1>6. /\ op' \in Operations /\ op'.pc = to /\ op'.n = op.n /\ op'.digest = op.digest
      /\ op'.key = op.key /\ op'.version = op.version /\ op'.published = op.published
  BY <1>1, <1>2 DEF Operations, Before, Publishing, Sealings
<1>7. /\ from = "staged" => to = "decide"
      /\ from = "moved" => to = "mark"
      /\ from = "rolled" => to = "temp"
      /\ from = "written" => to = "replace"
      /\ from \in {"staged", "moved", "rolled", "written"}
  BY DEF Sealings
<1>8. StoreTypeOK'
  BY <1>1, <1>5, <1>6 DEF StoreInv, StoreTypeOK
<1>9. NumbersOwn'
  <2>1. op'.n <= calls' /\ \A w \in markers' : w.n <= calls'
    BY <1>1, <1>5, <1>6 DEF StoreInv, NumbersOwn
  <2>2. \A w \in markers' : w.kind = "orphan_blob" /\ w.n = op'.n => w.of = op'.digest
    BY <1>1, <1>5, <1>6 DEF StoreInv, NumbersOwn
  <2> QED
    BY <2>1, <2>2 DEF NumbersOwn
<1>10. \A which, n : Marked(which, n) => Marked(which, n)'
  BY <1>5 DEF Marked
<1>11. FilesMarked'
  BY <1>1, <1>10 DEF StoreInv, FilesMarked
<1>12. MarkedAhead'
  <2>1. op'.pc \in {"decide", "mark", "temp", "replace"} /\ (op'.pc = "temp" => op.pc = "rolled")
    BY <1>1, <1>6, <1>7
  <2>2. op'.pc = "temp" => \E w \in markers' : w.kind = "temp" /\ w.n = op'.n
    BY <2>1, <1>1, <1>5, <1>6 DEF StoreInv, MarkedAhead, Marked
  <2> QED
    BY <2>1, <2>2 DEF MarkedAhead, Marked
<1>13. Store!Settled = manifest /\ Store!Settled' = manifest
  BY <1>1, <1>6, <1>7 DEF Store!Settled
<1>14. BlobsMarked'
  <2>1. op'.pc # "move"
    BY <1>6, <1>7
  <2>2. RefersTo(Store!Settled)' = RefersTo(Store!Settled)
    BY <1>1, <1>13 DEF RefersTo, Store!Range
  <2> QED
    BY <1>1, <1>5, <2>1, <2>2 DEF StoreInv, BlobsMarked
<1>15. PublishedKept'
  BY <1>1, <1>6, <1>7, <1>13 DEF StoreInv, PublishedKept, RefersTo, Store!Range, Publishing, Store!Record
<1> QED
  BY <1>8, <1>9, <1>11, <1>12, <1>14, <1>15 DEF StoreInv

(* A publication under way is one of the records there may be.                *)
LEMMA RecordOfCall ==
  ASSUME op \in Operations
  PROVE  /\ Store!Record(op) \in Records /\ Store!Record(op).digest = op.digest
         /\ Store!Record(op).key = op.key /\ Store!Record(op).version = op.version
BY DEF Operations, Records, Store!Record

(* Decide: a blob gets its marker before its name, and a version its content  *)
(* only once.                                                                 *)
LEMMA StoreDecides ==
  ASSUME StoreInv, Store!Decide
  PROVE  StoreInv'
<1> DEFINE mark == Store!MarkerOf("orphan_blob", op.n, op.digest)
<1>1. /\ op # None /\ op.pc = "decide"
      /\ op' = [op EXCEPT !.pc = CASE Store!Verdict = "new" -> "move"
                                   [] Store!Verdict = "stored" -> "mark"
                                   [] OTHER -> "finally"]
      /\ markers' = IF Store!Verdict = "new" THEN markers \union {mark} ELSE markers
      /\ handed' = IF Store!Verdict = "known" THEN handed \union {Store!Record(op)} ELSE handed
      /\ UNCHANGED <<manifest, blobs, damaged, strays, calls>>
  BY DEF Store!Decide
<1>2. op \in Operations /\ markers \in SUBSET Markers /\ manifest \in Seq(Records)
  BY <1>1 DEF StoreInv, StoreTypeOK
<1>3. /\ mark.kind = "orphan_blob" /\ mark.n = op.n /\ mark.of = op.digest /\ mark \in Markers
  BY <1>2 DEF Store!MarkerOf, Markers, Operations
<1> HIDE DEF mark
<1>4. /\ op' \in Operations /\ op'.n = op.n /\ op'.digest = op.digest
      /\ op'.key = op.key /\ op'.version = op.version /\ op'.published = op.published
      /\ Store!Verdict = "new" => op'.pc = "move"
      /\ Store!Verdict = "stored" => op'.pc = "mark"
      /\ Store!Verdict \notin {"new", "stored"} => op'.pc = "finally"
  <2>1. PICK pc \in {"move", "mark", "finally"} :
          /\ op' = [op EXCEPT !.pc = pc]
          /\ Store!Verdict = "new" => pc = "move"
          /\ Store!Verdict = "stored" => pc = "mark"
          /\ Store!Verdict \notin {"new", "stored"} => pc = "finally"
    BY <1>1
  <2> QED
    BY <1>2, <2>1 DEF Operations, Before, Publishing
<1>5. Store!Verdict \in {"new", "stored"} => Store!SameVersion = {}
  BY DEF Store!Verdict
<1>6. Store!Verdict = "known" => Store!Record(op) \in Store!Range(manifest)
  BY DEF Store!Verdict, Store!SameVersion
<1>7. Store!Verdict = "stored" => op.digest \in blobs
  BY DEF Store!Verdict
<1>8. Store!Settled = manifest /\ Store!Settled' = manifest
  BY <1>1, <1>4 DEF Store!Settled
<1>9. StoreTypeOK'
  BY <1>1, <1>2, <1>3, <1>4, RecordOfCall DEF StoreInv, StoreTypeOK
<1>10. NumbersOwn'
  <2>1. op'.n <= calls' /\ \A w \in markers' : w.n <= calls'
    BY <1>1, <1>3, <1>4 DEF StoreInv, NumbersOwn
  <2>2. \A w \in markers' : w.kind = "orphan_blob" /\ w.n = op'.n => w.of = op'.digest
    BY <1>1, <1>3, <1>4 DEF StoreInv, NumbersOwn
  <2> QED
    BY <2>1, <2>2 DEF NumbersOwn
<1>11. FilesMarked' /\ MarkedAhead'
  BY <1>1, <1>4 DEF StoreInv, FilesMarked, MarkedAhead, Marked
<1>12. BlobsMarked'
  <2>1. RefersTo(Store!Settled)' = RefersTo(Store!Settled)
    BY <1>1, <1>8 DEF RefersTo, Store!Range
  <2>2. \A d \in blobs \ RefersTo(Store!Settled) : \E m \in markers' : m.kind = "orphan_blob" /\ m.of = d
    BY <1>1 DEF StoreInv, BlobsMarked
  <2>3. op'.pc = "move" => \E m \in markers' : m.kind = "orphan_blob" /\ m.of = op'.digest
    BY <1>1, <1>3, <1>4
  <2> QED
    BY <1>1, <2>1, <2>2, <2>3 DEF BlobsMarked
<1>13. PublishedKept'
  <2>1. handed' \subseteq Store!Range(Store!Settled)'
    BY <1>1, <1>6, <1>8 DEF StoreInv, PublishedKept, Store!Range
  <2>2. RefersTo(manifest)' \subseteq blobs'
    BY <1>1 DEF StoreInv, PublishedKept, RefersTo, Store!Range
  <2>3. op'.pc \in {"moved"} \union Publishing => op'.digest \in blobs'
    BY <1>1, <1>4, <1>7 DEF Publishing
  <2>4. op'.pc \in {"move", "moved"} \union Publishing \union {"sync"} =>
          \A r \in Store!Range(manifest) : r.key # op'.key \/ r.version # op'.version
    BY <1>4, <1>5 DEF Publishing, Store!SameVersion
  <2>5. Store!Range(Store!Settled)' = Store!Range(manifest)
    BY <1>1, <1>8 DEF Store!Range
  <2>6. op'.pc # "sync" /\ ~ op.published
    BY <1>1, <1>4 DEF StoreInv, PublishedKept
  <2> QED
    BY <1>4, <2>1, <2>2, <2>3, <2>4, <2>5, <2>6 DEF PublishedKept
<1> QED
  BY <1>9, <1>10, <1>11, <1>12, <1>13 DEF StoreInv

(* The blob gets its name.                                                    *)
LEMMA StoreMoves ==
  ASSUME StoreInv, Store!MoveBlob
  PROVE  StoreInv'
<1>1. /\ op # None /\ op.pc = "move" /\ op' = [op EXCEPT !.pc = "moved"]
      /\ blobs' = blobs \union {op.digest} /\ strays' \subseteq strays
      /\ UNCHANGED <<manifest, markers, handed, calls>>
  BY DEF Store!MoveBlob
<1>2. op \in Operations
  BY <1>1 DEF StoreInv, StoreTypeOK
<1>3. /\ op' \in Operations /\ op'.pc = "moved" /\ op'.n = op.n /\ op'.digest = op.digest
      /\ op'.key = op.key /\ op'.version = op.version /\ op'.published = op.published
      /\ op.digest \in Contents
  BY <1>1, <1>2 DEF Operations, Before, Publishing
<1>4. Store!Settled = manifest /\ Store!Settled' = manifest
  BY <1>1, <1>3 DEF Store!Settled
<1>5. StoreTypeOK'
  BY <1>1, <1>3 DEF StoreInv, StoreTypeOK
<1>6. NumbersOwn' /\ FilesMarked' /\ MarkedAhead'
  BY <1>1, <1>3 DEF StoreInv, NumbersOwn, FilesMarked, MarkedAhead, Marked
<1>7. BlobsMarked'
  BY <1>1, <1>3, <1>4 DEF StoreInv, BlobsMarked, RefersTo, Store!Range
<1>8. PublishedKept'
  BY <1>1, <1>3, <1>4 DEF StoreInv, PublishedKept, RefersTo, Store!Range, Publishing
<1> QED
  BY <1>5, <1>6, <1>7, <1>8 DEF StoreInv

(* Both files of the manifest get their markers.                              *)
LEMMA StoreMarks ==
  ASSUME StoreInv, Store!MarkManifest
  PROVE  StoreInv'
<1> DEFINE temp == Store!MarkerOf("temp", op.n, None)
           rollback == Store!MarkerOf("rollback", op.n, None)
           next == IF manifest = <<>> THEN "temp" ELSE "rollback"
<1>1. /\ op # None /\ op.pc = "mark" /\ op' = [op EXCEPT !.pc = next]
      /\ markers' = markers \union {temp} \union (IF manifest = <<>> THEN {} ELSE {rollback})
      /\ UNCHANGED <<manifest, blobs, damaged, strays, handed, calls>>
  BY DEF Store!MarkManifest
<1>2. op \in Operations
  BY <1>1 DEF StoreInv, StoreTypeOK
<1>3. /\ temp \in Markers /\ temp.kind = "temp" /\ temp.n = op.n
      /\ rollback \in Markers /\ rollback.kind = "rollback" /\ rollback.n = op.n
  BY <1>2 DEF Store!MarkerOf, Markers, Kinds, Operations
<1>4. next \in {"temp", "rollback"} /\ (next = "rollback" => manifest # <<>>)
  OBVIOUS
<1> HIDE DEF temp, rollback, next
<1>5. /\ op' \in Operations /\ op'.pc = next /\ op'.n = op.n /\ op'.digest = op.digest
      /\ op'.key = op.key /\ op'.version = op.version /\ op'.published = op.published
  BY <1>1, <1>2, <1>4 DEF Operations, Before, Publishing
<1>6. Store!Settled = manifest /\ Store!Settled' = manifest
  BY <1>1, <1>4, <1>5 DEF Store!Settled
<1>7. StoreTypeOK'
  BY <1>1, <1>3, <1>5 DEF StoreInv, StoreTypeOK
<1>8. NumbersOwn'
  <2>1. op'.n <= calls' /\ \A w \in markers' : w.n <= calls'
    BY <1>1, <1>3, <1>5 DEF StoreInv, NumbersOwn
  <2>2. \A w \in markers' : w.kind = "orphan_blob" /\ w.n = op'.n => w.of = op'.digest
    BY <1>1, <1>3, <1>5 DEF StoreInv, NumbersOwn
  <2> QED
    BY <2>1, <2>2 DEF NumbersOwn
<1>9. FilesMarked' /\ MarkedAhead'
  <2>1. markers \subseteq markers' /\ temp \in markers'
    BY <1>1
  <2>2. next = "rollback" => rollback \in markers'
    BY <1>1, <1>4
  <2> QED
    BY <1>1, <1>3, <1>4, <1>5, <2>1, <2>2 DEF StoreInv, FilesMarked, MarkedAhead, Marked
<1>10. BlobsMarked'
  BY <1>1, <1>4, <1>5, <1>6 DEF StoreInv, BlobsMarked, RefersTo, Store!Range
<1>11. PublishedKept'
  BY <1>1, <1>4, <1>5, <1>6 DEF StoreInv, PublishedKept, RefersTo, Store!Range, Publishing
<1> QED
  BY <1>7, <1>8, <1>9, <1>10, <1>11 DEF StoreInv

(* The new manifest takes the place of the old one, which is still known.     *)
LEMMA StoreReplaces ==
  ASSUME StoreInv, Store!Replace
  PROVE  StoreInv'
<1> DEFINE more == Store!Record(op)
<1>1. /\ op # None /\ op.pc = "replace" /\ op' = [op EXCEPT !.pc = "sync", !.old = manifest]
      /\ manifest' = Append(manifest, more) /\ strays' \subseteq strays
      /\ UNCHANGED <<blobs, damaged, markers, handed, calls>>
  BY DEF Store!Replace
<1>2. op \in Operations /\ manifest \in Seq(Records)
  BY <1>1 DEF StoreInv, StoreTypeOK
<1>3. more \in Records /\ more.digest = op.digest
  BY <1>2, RecordOfCall
<1>4. /\ op' \in Operations /\ op'.pc = "sync" /\ op'.n = op.n /\ op'.digest = op.digest
      /\ op'.key = op.key /\ op'.version = op.version /\ op'.published = op.published
      /\ op'.old = manifest
  BY <1>1, <1>2 DEF Operations, Before, Publishing
<1>5. Store!Record(op') = more
  BY <1>4 DEF Store!Record
<1> HIDE DEF more
<1>6. /\ manifest' \in Seq(Records)
      /\ Store!Range(manifest)' = Store!Range(manifest) \union {more}
  <2>1. Store!Range(manifest)' = Store!Range(Append(manifest, more))
    BY <1>1 DEF Store!Range
  <2> QED
    BY <1>1, <1>2, <1>3, <2>1, RangeAppend
<1>7. Store!Settled = manifest
  BY <1>1 DEF Store!Settled
<1>8. /\ op' # None => Store!Settled' = manifest
      /\ op' = None => Store!Settled' = manifest'
  BY <1>4 DEF Store!Settled
<1>9. /\ op' # None => Store!Range(Store!Settled)' = Store!Range(manifest)
      /\ Store!Range(manifest) \subseteq Store!Range(Store!Settled)'
  <2>1. CASE op' = None
    <3>1. Store!Range(Store!Settled)' = Store!Range(manifest)'
      BY <1>8, <2>1 DEF Store!Range
    <3> QED
      BY <1>6, <2>1, <3>1
  <2>2. CASE op' # None
    BY <1>8, <2>2 DEF Store!Range
  <2> QED
    BY <2>1, <2>2
<1>10. StoreTypeOK'
  BY <1>1, <1>4, <1>6 DEF StoreInv, StoreTypeOK
<1>11. NumbersOwn' /\ FilesMarked' /\ MarkedAhead'
  BY <1>1, <1>4 DEF StoreInv, NumbersOwn, FilesMarked, MarkedAhead, Marked
<1>12. BlobsMarked'
  <2>1. RefersTo(Store!Settled) \subseteq RefersTo(Store!Settled)'
    BY <1>7, <1>9 DEF RefersTo
  <2> QED
    BY <1>1, <1>4, <2>1 DEF StoreInv, BlobsMarked
<1>13. PublishedKept'
  <2>1. handed' \subseteq Store!Range(Store!Settled)'
    BY <1>1, <1>7, <1>9 DEF StoreInv, PublishedKept
  <2>2. RefersTo(manifest)' \subseteq blobs'
    <3>1. op.digest \in blobs
      BY <1>1 DEF StoreInv, PublishedKept, Publishing
    <3> QED
      BY <1>1, <1>3, <1>6, <3>1 DEF StoreInv, PublishedKept, RefersTo
  <2>3. \A r \in Store!Range(manifest) : r.key # op'.key \/ r.version # op'.version
    BY <1>1, <1>4, <1>7 DEF StoreInv, PublishedKept, Publishing
  <2>4. ~ op.published
    BY <1>1 DEF StoreInv, PublishedKept
  <2> QED
    BY <1>1, <1>4, <1>5, <1>9, <2>1, <2>2, <2>3, <2>4 DEF PublishedKept, Publishing
<1> QED
  BY <1>10, <1>11, <1>12, <1>13 DEF StoreInv

(* The directory is synchronised: the record is published and given out.      *)
LEMMA StoreSyncs ==
  ASSUME StoreInv, Store!Synced
  PROVE  StoreInv'
<1> DEFINE more == Store!Record(op)
<1>1. /\ op # None /\ op.pc = "sync" /\ op' = [op EXCEPT !.pc = "finally", !.published = TRUE]
      /\ handed' = handed \union {more}
      /\ UNCHANGED <<manifest, blobs, damaged, strays, markers, calls>>
  BY DEF Store!Synced
<1>2. op \in Operations
  BY <1>1 DEF StoreInv, StoreTypeOK
<1>3. /\ op' \in Operations /\ op'.pc = "finally" /\ op'.n = op.n /\ op'.digest = op.digest
      /\ op'.key = op.key /\ op'.version = op.version /\ op'.old = op.old
  BY <1>1, <1>2 DEF Operations
<1>4. Store!Record(op') = more
  BY <1>3 DEF Store!Record
<1>5. more \in Records
  BY <1>2, RecordOfCall
<1>6. Store!Settled = op.old /\ Store!Settled' = manifest
  BY <1>1, <1>3 DEF Store!Settled
<1>7. op.old \in Seq(Records) /\ manifest = Append(op.old, more)
  BY <1>1, <1>2 DEF StoreInv, PublishedKept, Operations
<1> HIDE DEF more
<1>8. Store!Range(manifest) = Store!Range(op.old) \union {more}
  BY <1>5, <1>7, RangeAppend
<1>9. Store!Range(manifest)' = Store!Range(manifest)
      /\ Store!Range(Store!Settled)' = Store!Range(manifest)
  BY <1>1, <1>6 DEF Store!Range
<1>10. StoreTypeOK'
  BY <1>1, <1>3, <1>5 DEF StoreInv, StoreTypeOK
<1>11. NumbersOwn' /\ FilesMarked' /\ MarkedAhead'
  BY <1>1, <1>3 DEF StoreInv, NumbersOwn, FilesMarked, MarkedAhead, Marked
<1>12. BlobsMarked'
  <2>1. RefersTo(Store!Settled) \subseteq RefersTo(Store!Settled)'
    BY <1>6, <1>8, <1>9 DEF RefersTo
  <2> QED
    BY <1>1, <1>3, <2>1 DEF StoreInv, BlobsMarked
<1>13. PublishedKept'
  <2>1. handed' \subseteq Store!Range(Store!Settled)'
    BY <1>1, <1>6, <1>8, <1>9 DEF StoreInv, PublishedKept
  <2>2. RefersTo(manifest)' \subseteq blobs'
    BY <1>1, <1>9 DEF StoreInv, PublishedKept, RefersTo
  <2> QED
    BY <1>3, <1>4, <1>8, <1>9, <2>1, <2>2 DEF PublishedKept, Publishing
<1> QED
  BY <1>10, <1>11, <1>12, <1>13 DEF StoreInv

(* The rollback restores the manifest that was replaced.                      *)
LEMMA StoreRestores ==
  ASSUME StoreInv, Store!Restore
  PROVE  StoreInv'
<1> DEFINE more == Store!Record(op)
<1>1. /\ op # None /\ op.pc = "sync" /\ op' = [op EXCEPT !.pc = "finally"]
      /\ manifest' = op.old /\ strays' \subseteq strays
      /\ UNCHANGED <<blobs, damaged, markers, handed, calls>>
  BY DEF Store!Restore
<1>2. op \in Operations /\ ~ op.published
  BY <1>1 DEF StoreInv, StoreTypeOK, PublishedKept
<1>3. /\ op' \in Operations /\ op'.pc = "finally" /\ op'.n = op.n /\ op'.digest = op.digest
      /\ op'.published = op.published /\ op.old \in Seq(Records)
  BY <1>1, <1>2 DEF Operations
<1>4. more \in Records
  BY <1>2, RecordOfCall
<1>5. Store!Settled = op.old /\ Store!Settled' = op.old
  BY <1>1, <1>3 DEF Store!Settled
<1>6. manifest = Append(op.old, more)
  BY <1>1 DEF StoreInv, PublishedKept
<1> HIDE DEF more
<1>7. Store!Range(op.old) \subseteq Store!Range(manifest)
  BY <1>3, <1>4, <1>6, RangeAppend
<1>8. /\ Store!Range(manifest)' = Store!Range(op.old)
      /\ Store!Range(Store!Settled)' = Store!Range(Store!Settled)
  BY <1>1, <1>5 DEF Store!Range
<1>9. StoreTypeOK'
  BY <1>1, <1>3 DEF StoreInv, StoreTypeOK
<1>10. NumbersOwn' /\ FilesMarked' /\ MarkedAhead'
  BY <1>1, <1>3 DEF StoreInv, NumbersOwn, FilesMarked, MarkedAhead, Marked
<1>11. BlobsMarked'
  BY <1>1, <1>3, <1>8 DEF StoreInv, BlobsMarked, RefersTo
<1>12. PublishedKept'
  <2>1. RefersTo(manifest)' \subseteq blobs'
    BY <1>1, <1>7, <1>8 DEF StoreInv, PublishedKept, RefersTo
  <2> QED
    BY <1>1, <1>2, <1>3, <1>8, <2>1 DEF StoreInv, PublishedKept, Publishing
<1> QED
  BY <1>9, <1>10, <1>11, <1>12 DEF StoreInv

(* At "sync" the manifest is already the new one, and what it adds to the old *)
(* one only refers to more.                                                   *)
LEMMA SettledListed ==
  ASSUME StoreInv
  PROVE  Store!Range(Store!Settled) \subseteq Store!Range(manifest)
<1>1. CASE op # None /\ op.pc = "sync"
  <2>1. op \in Operations
    BY <1>1 DEF StoreInv, StoreTypeOK
  <2>2. op.old \in Seq(Records) /\ Store!Record(op) \in Records
        /\ manifest = Append(op.old, Store!Record(op))
    BY <1>1, <2>1, RecordOfCall DEF StoreInv, PublishedKept, Operations
  <2>3. Store!Range(op.old) \subseteq Store!Range(manifest)
    BY <2>2, RangeAppend
  <2> QED
    BY <1>1, <2>3 DEF Store!Settled
<1>2. CASE ~ (op # None /\ op.pc = "sync")
  BY <1>2 DEF Store!Settled
<1> QED
  BY <1>1, <1>2

(* So what a call leaves when it ends counts for what is published.           *)
LEMMA SettledGrows ==
  ASSUME StoreInv, UNCHANGED manifest, Store!Settled' = manifest
  PROVE  /\ Store!Range(Store!Settled) \subseteq Store!Range(manifest)
         /\ Store!Range(manifest)' = Store!Range(manifest)
         /\ Store!Range(Store!Settled)' = Store!Range(manifest)
BY SettledListed DEF Store!Range

(* A step that raises leaves at most one more file, under its marker.         *)
LEMMA StoreRaises ==
  ASSUME StoreInv, Store!Raise
  PROVE  StoreInv'
<1>1. /\ op # None /\ op.pc # "finally" /\ op' = [op EXCEPT !.pc = "finally"]
      /\ UNCHANGED <<manifest, blobs, damaged, markers, handed, calls>>
  BY DEF Store!Raise
<1>2. op \in Operations /\ ~ op.published
  BY <1>1 DEF StoreInv, StoreTypeOK, PublishedKept
<1>3. /\ op' \in Operations /\ op'.pc = "finally" /\ op'.n = op.n /\ op'.digest = op.digest
      /\ op'.published = op.published
  BY <1>1, <1>2 DEF Operations
<1>4. \A f \in strays' \ strays : /\ f \in [kind : Kinds, n : Nat, size : Nat]
                                  /\ Marked(f.kind, f.n)
  <2> SUFFICES ASSUME NEW f \in strays', f \notin strays
               PROVE  f \in [kind : Kinds, n : Nat, size : Nat] /\ Marked(f.kind, f.n)
    OBVIOUS
  <2>1. op.pc \in {"stage", "rollback", "temp"} /\ f = Store!File(Store!Writes[op.pc], 1)
    BY DEF Store!Raise, Store!Writes
  <2>2. Store!Writes[op.pc] = op.pc
    BY <2>1 DEF Store!Writes
  <2>3. f.kind = op.pc /\ f.n = op.n /\ f.size = 1 /\ f \in [kind : Kinds, n : Nat, size : Nat]
    BY <1>2, <2>1, <2>2 DEF Store!File, Kinds, Operations
  <2>4. Marked(op.pc, op.n)
    BY <1>1, <2>1 DEF StoreInv, MarkedAhead
  <2> QED
    BY <2>3, <2>4
<1>5. Store!Settled' = manifest
  BY <1>1, <1>3 DEF Store!Settled
<1>6. StoreTypeOK'
  BY <1>1, <1>3, <1>4 DEF StoreInv, StoreTypeOK
<1>7. NumbersOwn' /\ MarkedAhead'
  BY <1>1, <1>3 DEF StoreInv, NumbersOwn, MarkedAhead, Marked
<1>8. FilesMarked'
  BY <1>1, <1>4 DEF StoreInv, FilesMarked, Marked
<1>9. /\ Store!Range(Store!Settled) \subseteq Store!Range(manifest)
      /\ Store!Range(manifest)' = Store!Range(manifest)
      /\ Store!Range(Store!Settled)' = Store!Range(manifest)
  BY <1>1, <1>5, SettledGrows
<1>10. BlobsMarked'
  BY <1>1, <1>3, <1>9 DEF StoreInv, BlobsMarked, RefersTo
<1>11. PublishedKept'
  BY <1>1, <1>2, <1>3, <1>9 DEF StoreInv, PublishedKept, Publishing, RefersTo
<1> QED
  BY <1>6, <1>7, <1>8, <1>10, <1>11 DEF StoreInv

(* The end of a process leaves everything as it is.                           *)
LEMMA StoreCrashes ==
  ASSUME StoreInv, Store!Crash
  PROVE  StoreInv'
<1>1. op' = None /\ UNCHANGED <<manifest, blobs, damaged, strays, markers, handed, calls>>
  BY DEF Store!Crash
<1>2. Store!Settled' = manifest
  BY <1>1 DEF Store!Settled
<1>3. /\ Store!Range(Store!Settled) \subseteq Store!Range(manifest)
      /\ Store!Range(manifest)' = Store!Range(manifest)
      /\ Store!Range(Store!Settled)' = Store!Range(manifest)
  BY <1>1, <1>2, SettledGrows
<1>4. StoreTypeOK' /\ NumbersOwn' /\ FilesMarked' /\ MarkedAhead'
  BY <1>1 DEF StoreInv, StoreTypeOK, NumbersOwn, FilesMarked, MarkedAhead, Marked
<1>5. BlobsMarked'
  BY <1>1, <1>3 DEF StoreInv, BlobsMarked, RefersTo
<1>6. PublishedKept'
  BY <1>1, <1>3 DEF StoreInv, PublishedKept, RefersTo
<1> QED
  BY <1>4, <1>5, <1>6 DEF StoreInv

(* The cleaning up of a call takes a marker only with its file, and the       *)
(* marker of a blob only when its record is published.                        *)
LEMMA StoreFinishes ==
  ASSUME StoreInv, Store!Finally
  PROVE  StoreInv'
<1> DEFINE gone == {m \in markers : m.n = op.n /\ (Store!Removable(m) \/ Store!Retired(m))}
<1>1. PICK first \in {m \in gone : m.kind # "orphan_blob"} \union {None} :
        /\ (first = None) => \A m \in gone : Store!FilesOf(m.kind) = {} \/ m.kind = "orphan_blob"
        /\ strays' = strays \ (IF first = None THEN {} ELSE Store!FilesOf(first.kind))
        /\ markers' = markers \ (IF first = None THEN gone ELSE {first})
        /\ op' = IF first = None THEN None ELSE op
  BY DEF Store!Finally
<1>2. /\ op # None /\ op.pc = "finally"
      /\ UNCHANGED <<manifest, blobs, damaged, handed, calls>>
  BY DEF Store!Finally
<1>3. /\ op \in Operations /\ markers \in SUBSET Markers
      /\ \A f \in strays : f.kind \in Kinds
  BY <1>2 DEF StoreInv, StoreTypeOK
<1>4. markers' \subseteq markers /\ strays' \subseteq strays /\ op' \in {None, op}
  BY <1>1
<1>5. \A m \in markers \ markers' : m \in gone
  BY <1>1
<1>6. \A m \in markers \ markers' : m.kind = "orphan_blob" => op.published /\ m.of = op.digest
  BY <1>1, <1>2, <1>5 DEF Store!Removable, Store!Retired, StoreInv, NumbersOwn
<1>7. \A m \in markers \ markers' : m.kind # "orphan_blob" =>
        \A f \in strays' : ~ (m.kind = f.kind /\ m.n = f.n)
  <2> SUFFICES ASSUME NEW m \in markers, m \notin markers', m.kind # "orphan_blob",
                      NEW f \in strays', m.kind = f.kind, m.n = f.n
               PROVE  FALSE
    OBVIOUS
  <2>1. m \in gone /\ f \in strays
    BY <1>4, <1>5
  <2>2. f \in Store!FilesOf(m.kind)
    BY <2>1 DEF Store!FilesOf
  <2> HIDE DEF gone
  <2>3. CASE first = None
    BY <1>1, <2>1, <2>2, <2>3
  <2>4. CASE first # None
    BY <1>1, <2>2, <2>4
  <2> QED
    BY <2>3, <2>4
<1> HIDE DEF gone
<1>8. Store!Settled = manifest /\ Store!Settled' = manifest
  BY <1>2, <1>4 DEF Store!Settled
<1>9. /\ Store!Range(manifest)' = Store!Range(manifest)
      /\ Store!Range(Store!Settled)' = Store!Range(Store!Settled)
  BY <1>2, <1>8 DEF Store!Range
<1>10. StoreTypeOK'
  BY <1>2, <1>3, <1>4 DEF StoreInv, StoreTypeOK
<1>11. NumbersOwn'
  BY <1>2, <1>4 DEF StoreInv, NumbersOwn
<1>12. FilesMarked'
  <2> SUFFICES ASSUME NEW f \in strays'
               PROVE  \E m \in markers' : m.kind = f.kind /\ m.n = f.n
    BY DEF FilesMarked, Marked
  <2>1. f \in strays /\ f.kind # "orphan_blob"
    BY <1>3, <1>4 DEF Kinds
  <2>2. PICK m \in markers : m.kind = f.kind /\ m.n = f.n
    BY <2>1 DEF StoreInv, FilesMarked, Marked
  <2>3. m \in markers'
    BY <1>7, <2>1, <2>2
  <2> QED
    BY <2>2, <2>3
<1>13. MarkedAhead'
  BY <1>2, <1>4 DEF MarkedAhead
<1>14. BlobsMarked'
  <2> SUFFICES ASSUME NEW d \in blobs \ RefersTo(Store!Settled)
               PROVE  \E m \in markers' : m.kind = "orphan_blob" /\ m.of = d
    BY <1>2, <1>4, <1>9 DEF BlobsMarked, RefersTo
  <2>1. PICK m \in markers : m.kind = "orphan_blob" /\ m.of = d
    BY DEF StoreInv, BlobsMarked
  <2>2. op.published => op.digest \in RefersTo(manifest)
    <3> SUFFICES ASSUME op.published
                 PROVE  op.digest \in RefersTo(manifest)
      OBVIOUS
    <3>1. Store!Record(op) \in Store!Range(manifest)
      BY <1>2 DEF StoreInv, PublishedKept
    <3>2. Store!Record(op).digest = op.digest
      BY <1>3, RecordOfCall
    <3> QED
      BY <3>1, <3>2 DEF RefersTo
  <2>3. m \in markers'
    BY <1>6, <1>8, <2>1, <2>2
  <2> QED
    BY <2>1, <2>3
<1>15. PublishedKept'
  <2>1. op' = op => Store!Record(op') = Store!Record(op)
    BY DEF Store!Record
  <2> QED
    BY <1>2, <1>4, <1>9, <2>1 DEF StoreInv, PublishedKept, RefersTo, Publishing
<1> QED
  BY <1>10, <1>11, <1>12, <1>13, <1>14, <1>15 DEF StoreInv

(* The cleanup takes a marker with what it names, and of the blobs only what  *)
(* no record refers to.                                                       *)
LEMMA StoreCleans ==
  ASSUME StoreInv, NEW old \in SUBSET markers, Store!Clean(old)
  PROVE  StoreInv'
<1>1. /\ op = None /\ op' = None
      /\ strays' = strays \ UNION {Store!Target(m) : m \in old}
      /\ blobs' = blobs \ Store!Unneeded(old)
      /\ markers' \subseteq markers /\ markers \ old \subseteq markers'
      /\ UNCHANGED <<manifest, damaged, handed, calls>>
  BY DEF Store!Clean, Store!LockFree
<1>2. Store!Settled = manifest /\ Store!Settled' = manifest
  BY <1>1 DEF Store!Settled
<1>3. /\ Store!Range(manifest)' = Store!Range(manifest)
      /\ Store!Range(Store!Settled)' = Store!Range(Store!Settled)
  BY <1>1, <1>2 DEF Store!Range
<1>4. StoreTypeOK' /\ NumbersOwn' /\ MarkedAhead'
  BY <1>1 DEF StoreInv, StoreTypeOK, NumbersOwn, MarkedAhead
<1>5. FilesMarked'
  <2> SUFFICES ASSUME NEW f \in strays'
               PROVE  \E m \in markers' : m.kind = f.kind /\ m.n = f.n
    BY DEF FilesMarked, Marked
  <2>1. PICK m \in markers : m.kind = f.kind /\ m.n = f.n
    BY <1>1 DEF StoreInv, FilesMarked, Marked
  <2>2. m \notin old
    BY <1>1, <2>1 DEF Store!Target
  <2> QED
    BY <1>1, <2>1, <2>2
<1>6. BlobsMarked'
  <2> SUFFICES ASSUME NEW d \in blobs', d \notin RefersTo(manifest)
               PROVE  \E m \in markers' : m.kind = "orphan_blob" /\ m.of = d
    BY <1>1, <1>2, <1>3 DEF BlobsMarked, RefersTo
  <2>1. PICK m \in markers : m.kind = "orphan_blob" /\ m.of = d
    BY <1>1, <1>2 DEF StoreInv, BlobsMarked
  <2>2. m \notin old
    BY <1>1, <2>1 DEF Store!Unneeded, Store!Referenced, RefersTo
  <2> QED
    BY <1>1, <2>1, <2>2
<1>7. PublishedKept'
  BY <1>1, <1>3 DEF StoreInv, PublishedKept, RefersTo, Store!Unneeded, Store!Referenced
<1> QED
  BY <1>4, <1>5, <1>6, <1>7 DEF StoreInv

(* The last record of a key is a record of the manifest.                      *)
LEMMA LastIsListed ==
  ASSUME NEW k, manifest \in Seq(Records), Store!OfKey(k) # {}
  PROVE  manifest[Store!Max(Store!OfKey(k))] \in Store!Range(manifest)
<1> DEFINE S == Store!OfKey(k)
<1>1. S \in SUBSET Nat /\ S \subseteq DOMAIN manifest /\ Len(manifest) \in Nat
      /\ \A i \in S : i <= Len(manifest)
  BY DEF Store!OfKey
<1> HIDE DEF S
<1>2. \E x \in S : \A y \in S : y <= x
  BY <1>1, Greatest DEF S
<1>3. \E x \in S : \A y \in S : x >= y
  BY <1>1, <1>2
<1>4. Store!Max(S) \in S
  BY <1>3 DEF Store!Max
<1> QED
  BY <1>1, <1>4 DEF S, Store!Range

(* A reader is given a record of the manifest.                                *)
LEMMA StoreReads ==
  ASSUME StoreInv, NEW k \in Keys, Store!Read(k)
  PROVE  StoreInv'
<1> DEFINE last == manifest[Store!Max(Store!OfKey(k))]
<1>1. /\ op = None /\ Store!OfKey(k) # {} /\ handed' = handed \union {last}
      /\ UNCHANGED <<manifest, blobs, damaged, strays, markers, op, calls>>
  BY DEF Store!Read, Store!LockFree
<1>2. last \in Store!Range(manifest) /\ last \in Records
  BY <1>1, LastIsListed, RangeRecords DEF StoreInv, StoreTypeOK
<1> HIDE DEF last
<1>3. Store!Settled = manifest /\ Store!Settled' = manifest
  BY <1>1 DEF Store!Settled
<1>4. /\ Store!Range(manifest)' = Store!Range(manifest)
      /\ Store!Range(Store!Settled)' = Store!Range(Store!Settled)
  BY <1>1, <1>3 DEF Store!Range
<1>5. StoreTypeOK' /\ NumbersOwn' /\ FilesMarked' /\ MarkedAhead'
  BY <1>1, <1>2 DEF StoreInv, StoreTypeOK, NumbersOwn, FilesMarked, MarkedAhead, Marked
<1>6. BlobsMarked' /\ PublishedKept'
  BY <1>1, <1>2, <1>3, <1>4 DEF StoreInv, BlobsMarked, PublishedKept, RefersTo
<1> QED
  BY <1>5, <1>6 DEF StoreInv

(* StoreInv is kept by every operation of the store, whatever fails or ends.  *)
LEMMA StoreStep ==
  ASSUME StoreInv, Store!StoreNext
  PROVE  StoreInv'
<1>1. CASE \E k \in Keys, v \in Versions, d \in Contents : Store!Begin(k, v, d)
  BY <1>1, StoreBegins
<1>2. CASE Store!WriteStage \/ Store!WriteRollback \/ Store!WriteTemp
  <2>1. manifest \in Seq(Records) /\ (op # None => op \in Operations)
    BY DEF StoreInv, StoreTypeOK
  <2>2. \E from, to, kind : \E size \in Nat :
          <<from, to, kind>> \in Written /\ Store!Write(from, to, kind, size)
    <3>1. CASE Store!WriteStage
      <4>1. [d \in Contents |-> 1][op.digest] \in Nat
        BY <2>1, <3>1 DEF Store!WriteStage, Operations
      <4> QED
        BY <3>1, <4>1 DEF Store!WriteStage, Written
    <3>2. CASE Store!WriteRollback
      <4>1. Len(manifest) \in Nat
        BY <2>1
      <4> QED
        BY <3>2, <4>1 DEF Store!WriteRollback, Written
    <3>3. CASE Store!WriteTemp
      <4>1. Len(manifest) + 1 \in Nat
        BY <2>1
      <4> QED
        BY <3>3, <4>1 DEF Store!WriteTemp, Written
    <3> QED
      BY <1>2, <3>1, <3>2, <3>3
  <2> QED
    BY <2>2, StoreWrites
<1>3. CASE Store!SealStage \/ Store!SealBlob \/ Store!SealRollback \/ Store!SealTemp
  <2>1. \E from, to, kind : <<from, to, kind>> \in Sealings /\ Store!Seal(from, to, kind)
    BY <1>3 DEF Store!SealStage, Store!SealBlob, Store!SealRollback, Store!SealTemp, Sealings
  <2> QED
    BY <2>1, StoreSeals
<1>4. CASE Store!Decide \/ Store!MoveBlob \/ Store!MarkManifest \/ Store!Replace
  BY <1>4, StoreDecides, StoreMoves, StoreMarks, StoreReplaces
<1>5. CASE Store!Synced \/ Store!Restore \/ Store!Raise \/ Store!Finally \/ Store!Crash
  BY <1>5, StoreSyncs, StoreRestores, StoreRaises, StoreFinishes, StoreCrashes
<1>6. CASE \E old \in SUBSET markers : Store!Clean(old)
  BY <1>6, StoreCleans
<1>7. CASE \E k \in Keys : Store!Read(k)
  BY <1>7, StoreReads
<1>8. CASE \E d \in Contents : Store!Damage(d)
  <2>1. UNCHANGED <<manifest, blobs, strays, markers, op, handed, calls>>
    BY <1>8 DEF Store!Damage
  <2> QED
    BY <2>1 DEF StoreInv, StoreTypeOK, NumbersOwn, FilesMarked, MarkedAhead, BlobsMarked,
            PublishedKept, Store!Settled, RefersTo, Marked, Store!Record, Store!Range
<1> QED
  BY <1>1, <1>2, <1>3, <1>4, <1>5, <1>6, <1>7, <1>8 DEF Store!StoreNext

(* Only the scene of the store changes the store.                             *)
LEMMA StoreAlone ==
  ASSUME [Next]_vars
  PROVE  Store!StoreNext \/ UNCHANGED storeVars
BY DEF Next, vars, In, Parts

(* The invariant of the data store holds in every reachable state.            *)
THEOREM StoreAlways == Spec => []StoreInv
<1>1. Init => StoreInv
  BY StoreStarts DEF Init
<1>2. StoreInv /\ [Next]_vars => StoreInv'
  BY StoreAlone, StoreStep, StoreUnchanged
<1> QED
  BY <1>1, <1>2, PTL DEF Spec

(* What the store gave a caller stays what it was given as: its record is in  *)
(* the manifest and its blob in place, whatever failed, ended or was cleaned  *)
(* up since.                                                                  *)
THEOREM GivenStays == Spec => []GivenStaysReadable
<1>1. StoreInv => GivenStaysReadable
  <2> SUFFICES ASSUME StoreInv
               PROVE  Store!GivenStaysReadable
    BY DEF GivenStaysReadable
  <2>1. Store!Range(Store!Settled) \subseteq Store!Range(manifest)
    BY SettledListed
  <2> QED
    BY <2>1 DEF StoreInv, PublishedKept, RefersTo, Store!GivenStaysReadable, Store!Referenced
<1> QED
  BY <1>1, StoreAlways, PTL

(* A file that nothing refers to is named by a marker, whichever step of a    *)
(* call was the last.                                                         *)
THEOREM NoFileUnmarked == Spec => []NothingUnmarked
<1>1. StoreInv => NothingUnmarked
  <2> SUFFICES ASSUME StoreInv
               PROVE  Store!NothingUnmarked
    BY DEF NothingUnmarked
  <2>1. \A f \in strays : \E m \in markers : m.kind = f.kind /\ m.n = f.n
    BY DEF StoreInv, FilesMarked, Marked
  <2>2. RefersTo(Store!Settled) \subseteq RefersTo(manifest)
    BY SettledListed DEF RefersTo
  <2>3. \A d \in blobs \ Store!Referenced : \E m \in markers : m.of = d
    BY <2>2 DEF StoreInv, BlobsMarked, Store!Referenced, RefersTo
  <2> QED
    BY <2>1, <2>3 DEF Store!NothingUnmarked
<1> QED
  BY <1>1, StoreAlways, PTL

(* What a call publishes is a version of its own.                             *)
LEMMA CallPublishes ==
  ASSUME StoreInv, op # None, op.pc \in {"replace", "sync"},
         Store!Settled' = Append(Store!Settled, Store!Record(op))
  PROVE  \E r \in Store!Log!Range(Store!Settled') : Store!Log!Publish(r.key, r.version, r.digest)
<1> DEFINE more == Store!Record(op)
           old == Store!Settled
<1>1. op \in Operations /\ manifest \in Seq(Records)
  BY DEF StoreInv, StoreTypeOK
<1>2. more \in Records /\ more.key = op.key /\ more.version = op.version
  BY <1>1, RecordOfCall
<1>3. old \in Seq(Records)
  BY <1>1 DEF Store!Settled, Operations
<1>4. \A r \in Store!Range(old) : r.key # op.key \/ r.version # op.version
  BY DEF StoreInv, PublishedKept, Publishing
<1>5. ~ Store!Log!Versioned(more.key, more.version)
  BY <1>2, <1>4 DEF Store!Log!Versioned, Store!Log!Range, Store!Range
<1> HIDE DEF more
<1>6. [key |-> more.key, version |-> more.version, digest |-> more.digest] = more
  BY <1>2 DEF Records
<1>7. Store!Settled' = Append(Store!Settled, more)
  BY DEF more
<1>8. Store!Log!Publish(more.key, more.version, more.digest)
  BY <1>5, <1>6, <1>7 DEF Store!Log!Publish
<1>9. more \in Store!Range(Append(old, more))
  BY <1>2, <1>3, RangeAppend
<1>10. more \in Store!Log!Range(Store!Settled')
  BY <1>7, <1>9 DEF Store!Log!Range, Store!Range
<1> QED
  BY <1>8, <1>10

(* A step of the store is a step of the log: it settles one publication at    *)
(* most, and gives out what the log then lists.                               *)
LEMMA StoreStepIsLogStep ==
  ASSUME StoreInv, StoreInv', Store!StoreNext
  PROVE  Store!Log!LogNext
<1>1. Store!Log!HandOut
  BY DEF Store!Log!HandOut, StoreInv, PublishedKept, Store!Log!Range, Store!Range
<1>2. \/ Store!Settled' = Store!Settled
      \/ /\ op # None /\ op.pc \in {"replace", "sync"}
         /\ Store!Settled' = Append(Store!Settled, Store!Record(op))
  <2>1. CASE op # None /\ op.pc = "sync"
    <3>1. manifest = Append(op.old, Store!Record(op)) /\ Store!Settled = op.old
      BY <2>1 DEF StoreInv, PublishedKept, Store!Settled
    <3>2. op \in Operations
      BY <2>1 DEF StoreInv, StoreTypeOK
    <3>3. /\ op' = None \/ op'.pc # "sync"
          /\ manifest' = manifest \/ manifest' = op.old
      <4>1. Store!Synced \/ Store!Restore \/ Store!Raise \/ Store!Crash
        BY <2>1 DEF Store!StoreNext, Store!Begin, Store!LockFree, Store!WriteStage,
             Store!WriteRollback, Store!WriteTemp, Store!Write, Store!SealStage, Store!SealBlob,
             Store!SealRollback, Store!SealTemp, Store!Seal, Store!Decide, Store!MoveBlob,
             Store!MarkManifest, Store!Replace, Store!Finally, Store!Clean, Store!Read, Store!Damage
      <4> QED
        BY <3>2, <4>1 DEF Store!Synced, Store!Restore, Store!Raise, Store!Crash, Operations
    <3>4. Store!Settled' = manifest'
      BY <3>3 DEF Store!Settled
    <3> QED
      BY <2>1, <3>1, <3>3, <3>4
  <2>2. CASE /\ op = None \/ op.pc # "sync"
             /\ Store!Replace
    <3>1. op # None /\ op.pc = "replace" /\ Store!Settled = manifest
      BY <2>2 DEF Store!Replace, Store!Settled
    <3>2. Store!Settled' \in {manifest, manifest'} /\ manifest' = Append(manifest, Store!Record(op))
      <4>1. op \in Operations
        BY <3>1 DEF StoreInv, StoreTypeOK
      <4>2. op' = [op EXCEPT !.pc = "sync", !.old = manifest]
            /\ manifest' = Append(manifest, Store!Record(op))
        BY <2>2 DEF Store!Replace
      <4>3. op'.pc = "sync" /\ op'.old = manifest
        BY <4>1, <4>2 DEF Operations
      <4> QED
        BY <4>2, <4>3 DEF Store!Settled
    <3> QED
      BY <3>1, <3>2
  <2>3. CASE /\ op = None \/ op.pc # "sync"
             /\ ~ Store!Replace
    <3>1. UNCHANGED manifest
      BY <2>3 DEF Store!StoreNext, Store!Begin, Store!LockFree, Store!WriteStage,
           Store!WriteRollback, Store!WriteTemp, Store!Write, Store!SealStage, Store!SealBlob,
           Store!SealRollback, Store!SealTemp, Store!Seal, Store!Decide, Store!MoveBlob,
           Store!MarkManifest, Store!Finally, Store!Clean, Store!Read, Store!Damage, Store!Synced,
           Store!Restore, Store!Raise, Store!Crash
    <3>2. op' = None \/ op'.pc # "sync"
      <4>1. op \in {None} \union Operations
        BY DEF StoreInv, StoreTypeOK
      <4>2. \/ op' \in {None, op}
            \/ op' # None /\ op'.pc = "stage"
            \/ /\ op # None
               /\ \E to \in {"staged", "decide", "move", "moved", "mark", "rollback", "rolled",
                              "temp", "written", "replace", "finally"} :
                    \/ op' = [op EXCEPT !.pc = to]
                    \/ \E kind : op' = [op EXCEPT !.pc = to, !.known = @ \union {kind}]
                    \/ op' = [op EXCEPT !.pc = to, !.published = TRUE]
        <5>1. CASE Store!WriteStage \/ Store!WriteRollback \/ Store!WriteTemp
          BY <5>1 DEF Store!WriteStage, Store!WriteRollback, Store!WriteTemp, Store!Write
        <5>2. CASE Store!SealStage \/ Store!SealBlob \/ Store!SealRollback \/ Store!SealTemp
          BY <5>2 DEF Store!SealStage, Store!SealBlob, Store!SealRollback, Store!SealTemp, Store!Seal
        <5>3. CASE Store!Decide \/ Store!MoveBlob \/ Store!MarkManifest \/ Store!Synced
                   \/ Store!Restore \/ Store!Raise
          BY <5>3 DEF Store!Decide, Store!MoveBlob, Store!MarkManifest, Store!Synced,
             Store!Restore, Store!Raise
        <5>4. CASE \E k \in Keys, v \in Versions, d \in Contents : Store!Begin(k, v, d)
          <6>1. PICK k \in Keys, v \in Versions, d \in Contents : Store!Begin(k, v, d)
            BY <5>4
          <6>2. op' = [pc |-> "stage", key |-> k, version |-> v, digest |-> d, n |-> calls + 1,
                       known |-> {}, old |-> <<>>, published |-> FALSE]
            BY <6>1 DEF Store!Begin
          <6>3. op'.pc = "stage"
            BY <6>2
          <6> QED
            BY <6>3
        <5>5. CASE \/ Store!Finally \/ Store!Crash \/ \E old \in SUBSET markers : Store!Clean(old)
                   \/ \E k \in Keys : Store!Read(k)
                   \/ \E d \in Contents : Store!Damage(d)
          BY <5>5 DEF Store!Finally, Store!Crash, Store!Clean, Store!Read, Store!Damage
        <5> QED
          BY <2>3, <5>1, <5>2, <5>3, <5>4, <5>5 DEF Store!StoreNext
      <4> QED
        BY <2>3, <4>1, <4>2 DEF Operations
    <3> QED
      BY <2>3, <3>1, <3>2 DEF Store!Settled
  <2> QED
    BY <2>1, <2>2, <2>3
<1>3. UNCHANGED Store!Settled \/ \E r \in Store!Log!Range(Store!Settled') :
                                   Store!Log!Publish(r.key, r.version, r.digest)
  BY <1>2, CallPublishes
<1> QED
  BY <1>1, <1>3 DEF Store!Log!LogNext

(* The data store implements the log of what it promises, step by step: a     *)
(* publication counts when its caller is told, or when nobody can take it     *)
(* back any more.                                                             *)
THEOREM StoreImplementsLog == Spec => StoreIsLog
<1>1. Init => Store!Log!LogInit
  <2> SUFFICES ASSUME Store!StoreInit
               PROVE  Store!Log!LogInit
    BY DEF Init
  <2>1. Store!Settled = <<>> /\ handed = {}
    BY DEF Store!StoreInit, Store!Settled
  <2> QED
    BY <2>1 DEF Store!Log!LogInit
<1>2. StoreInv /\ StoreInv' /\ [Next]_vars => [Store!Log!LogNext]_(Store!Log!logVars)
  <2> SUFFICES ASSUME StoreInv, StoreInv', [Next]_vars
               PROVE  [Store!Log!LogNext]_(Store!Log!logVars)
    OBVIOUS
  <2>1. CASE Store!StoreNext
    BY <2>1, StoreStepIsLogStep
  <2>2. CASE UNCHANGED storeVars
    <3>1. Store!Settled' = Store!Settled /\ handed' = handed
      BY <2>2 DEF storeVars, Store!Settled
    <3> QED
      BY <3>1 DEF Store!Log!logVars
  <2> QED
    BY <2>1, <2>2, StoreAlone
<1> QED
  BY <1>1, <1>2, StoreAlways, PTL DEF Spec, StoreIsLog, Store!StoreIsLog, Store!Log!LogSpec

------------------------------------------------------------------------------
(* The prospective ledger.                                                    *)

(* The file is a sequence of lines.                                           *)
IsFile(f) == \E S : f \in Seq([rec : S, nl : BOOLEAN])

(* What the bytes of a worker that appends can become a line of: a prediction *)
(* with its own id, or a settlement.                                          *)
Writable(rec) == rec.kind = "settlement" \/ rec = Ledger!Prediction(rec.pred)

(* A line that is no record is a tail without a line feed; and nothing comes  *)
(* after a tail without one.                                                  *)
OnlyTailTorn(f) ==
    \A i \in 1..Len(f) : /\ i < Len(f) => f[i].nl
                         /\ f[i].rec = None => ~ f[i].nl

(* A settlement comes after its prediction, and no record has a rival.        *)
InOrder(f) ==
    \A i \in 1..Len(f) :
       f[i].rec # None =>
          /\ Writable(f[i].rec)
          /\ f[i].rec.kind # "prediction" =>
                \E j \in 1..(i - 1) : f[j].rec = Ledger!Prediction(f[i].rec.pred)
NoRivals(f) ==
    \A i, k \in 1..Len(f) :
       /\ f[i].rec # None /\ f[k].rec # None
       /\ f[i].rec.kind = f[k].rec.kind /\ f[i].rec.pred = f[k].rec.pred
       => f[i].rec = f[k].rec
Sound(f) == OnlyTailTorn(f) /\ InOrder(f) /\ NoRivals(f)

Joined(f) == \E i \in 1..Len(f) : f[i] = [rec |-> None, nl |-> TRUE]

LedgerInv ==
    /\ IsFile(lines)
    /\ Sound(lines) \/ Joined(lines)
    /\ batch = [w \in Workers |-> batch[w]]
    /\ \A w \in Workers : \A rec \in batch[w] : Writable(rec)

(* A sequence without its last element.                                      *)
LEMMA FrontOf ==
  ASSUME NEW S, NEW f \in Seq(S), Len(f) > 0
  PROVE  /\ SubSeq(f, 1, Len(f) - 1) \in Seq(S) /\ Len(SubSeq(f, 1, Len(f) - 1)) = Len(f) - 1
         /\ \A i \in 1..(Len(f) - 1) : SubSeq(f, 1, Len(f) - 1)[i] = f[i]
<1>1. Len(f) \in Nat /\ Len(f) - 1 \in Int /\ \A i \in 1..(Len(f) - 1) : f[i] \in S
  OBVIOUS
<1> DEFINE n == Len(f) - 1
<1>2. n \in Int /\ n - 1 + 1 = n /\ (1 <= n \/ n = 0)
  <2>1. Len(f) \in Nat /\ Len(f) > 0
    BY <1>1
  <2>2. \A k \in Nat : k > 0 => k - 1 \in Int /\ k - 1 - 1 + 1 = k - 1 /\ (1 <= k - 1 \/ k - 1 = 0)
    OBVIOUS
  <2> QED
    BY <2>1, <2>2
<1>3. \A i \in 1..n : f[i] \in S
  BY <1>1
<1> HIDE DEF n
<1>4. /\ SubSeq(f, 1, n) \in Seq(S)
      /\ Len(SubSeq(f, 1, n)) = IF 1 <= n THEN n - 1 + 1 ELSE 0
      /\ \A i \in 1..(n - 1 + 1) : SubSeq(f, 1, n)[i] = f[1 + i - 1]
  BY <1>2, <1>3, SubSeqProperties
<1>5. SubSeq(f, 1, n) \in Seq(S) /\ Len(SubSeq(f, 1, n)) = n
      /\ \A i \in 1..n : SubSeq(f, 1, n)[i] = f[i]
  <2>1. \A i \in 1..n : 1 + i - 1 = i
    BY <1>2
  <2> QED
    BY <1>2, <1>4, <2>1
<1> QED
  BY <1>5 DEF n

(* What recovery leaves of a file: all of it, or all but a torn tail.         *)
LEMMA RecoveryCuts ==
  ASSUME NEW f, IsFile(f)
  PROVE  LET g == Ledger!Recovered(f)
         IN  /\ IsFile(g)
             /\ \/ g = f /\ (f # <<>> => f[Len(f)].rec # None \/ f[Len(f)].nl)
                \/ /\ Len(f) > 0 /\ f[Len(f)].rec = None /\ ~ f[Len(f)].nl
                   /\ Len(g) = Len(f) - 1 /\ \A i \in 1..Len(g) : g[i] = f[i]
<1>1. PICK S : f \in Seq([rec : S, nl : BOOLEAN])
  BY DEF IsFile
<1> DEFINE L == [rec : S, nl : BOOLEAN]
<1>2. f \in Seq(L)
  BY <1>1
<1> HIDE DEF L
<1>3. CASE Ledger!TornTail(f)
  <2>1. Ledger!Recovered(f) = SubSeq(f, 1, Len(f) - 1)
    BY <1>3 DEF Ledger!Recovered, Ledger!Front
  <2>2. Len(f) > 0 /\ f[Len(f)].rec = None /\ ~ f[Len(f)].nl
    BY <1>2, <1>3 DEF Ledger!TornTail, Ledger!Last
  <2>3. /\ SubSeq(f, 1, Len(f) - 1) \in Seq(L)
        /\ Len(SubSeq(f, 1, Len(f) - 1)) = Len(f) - 1
        /\ \A i \in 1..(Len(f) - 1) : SubSeq(f, 1, Len(f) - 1)[i] = f[i]
    BY <1>2, <2>2, FrontOf
  <2> QED
    BY <2>1, <2>2, <2>3 DEF IsFile, L
<1>4. CASE ~ Ledger!TornTail(f)
  BY <1>4 DEF Ledger!Recovered, Ledger!TornTail, Ledger!Last
<1> QED
  BY <1>3, <1>4

(* What a write makes of a file: one more line, or a longer last line.        *)
LEMMA WriteExtends ==
  ASSUME NEW f, IsFile(f), NEW rec, NEW nl \in BOOLEAN
  PROVE  LET g == Ledger!Write(f, rec, nl)
         IN  /\ IsFile(g)
             /\ \/ /\ Len(f) > 0 => f[Len(f)].nl
                   /\ Len(g) = Len(f) + 1 /\ \A i \in 1..Len(f) : g[i] = f[i]
                   /\ g[Len(g)] = [rec |-> rec, nl |-> nl]
                \/ /\ Len(f) > 0 /\ ~ f[Len(f)].nl
                   /\ Len(g) = Len(f) /\ \A i \in 1..(Len(f) - 1) : g[i] = f[i]
                   /\ g[Len(g)] = [rec |-> None, nl |-> nl]
<1>1. PICK S : f \in Seq([rec : S, nl : BOOLEAN])
  BY DEF IsFile
<1> DEFINE L == [rec : S \union {rec, None}, nl : BOOLEAN]
           new == [rec |-> rec, nl |-> nl]
           none == [rec |-> None, nl |-> nl]
<1>2. f \in Seq(L)
  <2>1. [rec : S, nl : BOOLEAN] \subseteq L
    OBVIOUS
  <2> HIDE DEF L
  <2> QED
    BY <1>1, <2>1, SeqMonotonic
<1>3. new \in L /\ none \in L
  OBVIOUS
<1>4. \A g \in Seq(L) : IsFile(g)
  BY DEF IsFile
<1>5. CASE f = <<>> \/ f[Len(f)].nl
  <2>1. Ledger!Write(f, rec, nl) = Append(f, new)
    BY <1>5 DEF Ledger!Write, Ledger!Last
  <2> HIDE DEF L, new
  <2>2. /\ Append(f, new) \in Seq(L) /\ Len(Append(f, new)) = Len(f) + 1
        /\ \A i \in 1..Len(f) : Append(f, new)[i] = f[i]
        /\ Append(f, new)[Len(f) + 1] = new
    BY <1>2, <1>3
  <2>3. Len(f) > 0 => f[Len(f)].nl
    BY <1>2, <1>5
  <2> QED
    BY <1>4, <2>1, <2>2, <2>3 DEF new
<1>6. CASE f # <<>> /\ ~ f[Len(f)].nl
  <2> DEFINE front == SubSeq(f, 1, Len(f) - 1)
  <2>1. Ledger!Write(f, rec, nl) = Append(front, none)
    BY <1>6 DEF Ledger!Write, Ledger!Last, Ledger!Front
  <2> HIDE DEF L, none
  <2>2. Len(f) > 0 /\ Len(f) \in Nat
    BY <1>2, <1>6
  <2>3. front \in Seq(L) /\ Len(front) = Len(f) - 1 /\ \A i \in 1..(Len(f) - 1) : front[i] = f[i]
    BY <1>2, <2>2, FrontOf
  <2> HIDE DEF front
  <2>4. /\ Append(front, none) \in Seq(L) /\ Len(Append(front, none)) = Len(front) + 1
        /\ \A i \in 1..Len(front) : Append(front, none)[i] = front[i]
        /\ Append(front, none)[Len(front) + 1] = none
    BY <1>3, <2>3
  <2>5. /\ Len(Append(front, none)) = Len(f)
        /\ \A i \in 1..(Len(f) - 1) : Append(front, none)[i] = f[i]
        /\ Append(front, none)[Len(f)] = none
    BY <2>2, <2>3, <2>4
  <2> QED
    BY <1>4, <1>6, <2>1, <2>2, <2>4, <2>5 DEF none
<1> QED
  BY <1>5, <1>6

(* No terminated line is removed, moved or rewritten.                         *)
Keeps(f, g) == \A i \in DOMAIN f : f[i].nl => i \in DOMAIN g /\ g[i] = f[i]

(* Neither recovery nor a write touches a terminated line.                    *)
LEMMA LinesKept ==
  ASSUME NEW f, IsFile(f), NEW rec, NEW nl \in BOOLEAN
  PROVE  /\ Keeps(f, Ledger!Recovered(f)) /\ Keeps(f, Ledger!Write(f, rec, nl))
         /\ Keeps(f, Ledger!Write(Ledger!Recovered(f), rec, nl))
<1>1. \A h : IsFile(h) => DOMAIN h = 1..Len(h) /\ Len(h) \in Nat
  BY DEF IsFile
<1>2. \A h : IsFile(h) => Keeps(h, Ledger!Recovered(h))
  <2> SUFFICES ASSUME NEW h, IsFile(h)
               PROVE  Keeps(h, Ledger!Recovered(h))
    OBVIOUS
  <2>1. PICK g : /\ g = Ledger!Recovered(h) /\ IsFile(g)
                 /\ \/ g = h
                    \/ /\ ~ h[Len(h)].nl
                       /\ Len(g) = Len(h) - 1 /\ \A k \in 1..Len(g) : g[k] = h[k]
    BY RecoveryCuts
  <2>2. /\ DOMAIN h = 1..Len(h) /\ Len(h) \in Nat
        /\ DOMAIN g = 1..Len(g) /\ Len(g) \in Nat
    BY <1>1, <2>1
  <2>3. ASSUME NEW i \in DOMAIN h, h[i].nl
        PROVE  i \in DOMAIN g /\ g[i] = h[i]
    <3>1. i \in 1..Len(h)
      BY <2>2, <2>3
    <3>2. i # Len(h) => i \in 1..(Len(h) - 1)
      BY <2>2, <3>1
    <3> QED
      BY <2>1, <2>2, <2>3, <3>1, <3>2
  <2> QED
    BY <2>1, <2>3 DEF Keeps
<1>3. \A h : IsFile(h) => Keeps(h, Ledger!Write(h, rec, nl))
  <2> SUFFICES ASSUME NEW h, IsFile(h)
               PROVE  Keeps(h, Ledger!Write(h, rec, nl))
    OBVIOUS
  <2>1. PICK g : /\ g = Ledger!Write(h, rec, nl) /\ IsFile(g)
                 /\ \/ Len(g) = Len(h) + 1 /\ \A k \in 1..Len(h) : g[k] = h[k]
                    \/ /\ ~ h[Len(h)].nl
                       /\ Len(g) = Len(h) /\ \A k \in 1..(Len(h) - 1) : g[k] = h[k]
    <3> DEFINE g == Ledger!Write(h, rec, nl)
    <3>1. /\ IsFile(g)
          /\ \/ /\ Len(h) > 0 => h[Len(h)].nl
                /\ Len(g) = Len(h) + 1 /\ \A i \in 1..Len(h) : g[i] = h[i]
                /\ g[Len(g)] = [rec |-> rec, nl |-> nl]
             \/ /\ Len(h) > 0 /\ ~ h[Len(h)].nl
                /\ Len(g) = Len(h) /\ \A i \in 1..(Len(h) - 1) : g[i] = h[i]
                /\ g[Len(g)] = [rec |-> None, nl |-> nl]
      BY WriteExtends
    <3> HIDE DEF g
    <3> QED
      BY <3>1 DEF g
  <2>2. /\ DOMAIN h = 1..Len(h) /\ Len(h) \in Nat
        /\ DOMAIN g = 1..Len(g) /\ Len(g) \in Nat
    BY <1>1, <2>1
  <2>3. ASSUME NEW i \in DOMAIN h, h[i].nl
        PROVE  i \in DOMAIN g /\ g[i] = h[i]
    <3>1. i \in 1..Len(h)
      BY <2>2, <2>3
    <3>2. i # Len(h) => i \in 1..(Len(h) - 1)
      BY <2>2, <3>1
    <3>3. i \in DOMAIN g
      <4>1. Len(g) \in {Len(h), Len(h) + 1}
        BY <2>1
      <4>2. Len(h) \in Nat
        BY <2>2
      <4>3. i \in 1..Len(g)
        BY <3>1, <4>1, <4>2
      <4> QED
        BY <2>2, <4>3
    <3>4. g[i] = h[i]
      BY <2>1, <2>3, <3>1, <3>2
    <3> QED
      BY <3>3, <3>4
  <2> QED
    BY <2>1, <2>3 DEF Keeps
<1>4. IsFile(Ledger!Recovered(f))
  BY RecoveryCuts
<1>5. Keeps(f, Ledger!Recovered(f)) /\ Keeps(f, Ledger!Write(f, rec, nl))
      /\ Keeps(Ledger!Recovered(f), Ledger!Write(Ledger!Recovered(f), rec, nl))
  BY <1>2, <1>3, <1>4
<1> QED
  BY <1>5 DEF Keeps

(* What recovery leaves of a sound file is sound, and has records only.       *)
LEMMA RecoveredSound ==
  ASSUME NEW f, IsFile(f), Sound(f)
  PROVE  /\ Sound(Ledger!Recovered(f))
         /\ \A i \in 1..Len(Ledger!Recovered(f)) : Ledger!Recovered(f)[i].rec # None
<1>1. PICK g : /\ g = Ledger!Recovered(f) /\ IsFile(g)
               /\ \/ g = f /\ (f # <<>> => f[Len(f)].rec # None \/ f[Len(f)].nl)
                  \/ /\ Len(f) > 0 /\ f[Len(f)].rec = None /\ ~ f[Len(f)].nl
                     /\ Len(g) = Len(f) - 1 /\ \A i \in 1..Len(g) : g[i] = f[i]
  BY RecoveryCuts
<1>2. Len(f) \in Nat /\ Len(g) \in Nat /\ (Len(f) > 0 => f # <<>>)
  BY <1>1 DEF IsFile
<1>3. Len(g) <= Len(f) /\ \A i \in 1..Len(g) : i \in 1..Len(f) /\ g[i] = f[i]
  BY <1>1, <1>2
<1>4. \A i \in 1..Len(g) : g[i].rec # None
  <2> SUFFICES ASSUME NEW i \in 1..Len(g), f[i].rec = None
               PROVE  FALSE
    BY <1>3
  <2>1. i \in 1..Len(f) /\ ~ f[i].nl
    BY <1>3 DEF Sound, OnlyTailTorn
  <2>2. i = Len(f)
    BY <1>2, <2>1 DEF Sound, OnlyTailTorn
  <2> QED
    BY <1>1, <1>2, <2>1, <2>2
<1>5. OnlyTailTorn(g)
  <2>1. \A i \in 1..Len(g) : i < Len(g) => g[i].nl
    BY <1>2, <1>3 DEF Sound, OnlyTailTorn
  <2> QED
    BY <1>4, <2>1 DEF OnlyTailTorn
<1>6. InOrder(g)
  <2> SUFFICES ASSUME NEW i \in 1..Len(g), g[i].rec # None
               PROVE  /\ Writable(g[i].rec)
                      /\ g[i].rec.kind # "prediction" =>
                            \E j \in 1..(i - 1) : g[j].rec = Ledger!Prediction(g[i].rec.pred)
    BY DEF InOrder
  <2>1. \A j \in 1..(i - 1) : j \in 1..Len(g)
    BY <1>2
  <2> QED
    BY <1>3, <2>1 DEF Sound, InOrder
<1>7. NoRivals(g)
  BY <1>3 DEF Sound, NoRivals
<1> QED
  BY <1>1, <1>4, <1>5, <1>6, <1>7 DEF Sound

(* A sound file loads.                                                        *)
LEMMA SoundLoads ==
  ASSUME NEW f, IsFile(f), Sound(f)
  PROVE  Ledger!Loads(f)
<1> DEFINE g == Ledger!Recovered(f)
<1>1. IsFile(g)
  BY RecoveryCuts
<1>2. Sound(g) /\ \A i \in 1..Len(g) : g[i].rec # None
  BY RecoveredSound
<1>3. DOMAIN g = 1..Len(g)
  BY <1>1 DEF IsFile
<1> HIDE DEF g
<1>4. \A i \in DOMAIN g : g[i].rec.kind # "prediction" =>
         \E j \in 1..(i - 1) : g[j].rec = Ledger!Prediction(g[i].rec.pred)
  BY <1>2, <1>3 DEF Sound, InOrder
<1>5. \A r, s \in Ledger!RecordsOf(g) : r.kind = s.kind /\ r.pred = s.pred => r = s
  BY <1>2, <1>3 DEF Sound, NoRivals, Ledger!RecordsOf
<1> QED
  BY <1>2, <1>3, <1>4, <1>5 DEF Ledger!Loads, g

(* A file with a joined line does not.                                        *)
LEMMA JoinedBreaks ==
  ASSUME NEW f, IsFile(f), Joined(f)
  PROVE  ~ Ledger!Loads(f)
<1>1. PICK i \in 1..Len(f) : f[i] = [rec |-> None, nl |-> TRUE]
  BY DEF Joined
<1>2. f[i].rec = None /\ f[i].nl
  BY <1>1
<1>3. DOMAIN f = 1..Len(f) /\ IsFile(Ledger!Recovered(f)) /\ Keeps(f, Ledger!Recovered(f))
  <2>1. Keeps(f, Ledger!Recovered(f)) /\ IsFile(Ledger!Recovered(f))
    BY LinesKept, RecoveryCuts
  <2>2. DOMAIN f = 1..Len(f)
    BY DEF IsFile
  <2> QED
    BY <2>1, <2>2
<1>4. i \in DOMAIN Ledger!Recovered(f) /\ Ledger!Recovered(f)[i].rec = None
  BY <1>2, <1>3 DEF Keeps
<1> QED
  BY <1>4 DEF Ledger!Loads

(* What may become a record of a file.                                        *)
Fits(f, rec) ==
    /\ Writable(rec)
    /\ rec.kind # "prediction" => \E j \in 1..Len(f) : f[j].rec = Ledger!Prediction(rec.pred)
    /\ \A k \in 1..Len(f) : f[k].rec.kind = rec.kind /\ f[k].rec.pred = rec.pred => f[k].rec = rec

(* A write leaves a sound file sound, or joins two lines; bytes that are no   *)
(* record and have no line feed never do.                                     *)
LEMMA WriteSound ==
  ASSUME NEW f, IsFile(f), Sound(f), \A i \in 1..Len(f) : f[i].rec # None,
         NEW rec, NEW nl \in BOOLEAN, Fits(f, rec) \/ (rec = None /\ ~ nl)
  PROVE  Sound(Ledger!Write(f, rec, nl)) \/ Joined(Ledger!Write(f, rec, nl))
<1>1. PICK g : /\ g = Ledger!Write(f, rec, nl) /\ IsFile(g)
               /\ \/ /\ Len(f) > 0 => f[Len(f)].nl
                     /\ Len(g) = Len(f) + 1 /\ \A i \in 1..Len(f) : g[i] = f[i]
                     /\ g[Len(g)] = [rec |-> rec, nl |-> nl]
                  \/ /\ Len(f) > 0 /\ ~ f[Len(f)].nl
                     /\ Len(g) = Len(f) /\ \A i \in 1..(Len(f) - 1) : g[i] = f[i]
                     /\ g[Len(g)] = [rec |-> None, nl |-> nl]
  <2> DEFINE g == Ledger!Write(f, rec, nl)
  <2>1. /\ IsFile(g)
        /\ \/ /\ Len(f) > 0 => f[Len(f)].nl
              /\ Len(g) = Len(f) + 1 /\ \A i \in 1..Len(f) : g[i] = f[i]
              /\ g[Len(g)] = [rec |-> rec, nl |-> nl]
           \/ /\ Len(f) > 0 /\ ~ f[Len(f)].nl
              /\ Len(g) = Len(f) /\ \A i \in 1..(Len(f) - 1) : g[i] = f[i]
              /\ g[Len(g)] = [rec |-> None, nl |-> nl]
    BY WriteExtends
  <2> HIDE DEF g
  <2> QED
    BY <2>1 DEF g
<1>2. Len(f) \in Nat /\ Len(g) \in Nat
  BY <1>1 DEF IsFile
<1>3. Len(g) > 0 /\ \A i \in 1..Len(g) : i # Len(g) => i \in 1..Len(f) /\ g[i] = f[i]
  BY <1>1, <1>2
<1>4. SUFFICES ASSUME ~ Joined(g)
               PROVE  Sound(g)
  BY <1>1
<1>5. g[Len(g)].rec = None => ~ g[Len(g)].nl
  <2> SUFFICES ASSUME g[Len(g)].rec = None, g[Len(g)].nl
               PROVE  FALSE
    OBVIOUS
  <2>1. g[Len(g)] = [rec |-> None, nl |-> nl]
    BY <1>1
  <2>2. nl = TRUE
    BY <2>1
  <2> QED
    BY <1>2, <1>3, <1>4, <2>1, <2>2 DEF Joined
<1>6. OnlyTailTorn(g)
  <2>1. \A i \in 1..Len(g) : i < Len(g) => g[i].nl
    <3> SUFFICES ASSUME NEW i \in 1..Len(g), i < Len(g)
                 PROVE  g[i].nl
      OBVIOUS
    <3>1. i \in 1..Len(f) /\ g[i] = f[i]
      BY <1>2, <1>3
    <3>2. i < Len(f) \/ (i = Len(f) /\ f[i].nl)
      BY <1>1, <1>2, <3>1
    <3> QED
      BY <3>1, <3>2 DEF Sound, OnlyTailTorn
  <2>2. \A i \in 1..Len(g) : g[i].rec = None => ~ g[i].nl
    BY <1>3, <1>5
  <2> QED
    BY <2>1, <2>2 DEF OnlyTailTorn
<1>7. g[Len(g)].rec # None => /\ Len(g) = Len(f) + 1 /\ \A i \in 1..Len(f) : g[i] = f[i]
                              /\ g[Len(g)].rec = rec /\ Fits(f, rec)
  BY <1>1
<1>8. InOrder(g)
  <2> SUFFICES ASSUME NEW i \in 1..Len(g), g[i].rec # None
               PROVE  /\ Writable(g[i].rec)
                      /\ g[i].rec.kind # "prediction" =>
                            \E j \in 1..(i - 1) : g[j].rec = Ledger!Prediction(g[i].rec.pred)
    BY DEF InOrder
  <2>1. CASE i = Len(g)
    <3>1. Fits(f, g[i].rec) /\ i - 1 = Len(f) /\ \A j \in 1..Len(f) : g[j] = f[j]
      BY <1>2, <1>7, <2>1
    <3> QED
      BY <3>1 DEF Fits
  <2>2. CASE i # Len(g)
    <3>1. i \in 1..Len(f) /\ g[i] = f[i]
      BY <1>3, <2>2
    <3>2. \A j \in 1..(i - 1) : g[j] = f[j]
      BY <1>2, <1>3, <2>2
    <3> QED
      BY <3>1, <3>2 DEF Sound, InOrder
  <2> QED
    BY <2>1, <2>2
<1>9. NoRivals(g)
  <2> SUFFICES ASSUME NEW i \in 1..Len(g), NEW k \in 1..Len(g),
                      g[i].rec # None, g[k].rec # None,
                      g[i].rec.kind = g[k].rec.kind, g[i].rec.pred = g[k].rec.pred
               PROVE  g[i].rec = g[k].rec
    BY DEF NoRivals
  <2>1. CASE i # Len(g) /\ k # Len(g)
    BY <1>3, <2>1 DEF Sound, NoRivals
  <2>2. CASE i = Len(g) /\ k # Len(g)
    <3>1. k \in 1..Len(f) /\ g[k] = f[k] /\ Fits(f, g[i].rec)
      BY <1>3, <1>7, <2>2
    <3> QED
      BY <3>1 DEF Fits
  <2>3. CASE i # Len(g) /\ k = Len(g)
    <3>1. i \in 1..Len(f) /\ g[i] = f[i] /\ Fits(f, g[k].rec)
      BY <1>3, <1>7, <2>3
    <3> QED
      BY <3>1 DEF Fits
  <2> QED
    BY <2>1, <2>2, <2>3
<1> QED
  BY <1>6, <1>8, <1>9 DEF Sound

(* What a worker may append to the file, which it loads first, fits into it.  *)
LEMMA AppendFits ==
  ASSUME LedgerInv, NEW w, NEW rec, Writable(rec),
         Ledger!Loads(lines), ~ Ledger!Refused(w, rec), ~ Ledger!Present(rec)
  PROVE  /\ Sound(lines) /\ IsFile(Ledger!Recovered(lines)) /\ Sound(Ledger!Recovered(lines))
         /\ \A i \in 1..Len(Ledger!Recovered(lines)) : Ledger!Recovered(lines)[i].rec # None
         /\ Fits(Ledger!Recovered(lines), rec)
<1> DEFINE g == Ledger!Recovered(lines)
<1>1. IsFile(lines) /\ Sound(lines)
  BY JoinedBreaks DEF LedgerInv
<1>2. IsFile(g)
  BY <1>1, RecoveryCuts
<1>3. Sound(g) /\ \A i \in 1..Len(g) : g[i].rec # None
  BY <1>1, RecoveredSound
<1>4. DOMAIN g = 1..Len(g)
  BY <1>2 DEF IsFile
<1>5. Ledger!Loaded(lines) = Ledger!RecordsOf(g)
  BY DEF Ledger!Loaded
<1> HIDE DEF g
<1>6. Ledger!Loaded(lines) = {g[i].rec : i \in 1..Len(g)}
  BY <1>3, <1>4, <1>5 DEF Ledger!RecordsOf
<1>7. \A i \in 1..Len(g) : g[i].rec # rec
  BY <1>6 DEF Ledger!Present
<1>8. rec.kind # "prediction" => /\ rec.pred \notin Ledger!Settled(Ledger!Loaded(lines))
                                 /\ rec.pred \in Ledger!Predicted(Ledger!Loaded(lines))
  BY DEF Ledger!Refused
<1>9. \A i \in 1..Len(g) : g[i].rec.kind = "prediction" => g[i].rec = Ledger!Prediction(g[i].rec.pred)
  <2> SUFFICES ASSUME NEW i \in 1..Len(g), g[i].rec.kind = "prediction"
               PROVE  g[i].rec = Ledger!Prediction(g[i].rec.pred)
    OBVIOUS
  <2>1. Writable(g[i].rec)
    BY <1>3 DEF Sound, InOrder
  <2> QED
    BY <2>1 DEF Writable
<1>10. rec.kind # "prediction" => \E j \in 1..Len(g) : g[j].rec = Ledger!Prediction(rec.pred)
  <2> SUFFICES ASSUME rec.kind # "prediction"
               PROVE  \E j \in 1..Len(g) : g[j].rec = Ledger!Prediction(rec.pred)
    OBVIOUS
  <2>1. PICK r \in Ledger!Loaded(lines) : r.kind = "prediction" /\ r.pred = rec.pred
    BY <1>8 DEF Ledger!Predicted
  <2>2. PICK j \in 1..Len(g) : r = g[j].rec
    BY <1>6
  <2> QED
    BY <1>9, <2>1, <2>2
<1>11. \A k \in 1..Len(g) : ~ (g[k].rec.kind = rec.kind /\ g[k].rec.pred = rec.pred)
  <2> SUFFICES ASSUME NEW k \in 1..Len(g), g[k].rec.kind = rec.kind, g[k].rec.pred = rec.pred
               PROVE  FALSE
    OBVIOUS
  <2>1. CASE rec.kind = "prediction"
    <3>1. rec = Ledger!Prediction(rec.pred)
      BY <2>1 DEF Writable
    <3> QED
      BY <1>7, <1>9, <2>1, <3>1
  <2>2. CASE rec.kind # "prediction"
    <3>1. rec.kind = "settlement"
      BY <2>2 DEF Writable, Ledger!Prediction
    <3>2. g[k].rec \in Ledger!Loaded(lines)
      BY <1>6
    <3> QED
      BY <1>8, <2>2, <3>1, <3>2 DEF Ledger!Settled
  <2> QED
    BY <2>1, <2>2
<1> QED
  BY <1>1, <1>2, <1>3, <1>10, <1>11 DEF Fits, g

(* A step of the ledger changes the file as one of these: it leaves it, it    *)
(* recovers it, or it appends, whole or in part, what fits.                   *)
Appended(f, g, rec) ==
    /\ Fits(Ledger!Recovered(f), rec)
    /\ g \in {Ledger!Write(Ledger!Recovered(f), rec, TRUE),
              Ledger!Write(Ledger!Recovered(f), rec, FALSE),
              Ledger!Write(Ledger!Recovered(f), None, FALSE)}
Grows(f, g) ==
    \/ g = f
    \/ Ledger!Loads(f) /\ g = Ledger!Recovered(f)
    \/ Ledger!Loads(f) /\ \E rec : Appended(f, g, rec)

(* What the file becomes in the steps of a worker that appends.               *)
LEMMA AppendGrows ==
  ASSUME LedgerInv, NEW w \in Workers, NEW rec \in batch[w],
         \/ Ledger!AppendFails(w, rec) \/ Ledger!AppendDone(w, rec) \/ Ledger!AppendCut(w, rec)
  PROVE  Grows(lines, lines')
<1>1. Writable(rec)
  BY DEF LedgerInv
<1>2. CASE Ledger!AppendFails(w, rec)
  BY <1>2 DEF Ledger!AppendFails, Grows
<1>3. CASE Ledger!AppendDone(w, rec) /\ Ledger!Present(rec)
  BY <1>3 DEF Ledger!AppendDone, Grows
<1>4. CASE Ledger!AppendDone(w, rec) /\ ~ Ledger!Present(rec)
  <2>1. /\ Ledger!Loads(lines) /\ ~ Ledger!Refused(w, rec)
        /\ lines' = Ledger!Write(Ledger!Recovered(lines), rec, TRUE)
    BY <1>4 DEF Ledger!AppendDone
  <2>2. Fits(Ledger!Recovered(lines), rec)
    BY <1>1, <1>4, <2>1, AppendFits
  <2> QED
    BY <2>1, <2>2 DEF Grows, Appended
<1>5. CASE Ledger!AppendCut(w, rec)
  <2>1. /\ Ledger!Loads(lines) /\ ~ Ledger!Refused(w, rec) /\ ~ Ledger!Present(rec)
        /\ lines' \in Ledger!Cut(Ledger!Recovered(lines), rec)
    BY <1>5 DEF Ledger!AppendCut
  <2>2. Fits(Ledger!Recovered(lines), rec)
    BY <1>1, <2>1, AppendFits
  <2> QED
    BY <2>1, <2>2 DEF Grows, Appended, Ledger!Cut
<1> QED
  BY <1>2, <1>3, <1>4, <1>5

(* What the file becomes in any step.                                         *)
LEMMA StepGrows ==
  ASSUME LedgerInv, Ledger!Next
  PROVE  Grows(lines, lines')
<1>1. CASE Ledger!NextDay \/ \E p \in Preds : Ledger!PriceAppears(p)
  BY <1>1 DEF Ledger!NextDay, Ledger!PriceAppears, Grows
<1>2. CASE \E w \in Workers : \/ \E k \in {"predict", "settle"} : Ledger!Launch(w, k)
                              \/ Ledger!OpenRefused(w) \/ Ledger!Finish(w)
  BY <1>2 DEF Ledger!Launch, Ledger!OpenRefused, Ledger!Finish, Grows
<1>3. CASE \E w \in Workers : Ledger!OpenPredict(w) \/ Ledger!SettleBlocked(w) \/ Ledger!OpenSettle(w)
  BY <1>3 DEF Ledger!OpenPredict, Ledger!SettleBlocked, Ledger!OpenSettle, Grows
<1>4. CASE \E w \in Workers : \E rec \in batch[w] :
              \/ Ledger!AppendFails(w, rec) \/ Ledger!AppendDone(w, rec) \/ Ledger!AppendCut(w, rec)
  BY <1>4, AppendGrows
<1> QED
  BY <1>1, <1>2, <1>3, <1>4 DEF Ledger!Next, Ledger!Work

(* A file that grows so stays a sound one, or one with a joined line.         *)
LEMMA GrowsSound ==
  ASSUME NEW f, IsFile(f), Sound(f) \/ Joined(f), NEW g, Grows(f, g)
  PROVE  IsFile(g) /\ (Sound(g) \/ Joined(g))
<1>1. CASE g = f
  BY <1>1
<1>2. CASE Ledger!Loads(f) /\ g = Ledger!Recovered(f)
  BY <1>2, JoinedBreaks, RecoveryCuts, RecoveredSound
<1>3. CASE Ledger!Loads(f) /\ \E rec : Appended(f, g, rec)
  <2>1. PICK rec : Appended(f, g, rec)
    BY <1>3
  <2>2. Sound(f)
    BY <1>3, JoinedBreaks
  <2> DEFINE h == Ledger!Recovered(f)
  <2>3. IsFile(h) /\ Sound(h) /\ \A i \in 1..Len(h) : h[i].rec # None
    BY <2>2, RecoveryCuts, RecoveredSound
  <2>4. /\ Fits(h, rec)
        /\ g \in {Ledger!Write(h, rec, TRUE), Ledger!Write(h, rec, FALSE), Ledger!Write(h, None, FALSE)}
    BY <2>1 DEF Appended
  <2> HIDE DEF h
  <2>5. \A nl \in BOOLEAN : /\ IsFile(Ledger!Write(h, rec, nl))
                            /\ Sound(Ledger!Write(h, rec, nl)) \/ Joined(Ledger!Write(h, rec, nl))
    BY <2>3, <2>4, WriteSound, WriteExtends
  <2>6. /\ IsFile(Ledger!Write(h, None, FALSE))
        /\ Sound(Ledger!Write(h, None, FALSE)) \/ Joined(Ledger!Write(h, None, FALSE))
    BY <2>3, WriteSound, WriteExtends
  <2> QED
    BY <2>4, <2>5, <2>6
<1> QED
  BY <1>1, <1>2, <1>3 DEF Grows

(* And keeps its terminated lines.                                            *)
LEMMA GrowsKeeps ==
  ASSUME NEW f, IsFile(f), NEW g, Grows(f, g)
  PROVE  Keeps(f, g)
<1>1. Keeps(f, f) /\ Keeps(f, Ledger!Recovered(f))
  BY LinesKept DEF Keeps
<1>2. \A rec : \A nl \in BOOLEAN : Keeps(f, Ledger!Write(Ledger!Recovered(f), rec, nl))
  BY LinesKept
<1> QED
  BY <1>1, <1>2 DEF Grows, Appended

(* The batch of a worker only ever holds what it may append.                  *)
LEMMA BatchWritable ==
  ASSUME LedgerInv, Ledger!Next
  PROVE  /\ batch' = [w \in Workers |-> batch'[w]]
         /\ \A w \in Workers : \A rec \in batch'[w] : Writable(rec)
<1> DEFINE OK(b) == /\ b = [w \in Workers |-> b[w]]
                    /\ \A w \in Workers : \A rec \in b[w] : Writable(rec)
<1>1. OK(batch)
  BY DEF LedgerInv
<1>2. \A w \in Workers : \A recs : (\A rec \in recs : Writable(rec)) => OK([batch EXCEPT ![w] = recs])
  BY <1>1
<1>3. \A p : Writable(Ledger!Prediction(p))
  BY DEF Writable, Ledger!Prediction
<1>4. \A p, r : Writable([kind |-> "settlement", pred |-> p, run |-> r])
  BY DEF Writable
<1> HIDE DEF OK
<1>5. CASE \/ Ledger!NextDay \/ \E p \in Preds : Ledger!PriceAppears(p)
           \/ \E w \in Workers : \E k \in {"predict", "settle"} : Ledger!Launch(w, k)
  <2>1. batch' = batch
    BY <1>5 DEF Ledger!NextDay, Ledger!PriceAppears, Ledger!Launch, Ledger!worker
  <2> QED
    BY <1>1, <2>1 DEF OK
<1>6. CASE \E w \in Workers :
              \/ Ledger!OpenRefused(w) \/ Ledger!SettleBlocked(w) \/ Ledger!Finish(w)
              \/ \E rec \in batch[w] : Ledger!AppendFails(w, rec) \/ Ledger!AppendCut(w, rec)
  <2>1. PICK w \in Workers : batch' = [batch EXCEPT ![w] = {}]
    BY <1>6 DEF Ledger!OpenRefused, Ledger!SettleBlocked, Ledger!Finish, Ledger!AppendFails,
         Ledger!AppendCut, Ledger!Ended
  <2>2. OK(batch')
    BY <1>2, <2>1
  <2> QED
    BY <2>2 DEF OK
<1>7. CASE \E w \in Workers : Ledger!OpenPredict(w)
  <2>1. PICK w \in Workers : \E ps :
            batch' = [batch EXCEPT ![w] = {Ledger!Prediction(p) : p \in ps}]
    BY <1>7 DEF Ledger!OpenPredict
  <2>2. PICK ps : batch' = [batch EXCEPT ![w] = {Ledger!Prediction(p) : p \in ps}]
    BY <2>1
  <2> DEFINE predicted == {Ledger!Prediction(p) : p \in ps}
  <2>3. \A rec \in predicted : Writable(rec)
    BY <1>3
  <2>4. batch' = [batch EXCEPT ![w] = predicted]
    BY <2>2
  <2> HIDE DEF predicted
  <2>5. OK(batch')
    BY <1>2, <2>3, <2>4
  <2> QED
    BY <2>5 DEF OK
<1>8. CASE \E w \in Workers : Ledger!OpenSettle(w)
  <2>1. PICK w \in Workers : Ledger!OpenSettle(w)
    BY <1>8
  <2> DEFINE due == Ledger!Due(Ledger!Loaded(lines), clock[w])
             settled == {[kind |-> "settlement", pred |-> p, run |-> Ledger!FreshRun] : p \in due}
  <2>2. batch' = [batch EXCEPT ![w] = settled]
    BY <2>1 DEF Ledger!OpenSettle
  <2>3. \A rec \in settled : Writable(rec)
    <3> HIDE DEF due
    <3> QED
      BY <1>4
  <2> HIDE DEF settled
  <2>4. OK(batch')
    BY <1>2, <2>2, <2>3
  <2> QED
    BY <2>4 DEF OK
<1>9. CASE \E w \in Workers : \E rec \in batch[w] : Ledger!AppendDone(w, rec)
  <2>1. PICK w \in Workers : \E rec \in batch[w] : batch' = [batch EXCEPT ![w] = batch[w] \ {rec}]
    BY <1>9 DEF Ledger!AppendDone
  <2>2. \A rec \in batch[w] : Writable(rec)
    BY <1>1 DEF OK
  <2>3. PICK recs : batch' = [batch EXCEPT ![w] = recs] /\ \A rec \in recs : Writable(rec)
    BY <2>1, <2>2
  <2>4. OK(batch')
    BY <1>2, <2>3
  <2> QED
    BY <2>4 DEF OK
<1> QED
  BY <1>5, <1>6, <1>7, <1>8, <1>9 DEF Ledger!Next, Ledger!Work

(* Every other scene leaves the ledger alone.                                 *)
LEMMA LedgerAlone ==
  ASSUME [Next]_vars
  PROVE  (scene = "ledger" /\ Ledger!Next) \/ UNCHANGED ledgerVars
BY DEF Next, vars, In, Research

(* The file is at all times a sound one or one with a joined line, and the    *)
(* workers hold only what they may append: LedgerInv is inductive.            *)
THEOREM LedgerAlways == Spec => []LedgerInv
<1>1. Init => LedgerInv
  <2> SUFFICES ASSUME Ledger!Init
               PROVE  LedgerInv
    BY DEF Init
  <2>1. lines = <<>> /\ batch = [w \in Workers |-> {}]
    BY DEF Ledger!Init
  <2>2. IsFile(lines)
    BY <2>1 DEF IsFile
  <2>3. Len(lines) = 0
    BY <2>1
  <2> QED
    BY <2>1, <2>2, <2>3 DEF LedgerInv, Sound, OnlyTailTorn, InOrder, NoRivals
<1>2. LedgerInv /\ [Next]_vars => LedgerInv'
  <2> SUFFICES ASSUME LedgerInv, [Next]_vars
               PROVE  LedgerInv'
    OBVIOUS
  <2>1. CASE Ledger!Next
    <3>1. IsFile(lines') /\ (Sound(lines') \/ Joined(lines'))
      BY <2>1, StepGrows, GrowsSound DEF LedgerInv
    <3>2. /\ batch' = [w \in Workers |-> batch'[w]]
          /\ \A w \in Workers : \A rec \in batch'[w] : Writable(rec)
      BY <2>1, BatchWritable
    <3> QED
      BY <3>1, <3>2 DEF LedgerInv
  <2>2. CASE UNCHANGED ledgerVars
    <3>1. lines' = lines /\ batch' = batch
      BY <2>2 DEF ledgerVars
    <3> QED
      BY <3>1 DEF LedgerInv
  <2> QED
    BY <2>1, <2>2, LedgerAlone
<1> QED
  BY <1>1, <1>2, PTL DEF Spec

(* For any number of workers that race to predict and to settle, and of       *)
(* writes cut off at any point: a ledger that does not load has a line that   *)
(* was continued after its line feed was lost.                                *)
THEOREM OnlyJoinsBreak == Spec => []OnlyJoinedLinesBreak
<1>1. LedgerInv => OnlyJoinedLinesBreak
  <2> SUFFICES ASSUME LedgerInv, Joined(lines)
               PROVE  [rec |-> None, nl |-> TRUE] \in Ledger!Range(lines)
    BY SoundLoads DEF LedgerInv, OnlyJoinedLinesBreak, Ledger!OnlyJoinedLinesBreak
  <2>1. DOMAIN lines = 1..Len(lines)
    BY DEF LedgerInv, IsFile
  <2> QED
    BY <2>1 DEF Joined, Ledger!Range
<1> QED
  BY <1>1, LedgerAlways, PTL

(* The ledger is append-only: whatever the workers do, and wherever they are  *)
(* cut off, no step removes, moves or rewrites a terminated line.             *)
THEOREM LinesStay == Spec => HistoryKept
<1> DEFINE Kept == \A i \in DOMAIN lines :
                      lines[i].nl => i \in DOMAIN lines' /\ lines'[i] = lines[i]
<1>1. LedgerInv /\ [Next]_vars => [Kept]_(Ledger!vars)
  <2> SUFFICES ASSUME LedgerInv, [Next]_vars
               PROVE  [Kept]_(Ledger!vars)
    OBVIOUS
  <2>1. CASE Ledger!Next
    <3>1. Keeps(lines, lines')
      BY <2>1, StepGrows, GrowsKeeps DEF LedgerInv
    <3> QED
      BY <3>1 DEF Keeps
  <2>2. CASE UNCHANGED ledgerVars
    BY <2>2 DEF ledgerVars, Ledger!vars, Ledger!worker
  <2> QED
    BY <2>1, <2>2, LedgerAlone
<1> QED
  BY <1>1, LedgerAlways, PTL DEF Spec, HistoryKept, Ledger!HistoryKept

------------------------------------------------------------------------------
(* The prospective contest, with one tick that freezes and one worker that    *)
(* predicts.                                                                  *)

Contests == [id : Nat, bundle : Bundles, input : Nat, start : Nat, day : Nat]
Artifacts == [number : Nat, day : Nat, bundle : Bundles]
Rows == [bundle : Bundles, contest : Nat, day : Nat, input : Nat, symbol : Stocks]
F == freezer["tick"]
W == predictor["worker"]

ContestTypeOK ==
    /\ bundle \in Bundles /\ today \in Nat \ {0} /\ over \in BOOLEAN
    /\ made \in Nat /\ frozen \in Nat
    /\ artifact \in {None} \union Artifacts
    /\ contest \in {None, Contest!Torn} \union Contests
    /\ rows \in SUBSET Rows
    /\ freezer = [f \in {"tick"} |-> F]
    /\ F.step \in {"idle", "register", "archive", "move", "create", "write"}
    /\ F.step \in {"create", "write"} => F.is \in Contests
    /\ predictor = [p \in {"worker"} |-> W]
    /\ W.step \in {"idle", "contest", "append"}
    /\ W.step \in {"contest", "append"} => W.of \in Contests
    /\ W.step = "append" =>
          /\ W = [step |-> "append", of |-> W.of, input |-> W.input, todo |-> W.todo]
          /\ W.input \in Artifacts /\ W.todo \subseteq Stocks

(* The artifact that a contest is frozen from is not one that was generated   *)
(* after it started.                                                          *)
BoundBefore(c) == c.input <= c.start
StartsLater ==
    /\ artifact # None => artifact.number <= made
    /\ Contest!Whole => BoundBefore(contest)
    /\ F.step \in {"create", "write"} => BoundBefore(F.is)
    /\ W.step \in {"contest", "append"} => BoundBefore(W.of)

(* What was recorded is not of a day to come, nor is the artifact; and what   *)
(* the worker still appends agrees with what was recorded for that day.       *)
Agreed ==
    /\ \A r \in rows : r.day <= today
    /\ artifact # None => artifact.day <= today
    /\ W.step = "append" =>
          /\ W.input.day <= today
          /\ \A r \in rows : r.bundle = W.of.bundle /\ r.day = W.input.day =>
                r.input = W.input.number

(* An archive is named for what it is; what the tick is about to move is the  *)
(* contest that it named the archive for.                                     *)
NameOf(c) == [of |-> c, by |-> None]
Named ==
    /\ \A a \in archive : a.name = NameOf(a.is)
    /\ F.step = "move" => F.name = NameOf(contest)
    /\ F.step \in {"archive", "move"} => Contest!Whole
    /\ F.step = "write" => contest = Contest!Torn

(* The contest that the worker holds is active or archived.                   *)
Kept(i) == \/ Contest!Whole /\ contest.id = i
           \/ \E a \in archive : a.is.id = i
HeldKept == W.step # "idle" => Kept(W.of.id)

ContestInv ==
    /\ ContestTypeOK /\ StartsLater /\ Agreed /\ Named /\ HeldKept
    /\ Contest!OneInputPerDay /\ Contest!ContestKept

(* What a step of the tick makes of it.                                       *)
LEMMA TickIs ==
  ASSUME ContestInv, NEW next, Contest!Freezing("tick", next)
  PROVE  F' = next /\ freezer' = [f \in {"tick"} |-> F']
BY DEF Contest!Freezing, F, ContestInv, ContestTypeOK

(* What a step of the worker makes of it.                                     *)
LEMMA WorkerIs ==
  ASSUME ContestInv, NEW next, Contest!Predicting("worker", next)
  PROVE  W' = next /\ predictor' = [p \in {"worker"} |-> W']
BY DEF Contest!Predicting, W, ContestInv, ContestTypeOK

(* Everything but the tick, and everything but the worker, stays as it is.    *)
TickOnly == UNCHANGED <<bundle, today, over, artifact, made, contest, archive, frozen, predictor, rows>>
WorkerOnly == UNCHANGED <<bundle, today, over, artifact, made, contest, archive, frozen, freezer>>

(* The tick decides on its next step, and leaves the files alone.             *)
LEMMA TickPlans ==
  ASSUME ContestInv, TickOnly, NEW next, Contest!Freezing("tick", next),
         \/ next = Contest!Idle
         \/ next.step = "register"
         \/ next.step = "archive" /\ Contest!Whole
         \/ next.step = "move" /\ Contest!Whole /\ next.name = NameOf(contest)
         \/ next.step = "create" /\ next.is \in Contests /\ BoundBefore(next.is)
  PROVE  ContestInv'
<1>1. F' = next /\ freezer' = [f \in {"tick"} |-> F']
  BY TickIs
<1>2. W' = W
  BY DEF TickOnly, W
<1>3. F'.step \in {"idle", "register", "archive", "move", "create"}
  BY <1>1 DEF Contest!Idle
<1>4. ContestTypeOK'
  <2>1. F'.step \in {"create", "write"} => F'.is \in Contests
    BY <1>1, <1>3 DEF Contest!Idle
  <2> QED
    BY <1>1, <1>2, <1>3, <2>1 DEF TickOnly, ContestInv, ContestTypeOK
<1>5. StartsLater'
  <2>1. F'.step \in {"create", "write"} => BoundBefore(F'.is)
    BY <1>1, <1>3 DEF Contest!Idle
  <2> QED
    BY <1>2, <2>1 DEF TickOnly, ContestInv, StartsLater, BoundBefore, Contest!Whole, Contest!Torn
<1>6. Agreed'
  BY <1>2 DEF TickOnly, ContestInv, Agreed
<1>7. Contest!Whole' <=> Contest!Whole
  BY DEF TickOnly, Contest!Whole, Contest!Torn
<1>8. Named'
  <2>1. F'.step = "move" => F'.name = NameOf(contest)
    BY <1>1, <1>3 DEF Contest!Idle
  <2>2. F'.step \in {"archive", "move"} => Contest!Whole
    BY <1>1, <1>3 DEF Contest!Idle
  <2> QED
    BY <1>3, <1>7, <2>1, <2>2 DEF TickOnly, ContestInv, Named, NameOf
<1>9. HeldKept' /\ Contest!OneInputPerDay' /\ Contest!ContestKept'
  BY <1>2, <1>7 DEF TickOnly, ContestInv, HeldKept, Kept, Contest!OneInputPerDay, Contest!ContestKept
<1> QED
  BY <1>4, <1>5, <1>6, <1>8, <1>9 DEF ContestInv

(* Whatever contest was active or archived stays so when the tick archives    *)
(* the contest that it named the archive for.                                 *)
LEMMA MoveKeeps ==
  ASSUME ContestInv, F.step = "move",
         archive' = {a \in archive : a.name # F.name} \cup {[name |-> F.name, is |-> contest]},
         contest' = None,
         NEW i, Kept(i)
  PROVE  \E a \in archive' : a.is.id = i
<1> DEFINE new == [name |-> F.name, is |-> contest]
<1>0. new \in archive' /\ new.is = contest /\ F.name = NameOf(contest)
  BY DEF ContestInv, Named
<1>1. CASE Contest!Whole /\ contest.id = i
  BY <1>0, <1>1
<1>2. CASE \E a \in archive : a.is.id = i
  <2>1. PICK a \in archive : a.is.id = i
    BY <1>2
  <2>2. CASE a.name # F.name
    BY <2>1, <2>2
  <2>3. CASE a.name = F.name
    <3>1. NameOf(a.is) = NameOf(contest)
      BY <1>0, <2>3 DEF ContestInv, Named
    <3>2. a.is = contest
      <4>1. NameOf(a.is).of = NameOf(contest).of
        BY <3>1
      <4> QED
        BY <4>1 DEF NameOf
    <3> QED
      BY <1>0, <2>1, <3>2
  <2> QED
    BY <2>2, <2>3
<1> QED
  BY <1>1, <1>2 DEF Kept

(* The tick moves the contest into the archive.                               *)
LEMMA MoveStep ==
  ASSUME ContestInv, Contest!Move("tick")
  PROVE  ContestInv'
<1>1. F.step = "move" /\ Contest!Whole /\ F.name = NameOf(contest)
  BY DEF Contest!Move, Contest!Step, F, ContestInv, Named
<1>2. /\ contest # None /\ ~ Contest!BeingWritten
  BY <1>1 DEF Contest!Whole, Contest!BeingWritten, Contest!Step, F
<1>3. /\ archive' = {a \in archive : a.name # F.name} \cup {[name |-> F.name, is |-> contest]}
      /\ contest' = None
      /\ Contest!Freezing("tick", [step |-> "register"])
      /\ UNCHANGED <<bundle, today, over, artifact, made, frozen, predictor, rows>>
  BY <1>2 DEF Contest!Move, Contest!Market, F
<1>4. F' = [step |-> "register"] /\ freezer' = [f \in {"tick"} |-> F']
  BY <1>3, TickIs
<1>5. W' = W
  BY <1>3 DEF W
<1>6. F'.step = "register"
  BY <1>4
<1>7. ContestTypeOK'
  BY <1>3, <1>4, <1>5, <1>6 DEF ContestInv, ContestTypeOK
<1>8. StartsLater'
  <2>1. ~ Contest!Whole'
    BY <1>3 DEF Contest!Whole
  <2> QED
    BY <1>3, <1>5, <1>6, <2>1 DEF ContestInv, StartsLater, BoundBefore
<1>9. Agreed'
  BY <1>3, <1>5 DEF ContestInv, Agreed
<1>10. Named'
  <2>1. \A a \in archive' : a.name = NameOf(a.is)
    BY <1>1, <1>3 DEF ContestInv, Named
  <2> QED
    BY <1>6, <2>1 DEF Named, NameOf
<1>11. HeldKept'
  BY <1>1, <1>3, <1>5, MoveKeeps DEF ContestInv, HeldKept, Kept
<1>12. Contest!ContestKept'
  <2>1. \A r \in rows : Kept(r.contest)
    BY DEF ContestInv, Contest!ContestKept, Kept
  <2> QED
    BY <1>1, <1>3, <2>1, MoveKeeps DEF Contest!ContestKept
<1>13. Contest!OneInputPerDay'
  BY <1>3 DEF ContestInv, Contest!OneInputPerDay
<1> QED
  BY <1>7, <1>8, <1>9, <1>10, <1>11, <1>12, <1>13 DEF ContestInv

(* With no contest that can be read, only archived ones are kept; and what is *)
(* archived stays kept while the archive stays.                               *)
LEMMA ArchivedKept ==
  ASSUME ContestInv, ~ Contest!Whole, UNCHANGED <<archive, rows, predictor>>
  PROVE  HeldKept' /\ Contest!ContestKept'
<1>1. \A i : Kept(i) => \E a \in archive' : a.is.id = i
  BY DEF Kept
<1>2. W' = W
  BY DEF W
<1> QED
  BY <1>1, <1>2 DEF ContestInv, HeldKept, Kept, Contest!ContestKept

(* The tick creates the file of a contest, or finds one there.                *)
LEMMA CreateStep ==
  ASSUME ContestInv, Contest!Create("tick")
  PROVE  ContestInv'
<1>1. CASE contest # None
  <2>1. TickOnly /\ Contest!Freezing("tick", Contest!Idle)
    BY <1>1 DEF Contest!Create, Contest!Market, TickOnly
  <2> QED
    BY <2>1, TickPlans
<1>2. CASE contest = None
  <2> DEFINE is == [F.is EXCEPT !.id = frozen + 1]
  <2>1. /\ F.step = "create" /\ contest' = Contest!Torn /\ frozen' = frozen + 1
        /\ Contest!Freezing("tick", [step |-> "write", is |-> is])
        /\ UNCHANGED <<bundle, today, over, artifact, made, archive, predictor, rows>>
    BY <1>2 DEF Contest!Create, Contest!Market, Contest!Step, F
  <2>2. F.is \in Contests /\ BoundBefore(F.is) /\ frozen \in Nat
    BY <2>1 DEF ContestInv, ContestTypeOK, StartsLater
  <2>3. is \in Contests /\ is.input = F.is.input /\ is.start = F.is.start
    BY <2>2 DEF Contests
  <2> HIDE DEF is
  <2>4. F' = [step |-> "write", is |-> is] /\ freezer' = [f \in {"tick"} |-> F']
    BY <2>1, TickIs
  <2>5. F'.step = "write" /\ F'.is = is
    BY <2>4
  <2>6. W' = W
    BY <2>1 DEF W
  <2>7. ~ Contest!Whole /\ ~ Contest!Whole'
    BY <1>2, <2>1 DEF Contest!Whole, Contest!Torn
  <2>8. ContestTypeOK'
    BY <2>1, <2>2, <2>3, <2>4, <2>5, <2>6 DEF ContestInv, ContestTypeOK, Contest!Torn
  <2>9. StartsLater'
    BY <2>1, <2>2, <2>3, <2>5, <2>6, <2>7 DEF ContestInv, StartsLater, BoundBefore
  <2>10. Agreed'
    BY <2>1, <2>6 DEF ContestInv, Agreed
  <2>11. Named'
    BY <2>1, <2>5 DEF ContestInv, Named, NameOf, Contest!Torn
  <2>12. HeldKept' /\ Contest!ContestKept'
    BY <2>1, <2>7, ArchivedKept
  <2>13. Contest!OneInputPerDay'
    BY <2>1 DEF ContestInv, Contest!OneInputPerDay
  <2> QED
    BY <2>8, <2>9, <2>10, <2>11, <2>12, <2>13 DEF ContestInv
<1> QED
  BY <1>1, <1>2

(* The tick has written the contest.                                          *)
LEMMA WrittenStep ==
  ASSUME ContestInv, Contest!Written("tick")
  PROVE  ContestInv'
<1>1. /\ F.step = "write" /\ contest' = F.is
      /\ Contest!Freezing("tick", Contest!Idle)
      /\ UNCHANGED <<bundle, today, over, artifact, made, archive, frozen, predictor, rows>>
  BY DEF Contest!Written, Contest!Market, Contest!Step, F
<1>2. F.is \in Contests /\ BoundBefore(F.is) /\ ~ Contest!Whole
  BY <1>1 DEF ContestInv, ContestTypeOK, StartsLater, Named, Contest!Whole
<1>3. F' = Contest!Idle /\ freezer' = [f \in {"tick"} |-> F']
  BY <1>1, TickIs
<1>4. F'.step = "idle" /\ W' = W
  BY <1>1, <1>3 DEF W, Contest!Idle
<1>5. ContestTypeOK'
  BY <1>1, <1>2, <1>3, <1>4 DEF ContestInv, ContestTypeOK, Contest!Torn
<1>6. StartsLater'
  BY <1>1, <1>2, <1>4 DEF ContestInv, StartsLater, BoundBefore
<1>7. Agreed'
  BY <1>1, <1>4 DEF ContestInv, Agreed
<1>8. Named'
  BY <1>1, <1>4 DEF ContestInv, Named, NameOf
<1>9. HeldKept' /\ Contest!ContestKept'
  BY <1>1, <1>2, ArchivedKept
<1>10. Contest!OneInputPerDay'
  BY <1>1 DEF ContestInv, Contest!OneInputPerDay
<1> QED
  BY <1>5, <1>6, <1>7, <1>8, <1>9, <1>10 DEF ContestInv

(* Every step of the tick keeps the invariant.                                *)
LEMMA TickStep ==
  ASSUME ContestInv,
         \/ Contest!Freeze("tick") \/ Contest!NameArchive("tick") \/ Contest!Move("tick")
         \/ Contest!Register("tick") \/ Contest!Create("tick") \/ Contest!Written("tick")
  PROVE  ContestInv'
<1>1. CASE Contest!Freeze("tick")
  <2> DEFINE next == [step |-> IF contest = None THEN "register" ELSE "archive"]
  <2>1. /\ contest = None \/ Contest!Whole
        /\ Contest!Freezing("tick", next) /\ TickOnly
    BY <1>1 DEF Contest!Freeze, Contest!Market, TickOnly
  <2>2. next.step = "register" \/ (next.step = "archive" /\ Contest!Whole)
    BY <2>1
  <2> HIDE DEF next
  <2> QED
    BY <2>1, <2>2, TickPlans
<1>2. CASE Contest!NameArchive("tick")
  <2>1. F.step = "archive" /\ Contest!Whole /\ contest # None
    BY <1>2 DEF Contest!NameArchive, Contest!Step, F, ContestInv, Named, Contest!Whole
  <2>2. \A a \in archive : ~ (a.name = [of |-> contest, by |-> None] /\ a.is # contest)
    <3> SUFFICES ASSUME NEW a \in archive, a.name = NameOf(contest)
                 PROVE  a.is = contest
      BY DEF NameOf
    <3>1. NameOf(a.is).of = NameOf(contest).of
      BY DEF ContestInv, Named
    <3> QED
      BY <3>1 DEF NameOf
  <2>3. Contest!ArchiveName("tick", contest) = NameOf(contest)
    BY <2>2 DEF Contest!ArchiveName, NameOf
  <2> DEFINE next == [step |-> "move", name |-> NameOf(contest)]
  <2>4. Contest!Freezing("tick", next) /\ TickOnly
    BY <1>2, <2>1, <2>3 DEF Contest!NameArchive, Contest!Market, TickOnly
  <2>5. next.step = "move" /\ next.name = NameOf(contest)
    OBVIOUS
  <2> HIDE DEF next
  <2> QED
    BY <2>1, <2>4, <2>5, TickPlans
<1>3. CASE Contest!Register("tick")
  <2>1. TickOnly
    BY <1>3 DEF Contest!Register, Contest!Market, TickOnly
  <2>2. CASE artifact # None /\ artifact.bundle = bundle
    <3> DEFINE is == [id |-> 0, bundle |-> bundle, input |-> artifact.number,
                      start |-> made, day |-> today]
               next == [step |-> "create", is |-> is]
    <3>1. Contest!Freezing("tick", next)
      BY <1>3, <2>2 DEF Contest!Register
    <3>2. artifact \in Artifacts /\ artifact.number <= made
      BY <2>2 DEF ContestInv, ContestTypeOK, StartsLater
    <3>3. is \in Contests /\ BoundBefore(is)
      BY <3>2 DEF ContestInv, ContestTypeOK, Contests, Artifacts, BoundBefore
    <3>4. next.step = "create" /\ next.is = is
      OBVIOUS
    <3> HIDE DEF next, is
    <3> QED
      BY <2>1, <3>1, <3>3, <3>4, TickPlans
  <2>3. CASE ~ (artifact # None /\ artifact.bundle = bundle)
    <3>1. Contest!Freezing("tick", Contest!Idle)
      BY <1>3, <2>3 DEF Contest!Register
    <3> QED
      BY <2>1, <3>1, TickPlans
  <2> QED
    BY <2>2, <2>3
<1> QED
  BY <1>1, <1>2, <1>3, MoveStep, CreateStep, WrittenStep

(* The worker decides on its next step, and leaves the ledger alone.          *)
LEMMA WorkerPlans ==
  ASSUME ContestInv, WorkerOnly, rows' = rows, NEW next, Contest!Predicting("worker", next),
         \/ next = Contest!Idle
         \/ /\ next.step = "contest" /\ next.of \in Contests
            /\ BoundBefore(next.of) /\ Kept(next.of.id)
         \/ /\ next = [step |-> "append", of |-> next.of, input |-> next.input, todo |-> next.todo]
            /\ next.of \in Contests /\ BoundBefore(next.of) /\ Kept(next.of.id)
            /\ next.input \in Artifacts /\ next.todo \subseteq Stocks /\ next.input.day <= today
            /\ \A r \in rows : r.bundle = next.of.bundle /\ r.day = next.input.day =>
                  r.input = next.input.number
  PROVE  ContestInv'
<1>1. W' = next /\ predictor' = [p \in {"worker"} |-> W']
  BY WorkerIs
<1>2. F' = F
  BY DEF WorkerOnly, F
<1>3. (next.step \in {"idle", "contest", "append"}) /\ (next = Contest!Idle => next.step = "idle")
  <2>1. next = Contest!Idle => next.step = "idle"
    BY DEF Contest!Idle
  <2>2. next = [step |-> "append", of |-> next.of, input |-> next.input, todo |-> next.todo] =>
           next.step = "append"
    OBVIOUS
  <2> QED
    BY <2>1, <2>2
<1>4. /\ next.step \in {"contest", "append"} =>
            next.of \in Contests /\ BoundBefore(next.of) /\ Kept(next.of.id)
      /\ next.step = "append" =>
            /\ next = [step |-> "append", of |-> next.of, input |-> next.input, todo |-> next.todo]
            /\ next.input \in Artifacts /\ next.todo \subseteq Stocks /\ next.input.day <= today
            /\ \A r \in rows : r.bundle = next.of.bundle /\ r.day = next.input.day =>
                  r.input = next.input.number
  BY <1>3
<1>5. Contest!Whole' <=> Contest!Whole
  BY DEF WorkerOnly, Contest!Whole, Contest!Torn
<1>6. ContestTypeOK'
  BY <1>1, <1>2, <1>3, <1>4 DEF WorkerOnly, ContestInv, ContestTypeOK
<1>7. StartsLater'
  BY <1>1, <1>2, <1>4, <1>5 DEF WorkerOnly, ContestInv, StartsLater, BoundBefore
<1>8. Agreed'
  BY <1>1, <1>4 DEF WorkerOnly, ContestInv, Agreed
<1>9. Named'
  BY <1>2, <1>5 DEF WorkerOnly, ContestInv, Named, NameOf, Contest!Torn
<1>10. HeldKept'
  <2>1. W'.step # "idle" => Kept(W'.of.id)
    BY <1>1, <1>3, <1>4
  <2> QED
    BY <1>5, <2>1 DEF WorkerOnly, HeldKept, Kept
<1>11. Contest!OneInputPerDay' /\ Contest!ContestKept'
  BY <1>5 DEF WorkerOnly, ContestInv, Contest!OneInputPerDay, Contest!ContestKept
<1> QED
  BY <1>6, <1>7, <1>8, <1>9, <1>10, <1>11 DEF ContestInv

(* A day that lies after all days recorded for the registration has no        *)
(* prediction under it yet.                                                   *)
LEMMA ForwardIsNew ==
  ASSUME ContestInv, NEW c \in Contests, NEW a \in Artifacts, BoundBefore(c), Contest!Accepted(c, a)
  PROVE  \A r \in rows : ~ (r.bundle = c.bundle /\ r.day = a.day)
<1>1. Contest!Forward(c, a)
  <2>1. a.number > c.start /\ (a.number = c.input \/ Contest!Forward(c, a))
    BY DEF Contest!Accepted, Contest!Begun
  <2> QED
    BY <2>1 DEF BoundBefore, Contests, Artifacts
<1> DEFINE S == {r.day : r \in Contest!RowsOf(c)}
<1>2. CASE Contest!RowsOf(c) = {}
  BY <1>2 DEF Contest!RowsOf
<1>3. CASE Contest!RowsOf(c) # {}
  <2>1. S \in SUBSET Nat /\ S # {} /\ today \in Nat /\ \A d \in S : d <= today
    BY <1>3 DEF ContestInv, ContestTypeOK, Agreed, Rows, Contest!RowsOf
  <2>2. \E x \in S : \A y \in S : y <= x
    <3> HIDE DEF S
    <3> QED
      BY <2>1, Greatest
  <2>3. Contest!Max(S) \in S /\ \A y \in S : y <= Contest!Max(S)
    <3> HIDE DEF S
    <3>1. \E x \in S : \A y \in S : x >= y
      BY <2>1, <2>2
    <3>2. Contest!Max(S) \in S /\ \A y \in S : Contest!Max(S) >= y
      BY <3>1 DEF Contest!Max
    <3> QED
      BY <2>1, <3>2
  <2>4. a.day > Contest!Max(S)
    BY <1>1, <1>3 DEF Contest!Forward
  <2>5. a.day \in Nat
    BY DEF Artifacts
  <2>6. \A d \in S : d # a.day
    <3>1. PICK m : m = Contest!Max(S)
      OBVIOUS
    <3> HIDE DEF S
    <3>2. m \in Nat /\ (\A y \in S : y <= m) /\ a.day > m
      BY <2>1, <2>3, <2>4, <3>1
    <3>3. \A d \in S : d \in Nat /\ d <= m
      BY <2>1, <3>2
    <3> QED
      BY <2>5, <3>2, <3>3
  <2> QED
    BY <2>6 DEF Contest!RowsOf
<1> QED
  BY <1>2, <1>3

(* The worker records a prediction.                                           *)
LEMMA PredictStep ==
  ASSUME ContestInv, NEW s \in Stocks, Contest!Predict("worker", s)
  PROVE  ContestInv'
<1> DEFINE row == Contest!Row("worker", s)
           rest == W.todo \ {s}
           next == IF rest = {} THEN Contest!Idle ELSE [W EXCEPT !.todo = rest]
<1>1. W.step = "append" /\ s \in W.todo /\ rows' = rows \cup {row}
      /\ Contest!Predicting("worker", next) /\ WorkerOnly
  BY DEF Contest!Predict, Contest!Holding, Contest!Market, W, WorkerOnly
<1>2. /\ W = [step |-> "append", of |-> W.of, input |-> W.input, todo |-> W.todo]
      /\ W.of \in Contests /\ BoundBefore(W.of) /\ Kept(W.of.id)
      /\ W.input \in Artifacts /\ W.todo \subseteq Stocks /\ W.input.day <= today
      /\ \A r \in rows : r.bundle = W.of.bundle /\ r.day = W.input.day => r.input = W.input.number
  BY <1>1 DEF ContestInv, ContestTypeOK, StartsLater, Agreed, HeldKept
<1>3. row = [bundle |-> W.of.bundle, contest |-> W.of.id, day |-> W.input.day,
             input |-> W.input.number, symbol |-> s]
  BY DEF Contest!Row, W
<1>4. row \in Rows
  BY <1>2, <1>3 DEF Rows, Contests, Artifacts
<1>5. row.bundle = W.of.bundle /\ row.day = W.input.day /\ row.input = W.input.number
      /\ row.contest = W.of.id
  BY <1>3
<1> HIDE DEF row
<1>6. \/ next = Contest!Idle /\ next.step = "idle"
      \/ /\ next = [step |-> "append", of |-> W.of, input |-> W.input, todo |-> rest]
         /\ next.step = "append" /\ next.of = W.of /\ next.input = W.input /\ next.todo = rest
  <2>1. [W EXCEPT !.todo = rest] = [step |-> "append", of |-> W.of, input |-> W.input, todo |-> rest]
    <3>1. PICK c, a, t : W = [step |-> "append", of |-> c, input |-> a, todo |-> t]
      BY <1>2
    <3>2. W.of = c /\ W.input = a
      BY <3>1
    <3> HIDE DEF rest
    <3> QED
      BY <3>1, <3>2
  <2>2. Contest!Idle.step = "idle"
    BY DEF Contest!Idle
  <2> QED
    BY <2>1, <2>2
<1>7. rest \subseteq Stocks
  BY <1>2
<1> HIDE DEF next, rest
<1>8. W' = next /\ predictor' = [p \in {"worker"} |-> W'] /\ F' = F
  <2>1. F' = F
    BY <1>1 DEF F, WorkerOnly
  <2> QED
    BY <1>1, <2>1, WorkerIs
<1>9. Contest!Whole' <=> Contest!Whole
  BY <1>1 DEF WorkerOnly, Contest!Whole, Contest!Torn
<1>10. ContestTypeOK'
  <2>1. rows' \in SUBSET Rows
    BY <1>1, <1>4 DEF ContestInv, ContestTypeOK
  <2>2. /\ W'.step \in {"idle", "contest", "append"}
        /\ W'.step \in {"contest", "append"} => W'.of \in Contests
        /\ W'.step = "append" =>
              /\ W' = [step |-> "append", of |-> W'.of, input |-> W'.input, todo |-> W'.todo]
              /\ W'.input \in Artifacts /\ W'.todo \subseteq Stocks
    BY <1>2, <1>6, <1>7, <1>8
  <2> QED
    BY <1>1, <1>8, <2>1, <2>2 DEF WorkerOnly, ContestInv, ContestTypeOK
<1>11. StartsLater'
  BY <1>1, <1>2, <1>6, <1>8, <1>9 DEF WorkerOnly, ContestInv, StartsLater, BoundBefore
<1>12. Agreed'
  BY <1>1, <1>2, <1>5, <1>6, <1>8 DEF WorkerOnly, ContestInv, Agreed
<1>13. Named'
  BY <1>1, <1>8, <1>9 DEF WorkerOnly, ContestInv, Named, NameOf, Contest!Torn
<1>14. HeldKept'
  <2>1. W'.step # "idle" => Kept(W'.of.id)
    BY <1>2, <1>6, <1>8
  <2> QED
    BY <1>1, <1>9, <2>1 DEF WorkerOnly, HeldKept, Kept
<1>15. Contest!OneInputPerDay'
  <2>1. \A r \in rows : r.bundle = row.bundle /\ r.day = row.day => r.input = row.input
    BY <1>2, <1>5
  <2> QED
    BY <1>1, <2>1 DEF ContestInv, Contest!OneInputPerDay
<1>16. Contest!ContestKept'
  <2>1. \A r \in rows' : Kept(r.contest)
    BY <1>1, <1>2, <1>5 DEF ContestInv, Contest!ContestKept, Kept
  <2> QED
    BY <1>1, <1>9, <2>1 DEF WorkerOnly, Contest!ContestKept, Kept
<1> QED
  BY <1>10, <1>11, <1>12, <1>13, <1>14, <1>15, <1>16 DEF ContestInv

(* Every step of the worker keeps the invariant.                              *)
LEMMA WorkerStep ==
  ASSUME ContestInv,
         \/ Contest!ReadContest("worker") \/ Contest!Derive("worker")
         \/ \E s \in Stocks : Contest!Predict("worker", s)
  PROVE  ContestInv'
<1>1. CASE Contest!ReadContest("worker")
  <2> DEFINE next == [step |-> "contest", of |-> contest]
  <2>1. Contest!Whole /\ Contest!Predicting("worker", next) /\ WorkerOnly /\ rows' = rows
    BY <1>1 DEF Contest!ReadContest, Contest!Market, WorkerOnly
  <2>2. contest \in Contests /\ BoundBefore(contest) /\ Kept(contest.id)
    BY <2>1 DEF ContestInv, ContestTypeOK, StartsLater, Kept, Contest!Whole
  <2>3. next.step = "contest" /\ next.of = contest
    OBVIOUS
  <2> HIDE DEF next
  <2> QED
    BY <2>1, <2>2, <2>3, WorkerPlans
<1>2. CASE Contest!Derive("worker")
  <2>1. WorkerOnly /\ rows' = rows /\ W.step = "contest"
    BY <1>2 DEF Contest!Derive, Contest!Market, Contest!Holding, W, WorkerOnly
  <2>2. W.of \in Contests /\ BoundBefore(W.of) /\ Kept(W.of.id)
    BY <2>1 DEF ContestInv, ContestTypeOK, StartsLater, HeldKept
  <2>3. CASE Contest!Accepted(W.of, artifact)
    <3> DEFINE next == [step |-> "append", of |-> W.of, input |-> artifact, todo |-> Stocks]
    <3>1. Contest!Predicting("worker", next)
      BY <1>2, <2>3 DEF Contest!Derive, W
    <3>2. artifact \in Artifacts /\ artifact.day <= today
      BY <2>3 DEF Contest!Accepted, ContestInv, ContestTypeOK, Agreed
    <3>3. \A r \in rows : ~ (r.bundle = W.of.bundle /\ r.day = artifact.day)
      BY <2>2, <2>3, <3>2, ForwardIsNew
    <3>4. /\ next = [step |-> "append", of |-> next.of, input |-> next.input, todo |-> next.todo]
          /\ next.of = W.of /\ next.input = artifact /\ next.todo = Stocks
      OBVIOUS
    <3> HIDE DEF next
    <3> QED
      BY <2>1, <2>2, <3>1, <3>2, <3>3, <3>4, WorkerPlans
  <2>4. CASE ~ Contest!Accepted(W.of, artifact)
    <3>1. Contest!Predicting("worker", Contest!Idle)
      BY <1>2, <2>4 DEF Contest!Derive, W
    <3> QED
      BY <2>1, <3>1, WorkerPlans
  <2> QED
    BY <2>3, <2>4
<1> QED
  BY <1>1, <1>2, PredictStep

(* What goes on outside keeps the invariant: days, models and artifacts.      *)
LEMMA OutsideStep ==
  ASSUME ContestInv, Contest!Elsewhere
  PROVE  ContestInv'
<1>1. UNCHANGED <<contest, archive, frozen, freezer, predictor, rows>>
  BY DEF Contest!Elsewhere
<1>2. F' = F /\ W' = W /\ (Contest!Whole' <=> Contest!Whole)
  BY <1>1 DEF F, W, Contest!Whole, Contest!Torn
<1>3. today \in Nat \ {0} /\ Contest!Session \in Nat /\ Contest!Session <= today
  BY DEF ContestInv, ContestTypeOK, Contest!Session
<1>4. /\ bundle' \in Bundles /\ today' \in Nat \ {0} /\ today <= today' /\ over' \in BOOLEAN
      /\ made' \in Nat /\ made <= made'
      /\ artifact' \in {None} \union Artifacts
      /\ artifact' # None => artifact'.number <= made' /\ artifact'.day <= today'
  <2>1. CASE UNCHANGED artifact
    <3>1. /\ bundle' \in Bundles /\ today' \in Nat \ {0} /\ today <= today' /\ over' \in BOOLEAN
          /\ made' \in Nat /\ made <= made'
      <4>1. bundle \in Bundles /\ today \in Nat \ {0} /\ over \in BOOLEAN /\ made \in Nat
        BY DEF ContestInv, ContestTypeOK
      <4>2. \/ over' = TRUE /\ UNCHANGED <<bundle, today, made>>
            \/ over' = FALSE /\ today' = today + 1 /\ UNCHANGED <<bundle, made>>
            \/ bundle' \in Bundles /\ UNCHANGED <<today, over, made>>
            \/ made' = made + 1 /\ UNCHANGED <<bundle, today, over>>
        BY DEF Contest!Elsewhere, Contest!Outside
      <4>3. today' \in {today, today + 1} /\ made' \in {made, made + 1}
            /\ bundle' \in Bundles /\ over' \in BOOLEAN
        BY <4>1, <4>2
      <4>4. \A n \in Nat : \A m \in {n, n + 1} : m \in Nat /\ n <= m /\ (n # 0 => m # 0)
        OBVIOUS
      <4> QED
        BY <4>1, <4>3, <4>4
    <3>2. artifact # None => /\ artifact.number \in Nat /\ artifact.day \in Nat
                             /\ artifact.number <= made /\ artifact.day <= today
      BY DEF ContestInv, ContestTypeOK, StartsLater, Agreed, Artifacts
    <3>3. made \in Nat /\ today \in Nat /\ artifact \in {None} \union Artifacts
      BY DEF ContestInv, ContestTypeOK
    <3> QED
      BY <2>1, <3>1, <3>2, <3>3
  <2>2. CASE ~ UNCHANGED artifact
    <3>1. /\ made' = made + 1 /\ UNCHANGED <<bundle, today, over>>
          /\ artifact' = [number |-> made + 1, day |-> Contest!Session, bundle |-> bundle]
      BY <2>2 DEF Contest!Elsewhere, Contest!Outside
    <3>2. made \in Nat /\ bundle \in Bundles /\ over \in BOOLEAN
      BY DEF ContestInv, ContestTypeOK
    <3>3. artifact' \in Artifacts /\ artifact'.number = made + 1 /\ artifact'.day = Contest!Session
      BY <1>3, <3>1, <3>2 DEF Artifacts
    <3> QED
      BY <1>3, <3>1, <3>2, <3>3
  <2> QED
    BY <2>1, <2>2
<1>5. ContestTypeOK'
  BY <1>1, <1>2, <1>4 DEF ContestInv, ContestTypeOK, Contest!Torn
<1>6. StartsLater'
  BY <1>1, <1>2, <1>4 DEF ContestInv, StartsLater, BoundBefore
<1>7. Agreed'
  <2>1. \A r \in rows : r.day \in Nat /\ r.day <= today
    BY DEF ContestInv, ContestTypeOK, Agreed, Rows
  <2>2. W.step = "append" => W.input.day \in Nat /\ W.input.day <= today
    BY DEF ContestInv, ContestTypeOK, Agreed, Artifacts
  <2> QED
    BY <1>1, <1>2, <1>3, <1>4, <2>1, <2>2 DEF ContestInv, Agreed
<1>8. Named'
  BY <1>1, <1>2 DEF ContestInv, Named, NameOf, Contest!Torn
<1>9. HeldKept' /\ Contest!OneInputPerDay' /\ Contest!ContestKept'
  BY <1>1, <1>2 DEF ContestInv, HeldKept, Kept, Contest!OneInputPerDay, Contest!ContestKept
<1> QED
  BY <1>5, <1>6, <1>7, <1>8, <1>9 DEF ContestInv

(* Every other scene leaves the contest alone.                                *)
LEMMA ContestAlone ==
  ASSUME [Next]_vars
  PROVE  (scene = "contest" /\ Contest!ContestNext) \/ UNCHANGED contestVars
BY DEF Next, vars, In, Research

(* Contests start after their artifact was made, archives are named for what  *)
(* they are, and what the worker holds agrees with what is recorded:          *)
(* ContestInv is inductive.                                                   *)
THEOREM ContestAlways == Spec => []ContestInv
<1>1. Init => ContestInv
  <2> SUFFICES ASSUME Contest!ContestInit
               PROVE  ContestInv
    BY DEF Init
  <2>1. F.step = "idle" /\ W.step = "idle" /\ archive = {} /\ rows = {}
        /\ ~ Contest!Whole /\ artifact = None
    BY DEF Contest!ContestInit, F, W, Contest!Idle, Contest!Whole
  <2>2. ContestTypeOK
    BY <2>1 DEF Contest!ContestInit, ContestTypeOK, F, W
  <2> QED
    BY <2>1, <2>2 DEF ContestInv, StartsLater, Agreed, Named, HeldKept,
       Contest!OneInputPerDay, Contest!ContestKept
<1>2. ContestInv /\ [Next]_vars => ContestInv'
  <2> SUFFICES ASSUME ContestInv, [Next]_vars
               PROVE  ContestInv'
    OBVIOUS
  <2>1. CASE Contest!ContestNext
    <3>1. CASE Contest!Die
      <4>1. CASE Contest!Freezing("tick", Contest!Idle) /\ UNCHANGED predictor
        <5>1. TickOnly
          BY <3>1, <4>1 DEF Contest!Die, Contest!Market, TickOnly
        <5> QED
          BY <4>1, <5>1, TickPlans
      <4>2. CASE Contest!Predicting("worker", Contest!Idle) /\ UNCHANGED freezer
        <5>1. WorkerOnly /\ rows' = rows
          BY <3>1, <4>2 DEF Contest!Die, Contest!Market, WorkerOnly
        <5> QED
          BY <4>2, <5>1, WorkerPlans
      <4> QED
        BY <3>1, <4>1, <4>2 DEF Contest!Die
    <3> QED
      BY <2>1, <3>1, TickStep, WorkerStep, OutsideStep DEF Contest!ContestNext
  <2>2. CASE UNCHANGED contestVars
    <3>1. F' = F /\ W' = W /\ (Contest!Whole' <=> Contest!Whole)
      BY <2>2 DEF contestVars, F, W, Contest!Whole, Contest!Torn
    <3> QED
      BY <2>2, <3>1 DEF contestVars, ContestInv, ContestTypeOK, StartsLater, BoundBefore, Agreed,
         Named, NameOf, HeldKept, Kept, Contest!Torn, Contest!OneInputPerDay, Contest!ContestKept
  <2> QED
    BY <2>1, <2>2, ContestAlone
<1> QED
  BY <1>1, <1>2, PTL DEF Spec

(* For any bundles, any order in which days end, models are replaced and      *)
(* signals are generated again, and any death of the tick and the worker:     *)
(* what is recorded for a day under a registration is of one artifact.        *)
THEOREM OneInput == Spec => []OneInputPerDay
<1>1. ContestInv => OneInputPerDay
  BY DEF ContestInv, OneInputPerDay
<1> QED
  BY <1>1, ContestAlways, PTL

(* And the contest that a prediction was recorded under is active, or in the  *)
(* archive.                                                                   *)
THEOREM ContestsStay == Spec => []ContestKept
<1>1. ContestInv => ContestKept
  BY DEF ContestInv, ContestKept
<1> QED
  BY <1>1, ContestAlways, PTL

------------------------------------------------------------------------------
(* The daily lake.                                                            *)

Files == [state : {"absent", "damaged", "bars"}, days : SUBSET Nat, own : BOOLEAN]
Asks == [sym : Lake!Tracked, days : SUBSET Nat, replace : BOOLEAN]
Refreshes == [target : Nat, had : Nat, todo : SUBSET Lake!Tracked, failed : SUBSET Lake!Tracked,
              bad : SUBSET Lake!Tracked, ask : {None} \union Asks, stage : {"list", "ask", "end"}]

LakeTypeOK ==
    /\ lake \in [Lake!Tracked -> Files]
    /\ \A s \in Lake!Tracked : lake[s].state # "bars" => lake[s].days = {} /\ lake[s].own
    /\ session \in Nat \ {0} /\ posted \in BOOLEAN
    /\ listed \subseteq Stocks
    /\ child \in {None} \union Refreshes

(* The bars of a file, from the first day of a window on and up to a day:     *)
(* every session from the first one the file has in it.                       *)
Whole(s, bars, from, to) ==
    \A d \in Lake!Traded(s) :
       from <= d /\ d <= to /\ (\E e \in bars : e <= d) => d \in bars
NoGap(s, bars, from) == \A to \in bars : Whole(s, bars, from, to)

(* A file has no gap in the window of the refresh at work, or of the next.    *)
Window == IF child = None THEN session ELSE child.target
FilesWhole ==
    \A s \in Lake!Tracked :
       Lake!Valid(s) => /\ lake[s].days # {} /\ lake[s].days \subseteq Lake!Traded(s)
                        /\ \A d \in lake[s].days : d <= Lake!Newest /\ d <= Window
                        /\ NoGap(s, lake[s].days, Lake!First(Window))

(* What the child has still to bring up to date, and what it has.             *)
UpToDate(s, r) == \A to \in Nat : to <= r.target /\ to <= r.had =>
                     Whole(s, lake[s].days, Lake!First(r.target), to)
ChildKnows ==
    child # None =>
       /\ child.target <= session /\ child.had <= Lake!Newest
       /\ child.stage # "ask" => child.ask = None
       /\ \A s \in Lake!Tracked : Lake!Valid(s) =>
             \/ child.stage # "end" /\ s \in child.todo
             \/ child.stage # "list" /\ s \in child.failed
             \/ child.stage # "list" /\ UpToDate(s, child)

(* What the child asked for follows on what the file has, or replaces it.     *)
After(s, bars, start, from) ==
    (\A e \in bars : e < start) /\ (\E e \in bars : start = e + 1) /\ NoGap(s, bars, from)
AnswerFor(s, start, target, n) == {d \in Lake!Traded(s) : start <= d /\ d <= target /\ d <= n}
Follows(s, file, ask, target, start, n) ==
    /\ ask.days = AnswerFor(s, start, target, n)
    /\ file.state = "bars" =>
          /\ \A e \in file.days : e <= n
          /\ \/ start <= Lake!First(target)
             \/ ask.replace /\ \A e \in file.days : start <= e
             \/ ~ ask.replace /\ After(s, file.days, start, Lake!First(target))
AskFollows ==
    child # None /\ child.ask # None =>
       \E start \in Nat, n \in Nat :
          /\ child.had <= n /\ n <= Lake!Newest
          /\ Follows(child.ask.sym, lake[child.ask.sym], child.ask, child.target, start, n)

LakeInv == LakeTypeOK /\ FilesWhole /\ ChildKnows /\ AskFollows

(* A nonempty set of numbers has a least one.                                 *)
LEMMA Least ==
  ASSUME NEW S \in SUBSET Nat, S # {}
  PROVE  \E x \in S : \A y \in S : x <= y
<1>1. PICK x \in S : \A y \in S : ~ (<<y, x>> \in OpToRel(<, Nat))
  BY NatLessThanWellFounded, WFMin
<1>2. \A y \in S : ~ (y < x)
  BY <1>1 DEF OpToRel
<1> QED
  BY <1>2

(* What a full answer brings has no gap, alone or after what there was.       *)
LEMMA AnswerWhole ==
  ASSUME NEW s, Lake!Traded(s) \subseteq Nat,
         NEW start \in Nat, NEW target \in Nat, NEW n \in Nat, NEW from \in Nat,
         NEW old \in SUBSET Nat, NEW to \in Nat, to <= target, to <= n
  PROVE  LET new == AnswerFor(s, start, target, n)
         IN  /\ Whole(s, new, from, to)
             /\ start <= from \/ After(s, old, start, from) => Whole(s, new \cup old, from, to)
             /\ new = {} /\ (\A e \in old : start <= e) => Whole(s, old, from, to)
<1> DEFINE new == AnswerFor(s, start, target, n)
<1>1. \A d \in Lake!Traded(s) : d \in Nat /\ (d <= to /\ start <= d => d \in new)
  BY DEF AnswerFor
<1>2. \A e \in new : e \in Nat /\ start <= e
  BY DEF AnswerFor
<1> HIDE DEF new
<1>3. Whole(s, new, from, to)
  <2> SUFFICES ASSUME NEW d \in Lake!Traded(s), d <= to, NEW e \in new, e <= d
               PROVE  d \in new
    BY DEF Whole
  <2>1. d \in Nat /\ e \in Nat /\ start <= e
    BY <1>1, <1>2
  <2> QED
    BY <1>1, <2>1
<1>4. ASSUME start <= from PROVE Whole(s, new \cup old, from, to)
  <2> SUFFICES ASSUME NEW d \in Lake!Traded(s), from <= d, d <= to
               PROVE  d \in new
    BY DEF Whole
  <2>1. start <= d
    BY <1>1, <1>4
  <2> QED
    BY <1>1, <2>1
<1>5. ASSUME After(s, old, start, from) PROVE Whole(s, new \cup old, from, to)
  <2> SUFFICES ASSUME NEW d \in Lake!Traded(s), from <= d, d <= to, NEW e \in new \cup old, e <= d
               PROVE  d \in new \cup old
    BY DEF Whole
  <2>1. PICK last \in old : start = last + 1 /\ Whole(s, old, from, last)
    BY <1>5 DEF After, NoGap
  <2>2. CASE start <= d
    BY <1>1, <2>2
  <2>3. CASE d <= last
    <3>1. e \in Nat /\ d \in Nat
      BY <1>1, <1>2
    <3>2. ~ (e \in new)
      <4>1. e \in new => start <= e
        BY <1>2
      <4> QED
        BY <2>1, <2>3, <3>1, <4>1
    <3>3. e \in old
      BY <3>2
    <3> QED
      BY <2>1, <2>3, <3>3 DEF Whole
  <2> QED
    BY <1>1, <2>1, <2>2, <2>3
<1>6. ASSUME new = {}, \A e \in old : start <= e PROVE Whole(s, old, from, to)
  <2> SUFFICES ASSUME NEW d \in Lake!Traded(s), d <= to, NEW e \in old, e <= d
               PROVE  FALSE
    BY DEF Whole
  <2>1. start <= d
    BY <1>1, <1>6
  <2> QED
    BY <1>1, <1>6, <2>1
<1> QED
  BY <1>3, <1>4, <1>5, <1>6 DEF new

(* The window does not move back, nor do the sessions that can be had.        *)
LEMMA WindowMoves ==
  ASSUME NEW t \in Nat, NEW u \in Nat, t <= u
  PROVE  Lake!First(t) \in Nat /\ Lake!First(t) <= Lake!First(u)
BY DEF Lake!First

(* A narrower window has no gap either.                                       *)
LEMMA NarrowerWhole ==
  ASSUME NEW s, Lake!Traded(s) \subseteq Nat, NEW bars, NEW from \in Nat, NEW to,
         NEW n \in Nat, from <= n, Whole(s, bars, from, to)
  PROVE  Whole(s, bars, n, to)
BY DEF Whole

(* And none up to an earlier day.                                             *)
LEMMA EarlierWhole ==
  ASSUME NEW s, Lake!Traded(s) \subseteq Nat, NEW bars, NEW from, NEW to \in Nat,
         NEW n \in Nat, n <= to, Whole(s, bars, from, to)
  PROVE  Whole(s, bars, from, n)
BY DEF Whole

(* Sessions are numbers from one on.                                          *)
LEMMA TradedDays == ASSUME NEW s PROVE Lake!Traded(s) \subseteq Nat
BY DEF Lake!Traded, Lake!Sessions

(* What every state gives: numbers, and the newest session.                   *)
LEMMA LakeNumbers ==
  ASSUME LakeInv
  PROVE  /\ session \in Nat /\ Lake!Newest \in Nat /\ Lake!Newest <= session
         /\ Window \in Nat /\ Window <= session
         /\ child # None => child \in Refreshes /\ Window = child.target
BY DEF LakeInv, LakeTypeOK, ChildKnows, Lake!Newest, Window, Refreshes

(* When no file changes but for damage, and neither the window nor the newest *)
(* session moves back, the files stay whole.                                  *)
LEMMA FilesStay ==
  ASSUME LakeInv,
         \A s \in Lake!Tracked : Lake!Valid(s)' => Lake!Valid(s) /\ lake'[s] = lake[s],
         Lake!Newest' \in Nat, Lake!Newest <= Lake!Newest', Window' \in Nat, Window <= Window'
  PROVE  FilesWhole'
<1> SUFFICES ASSUME NEW s \in Lake!Tracked, Lake!Valid(s)'
             PROVE  /\ lake'[s].days # {} /\ lake'[s].days \subseteq Lake!Traded(s)
                    /\ \A d \in lake'[s].days : d <= Lake!Newest' /\ d <= Window'
                    /\ NoGap(s, lake'[s].days, Lake!First(Window'))
  BY DEF FilesWhole, NoGap, Whole, Lake!Traded, Lake!Sessions, Lake!First
<1>1. Lake!Valid(s) /\ lake'[s] = lake[s]
  OBVIOUS
<1>2. /\ lake[s].days # {} /\ lake[s].days \subseteq Lake!Traded(s)
      /\ \A d \in lake[s].days : d <= Lake!Newest /\ d <= Window
      /\ NoGap(s, lake[s].days, Lake!First(Window))
  BY <1>1 DEF LakeInv, FilesWhole
<1>3. Lake!Traded(s) \subseteq Nat /\ Window \in Nat /\ Lake!Newest \in Nat
  BY TradedDays, LakeNumbers
<1>4. \A d \in lake[s].days : d \in Nat /\ d <= Lake!Newest' /\ d <= Window'
  BY <1>2, <1>3
<1>5. NoGap(s, lake[s].days, Lake!First(Window'))
  <2>1. /\ Lake!First(Window) \in Nat /\ Lake!First(Window') \in Nat
        /\ Lake!First(Window) <= Lake!First(Window')
    BY <1>3, WindowMoves
  <2> QED
    BY <1>2, <1>3, <2>1, NarrowerWhole DEF NoGap
<1> QED
  BY <1>1, <1>2, <1>4, <1>5

(* The first and the last day of a file, and when it is up to date.           *)
LEMMA FileEnds ==
  ASSUME LakeInv, NEW s \in Lake!Tracked, Lake!Valid(s)
  PROVE  /\ lake[s].days \in SUBSET Nat
         /\ Lake!Max(lake[s].days) \in lake[s].days /\ Lake!Min(lake[s].days) \in lake[s].days
         /\ \A d \in lake[s].days : d <= Lake!Max(lake[s].days) /\ Lake!Min(lake[s].days) <= d
         /\ \A d \in lake[s].days : d <= Lake!Newest /\ d <= Window
         /\ NoGap(s, lake[s].days, Lake!First(Window))
<1> DEFINE S == lake[s].days
<1>1. S # {} /\ S \in SUBSET Nat /\ (\A d \in S : d <= Lake!Newest /\ d <= Window)
      /\ Lake!Newest \in Nat /\ NoGap(s, S, Lake!First(Window))
  BY TradedDays, LakeNumbers DEF LakeInv, FilesWhole
<1> HIDE DEF S
<1>2. \E x \in S : \A y \in S : x >= y
  <2>1. \E x \in S : \A y \in S : y <= x
    BY <1>1, Greatest
  <2> QED
    BY <1>1, <2>1
<1>3. Lake!Max(S) \in S /\ \A y \in S : Lake!Max(S) >= y
  BY <1>2 DEF Lake!Max
<1>4. \E x \in S : \A y \in S : x <= y
  BY <1>1, Least
<1>5. Lake!Min(S) \in S /\ \A y \in S : Lake!Min(S) <= y
  BY <1>4 DEF Lake!Min
<1>6. \A d \in S : d <= Lake!Max(S)
  BY <1>1, <1>3
<1> QED
  BY <1>1, <1>3, <1>5, <1>6 DEF S

(* A file that reaches a day is up to date for a refresh up to that day.      *)
LEMMA ReachedIsUpToDate ==
  ASSUME LakeInv, NEW s \in Lake!Tracked, Lake!Valid(s), NEW r, r.target = Window,
         r.target <= Lake!Max(lake[s].days)
  PROVE  UpToDate(s, r)
<1>1. /\ lake[s].days \in SUBSET Nat /\ Lake!Max(lake[s].days) \in lake[s].days
      /\ Whole(s, lake[s].days, Lake!First(Window), Lake!Max(lake[s].days))
  BY FileEnds DEF NoGap
<1> SUFFICES ASSUME NEW to \in Nat, to <= r.target
             PROVE  Whole(s, lake[s].days, Lake!First(r.target), to)
  BY DEF UpToDate
<1>2. Window \in Nat
  BY LakeNumbers
<1>3. PICK last \in Nat : last = Lake!Max(lake[s].days) /\ to <= last
  BY <1>1, <1>2
<1> QED
  BY <1>1, <1>3, TradedDays, EarlierWhole

(* When files are at most damaged, and the newest session does not move back, *)
(* what the child knows and asked for stays true.                             *)
LEMMA ChildStays ==
  ASSUME LakeInv, child' = child,
         \A s \in Lake!Tracked : Lake!Valid(s)' => Lake!Valid(s) /\ lake'[s] = lake[s],
         Lake!Newest' \in Nat, Lake!Newest <= Lake!Newest', session' \in Nat, session <= session'
  PROVE  ChildKnows' /\ AskFollows'
<1>1. /\ session \in Nat /\ Lake!Newest \in Nat
      /\ child # None => child \in Refreshes
  BY LakeNumbers
<1>2. ChildKnows'
  <2> SUFFICES ASSUME child # None
               PROVE  ChildKnows'
    BY DEF ChildKnows
  <2>1. child.target <= session' /\ child.had <= Lake!Newest' /\ (child.stage # "ask" => child.ask = None)
    BY <1>1 DEF LakeInv, ChildKnows, Refreshes
  <2>2. ASSUME NEW s \in Lake!Tracked, Lake!Valid(s)'
        PROVE  \/ child.stage # "end" /\ s \in child.todo
               \/ child.stage # "list" /\ s \in child.failed
               \/ child.stage # "list" /\ \A to \in Nat : to <= child.target /\ to <= child.had =>
                     Whole(s, lake'[s].days, Lake!First(child.target), to)
    BY <2>2 DEF LakeInv, ChildKnows, UpToDate
  <2> QED
    BY <2>1, <2>2 DEF ChildKnows, UpToDate, Whole, Lake!Traded, Lake!Sessions, Lake!First
<1>3. AskFollows'
  <2> SUFFICES ASSUME child # None, child.ask # None
               PROVE  \E start \in Nat, n \in Nat :
                         /\ child.had <= n /\ n <= Lake!Newest'
                         /\ Follows(child.ask.sym, lake'[child.ask.sym], child.ask, child.target, start, n)
    BY DEF AskFollows
  <2>1. PICK start \in Nat, n \in Nat :
               /\ child.had <= n /\ n <= Lake!Newest
               /\ Follows(child.ask.sym, lake[child.ask.sym], child.ask, child.target, start, n)
    BY DEF LakeInv, AskFollows
  <2>2. child.ask.sym \in Lake!Tracked
    BY DEF LakeInv, LakeTypeOK, Refreshes, Asks
  <2>3. Follows(child.ask.sym, lake'[child.ask.sym], child.ask, child.target, start, n)
    BY <2>1, <2>2 DEF Follows, Lake!Valid
  <2>4. child.had \in Nat /\ n <= Lake!Newest'
    BY <1>1, <2>1 DEF Refreshes
  <2> QED
    BY <2>1, <2>3, <2>4
<1> QED
  BY <1>2, <1>3

(* Sessions pass, their bars are posted, stocks are delisted, files damaged.  *)
LEMMA LakeElsewhereStep ==
  ASSUME LakeInv, Lake!Elsewhere
  PROVE  LakeInv'
<1>1. child' = child
  BY DEF Lake!Elsewhere
<1>2. session \in Nat \ {0} /\ posted \in BOOLEAN /\ listed \subseteq Stocks
  BY DEF LakeInv, LakeTypeOK
<1>3. /\ session' \in {session, session + 1} /\ posted' \in BOOLEAN /\ listed' \subseteq Stocks
      /\ session' = session => (posted => posted')
  <2>1. \/ session' = session + 1 /\ posted' = FALSE /\ UNCHANGED listed
        \/ posted' = TRUE /\ UNCHANGED <<session, listed>>
        \/ (\E s \in listed : listed' = listed \ {s}) /\ UNCHANGED <<session, posted>>
        \/ UNCHANGED <<session, posted, listed>>
    BY DEF Lake!Elsewhere, Lake!Environment
  <2>2. session \in Nat
    BY <1>2
  <2>3. session + 1 # session
    BY <2>2
  <2> QED
    BY <1>2, <2>1, <2>3
<1>4. session' \in Nat \ {0} /\ session <= session' /\ Lake!Newest' \in Nat /\ Lake!Newest <= Lake!Newest'
  <2>1. session' = session \/ session' = session + 1
    BY <1>3
  <2>2. CASE session' = session
    BY <1>2, <1>3, <2>2 DEF Lake!Newest
  <2>3. CASE session' = session + 1
    BY <1>2, <1>3, <2>3 DEF Lake!Newest
  <2> QED
    BY <2>1, <2>2, <2>3
<1>5. \/ lake' = lake
      \/ \E s \in Lake!Tracked : lake' = [lake EXCEPT ![s] = [Lake!Absent EXCEPT !.state = "damaged"]]
  BY DEF Lake!Elsewhere, Lake!Environment
<1>6. /\ lake' \in [Lake!Tracked -> Files]
      /\ \A s \in Lake!Tracked :
            \/ lake'[s] = lake[s]
            \/ lake'[s].state = "damaged" /\ lake'[s].days = {} /\ lake'[s].own
  <2> DEFINE gone == [Lake!Absent EXCEPT !.state = "damaged"]
  <2>1. gone \in Files /\ gone.state = "damaged" /\ gone.days = {} /\ gone.own
    <3>0. Lake!Absent \in Files /\ Lake!Absent.days = {} /\ Lake!Absent.own
      <4>1. [state |-> "absent", days |-> {}, own |-> TRUE] \in Files
        BY DEF Files
      <4>2. Lake!Absent = [state |-> "absent", days |-> {}, own |-> TRUE]
        BY DEF Lake!Absent
      <4> QED
        BY <4>1, <4>2
    <3>1. PICK x \in Files : x = Lake!Absent /\ x.days = {} /\ x.own
      BY <3>0
    <3>2. [x EXCEPT !.state = "damaged"] \in Files
      BY DEF Files
    <3>3. LET y == [x EXCEPT !.state = "damaged"]
          IN  y.state = "damaged" /\ y.days = x.days /\ y.own = x.own
      BY DEF Files
    <3> QED
      BY <3>1, <3>2, <3>3
  <2> HIDE DEF gone
  <2>2. lake \in [Lake!Tracked -> Files]
    BY DEF LakeInv, LakeTypeOK
  <2>3. lake' = lake \/ \E s \in Lake!Tracked : lake' = [lake EXCEPT ![s] = gone]
    BY <1>5 DEF gone
  <2> QED
    BY <2>1, <2>2, <2>3
<1>7. \A s \in Lake!Tracked : Lake!Valid(s)' => Lake!Valid(s) /\ lake'[s] = lake[s]
  BY <1>6 DEF Lake!Valid
<1>8. LakeTypeOK'
  <2>1. \A s \in Lake!Tracked : lake'[s].state # "bars" => lake'[s].days = {} /\ lake'[s].own
    BY <1>6 DEF LakeInv, LakeTypeOK
  <2>2. child' \in {None} \union Refreshes
    BY <1>1 DEF LakeInv, LakeTypeOK
  <2> QED
    BY <1>3, <1>4, <1>6, <2>1, <2>2 DEF LakeTypeOK, Files, Refreshes, Asks, Lake!Tracked
<1>9. Window' \in Nat /\ Window <= Window'
  <2>1. child' \in {None} \union Refreshes
    BY <1>1 DEF LakeInv, LakeTypeOK
  <2> QED
    BY <1>1, <1>2, <1>4, <2>1 DEF Window, Refreshes
<1>10. FilesWhole'
  BY <1>4, <1>7, <1>9, FilesStay
<1>11. ChildKnows' /\ AskFollows'
  BY <1>1, <1>4, <1>7, ChildStays
<1> QED
  BY <1>8, <1>10, <1>11 DEF LakeInv

(* A step of the child that touches no file: what it knows and asked for is   *)
(* all that has to be shown.                                                  *)
LEMMA ChildMoves ==
  ASSUME LakeInv, UNCHANGED <<lake, session, posted, listed>>,
         child' \in {None} \union Refreshes,
         child' # None => child'.target = Window,
         ChildKnows', AskFollows'
  PROVE  LakeInv'
<1>1. LakeTypeOK'
  BY DEF LakeInv, LakeTypeOK, Files, Refreshes, Asks, Lake!Tracked
<1>2. Lake!Newest' = Lake!Newest
  BY DEF Lake!Newest
<1>3. Window \in Nat /\ Lake!Newest \in Nat /\ session \in Nat /\ Window <= session
  BY LakeNumbers
<1>4. Window' \in Nat /\ Window <= Window'
  BY <1>3 DEF Window
<1>5. \A s \in Lake!Tracked : Lake!Valid(s)' => Lake!Valid(s) /\ lake'[s] = lake[s]
  BY DEF Lake!Valid
<1>6. FilesWhole'
  BY <1>2, <1>3, <1>4, <1>5, FilesStay
<1> QED
  BY <1>1, <1>6 DEF LakeInv

(* The child ends: by itself, at its deadline, or after its refresh.          *)
LEMMA ChildEnds ==
  ASSUME LakeInv, UNCHANGED <<lake, session, posted, listed>>, child' = None
  PROVE  LakeInv'
<1>1. ChildKnows' /\ AskFollows'
  BY DEF ChildKnows, AskFollows
<1> QED
  BY <1>1, ChildMoves

(* The child goes on with a file less to bring up to date, or to the end: it  *)
(* asks for nothing, and every file is to do, failed or up to date.           *)
LEMMA ChildGoesOn ==
  ASSUME LakeInv, UNCHANGED <<lake, session, posted, listed>>, child # None,
         child' \in Refreshes, child'.target = child.target, child'.had = child.had,
         child'.ask = None, child'.stage \in {"ask", "end"},
         \A s \in Lake!Tracked : Lake!Valid(s) =>
            \/ child'.stage # "end" /\ s \in child'.todo
            \/ s \in child'.failed
            \/ UpToDate(s, child)
  PROVE  LakeInv'
<1>1. child \in Refreshes /\ Window = child.target
  BY LakeNumbers
<1>3. Lake!Newest' = Lake!Newest
  BY DEF Lake!Newest
<1>4. child.target <= session /\ child.had <= Lake!Newest
  BY DEF LakeInv, ChildKnows
<1>5. \A s \in Lake!Tracked : Lake!Valid(s)' => Lake!Valid(s)
  BY DEF Lake!Valid
<1>6. \A s : UpToDate(s, child) => UpToDate(s, child)'
  BY DEF UpToDate, Whole, Lake!Traded, Lake!Sessions, Lake!First
<1>7. ChildKnows'
  <2>1. \A s \in Lake!Tracked : Lake!Valid(s)' =>
             \/ child'.stage # "end" /\ s \in child'.todo
             \/ child'.stage # "list" /\ s \in child'.failed
             \/ child'.stage # "list" /\ UpToDate(s, child)'
    BY <1>5, <1>6
  <2>2. child'.target <= session' /\ child'.had <= Lake!Newest'
    BY <1>3, <1>4
  <2> QED
    BY <2>1, <2>2 DEF ChildKnows
<1>8. AskFollows'
  BY DEF AskFollows
<1> QED
  BY <1>1, <1>7, <1>8, ChildMoves

(* A refresh begins: it ends at once when every file reaches the session.     *)
LEMMA LakeLaunchStep ==
  ASSUME LakeInv, NEW held \in {{}, Steady}, Lake!Launch(held)
  PROVE  LakeInv'
<1> DEFINE paths == Lake!Paths(held)
           bad == {s \in paths : lake[s].state = "damaged"}
           step == IF Lake!Complete(paths) THEN "end" ELSE "list"
<1>1. /\ child = None /\ UNCHANGED <<lake, session, posted, listed>>
      /\ child' = [target |-> session, had |-> Lake!Newest, todo |-> paths, failed |-> {},
                   bad |-> bad, ask |-> None, stage |-> step]
  BY DEF Lake!Launch, Lake!World
<1>2. paths \in SUBSET Lake!Tracked /\ \A s \in Lake!Tracked : Lake!Valid(s) => s \in paths
  BY SteadyAssumption DEF Lake!Paths, Lake!Tracked, Lake!Valid
<1>3. session \in Nat /\ Lake!Newest \in Nat /\ Window = session
  BY <1>1, LakeNumbers DEF Window
<1>4. Lake!Complete(paths) => \A s \in paths : session <= Lake!Max(lake[s].days)
  <2> SUFFICES ASSUME Lake!Complete(paths), NEW s \in paths
               PROVE  session <= Lake!Max(lake[s].days)
    OBVIOUS
  <2>1. Lake!Valid(s) /\ Lake!Max(lake[s].days) >= session
    BY DEF Lake!Complete
  <2>2. Lake!Max(lake[s].days) \in Nat
    BY <1>2, <2>1, FileEnds
  <2> QED
    BY <1>3, <2>1, <2>2
<1>5. bad \in SUBSET Lake!Tracked
  BY <1>2
<1>6. step \in {"end", "list"} /\ (step = "end" => Lake!Complete(paths))
  OBVIOUS
<1> HIDE DEF paths, bad, step
<1>7. /\ child' \in Refreshes
      /\ child'.target = session /\ child'.had = Lake!Newest /\ child'.todo = paths
      /\ child'.ask = None /\ child'.stage = step
  BY <1>1, <1>2, <1>3, <1>5, <1>6 DEF Refreshes
<1>8. Lake!Newest' = Lake!Newest /\ \A s \in Lake!Tracked : Lake!Valid(s)' => Lake!Valid(s)
  BY <1>1 DEF Lake!Newest, Lake!Valid
<1>9. ASSUME NEW s \in Lake!Tracked, Lake!Valid(s), step = "end"
      PROVE  UpToDate(s, child)'
  <2>1. s \in paths /\ session <= Lake!Max(lake[s].days)
    BY <1>2, <1>4, <1>6, <1>9
  <2> DEFINE r == [target |-> session, had |-> Lake!Newest]
  <2>2. r.target = Window /\ r.target = session /\ r.had = Lake!Newest
    BY <1>3
  <2> HIDE DEF r
  <2>3. UpToDate(s, r)
    BY <1>9, <2>1, <2>2, ReachedIsUpToDate
  <2> QED
    BY <1>1, <1>7, <2>2, <2>3 DEF UpToDate, Whole, Lake!Traded, Lake!Sessions, Lake!First
<1>10. ChildKnows'
  <2>1. \A s \in Lake!Tracked : Lake!Valid(s)' =>
             \/ child'.stage # "end" /\ s \in child'.todo
             \/ child'.stage # "list" /\ UpToDate(s, child)'
    BY <1>2, <1>6, <1>7, <1>8, <1>9
  <2>2. child'.target <= session' /\ child'.had <= Lake!Newest'
    BY <1>1, <1>3, <1>7, <1>8
  <2> QED
    BY <1>7, <2>1, <2>2 DEF ChildKnows
<1>11. AskFollows'
  BY <1>7 DEF AskFollows
<1> QED
  BY <1>1, <1>3, <1>7, <1>10, <1>11, ChildMoves

(* A damaged file is put aside.                                               *)
LEMMA QuarantineStep ==
  ASSUME LakeInv, NEW q \in Lake!Tracked, Lake!Quarantine(q)
  PROVE  LakeInv'
<1>1. /\ child # None /\ child.stage = "list"
      /\ child' = [child EXCEPT !.bad = @ \ {q}]
      /\ lake' = [lake EXCEPT ![q] = Lake!Absent]
      /\ UNCHANGED <<session, posted, listed>>
  BY DEF Lake!Quarantine, Lake!Stage, Lake!World
<1>2. child \in Refreshes /\ Window = child.target
  BY <1>1, LakeNumbers
<1>3. /\ child' \in Refreshes
      /\ child'.target = child.target /\ child'.had = child.had /\ child'.todo = child.todo
      /\ child'.failed = child.failed /\ child'.stage = child.stage /\ child'.ask = child.ask
  BY <1>1, <1>2 DEF Refreshes
<1>4. Lake!Absent \in Files /\ Lake!Absent.days = {} /\ Lake!Absent.own /\ Lake!Absent.state # "bars"
  <2>1. [state |-> "absent", days |-> {}, own |-> TRUE] \in Files
    BY DEF Files
  <2>2. Lake!Absent = [state |-> "absent", days |-> {}, own |-> TRUE]
    BY DEF Lake!Absent
  <2> QED
    BY <2>1, <2>2
<1>5. /\ lake' \in [Lake!Tracked -> Files]
      /\ \A s \in Lake!Tracked : lake'[s] = IF s = q THEN Lake!Absent ELSE lake[s]
  BY <1>1, <1>4 DEF LakeInv, LakeTypeOK
<1>6. \A s \in Lake!Tracked : Lake!Valid(s)' => Lake!Valid(s) /\ lake'[s] = lake[s]
  BY <1>4, <1>5 DEF Lake!Valid
<1>7. LakeTypeOK'
  <2>1. \A s \in Lake!Tracked : lake'[s].state # "bars" => lake'[s].days = {} /\ lake'[s].own
    BY <1>4, <1>5 DEF LakeInv, LakeTypeOK
  <2>2. /\ session' \in Nat \ {0} /\ posted' \in BOOLEAN /\ listed' \subseteq Stocks
    BY <1>1 DEF LakeInv, LakeTypeOK
  <2> QED
    BY <1>3, <1>5, <2>1, <2>2 DEF LakeTypeOK, Files, Refreshes, Asks, Lake!Tracked
<1>8. Lake!Newest' = Lake!Newest /\ Lake!Newest \in Nat /\ Window' \in Nat /\ Window <= Window'
  <2>1. session \in Nat /\ Window \in Nat /\ Window <= session
    BY LakeNumbers
  <2>2. Window' \in Nat /\ Window <= Window'
    BY <1>1, <1>2, <1>3, <2>1 DEF Window
  <2> QED
    BY <1>1, <2>2, LakeNumbers DEF Lake!Newest
<1>9. FilesWhole'
  BY <1>6, <1>8, FilesStay
<1>10. ChildKnows'
  <2>1. \A s \in Lake!Tracked : Lake!Valid(s)' => s \in child'.todo
    BY <1>1, <1>3, <1>6 DEF LakeInv, ChildKnows
  <2>2. /\ child'.target <= session' /\ child'.had <= Lake!Newest'
        /\ child'.stage = "list" /\ child'.ask = None
    BY <1>1, <1>3, <1>8 DEF LakeInv, ChildKnows
  <2> QED
    BY <2>1, <2>2 DEF ChildKnows
<1>11. AskFollows'
  <2>1. child'.ask = None
    BY <1>1, <1>3 DEF LakeInv, ChildKnows
  <2> QED
    BY <2>1 DEF AskFollows
<1> QED
  BY <1>7, <1>9, <1>10, <1>11 DEF LakeInv

(* The child knows which instruments there are.                               *)
LEMMA ListStep ==
  ASSUME LakeInv, Lake!List
  PROVE  LakeInv'
<1>1. child # None /\ child.stage = "list" /\ UNCHANGED <<lake, session, posted, listed>>
  BY DEF Lake!List, Lake!Stage, Lake!World
<1>2. child \in Refreshes /\ child.ask = None /\ listed \subseteq Lake!Tracked
      /\ \A s \in Lake!Tracked : Lake!Valid(s) => s \in child.todo
  BY <1>1, LakeNumbers DEF LakeInv, LakeTypeOK, ChildKnows, Lake!Tracked
<1> DEFINE known == listed \cup {Index}
<1>3. CASE child.todo = {}
  <2>1. child' = [child EXCEPT !.stage = "ask", !.todo = listed]
    BY <1>3 DEF Lake!List
  <2>2. /\ child' \in Refreshes /\ child'.target = child.target /\ child'.had = child.had
        /\ child'.ask = None /\ child'.stage = "ask"
    BY <1>2, <2>1 DEF Refreshes
  <2> QED
    BY <1>1, <1>2, <1>3, <2>2, ChildGoesOn
<1>4. CASE child.todo # {}
  <2>1. child' = [child EXCEPT !.stage = "ask", !.todo = child.todo \cap known,
                               !.failed = child.todo \ known]
    BY <1>4 DEF Lake!List
  <2> HIDE DEF known
  <2>2. /\ child' \in Refreshes /\ child'.target = child.target /\ child'.had = child.had
        /\ child'.ask = None /\ child'.stage = "ask"
        /\ child'.todo = child.todo \cap known /\ child'.failed = child.todo \ known
    BY <1>2, <2>1 DEF Refreshes
  <2>3. \A s \in Lake!Tracked : Lake!Valid(s) => s \in child'.todo \/ s \in child'.failed
    BY <1>2, <2>2
  <2> QED
    BY <1>1, <2>2, <2>3, ChildGoesOn
<1> QED
  BY <1>3, <1>4

(* What the child asks from, for a file that can be read or is not there.     *)
LEMMA StartFollows ==
  ASSUME LakeInv, NEW s \in Lake!Tracked, child # None, lake[s].state # "damaged"
  PROVE  /\ Lake!Start(s, child.target) \in Nat
         /\ Lake!Valid(s) =>
              LET start == Lake!Start(s, child.target)
              IN  \/ start <= Lake!First(child.target)
                  \/ ~ lake[s].own /\ \A e \in lake[s].days : start <= e
                  \/ /\ lake[s].own /\ start = Lake!Max(lake[s].days) + 1
                     /\ After(s, lake[s].days, start, Lake!First(child.target))
<1> DEFINE start == Lake!Start(s, child.target)
<1>1. child.target \in Nat /\ Window = child.target /\ Lake!First(child.target) \in Nat
  <2>1. child.target \in Nat /\ Window = child.target
    BY LakeNumbers DEF Refreshes
  <2> QED
    BY <2>1, WindowMoves
<1>2. CASE Lake!Valid(s)
  <2>1. /\ Lake!Max(lake[s].days) \in Nat /\ Lake!Min(lake[s].days) \in Nat
        /\ Lake!Max(lake[s].days) \in lake[s].days /\ lake[s].days \in SUBSET Nat
        /\ \A d \in lake[s].days : d <= Lake!Max(lake[s].days) /\ Lake!Min(lake[s].days) <= d
        /\ NoGap(s, lake[s].days, Lake!First(child.target))
    BY <1>1, <1>2, FileEnds
  <2>2. CASE start = Lake!First(child.target)
    BY <1>1, <2>2
  <2>3. CASE ~ lake[s].own /\ start = Lake!Min(lake[s].days)
    BY <2>1, <2>3
  <2>4. CASE lake[s].own /\ start = Lake!Max(lake[s].days) + 1
    <3> HIDE DEF start
    <3>1. start \in Nat /\ \A e \in lake[s].days : e < start
      BY <2>1, <2>4
    <3> QED
      BY <2>1, <2>4, <3>1 DEF After, start
  <2> QED
    BY <2>2, <2>3, <2>4 DEF Lake!Start
<1>3. CASE ~ Lake!Valid(s)
  <2>1. lake[s].own /\ lake[s].days = {}
    BY <1>3 DEF LakeInv, LakeTypeOK, Lake!Valid
  <2>2. Lake!Short(s)
    <3>1. Cardinality(lake[s].days) = 0
      BY <2>1, FS_EmptySet
    <3>2. Lake!Cardinality(lake[s].days) = Cardinality(lake[s].days)
      BY DEF Lake!Cardinality, Cardinality
    <3> QED
      BY <3>1, <3>2 DEF Lake!Short
  <2> QED
    BY <1>1, <1>3, <2>1, <2>2 DEF Lake!Start
<1> QED
  BY <1>2, <1>3

(* A file that has the last session asked for is skipped.                     *)
LEMMA SkipStep ==
  ASSUME LakeInv, NEW q \in Lake!Tracked, Lake!Skip(q)
  PROVE  LakeInv'
<1> DEFINE start == Lake!Start(q, child.target)
<1>1. /\ child # None /\ child.stage = "ask" /\ child.ask = None /\ lake[q].state # "damaged"
      /\ start > child.target /\ child' = [child EXCEPT !.todo = @ \ {q}]
      /\ UNCHANGED <<lake, session, posted, listed>>
  BY DEF Lake!Skip, Lake!Asking, Lake!Stage, Lake!World
<1>2. child \in Refreshes /\ Window = child.target /\ child.target \in Nat
  BY <1>1, LakeNumbers DEF Refreshes
<1>3. /\ child' \in Refreshes /\ child'.target = child.target /\ child'.had = child.had
      /\ child'.ask = None /\ child'.stage = "ask"
      /\ child'.todo = child.todo \ {q} /\ child'.failed = child.failed
  BY <1>1, <1>2 DEF Refreshes
<1>4. Lake!Valid(q) => UpToDate(q, child)
  <2> SUFFICES ASSUME Lake!Valid(q)
               PROVE  UpToDate(q, child)
    OBVIOUS
  <2>1. start \in Nat
        /\ \/ start <= Lake!First(child.target)
           \/ ~ lake[q].own /\ \A e \in lake[q].days : start <= e
           \/ start = Lake!Max(lake[q].days) + 1
    BY <1>1, StartFollows
  <2>2. Lake!First(child.target) <= child.target \/ child.target = 0
    BY <1>2 DEF Lake!First
  <2>3. lake[q].days \in SUBSET Nat /\ Lake!Max(lake[q].days) \in Nat
    BY FileEnds
  <2> HIDE DEF start
  <2>4. CASE start = Lake!Max(lake[q].days) + 1
    <3>1. child.target <= Lake!Max(lake[q].days)
      BY <1>1, <1>2, <2>1, <2>3, <2>4 DEF start
    <3> QED
      BY <1>2, <3>1, ReachedIsUpToDate
  <2>5. CASE \A e \in lake[q].days : start <= e
    <3>1. \A to \in Nat : to <= child.target => \A e \in lake[q].days : to < e
      BY <1>1, <1>2, <2>1, <2>3, <2>5 DEF start
    <3>2. \A to \in Nat, d \in Nat : to <= child.target /\ d <= to => \A e \in lake[q].days : ~ (e <= d)
      BY <2>3, <3>1
    <3> QED
      BY <3>2, TradedDays DEF UpToDate, Whole
  <2>6. CASE start <= Lake!First(child.target)
    <3>1. Lake!First(child.target) \in Nat /\ child.target < Lake!First(child.target)
      BY <1>1, <1>2, <2>1, <2>6, WindowMoves DEF start
    <3> QED
      BY <1>2, <3>1, TradedDays DEF UpToDate, Whole
  <2> QED
    BY <2>1, <2>4, <2>5, <2>6
<1>5. \A s \in Lake!Tracked : Lake!Valid(s) =>
         s \in child'.todo \/ s \in child'.failed \/ UpToDate(s, child)
  BY <1>1, <1>3, <1>4 DEF LakeInv, ChildKnows
<1> QED
  BY <1>1, <1>3, <1>5, ChildGoesOn

(* The child asks for what follows on the file, or replaces it.               *)
LEMMA AskStep ==
  ASSUME LakeInv, NEW q \in Lake!Tracked, Lake!Ask(q)
  PROVE  LakeInv'
<1> DEFINE start == Lake!Start(q, child.target)
           ask == [sym |-> q, days |-> Lake!Answer(q, child.target), replace |-> ~ lake[q].own]
<1>1. /\ child # None /\ child.stage = "ask" /\ lake[q].state # "damaged"
      /\ child' = [child EXCEPT !.ask = ask]
      /\ UNCHANGED <<lake, session, posted, listed>>
  BY DEF Lake!Ask, Lake!Asking, Lake!Stage, Lake!World
<1>2. child \in Refreshes /\ Window = child.target /\ child.target \in Nat
      /\ child.target <= session /\ child.had <= Lake!Newest /\ child.had \in Nat
      /\ Lake!Newest \in Nat
  BY <1>1, LakeNumbers DEF LakeInv, ChildKnows, Refreshes
<1>3. ask \in Asks /\ ask.sym = q /\ ask.replace = ~ lake[q].own
      /\ ask.days = AnswerFor(q, start, child.target, Lake!Newest)
  <2>1. Lake!Answer(q, child.target) = AnswerFor(q, start, child.target, Lake!Newest)
    BY DEF Lake!Answer, AnswerFor
  <2>2. AnswerFor(q, start, child.target, Lake!Newest) \in SUBSET Nat
    BY TradedDays DEF AnswerFor
  <2>3. lake[q].own \in BOOLEAN
    BY DEF LakeInv, LakeTypeOK, Files
  <2> HIDE DEF start
  <2> QED
    BY <2>1, <2>2, <2>3 DEF Asks
<1>4. /\ start \in Nat
      /\ Lake!Valid(q) =>
            /\ \A e \in lake[q].days : e <= Lake!Newest
            /\ \/ start <= Lake!First(child.target)
               \/ ~ lake[q].own /\ \A e \in lake[q].days : start <= e
               \/ lake[q].own /\ After(q, lake[q].days, start, Lake!First(child.target))
  BY <1>1, StartFollows, FileEnds
<1> HIDE DEF start, ask
<1>5. /\ child' \in Refreshes /\ child'.target = child.target /\ child'.had = child.had
      /\ child'.ask = ask /\ child'.stage = "ask"
      /\ child'.todo = child.todo /\ child'.failed = child.failed
  BY <1>1, <1>2, <1>3 DEF Refreshes
<1>6. ChildKnows'
  <2>1. \A s \in Lake!Tracked : Lake!Valid(s)' =>
             \/ s \in child'.todo
             \/ s \in child'.failed
             \/ UpToDate(s, child)'
    <3>1. \A s : UpToDate(s, child) => UpToDate(s, child)'
      BY <1>1, <1>5 DEF UpToDate, Whole, Lake!Traded, Lake!Sessions, Lake!First
    <3>2. \A s \in Lake!Tracked : Lake!Valid(s)' => Lake!Valid(s)
      BY <1>1 DEF Lake!Valid
    <3> QED
      BY <1>1, <1>5, <3>1, <3>2 DEF LakeInv, ChildKnows
  <2>2. child'.target <= session' /\ child'.had <= Lake!Newest'
    BY <1>1, <1>2, <1>5 DEF Lake!Newest
  <2> QED
    BY <1>5, <2>1, <2>2 DEF ChildKnows
<1>7. AskFollows'
  <2>1. Follows(q, lake[q], ask, child.target, start, Lake!Newest)
    <3>1. Lake!Valid(q) <=> lake[q].state = "bars"
      BY DEF Lake!Valid
    <3> QED
      BY <1>3, <1>4, <3>1 DEF Follows
  <2>2. Lake!Newest' = Lake!Newest
    BY <1>1 DEF Lake!Newest
  <2> QED
    BY <1>1, <1>2, <1>3, <1>4, <1>5, <2>1, <2>2 DEF AskFollows
<1> QED
  BY <1>1, <1>2, <1>5, <1>6, <1>7, ChildMoves

(* A request is refused: the symbol has failed.                               *)
LEMMA RefusedStep ==
  ASSUME LakeInv, NEW q \in Lake!Tracked, Lake!Refused(q)
  PROVE  LakeInv'
<1>1. /\ child # None /\ child.stage = "ask"
      /\ child' = [child EXCEPT !.todo = @ \ {q}, !.ask = None, !.failed = @ \cup {q}]
      /\ UNCHANGED <<lake, session, posted, listed>>
  BY DEF Lake!Refused, Lake!Asking, Lake!Stage, Lake!World, Lake!FailedFor
<1>2. child \in Refreshes
  BY <1>1, LakeNumbers
<1>3. /\ child' \in Refreshes /\ child'.target = child.target /\ child'.had = child.had
      /\ child'.ask = None /\ child'.stage = "ask"
      /\ child'.todo = child.todo \ {q} /\ child'.failed = child.failed \cup {q}
  BY <1>1, <1>2 DEF Refreshes
<1>4. \A s \in Lake!Tracked : Lake!Valid(s) =>
         s \in child'.todo \/ s \in child'.failed \/ UpToDate(s, child)
  BY <1>1, <1>3 DEF LakeInv, ChildKnows
<1> QED
  BY <1>1, <1>3, <1>4, ChildGoesOn

(* All is done: the child ends its refresh.                                   *)
LEMMA FinishStep ==
  ASSUME LakeInv, Lake!Finish
  PROVE  LakeInv'
<1>1. /\ child # None /\ child.stage = "ask" /\ child.ask = None /\ child.todo = {}
      /\ child' = [child EXCEPT !.stage = "end"]
      /\ UNCHANGED <<lake, session, posted, listed>>
  BY DEF Lake!Finish, Lake!Stage, Lake!World
<1>2. child \in Refreshes
  BY <1>1, LakeNumbers
<1>3. /\ child' \in Refreshes /\ child'.target = child.target /\ child'.had = child.had
      /\ child'.ask = None /\ child'.stage = "end" /\ child'.failed = child.failed
  BY <1>1, <1>2 DEF Refreshes
<1>4. \A s \in Lake!Tracked : Lake!Valid(s) => s \in child'.failed \/ UpToDate(s, child)
  BY <1>1, <1>3 DEF LakeInv, ChildKnows
<1> QED
  BY <1>1, <1>3, <1>4, ChildGoesOn

(* What a write makes of a file: the answer, the answer after what there was, *)
(* or, of no answer, what there was.                                          *)
Updated(file, ask) ==
    IF ask.days = {} THEN file
    ELSE [state |-> "bars", days |-> ask.days \cup (IF ask.replace THEN {} ELSE file.days), own |-> TRUE]

(* What the bars of a file are up to a target, for what could be had.         *)
BarsWhole(s, bars, target, n) ==
    /\ bars # {} /\ bars \subseteq Lake!Traded(s) /\ \A d \in bars : d <= n /\ d <= target
    /\ \A to \in Nat : to <= target /\ to <= n => Whole(s, bars, Lake!First(target), to)

(* A file that is written has no gap up to what was asked for and could be    *)
(* had; and it has no day beyond.                                             *)
LEMMA UpdatedWhole ==
  ASSUME NEW q, NEW file \in Files, NEW ask \in Asks, NEW target \in Nat,
         NEW start \in Nat, NEW n \in Nat, Follows(q, file, ask, target, start, n),
         file.state # "bars" => file.days = {},
         file.state = "bars" => /\ file.days # {} /\ file.days \subseteq Lake!Traded(q)
                                /\ \A e \in file.days : e <= target,
         Updated(file, ask).state = "bars"
  PROVE  Updated(file, ask) \in Files /\ BarsWhole(q, Updated(file, ask).days, target, n)
<1>1. PICK old : old = file.days /\ old \in SUBSET Nat
  BY DEF Files
<1>2. PICK new : new = ask.days /\ new \in SUBSET Nat
  BY DEF Asks
<1>3. PICK from \in Nat : from = Lake!First(target)
  BY WindowMoves
<1>4. Lake!Traded(q) \subseteq Nat
  BY TradedDays
<1>5. /\ new = AnswerFor(q, start, target, n)
      /\ file.state = "bars" => /\ \A e \in old : e <= n
                                /\ \/ start <= from
                                   \/ ask.replace /\ \A e \in old : start <= e
                                   \/ ~ ask.replace /\ After(q, old, start, from)
  BY <1>1, <1>2, <1>3 DEF Follows
<1>6. new \subseteq Lake!Traded(q) /\ \A d \in new : d <= n /\ d <= target
  BY <1>4, <1>5 DEF AnswerFor
<1>7. \A to \in Nat : to <= target /\ to <= n =>
         /\ Whole(q, new, from, to)
         /\ start <= from \/ After(q, old, start, from) => Whole(q, new \cup old, from, to)
         /\ new = {} /\ (\A e \in old : start <= e) => Whole(q, old, from, to)
  <2> SUFFICES ASSUME NEW to \in Nat, to <= target, to <= n
               PROVE  /\ Whole(q, new, from, to)
                      /\ start <= from \/ After(q, old, start, from) => Whole(q, new \cup old, from, to)
                      /\ new = {} /\ (\A e \in old : start <= e) => Whole(q, old, from, to)
    OBVIOUS
  <2> QED
    BY <1>1, <1>4, <1>5, AnswerWhole
<1>8. CASE new = {}
  <2>1. Updated(file, ask) = file /\ file.state = "bars"
    BY <1>2, <1>8 DEF Updated
  <2>2. new \cup old = old
    BY <1>8
  <2>3. \A to \in Nat : to <= target /\ to <= n => Whole(q, old, from, to)
    BY <1>5, <1>7, <1>8, <2>1, <2>2
  <2> QED
    BY <1>1, <1>3, <1>5, <2>1, <2>3 DEF BarsWhole
<1>9. CASE new # {} /\ (ask.replace \/ file.state # "bars")
  <2>1. Updated(file, ask) = [state |-> "bars", days |-> new, own |-> TRUE]
    <3>1. new \cup (IF ask.replace THEN {} ELSE old) = new
      BY <1>1, <1>9
    <3> QED
      BY <1>1, <1>2, <1>9, <3>1 DEF Updated
  <2>2. [state |-> "bars", days |-> new, own |-> TRUE] \in Files
    BY <1>2 DEF Files
  <2> QED
    BY <1>3, <1>6, <1>7, <1>9, <2>1, <2>2 DEF BarsWhole
<1>10. CASE new # {} /\ ~ ask.replace /\ file.state = "bars"
  <2>1. Updated(file, ask) = [state |-> "bars", days |-> new \cup old, own |-> TRUE]
    BY <1>1, <1>2, <1>10 DEF Updated
  <2>2. [state |-> "bars", days |-> new \cup old, own |-> TRUE] \in Files
    BY <1>1, <1>2 DEF Files
  <2>3. start <= from \/ After(q, old, start, from)
    BY <1>5, <1>10
  <2>4. \A to \in Nat : to <= target /\ to <= n => Whole(q, new \cup old, from, to)
    BY <1>7, <2>3
  <2>5. new \cup old # {} /\ new \cup old \subseteq Lake!Traded(q)
        /\ \A d \in new \cup old : d <= n /\ d <= target
    BY <1>1, <1>5, <1>6, <1>10
  <2> QED
    BY <1>3, <2>1, <2>2, <2>4, <2>5 DEF BarsWhole
<1> QED
  BY <1>8, <1>9, <1>10

(* A file that cannot be read now fails.                                      *)
LEMMA UnreadStep ==
  ASSUME LakeInv, NEW q \in Lake!Tracked, child # None, child.stage = "ask",
         child' = [child EXCEPT !.todo = @ \ {q}, !.ask = None, !.failed = @ \cup {q}],
         UNCHANGED <<lake, session, posted, listed>>
  PROVE  LakeInv'
<1>1. child \in Refreshes
  BY LakeNumbers
<1>3. /\ child' \in Refreshes /\ child'.target = child.target /\ child'.had = child.had
      /\ child'.ask = None /\ child'.stage = "ask"
      /\ child'.todo = child.todo \ {q} /\ child'.failed = child.failed \cup {q}
  BY <1>1 DEF Refreshes
<1>4. \A s \in Lake!Tracked : Lake!Valid(s) =>
         s \in child'.todo \/ s \in child'.failed \/ UpToDate(s, child)
  BY <1>3 DEF LakeInv, ChildKnows
<1> QED
  BY <1>3, <1>4, ChildGoesOn

(* The answer is written: the file it is for is up to date.                   *)
LEMMA AnswerStep ==
  ASSUME LakeInv, child # None, child.stage = "ask", child.ask # None,
         lake' = [lake EXCEPT ![child.ask.sym] = Lake!Merged(child.ask.sym, child.ask)],
         child' = [child EXCEPT !.todo = @ \ {child.ask.sym}, !.ask = None],
         UNCHANGED <<session, posted, listed>>
  PROVE  LakeInv'
<1>1. /\ child \in Refreshes /\ Window = child.target /\ child.target \in Nat /\ child.had \in Nat
      /\ Lake!Newest \in Nat /\ child.target <= session /\ child.had <= Lake!Newest
  BY LakeNumbers DEF LakeInv, ChildKnows, Refreshes
<1>2. PICK ask \in Asks : ask = child.ask
  BY <1>1 DEF Refreshes
<1>3. PICK q \in Lake!Tracked : q = ask.sym
  BY <1>2 DEF Asks
<1>4. PICK file \in Files : file = lake[q]
  BY DEF LakeInv, LakeTypeOK
<1>5. PICK start \in Nat, n \in Nat :
         child.had <= n /\ n <= Lake!Newest /\ Follows(q, file, ask, child.target, start, n)
  BY <1>2, <1>3, <1>4 DEF LakeInv, AskFollows
<1>6. PICK new : new = Updated(file, ask)
  OBVIOUS
<1>7. Lake!Merged(q, ask) = new
  BY <1>4, <1>6 DEF Lake!Merged, Lake!Bars, Updated
<1>8. /\ file.state # "bars" => file.days = {} /\ file.own
      /\ file.state = "bars" => /\ file.days # {} /\ file.days \subseteq Lake!Traded(q)
                                /\ \A e \in file.days : e <= child.target
  BY <1>1, <1>4 DEF LakeInv, LakeTypeOK, FilesWhole, Lake!Valid
<1>9. new \in Files /\ (new.state = "bars" => BarsWhole(q, new.days, child.target, n))
      /\ (new.state # "bars" => new.days = {} /\ new.own)
  <2>1. CASE new.state = "bars"
    BY <1>1, <1>5, <1>6, <1>8, <2>1, UpdatedWhole
  <2>2. CASE new.state # "bars"
    <3>1. new = file
      BY <1>6, <2>2 DEF Updated
    <3> QED
      BY <1>8, <2>2, <3>1
  <2> QED
    BY <2>1, <2>2
<1>10. /\ lake' \in [Lake!Tracked -> Files]
       /\ \A s \in Lake!Tracked : lake'[s] = IF s = q THEN new ELSE lake[s]
  <2>1. lake' = [lake EXCEPT ![q] = new]
    BY <1>2, <1>3, <1>7
  <2> QED
    BY <1>9, <2>1 DEF LakeInv, LakeTypeOK
<1>11. /\ child' \in Refreshes /\ child'.target = child.target /\ child'.had = child.had
       /\ child'.ask = None /\ child'.stage = "ask"
       /\ child'.todo = child.todo \ {q} /\ child'.failed = child.failed
  <2>1. child' = [child EXCEPT !.todo = @ \ {q}, !.ask = None]
    BY <1>2, <1>3
  <2> QED
    BY <1>1, <2>1 DEF Refreshes
<1>12. Lake!Newest' = Lake!Newest /\ Window' \in Nat /\ Window <= Window'
  <2>1. session \in Nat
    BY LakeNumbers
  <2> QED
    BY <1>1, <1>11, <2>1 DEF Window, Lake!Newest
<1>13. LakeTypeOK'
  <2>1. \A s \in Lake!Tracked : lake'[s].state # "bars" => lake'[s].days = {} /\ lake'[s].own
    BY <1>9, <1>10 DEF LakeInv, LakeTypeOK
  <2>2. session' \in Nat \ {0} /\ posted' \in BOOLEAN /\ listed' \subseteq Stocks
    BY DEF LakeInv, LakeTypeOK
  <2> QED
    BY <1>10, <1>11, <2>1, <2>2 DEF LakeTypeOK, Files, Refreshes, Asks, Lake!Tracked
<1>14. \A s \in Lake!Tracked : lake'[s].state = "bars" /\ s # q => Lake!Valid(s) /\ lake'[s] = lake[s]
  BY <1>10 DEF Lake!Valid
<1>15. FilesWhole'
  <2>1. ASSUME NEW s \in Lake!Tracked, lake'[s].state = "bars"
        PROVE  /\ lake'[s].days # {} /\ lake'[s].days \subseteq Lake!Traded(s)
               /\ \A d \in lake'[s].days : d <= Lake!Newest /\ d <= Window
               /\ NoGap(s, lake'[s].days, Lake!First(Window))
    <3>1. CASE s = q
      <4>1. PICK bars : bars = new.days /\ BarsWhole(q, bars, child.target, n)
        BY <1>9, <1>10, <2>1, <3>1
      <4>2. bars # {} /\ bars \subseteq Lake!Traded(q) /\ \A d \in bars : d <= n /\ d <= child.target
        BY <4>1 DEF BarsWhole
      <4>3. \A d \in bars : d \in Nat
        BY <4>2, TradedDays
      <4>4. \A d \in bars : d <= Lake!Newest
        BY <1>1, <1>5, <4>2, <4>3
      <4>5. NoGap(q, bars, Lake!First(Window))
        BY <1>1, <4>1, <4>2, <4>3 DEF NoGap, BarsWhole
      <4> QED
        BY <1>1, <1>10, <3>1, <4>1, <4>2, <4>4, <4>5
    <3>2. CASE s # q
      BY <1>14, <2>1, <3>2 DEF LakeInv, FilesWhole
    <3> QED
      BY <3>1, <3>2
  <2>2. ASSUME NEW s \in Lake!Tracked, lake'[s].state = "bars"
        PROVE  /\ \A d \in lake'[s].days : d <= Window'
               /\ NoGap(s, lake'[s].days, Lake!First(Window'))
    <3>1. PICK bars : /\ bars = lake'[s].days /\ bars \subseteq Lake!Traded(s)
                      /\ \A d \in bars : d <= Window
                      /\ NoGap(s, bars, Lake!First(Window))
      BY <2>1, <2>2
    <3>2. \A d \in bars : d \in Nat /\ d <= Window'
      BY <1>1, <1>12, <3>1, TradedDays
    <3>3. /\ Lake!First(Window) \in Nat /\ Lake!First(Window') \in Nat
          /\ Lake!First(Window) <= Lake!First(Window')
      BY <1>1, <1>12, WindowMoves
    <3>4. NoGap(s, bars, Lake!First(Window'))
      BY <3>1, <3>3, TradedDays, NarrowerWhole DEF NoGap
    <3> QED
      BY <3>1, <3>2, <3>4
  <2> QED
    BY <1>12, <2>1, <2>2
    DEF FilesWhole, Lake!Valid, NoGap, Whole, Lake!Traded, Lake!Sessions, Lake!First
<1>16. ChildKnows'
  <2>1. ASSUME NEW s \in Lake!Tracked, lake'[s].state = "bars"
        PROVE  \/ s \in child'.todo
               \/ s \in child'.failed
               \/ \A to \in Nat : to <= child.target /\ to <= child.had =>
                     Whole(s, lake'[s].days, Lake!First(child.target), to)
    <3>1. CASE s = q
      <4>1. BarsWhole(q, new.days, child.target, n)
        BY <1>9, <1>10, <2>1, <3>1
      <4>2. \A to \in Nat : to <= child.had => to <= n
        BY <1>1, <1>5
      <4> QED
        BY <1>10, <3>1, <4>1, <4>2 DEF BarsWhole
    <3>2. CASE s # q
      BY <1>11, <1>14, <2>1, <3>2 DEF LakeInv, ChildKnows, UpToDate
    <3> QED
      BY <3>1, <3>2
  <2>2. child'.target <= session' /\ child'.had <= Lake!Newest'
    BY <1>1, <1>11, <1>12
  <2> QED
    BY <1>11, <2>1, <2>2
    DEF ChildKnows, Lake!Valid, UpToDate, Whole, Lake!Traded, Lake!Sessions, Lake!First
<1>17. AskFollows'
  BY <1>11 DEF AskFollows
<1> QED
  BY <1>13, <1>15, <1>16, <1>17 DEF LakeInv

(* The answer to a request is written, or the file cannot be read.            *)
LEMMA WriteStep ==
  ASSUME LakeInv, Lake!Write
  PROVE  LakeInv'
<1>1. child # None /\ child.stage = "ask" /\ child.ask # None /\ UNCHANGED <<session, posted, listed>>
  BY DEF Lake!Write, Lake!Stage, Lake!World
<1>2. child.ask.sym \in Lake!Tracked
  BY <1>1 DEF LakeInv, LakeTypeOK, Refreshes, Asks
<1>3. \/ /\ lake' = lake
         /\ child' = [child EXCEPT !.todo = @ \ {child.ask.sym}, !.ask = None,
                                    !.failed = @ \cup {child.ask.sym}]
      \/ /\ lake' = [lake EXCEPT ![child.ask.sym] = Lake!Merged(child.ask.sym, child.ask)]
         /\ child' = [child EXCEPT !.todo = @ \ {child.ask.sym}, !.ask = None]
  BY DEF Lake!Write, Lake!FailedFor
<1> QED
  BY <1>1, <1>2, <1>3, UnreadStep, AnswerStep

(* A step of another scene leaves the lake alone.                             *)
LEMMA LakeAlone ==
  ASSUME LakeInv, UNCHANGED lakeVars
  PROVE  LakeInv'
BY DEF LakeInv, lakeVars, LakeTypeOK, Files, Refreshes, Asks, Lake!Tracked, FilesWhole, Window,
       Lake!Valid, Lake!Newest, NoGap, Whole, Lake!Traded, Lake!Sessions, Lake!First, ChildKnows,
       UpToDate, AskFollows, Follows, AnswerFor, After

(* Every step of the lake keeps its invariant.                                *)
LEMMA LakeStep ==
  ASSUME LakeInv, Lake!LakeNext
  PROVE  LakeInv'
<1>1. ASSUME NEW held \in {{}, Steady}, Lake!Launch(held) PROVE LakeInv'
  BY <1>1, LakeLaunchStep
<1>2. ASSUME NEW s \in Lake!Tracked, Lake!Quarantine(s) \/ Lake!Skip(s) \/ Lake!Ask(s) \/ Lake!Refused(s)
      PROVE  LakeInv'
  BY <1>2, QuarantineStep, SkipStep, AskStep, RefusedStep
<1>3. CASE Lake!Break \/ Lake!Publish \/ Lake!GiveUp
  <2>1. child' = None /\ UNCHANGED <<lake, session, posted, listed>>
    BY <1>3 DEF Lake!Break, Lake!Publish, Lake!GiveUp, Lake!World
  <2> QED
    BY <2>1, ChildEnds
<1> QED
  BY <1>1, <1>2, <1>3, ListStep, WriteStep, FinishStep, LakeElsewhereStep DEF Lake!LakeNext

(* A refresh starts with files of consecutive sessions.                       *)
LEMMA LakeStart ==
  ASSUME Init
  PROVE  LakeInv
<1>1. /\ session = 3 /\ posted \in BOOLEAN
      /\ lake \in [Lake!Tracked -> {Lake!Absent, Lake!Bars({1, 2}, TRUE), Lake!Bars({1}, TRUE),
                                    Lake!Bars({1, 2}, FALSE)}]
      /\ \A s \in Lake!Tracked : lake[s].days \subseteq Lake!Traded(s)
      /\ listed = Stocks /\ child = None
  BY DEF Init, Lake!LakeInit
<1>2. /\ lake \in [Lake!Tracked -> Files]
      /\ \A s \in Lake!Tracked : lake[s].state # "bars" => lake[s].days = {} /\ lake[s].own
      /\ \A s \in Lake!Tracked : lake[s].state = "bars" => lake[s].days = {1} \/ lake[s].days = {1, 2}
  <2> DEFINE Good(f) == /\ f \in Files
                        /\ f.state # "bars" => f.days = {} /\ f.own
                        /\ f.state = "bars" => f.days = {1} \/ f.days = {1, 2}
  <2>1. Good(Lake!Absent)
    BY DEF Lake!Absent, Files
  <2>2. ASSUME NEW set \in {{1}, {1, 2}}, NEW own \in BOOLEAN
        PROVE  Good(Lake!Bars(set, own))
    <3>1. set \in SUBSET Nat /\ (set = {1} \/ set = {1, 2})
      OBVIOUS
    <3> QED
      BY <3>1 DEF Lake!Bars, Files
  <2>3. Good(Lake!Bars({1, 2}, TRUE)) /\ Good(Lake!Bars({1}, TRUE)) /\ Good(Lake!Bars({1, 2}, FALSE))
    BY <2>2
  <2>4. \A s \in Lake!Tracked : Good(lake[s])
    <3> HIDE DEF Good
    <3> QED
      BY <1>1, <2>1, <2>3
  <2> QED
    BY <1>1, <2>4
<1>3. LakeTypeOK
  BY <1>1, <1>2 DEF LakeTypeOK
<1>4. Lake!Newest \in Nat /\ 2 <= Lake!Newest /\ Window = 3 /\ Lake!First(3) \in Nat
  <2>1. Lake!Newest = 2 \/ Lake!Newest = 3
    BY <1>1 DEF Lake!Newest
  <2> QED
    BY <1>1, <2>1, WindowMoves DEF Window
<1>5. ASSUME NEW s \in Lake!Tracked, Lake!Valid(s)
      PROVE  /\ lake[s].days # {} /\ lake[s].days \subseteq Lake!Traded(s)
             /\ \A d \in lake[s].days : d <= Lake!Newest /\ d <= Window
             /\ NoGap(s, lake[s].days, Lake!First(Window))
  <2>1. PICK bars : bars = lake[s].days /\ (bars = {1} \/ bars = {1, 2})
    BY <1>1, <1>2, <1>5 DEF Lake!Valid
  <2>2. \A d \in Lake!Traded(s) : d \in Nat \ {0}
    BY DEF Lake!Traded, Lake!Sessions
  <2>3. ASSUME NEW to \in bars, NEW d \in Lake!Traded(s), d <= to, \E e \in bars : e <= d
        PROVE  d \in bars
    BY <2>1, <2>2, <2>3
  <2>4. NoGap(s, bars, Lake!First(Window))
    BY <2>3 DEF NoGap, Whole
  <2> QED
    BY <1>1, <1>4, <2>1, <2>4
<1>6. FilesWhole
  BY <1>5 DEF FilesWhole
<1>7. ChildKnows /\ AskFollows
  BY <1>1 DEF ChildKnows, AskFollows
<1> QED
  BY <1>3, <1>6, <1>7 DEF LakeInv

(* Every reachable state of a refresh satisfies the invariant.                *)
THEOREM LakeAlways == Spec => []LakeInv
<1>1. ASSUME LakeInv, [Next]_vars PROVE LakeInv'
  <2>1. Lake!LakeNext \/ UNCHANGED lakeVars
    BY <1>1 DEF Next, In, vars, Parts, Account, Research
  <2> QED
    BY <1>1, <2>1, LakeStep, LakeAlone
<1> QED
  BY <1>1, LakeStart, PTL DEF Spec

(* Daily candidates are published only when no file lacks a session, from the *)
(* first day it has in the window on, that could be had when the refresh      *)
(* began: a file that failed keeps them from being published, and what was    *)
(* merged follows on what was held (refresh_eod_state, merge of daily bars).  *)
THEOREM PublishedIsWhole == Spec => PublishedWhole
<1>1. ASSUME LakeInv, [Next]_vars, cutoff' # cutoff
      PROVE  \A s \in Lake!Tracked : Lake!Valid(s) => Lake!Owed(s, child) \subseteq lake[s].days
  <2>1. Lake!LakeNext
    BY <1>1 DEF Next, In, vars, Parts, Account, Research, lakeVars
  <2>2. Lake!Publish
    BY <1>1, <2>1
    DEF Lake!LakeNext, Lake!Launch, Lake!Quarantine, Lake!Skip, Lake!Ask, Lake!Refused, Lake!List,
        Lake!Write, Lake!Finish, Lake!Break, Lake!GiveUp, Lake!Elsewhere
  <2>3. child # None /\ child.stage = "end" /\ child.failed = {}
    BY <2>2 DEF Lake!Publish, Lake!Stage
  <2> SUFFICES ASSUME NEW s \in Lake!Tracked, Lake!Valid(s), NEW d \in Lake!Owed(s, child)
               PROVE  d \in lake[s].days
    OBVIOUS
  <2>4. UpToDate(s, child)
    BY <1>1, <2>3 DEF LakeInv, ChildKnows
  <2>5. /\ d \in Lake!Traded(s) /\ d \in Nat /\ Lake!First(child.target) <= d
        /\ Lake!Min(lake[s].days) <= d /\ d <= child.target /\ d <= child.had
    BY TradedDays DEF Lake!Owed
  <2>6. Lake!Min(lake[s].days) \in lake[s].days
    BY <1>1, FileEnds
  <2> QED
    BY <2>4, <2>5, <2>6 DEF UpToDate, Whole
<1>2. ASSUME LakeInv, [Next]_vars
      PROVE  [cutoff' # cutoff =>
                \A s \in Lake!Tracked : Lake!Valid(s) => Lake!Owed(s, child) \subseteq lake[s].days]_lakeVars
  BY <1>1, <1>2
<1> QED
  BY <1>2, LakeAlways, PTL DEF Spec, PublishedWhole, Lake!PublishedWhole, Lake!lakeVars, lakeVars
=============================================================================
