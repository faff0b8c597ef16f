-------------------------- MODULE ResearchDataStore --------------------------
(* The research data store: immutable content-addressed blobs, an append-only *)
(* manifest that is replaced as a whole, and beside every temporary file a    *)
(* marker that says who owns it.  Every operation runs under one file lock,   *)
(* so one at a time; but it may fail or its process may end at any step, and  *)
(* what it leaves behind counts against the quota of the store.               *)
EXTENDS Naturals, Sequences, FiniteSets, Functions, FiniteSetsExt

CONSTANTS Keys, Versions, Contents,
          Size,          \* bytes of a content; a manifest record is one byte
          MaxFile,       \* maximum_single_file_bytes
          MaxBytes,      \* maximum_research_data_bytes
          MaxReplaces,   \* bound: calls of replace_dataset
          MaxUpsets,     \* bound: failures, ends of a process, damaged blobs
          None

VARIABLES manifest,    \* manifest.jsonl: the records, oldest first
          blobs,       \* digests with a file in blobs/
          damaged,     \* the ones whose bytes no longer match their name
          strays,      \* stage, new-manifest and rollback files: [kind, n, size]
          markers,     \* ownership/: [kind, n, of, sealed]
          op,          \* the operation that holds the lock, None if it is free
          handed,      \* artifacts returned to callers
          calls, upsets

storeVars == <<manifest, blobs, damaged, strays, markers, op, handed, calls, upsets>>

Record(o) == [key |-> o.key, version |-> o.version, digest |-> o.digest]
Referenced == {r.digest : r \in Range(manifest)}

(* _load_records: every operation but verify first checks every blob.        *)
Readable == Referenced \subseteq blobs \ damaged
Tree == MapThenSumSet(LAMBDA d : Size[d], blobs)
        + MapThenSumSet(LAMBDA f : f.size, strays) + Len(manifest)

(* Markers: a stage or manifest file belongs to call n, a blob to a digest.  *)
MarkerOf(kind, n, of) == [kind |-> kind, n |-> n, of |-> of, sealed |-> FALSE]
Mine(kind) == {m \in markers : m.kind = kind /\ m.n = op.n}
Sealed(m) == [m EXCEPT !.sealed = TRUE]
SealMine(kind) == markers' = (markers \ Mine(kind)) \cup {Sealed(m) : m \in Mine(kind)}
File(kind, size) == [kind |-> kind, n |-> op.n, size |-> size]
FilesOf(kind) == {f \in strays : f.kind = kind /\ f.n = op.n}

StoreInit ==
    /\ manifest = <<>> /\ blobs = {} /\ damaged = {} /\ strays = {} /\ markers = {}
    /\ op = None /\ handed = {} /\ calls = 0 /\ upsets = 0

(* An operation waits for the file lock; if it is not free in time it raises *)
(* and nothing has changed.                                                  *)
LockFree == op = None

(* replace_dataset takes the lock, loads the manifest and marks its stage.   *)
Begin(k, v, d) ==
    /\ LockFree /\ Readable /\ calls < MaxReplaces
    /\ calls' = calls + 1
    /\ op' = [pc |-> "stage", key |-> k, version |-> v, digest |-> d, n |-> calls + 1,
              known |-> {}, old |-> <<>>, published |-> FALSE]
    /\ markers' = markers \cup {MarkerOf("stage", calls + 1, None)}
    /\ UNCHANGED <<manifest, blobs, damaged, strays, handed, upsets>>

(* A file of this call is written and its identity captured ("known").       *)
Write(from, to, kind, size) ==
    /\ op # None /\ op.pc = from
    /\ strays' = strays \cup {File(kind, size)}
    /\ op' = [op EXCEPT !.pc = to, !.known = @ \cup {kind}]
    /\ UNCHANGED <<manifest, blobs, damaged, markers, handed, calls, upsets>>

Seal(from, to, kind) ==
    /\ op # None /\ op.pc = from
    /\ SealMine(kind)
    /\ op' = [op EXCEPT !.pc = to]
    /\ UNCHANGED <<manifest, blobs, damaged, strays, handed, calls, upsets>>

WriteStage == op # None /\ Write("stage", "staged", "stage", Size[op.digest])
SealStage == Seal("staged", "decide", "stage")

(* _find_idempotent, the version conflict, _manifest_peak_reserve with       *)
(* _enforce_limits, and the choice between a new blob and a stored one.      *)
Reserve == Len(manifest) + 1 + Len(manifest)
Fits(reserve) == Size[op.digest] <= MaxFile /\ Tree + reserve <= MaxBytes
(* Mutant: another content under a known version is no conflict. *)
SameContent == {r \in Range(manifest) : r.key = op.key /\ r.version = op.version /\ r.digest = op.digest}

SameVersion == {r \in Range(manifest) : r.key = op.key /\ r.version = op.version}
Verdict == IF Record(op) \in SameVersion THEN IF Fits(0) THEN "known" ELSE "raise"
           ELSE IF SameVersion # {} \/ ~ Fits(Reserve) THEN "raise"
           ELSE IF op.digest \notin blobs THEN "new"
           ELSE IF op.digest \in damaged THEN "raise" ELSE "stored"

Decide ==
    /\ op # None /\ op.pc = "decide"
    /\ op' = [op EXCEPT !.pc = CASE Verdict = "new" -> "move" [] Verdict = "stored" -> "mark"
                                 [] OTHER -> "finally"]
    /\ markers' = IF Verdict = "new"
                  THEN markers \cup {MarkerOf("orphan_blob", op.n, op.digest)} ELSE markers
    /\ handed' = IF Verdict = "known" THEN handed \cup {Record(op)} ELSE handed
    /\ UNCHANGED <<manifest, blobs, damaged, strays, calls, upsets>>

(* os.replace(stage, blob): the file changes its name, not its bytes.        *)
MoveBlob ==
    /\ op # None /\ op.pc = "move"
    /\ strays' = strays \ FilesOf("stage")
    /\ blobs' = blobs \cup {op.digest}
    /\ damaged' = damaged \ {op.digest}
    /\ op' = [op EXCEPT !.pc = "moved"]
    /\ UNCHANGED <<manifest, markers, handed, calls, upsets>>

SealBlob == Seal("moved", "mark", "orphan_blob")

(* _publish_manifest: both markers, the rollback copy of the old manifest if *)
(* there is one, the new manifest, the tree against the quota once more.     *)
MarkManifest ==
    /\ op # None /\ op.pc = "mark"
    /\ markers' = markers \cup {MarkerOf("temp", op.n, None)}
                  \cup (IF manifest = <<>> THEN {} ELSE {MarkerOf("rollback", op.n, None)})
    /\ op' = [op EXCEPT !.pc = IF manifest = <<>> THEN "temp" ELSE "rollback"]
    /\ UNCHANGED <<manifest, blobs, damaged, strays, handed, calls, upsets>>

WriteRollback == Write("rollback", "rolled", "rollback", Len(manifest))
SealRollback == Seal("rolled", "temp", "rollback")
WriteTemp == Write("temp", "written", "temp", Len(manifest) + 1)
SealTemp == Seal("written", "replace", "temp")

Replace ==
    /\ op # None /\ op.pc = "replace" /\ Tree <= MaxBytes
    /\ manifest' = Append(manifest, Record(op))
    /\ strays' = strays \ FilesOf("temp")
    /\ op' = [op EXCEPT !.pc = "sync", !.old = manifest]
    /\ UNCHANGED <<blobs, damaged, markers, handed, calls, upsets>>

(* The directory is synchronised and the artifact returned.                  *)
Synced ==
    /\ op # None /\ op.pc = "sync"
    /\ op' = [op EXCEPT !.pc = "finally", !.published = TRUE]
    /\ handed' = handed \cup {Record(op)}
    /\ UNCHANGED <<manifest, blobs, damaged, strays, markers, calls, upsets>>

(* _restore_manifest: the old manifest comes back from its copy.             *)
Restore ==
    /\ op # None /\ op.pc = "sync" /\ upsets < MaxUpsets
    /\ manifest' = op.old
    /\ strays' = strays \ FilesOf("rollback")
    /\ op' = [op EXCEPT !.pc = "finally"]
    /\ upsets' = upsets + 1
    /\ UNCHANGED <<blobs, damaged, markers, handed, calls>>

(* Any other step raises.  A write that fails half way leaves a file whose   *)
(* identity was never captured; at "sync" the restoration failed as well.    *)
Writes == [stage |-> "stage", rollback |-> "rollback", temp |-> "temp"]
Raise ==
    /\ op # None /\ op.pc # "finally" /\ upsets < MaxUpsets
    /\ upsets' = upsets + 1
    /\ op' = [op EXCEPT !.pc = "finally"]
    /\ \/ UNCHANGED strays
       \/ op.pc \in DOMAIN Writes /\ strays' = strays \cup {File(Writes[op.pc], 1)}
    /\ UNCHANGED <<manifest, blobs, damaged, markers, handed, calls>>

(* _safe_unlink_owned_file: an own file goes if its marker is sealed or its  *)
(* identity is known, and its marker with it; else both stay.                *)
Removable(m) == m.kind # "orphan_blob" /\ (m.sealed \/ m.kind \in op.known \/ FilesOf(m.kind) = {})
(* Mutant: the marker of a blob goes although its record was not published. *)
RetiredUnpublished(m) == m.kind = "orphan_blob" /\ m.sealed

(* _safe_retire_owned_marker: the marker of a blob that was published.       *)
Retired(m) == m.kind = "orphan_blob" /\ op.published /\ m.sealed

Finally ==
    /\ op # None /\ op.pc = "finally"
    /\ LET gone == {m \in markers : m.n = op.n /\ (Removable(m) \/ Retired(m))}
       IN  \E first \in {m \in gone : m.kind # "orphan_blob"} \cup {None} :
             /\ (first = None) => \A m \in gone : FilesOf(m.kind) = {} \/ m.kind = "orphan_blob"
             /\ strays' = strays \ (IF first = None THEN {} ELSE FilesOf(first.kind))
             /\ markers' = markers \ (IF first = None THEN gone ELSE {first})
             /\ op' = IF first = None THEN None ELSE op
    /\ UNCHANGED <<manifest, blobs, damaged, handed, calls, upsets>>

(* The process ends; the lock is free and everything else stays.             *)
Crash ==
    /\ op # None /\ upsets < MaxUpsets
    /\ op' = None
    /\ upsets' = upsets + 1
    /\ UNCHANGED <<manifest, blobs, damaged, strays, markers, handed, calls>>

(* Mutant: what a record refers to goes with the marker that was left of it. *)
UnneededMarked(old) == {m.of : m \in old}

(* cleanup_rebuildable_temporary_files, over the sealed markers older than   *)
(* the grace period.  An unreferenced target that matches its seal goes, and *)
(* the marker with it unless the process ends before.  What the target of a  *)
(* marker allocated only is, nobody can tell: it stays.                      *)
Target(m) == {f \in strays : m.kind = f.kind /\ m.n = f.n}
Unneeded(old) == {m.of : m \in old} \ Referenced
Cleanable(m) == m.sealed /\ m.of \notin damaged
Clean(old) ==
    /\ LockFree /\ Readable
    /\ old # {} /\ old \subseteq {m \in markers : Cleanable(m)}
    /\ strays' = strays \ UNION {Target(m) : m \in old}
    /\ blobs' = blobs \ Unneeded(old)
    /\ \E left \in {{}} \cup {{m} : m \in old} :
         /\ left = {} \/ upsets < MaxUpsets
         /\ markers' = (markers \ old) \cup left
         /\ upsets' = IF left = {} THEN upsets ELSE upsets + 1
    /\ UNCHANGED <<manifest, damaged, op, handed, calls>>

(* active_artifact, active_artifacts: the last record of a key.              *)
OfKey(k) == {i \in DOMAIN manifest : manifest[i].key = k}
Read(k) ==
    /\ LockFree /\ Readable /\ OfKey(k) # {}
    /\ handed' = handed \cup {manifest[Max(OfKey(k))]}
    /\ UNCHANGED <<manifest, blobs, damaged, strays, markers, op, calls, upsets>>

Damage(d) ==
    /\ op = None /\ d \in blobs \ damaged /\ upsets < MaxUpsets
    /\ damaged' = damaged \cup {d}
    /\ upsets' = upsets + 1
    /\ UNCHANGED <<manifest, blobs, strays, markers, op, handed, calls>>

StoreNext ==
    \/ \E k \in Keys, v \in Versions, d \in Contents : Begin(k, v, d)
    \/ WriteStage \/ SealStage \/ Decide \/ MoveBlob \/ SealBlob
    \/ MarkManifest \/ WriteRollback \/ SealRollback \/ WriteTemp \/ SealTemp
    \/ Replace \/ Synced \/ Restore \/ Raise \/ Finally \/ Crash
    \/ \E old \in SUBSET markers : Clean(old)
    \/ \E k \in Keys : Read(k)
    \/ \E d \in Contents : Damage(d)

StoreSpec == StoreInit /\ [][StoreNext]_storeVars
------------------------------------------------------------------------------
(* An artifact a caller was given stays what it was given as: its record is  *)
(* in the manifest and its blob is there, whatever failed, ended or was      *)
(* cleaned up since; and so with every record of the manifest.               *)
GivenStaysReadable ==
    /\ handed \subseteq Range(manifest)
    /\ Referenced \subseteq blobs

(* A file that nothing refers to is named by a marker, so that an operator   *)
(* or a later cleanup can tell whose it is, whichever step was the last.     *)
NothingUnmarked ==
    /\ \A f \in strays : \E m \in markers : m.kind = f.kind /\ m.n = f.n
    /\ \A d \in blobs \ Referenced : \E m \in markers : m.of = d

(* The store is a log: until its caller or the end of its process settles    *)
(* it, a replacement under way does not count.                               *)
Settled == IF op # None /\ op.pc = "sync" THEN op.old ELSE manifest
Log == INSTANCE DatasetLog WITH log <- Settled, held <- handed
StoreIsLog == Log!LogSpec
==============================================================================
