--------------------------- MODULE BackupRestore ---------------------------
(***************************************************************************)
(* LocalBackupManager (workbench/backup.py): backup, preflight and restore *)
(* of explicitly managed files, with a durable rollback journal, a pending *)
(* marker beside every destination, and locks over all of them.            *)
(*                                                                         *)
(* A manager is an instance in a process of its own.  Every durable step   *)
(* (one os.replace, one unlink, one audit line) is one action; between any *)
(* two of them the process may crash or an exception may be raised.        *)
(* Contents stand for bytes and for their SHA-256; Absent is a file that   *)
(* does not exist.  Staged temporary files are not modelled.               *)
(***************************************************************************)
EXTENDS Naturals, FiniteSets

CONSTANTS
    Managers,    \* manager instances
    Files,       \* managed destinations (each also names its lock and marker)
    Journals,    \* journal paths, one per audit file (each also names its lock)
    Contents,    \* file contents
    Paths,       \* archive paths
    Managed,     \* Managed[m]: the destinations of m (and its configuration digest)
    JournalOf,   \* JournalOf[m]: the journal beside m's audit file
    GroupsOf,    \* GroupsOf[m]: m's consistency groups
    Rank,        \* the order of canonical paths, in which locks are taken
    Absent, None,
    MaxOps,      \* bound: operations requested
    MaxFaults,   \* bound: crashes and raised exceptions
    MaxManual    \* bound: changes made to managed files by hand

Locks == Files \union Journals
Bytes == Contents \union {Absent}

ASSUME BoundsAssumption == MaxOps \in Nat /\ MaxFaults \in Nat /\ MaxManual \in Nat

ASSUME ConfigAssumption ==
    /\ Managed \in [Managers -> SUBSET Files]
    /\ JournalOf \in [Managers -> Journals]
    /\ GroupsOf \in [Managers -> SUBSET SUBSET Files]
    /\ Files \intersect Journals = {}
    /\ Absent \notin Contents
    /\ None \notin Managers

ASSUME RankAssumption ==
    /\ Rank \in [Locks -> Nat]
    /\ \A k, l \in Locks : Rank[k] = Rank[l] => k = l

PartialFn(S, T) == UNION {[D -> T] : D \in SUBSET S}
Override(f, g) == [x \in DOMAIN f |-> IF x \in DOMAIN g THEN g[x] ELSE f[x]]

Marker == [tx : Nat, cfg : SUBSET Files, jrn : Journals]
Journal == [tx : Nat, cfg : SUBSET Files,
            orig : PartialFn(Files, Bytes), plan : PartialFn(Files, Contents)]
Archive == [id : Nat, files : PartialFn(Files, Contents)]
ASSUME NoneAssumption == None \notin Marker /\ None \notin Journal /\ None \notin Archive

Snapshot == [jrn : Journals, tx : Nat, file : Files, content : Contents]

VARIABLES
    disk,        \* the managed files
    marker,      \* the pending-restore marker beside each file
    journal,     \* the restore journals
    snaps,       \* rollback snapshots beside the journals
    archive,     \* backup archives
    audited,     \* audit lines written (history of every audit file)
    applied,     \* history: transactions whose restore passed its commit point
    locks,       \* who holds the lock of each path
    pc, op,      \* where each manager is, and in which public operation
    phase,       \* "recovery", "restore" (the try block) or "handler" (its except)
    id,          \* the fresh uuid of the operation
    txn,         \* the transaction whose markers are written or cleared
    plan, orig,  \* planned contents; originals recorded so far
    todo,        \* files the current loop has still to treat
    tokens,      \* confirmation tokens a manager will accept
    ops, faults, manual

durable == <<disk, marker, journal, snaps, archive, audited, applied>>
local == <<op, phase, id, txn, plan, orig, todo, tokens>>
counters == <<ops, faults, manual>>
vars == <<durable, locks, pc, local, counters>>

PCs == {"down", "idle", "lock", "recover", "rollback", "rollback_unlink",
        "unlink_journal", "drop_snapshots", "clear_markers",
        "body", "mark", "unmark", "snapshot", "journal", "audit", "replace",
        "except", "raise", "return"}

Ops == {"open", "backup", "preflight", "restore"}

TypeOK ==
    /\ disk \in [Files -> Bytes]
    /\ marker \in [Files -> Marker \union {None}]
    /\ journal \in [Journals -> Journal \union {None}]
    /\ snaps \subseteq Snapshot
    /\ archive \in [Paths -> Archive \union {None}]
    /\ audited \subseteq [tx : Nat, files : PartialFn(Files, Contents)]
    /\ applied \subseteq Nat
    /\ locks \in [Locks -> Managers \union {None}]
    /\ pc \in [Managers -> PCs]
    /\ op \in [Managers -> Ops]
    /\ phase \in [Managers -> {"recovery", "restore", "handler"}]
    /\ id \in [Managers -> Nat]
    /\ txn \in [Managers -> Nat]
    /\ plan \in [Managers -> PartialFn(Files, Contents)]
    /\ orig \in [Managers -> PartialFn(Files, Bytes)]
    /\ todo \in [Managers -> SUBSET Files]
    /\ tokens \in [Managers -> SUBSET [tok : Nat, path : Paths, id : Nat]]
    /\ ops \in Nat /\ faults \in Nat /\ manual \in Nat

-----------------------------------------------------------------------------
(* The configuration of a manager, and what it reads.                      *)

(* Mutant: the destinations are not locked. *)
LocksOfAuditOnly(m) == {JournalOf[m]}

LocksOf(m) == Managed[m] \union {JournalOf[m]}

GroupsComplete(m, S) == \A g \in GroupsOf[m] : g \intersect S \in {{}, g}

MarkerOf(m, tx) == [tx |-> tx, cfg |-> Managed[m], jrn |-> JournalOf[m]]

FoundMarkers(m) == {f \in Managed[m] : marker[f] # None}

(* Every marker found names this configuration and one transaction. *)
MarkersOwned(m) ==
    \E n \in {marker[f].tx : f \in FoundMarkers(m)} :
        \A f \in FoundMarkers(m) : marker[f] = MarkerOf(m, n)

PendingJournal(m) == journal[JournalOf[m]]

JournalMatches(m) ==
    LET j == PendingJournal(m)
    IN  /\ j.cfg = Managed[m]
        /\ DOMAIN j.plan \subseteq Managed[m]
        /\ GroupsComplete(m, DOMAIN j.plan)

MarkersMatchJournal(m) ==
    LET j == PendingJournal(m)
    IN  \/ FoundMarkers(m) = {}
        \/ /\ FoundMarkers(m) = DOMAIN j.plan
           /\ \A f \in DOMAIN j.plan : marker[f].tx = j.tx

SnapshotOf(m, tx, f, c) == [jrn |-> JournalOf[m], tx |-> tx, file |-> f, content |-> c]

(* Mutant: recovery does not look at what the targets hold now. *)
SnapshotsRecoverable(m) ==
    LET j == PendingJournal(m)
    IN  \A f \in DOMAIN j.plan :
            j.orig[f] # Absent => SnapshotOf(m, j.tx, f, j.orig[f]) \in snaps

(* Every target holds its original or its planned content, and a snapshot  *)
(* of every original is intact.                                            *)
TargetsRecoverable(m) ==
    LET j == PendingJournal(m)
    IN  \A f \in DOMAIN j.plan :
            /\ disk[f] \in {j.orig[f], j.plan[f]}
            /\ j.orig[f] # Absent => SnapshotOf(m, j.tx, f, j.orig[f]) \in snaps

HadOriginal(o) == {f \in DOMAIN o : o[f] # Absent}

(* Loops run over the files in path order. *)
IsNext(f, S) == f \in S /\ \A g \in S : Rank[f] <= Rank[g]

At(m, here) == pc[m] = here
Goto(m, there) == pc' = [pc EXCEPT ![m] = there]

(* Where an exception leads: the except clause of restore, or out of the   *)
(* operation.                                                              *)
FailTo(m) == IF phase[m] = "restore" THEN "except" ELSE "raise"

-----------------------------------------------------------------------------
(* The processes, and the locks.                                           *)

Init ==
    /\ disk \in [Files -> Bytes]
    /\ marker = [f \in Files |-> None]
    /\ journal = [j \in Journals |-> None]
    /\ snaps = {}
    /\ archive \in [Paths -> {None} \union [id : {0}, files : PartialFn(Files, Contents)]]
    /\ audited = {} /\ applied = {}
    /\ locks = [l \in Locks |-> None]
    /\ pc = [m \in Managers |-> "down"]
    /\ op = [m \in Managers |-> "open"]
    /\ phase = [m \in Managers |-> "recovery"]
    /\ id = [m \in Managers |-> 0]
    /\ txn = [m \in Managers |-> 0]
    /\ plan = [m \in Managers |-> [f \in {} |-> Absent]]
    /\ orig = [m \in Managers |-> [f \in {} |-> Absent]]
    /\ todo = [m \in Managers |-> {}]
    /\ tokens = [m \in Managers |-> {}]
    /\ ops = 0 /\ faults = 0 /\ manual = 0

(* The constructor of a manager: it takes the locks and recovers. *)
Open(m) ==
    /\ At(m, "down")
    /\ Goto(m, "lock")
    /\ op' = [op EXCEPT ![m] = "open"]
    /\ phase' = [phase EXCEPT ![m] = "recovery"]
    /\ UNCHANGED <<durable, locks, id, txn, plan, orig, todo, tokens, counters>>

(* create_backup, preflight_restore or restore is called. *)
Begin(m, o) ==
    /\ At(m, "idle")
    /\ ops < MaxOps
    /\ ops' = ops + 1
    /\ Goto(m, "lock")
    /\ op' = [op EXCEPT ![m] = o]
    /\ id' = [id EXCEPT ![m] = ops + 1]
    /\ phase' = [phase EXCEPT ![m] = "recovery"]
    /\ UNCHANGED <<durable, locks, txn, plan, orig, todo, tokens, faults, manual>>

(* Mutant: locks are taken in any order. *)
AcquireAnyOrder(m, l) ==
    /\ At(m, "lock")
    /\ l \in {k \in LocksOf(m) : locks[k] # m}
    /\ locks[l] = None
    /\ locks' = [locks EXCEPT ![l] = m]
    /\ Goto(m, IF {k \in LocksOf(m) : locks[k] # m} = {l} THEN "recover" ELSE "lock")
    /\ UNCHANGED <<durable, local, counters>>

(* Locks are taken one by one, in the order of their paths. *)
Acquire(m, l) ==
    /\ At(m, "lock")
    /\ IsNext(l, {k \in LocksOf(m) : locks[k] # m})
    /\ locks[l] = None
    /\ locks' = [locks EXCEPT ![l] = m]
    /\ Goto(m, IF {k \in LocksOf(m) : locks[k] # m} = {l} THEN "recover" ELSE "lock")
    /\ UNCHANGED <<durable, local, counters>>

(* Leaving the operation drops every lock; a constructor that raised       *)
(* leaves no manager behind.                                               *)
Release(m) ==
    /\ pc[m] \in {"raise", "return"}
    /\ locks' = [l \in Locks |-> IF locks[l] = m THEN None ELSE locks[l]]
    /\ Goto(m, IF op[m] = "open" /\ At(m, "raise") THEN "down" ELSE "idle")
    /\ id' = [id EXCEPT ![m] = 0]
    /\ txn' = [txn EXCEPT ![m] = 0]
    /\ plan' = [plan EXCEPT ![m] = [f \in {} |-> Absent]]
    /\ orig' = [orig EXCEPT ![m] = [f \in {} |-> Absent]]
    /\ todo' = [todo EXCEPT ![m] = {}]
    /\ UNCHANGED <<durable, op, phase, tokens, counters>>

(* The process dies: its locks are freed and its tokens are lost. *)
Crash(m) ==
    /\ ~At(m, "down")
    /\ faults < MaxFaults
    /\ faults' = faults + 1
    /\ locks' = [l \in Locks |-> IF locks[l] = m THEN None ELSE locks[l]]
    /\ Goto(m, "down")
    /\ id' = [id EXCEPT ![m] = 0]
    /\ txn' = [txn EXCEPT ![m] = 0]
    /\ plan' = [plan EXCEPT ![m] = [f \in {} |-> Absent]]
    /\ orig' = [orig EXCEPT ![m] = [f \in {} |-> Absent]]
    /\ todo' = [todo EXCEPT ![m] = {}]
    /\ tokens' = [tokens EXCEPT ![m] = {}]
    /\ UNCHANGED <<durable, op, phase, ops, manual>>

(* A session ends: the process exits between operations. *)
Quit(m) ==
    /\ At(m, "idle")
    /\ Goto(m, "down")
    /\ tokens' = [tokens EXCEPT ![m] = {}]
    /\ UNCHANGED <<durable, locks, op, phase, id, txn, plan, orig, todo, counters>>

(* A file is edited or deleted by hand while no manager works on it. *)
ManualWrite(f) ==
    /\ manual < MaxManual
    /\ manual' = manual + 1
    /\ locks[f] = None
    /\ \E c \in Bytes : disk' = [disk EXCEPT ![f] = c]
    /\ UNCHANGED <<marker, journal, snaps, archive, audited, applied, locks, pc, local,
                   ops, faults>>

-----------------------------------------------------------------------------
(* _recover_pending_restore.                                               *)

(* Another configuration's markers, a journal of another configuration, or *)
(* a file in an unexpected state: the operation is refused.                *)
RecoverBlocked(m) ==
    /\ At(m, "recover")
    /\ \/ FoundMarkers(m) # {} /\ ~MarkersOwned(m)
       \/ /\ PendingJournal(m) # None
          /\ \/ ~JournalMatches(m)
             \/ ~MarkersMatchJournal(m)
             \/ ~TargetsRecoverable(m)
    /\ Goto(m, "raise")
    /\ UNCHANGED <<durable, locks, local, counters>>

(* Mutant: markers without a journal are left alone. *)
RecoverNothingKeepingMarkers(m) ==
    /\ At(m, "recover")
    /\ PendingJournal(m) = None
    /\ Goto(m, IF phase[m] = "recovery" THEN "body" ELSE "raise")
    /\ UNCHANGED <<durable, locks, local, counters>>

RecoverNothing(m) ==
    /\ At(m, "recover")
    /\ FoundMarkers(m) = {}
    /\ PendingJournal(m) = None
    /\ Goto(m, IF phase[m] = "recovery" THEN "body" ELSE "raise")
    /\ UNCHANGED <<durable, locks, local, counters>>

(* Mutant: markers are cleared although a journal is pending. *)
RecoverMarkersOnly(m) ==
    /\ At(m, "recover")
    /\ FoundMarkers(m) # {} /\ MarkersOwned(m)
    /\ Goto(m, "clear_markers")
    /\ todo' = [todo EXCEPT ![m] = FoundMarkers(m)]
    /\ \E f \in FoundMarkers(m) : txn' = [txn EXCEPT ![m] = marker[f].tx]
    /\ plan' = [plan EXCEPT ![m] = [f \in {} |-> Absent]]
    /\ UNCHANGED <<durable, locks, op, phase, id, orig, tokens, counters>>

(* Markers without a journal: the restore never began or was finished. *)
RecoverMarkers(m) ==
    /\ At(m, "recover")
    /\ FoundMarkers(m) # {} /\ MarkersOwned(m)
    /\ PendingJournal(m) = None
    /\ Goto(m, "clear_markers")
    /\ todo' = [todo EXCEPT ![m] = FoundMarkers(m)]
    /\ \E f \in FoundMarkers(m) : txn' = [txn EXCEPT ![m] = marker[f].tx]
    /\ plan' = [plan EXCEPT ![m] = [f \in {} |-> Absent]]
    /\ UNCHANGED <<durable, locks, op, phase, id, orig, tokens, counters>>

(* A journal of this configuration: roll its files back. *)
RecoverJournal(m) ==
    LET j == PendingJournal(m)
    IN  /\ At(m, "recover")
        /\ FoundMarkers(m) = {} \/ MarkersOwned(m)
        /\ j # None
        /\ JournalMatches(m) /\ MarkersMatchJournal(m) /\ TargetsRecoverable(m)
        /\ Goto(m, "rollback")
        /\ txn' = [txn EXCEPT ![m] = j.tx]
        /\ plan' = [plan EXCEPT ![m] = j.plan]
        /\ orig' = [orig EXCEPT ![m] = j.orig]
        /\ todo' = [todo EXCEPT ![m] = HadOriginal(j.orig)]
        /\ UNCHANGED <<durable, locks, op, phase, id, tokens, counters>>

(* os.replace of one destination by its snapshot. *)
Rollback(m, f) ==
    /\ At(m, "rollback")
    /\ IsNext(f, todo[m])
    /\ disk' = [disk EXCEPT ![f] = orig[m][f]]
    /\ todo' = [todo EXCEPT ![m] = @ \ {f}]
    /\ UNCHANGED <<marker, journal, snaps, archive, audited, applied, locks, pc,
                   op, phase, id, txn, plan, orig, tokens, counters>>

RollbackDone(m) ==
    /\ At(m, "rollback")
    /\ todo[m] = {}
    /\ Goto(m, "rollback_unlink")
    /\ todo' = [todo EXCEPT ![m] = DOMAIN orig[m] \ HadOriginal(orig[m])]
    /\ UNCHANGED <<durable, locks, op, phase, id, txn, plan, orig, tokens, counters>>

(* unlink of one destination that did not exist before the restore. *)
RollbackUnlink(m, f) ==
    /\ At(m, "rollback_unlink")
    /\ IsNext(f, todo[m])
    /\ disk' = [disk EXCEPT ![f] = Absent]
    /\ todo' = [todo EXCEPT ![m] = @ \ {f}]
    /\ UNCHANGED <<marker, journal, snaps, archive, audited, applied, locks, pc,
                   op, phase, id, txn, plan, orig, tokens, counters>>

(* Mutant: after a rollback the markers are cleared before the journal. *)
RollbackVerifyMarkersFirst(m) ==
    /\ At(m, "rollback_unlink")
    /\ todo[m] = {}
    /\ Goto(m, "clear_markers")
    /\ todo' = [todo EXCEPT ![m] = DOMAIN plan[m]]
    /\ UNCHANGED <<durable, locks, op, phase, id, txn, plan, orig, tokens, counters>>

RollbackVerify(m) ==
    /\ At(m, "rollback_unlink")
    /\ todo[m] = {}
    /\ Goto(m, IF \A f \in DOMAIN orig[m] : disk[f] = orig[m][f]
               THEN "unlink_journal" ELSE "raise")
    /\ UNCHANGED <<durable, locks, local, counters>>

-----------------------------------------------------------------------------
(* _finalize_restore_journal, at the end of a restore or of a recovery.    *)

(* The journal is unlinked: the restore is committed, or rolled back. *)
UnlinkJournal(m) ==
    /\ At(m, "unlink_journal")
    /\ PendingJournal(m) # None
    /\ journal' = [journal EXCEPT ![JournalOf[m]] = None]
    /\ applied' = IF phase[m] = "restore" THEN applied \union {txn[m]} ELSE applied
    /\ Goto(m, "drop_snapshots")
    /\ todo' = [todo EXCEPT ![m] = HadOriginal(orig[m])]
    /\ UNCHANGED <<disk, marker, snaps, archive, audited, locks,
                   op, phase, id, txn, plan, orig, tokens, counters>>

DropSnapshot(m, f) ==
    /\ At(m, "drop_snapshots")
    /\ IsNext(f, todo[m])
    /\ snaps' = {s \in snaps : ~(s.jrn = JournalOf[m] /\ s.tx = txn[m] /\ s.file = f)}
    /\ todo' = [todo EXCEPT ![m] = @ \ {f}]
    /\ UNCHANGED <<disk, marker, journal, archive, audited, applied, locks, pc,
                   op, phase, id, txn, plan, orig, tokens, counters>>

(* Markers are cleared last; a journal found without markers has none. *)
DropSnapshotsDone(m) ==
    /\ At(m, "drop_snapshots")
    /\ todo[m] = {}
    /\ Goto(m, "clear_markers")
    /\ todo' = [todo EXCEPT ![m] =
                  IF phase[m] = "restore" \/ FoundMarkers(m) # {} THEN DOMAIN plan[m] ELSE {}]
    /\ UNCHANGED <<durable, locks, op, phase, id, txn, plan, orig, tokens, counters>>

(* A marker is removed only if it is still the one of this transaction. *)
ClearMarker(m, f) ==
    /\ At(m, "clear_markers")
    /\ IsNext(f, todo[m])
    /\ IF marker[f] = MarkerOf(m, txn[m])
       THEN /\ marker' = [marker EXCEPT ![f] = None]
            /\ todo' = [todo EXCEPT ![m] = @ \ {f}]
            /\ UNCHANGED pc
       ELSE /\ Goto(m, FailTo(m))
            /\ UNCHANGED <<marker, todo>>
    /\ UNCHANGED <<disk, journal, snaps, archive, audited, applied, locks,
                   op, phase, id, txn, plan, orig, tokens, counters>>

ClearMarkersDone(m) ==
    /\ At(m, "clear_markers")
    /\ todo[m] = {}
    /\ Goto(m, CASE phase[m] = "recovery" -> "body"
                 [] phase[m] = "restore" -> "return"
                 [] phase[m] = "handler" -> "raise")
    /\ UNCHANGED <<durable, locks, local, counters>>

-----------------------------------------------------------------------------
(* The bodies of the public operations, after recovery.                    *)

OpenDone(m) ==
    /\ At(m, "body") /\ op[m] = "open"
    /\ Goto(m, "return")
    /\ UNCHANGED <<durable, locks, local, counters>>

(* The files that exist are archived under a fresh backup id, unless a     *)
(* consistency group is only partly there.                                 *)
CreateBackup(m, p) ==
    LET present == {f \in Managed[m] : disk[f] # Absent}
    IN  /\ At(m, "body") /\ op[m] = "backup"
        /\ IF GroupsComplete(m, present)
           THEN /\ archive' = [archive EXCEPT ![p] =
                     [id |-> id[m], files |-> [f \in present |-> disk[f]]]]
                /\ Goto(m, "return")
           ELSE /\ Goto(m, "raise")
                /\ UNCHANGED archive
        /\ UNCHANGED <<disk, marker, journal, snaps, audited, applied, locks, local, counters>>

(* The archive at p can be restored by m. *)
Readable(m, p) ==
    /\ archive[p] # None
    /\ DOMAIN archive[p].files \subseteq Managed[m]
    /\ GroupsComplete(m, DOMAIN archive[p].files)

Preflight(m, p) ==
    /\ At(m, "body") /\ op[m] = "preflight"
    /\ IF Readable(m, p)
       THEN /\ tokens' = [tokens EXCEPT ![m] =
                 @ \union {[tok |-> id[m], path |-> p, id |-> archive[p].id]}]
            /\ Goto(m, "return")
       ELSE /\ Goto(m, "raise")
            /\ UNCHANGED tokens
    /\ UNCHANGED <<durable, locks, op, phase, id, txn, plan, orig, todo, counters>>

(* restore with an issued token: the token is spent whatever follows, and  *)
(* it must be for this path and for the archive that is there now.         *)
Confirm(m, p, t) ==
    /\ At(m, "body") /\ op[m] = "restore"
    /\ t \in tokens[m]
    /\ tokens' = [tokens EXCEPT ![m] = @ \ {t}]
    /\ IF t.path = p /\ Readable(m, p) /\ t.id = archive[p].id
       THEN /\ Goto(m, "mark")
            /\ phase' = [phase EXCEPT ![m] = "restore"]
            /\ txn' = [txn EXCEPT ![m] = id[m]]
            /\ plan' = [plan EXCEPT ![m] = archive[p].files]
            /\ todo' = [todo EXCEPT ![m] = DOMAIN archive[p].files]
            /\ orig' = [orig EXCEPT ![m] = [f \in {} |-> Absent]]
       ELSE /\ Goto(m, "raise")
            /\ UNCHANGED <<phase, txn, plan, todo, orig>>
    /\ UNCHANGED <<durable, locks, op, id, counters>>

(* restore with a token that was never issued or is already spent. *)
Unconfirmed(m) ==
    /\ At(m, "body") /\ op[m] = "restore"
    /\ Goto(m, "raise")
    /\ UNCHANGED <<durable, locks, local, counters>>

-----------------------------------------------------------------------------
(* _restore_locked, one durable step at a time.                            *)

Mark(m, f) ==
    /\ At(m, "mark")
    /\ IsNext(f, todo[m])
    /\ IF marker[f] = None
       THEN /\ marker' = [marker EXCEPT ![f] = MarkerOf(m, txn[m])]
            /\ todo' = [todo EXCEPT ![m] = @ \ {f}]
            /\ UNCHANGED pc
       ELSE /\ Goto(m, "unmark")
            /\ todo' = [todo EXCEPT ![m] = DOMAIN plan[m] \ @]
            /\ UNCHANGED marker
    /\ UNCHANGED <<disk, journal, snaps, archive, audited, applied, locks,
                   op, phase, id, txn, plan, orig, tokens, counters>>

MarkDone(m) ==
    /\ At(m, "mark")
    /\ todo[m] = {}
    /\ Goto(m, "snapshot")
    /\ todo' = [todo EXCEPT ![m] = DOMAIN plan[m]]
    /\ UNCHANGED <<durable, locks, op, phase, id, txn, plan, orig, tokens, counters>>

(* Writing a marker failed: those already written are removed again. *)
Unmark(m, f) ==
    /\ At(m, "unmark")
    /\ IsNext(f, todo[m])
    /\ IF marker[f] = MarkerOf(m, txn[m])
       THEN /\ marker' = [marker EXCEPT ![f] = None]
            /\ todo' = [todo EXCEPT ![m] = @ \ {f}]
            /\ UNCHANGED pc
       ELSE /\ Goto(m, "raise")
            /\ UNCHANGED <<marker, todo>>
    /\ UNCHANGED <<disk, journal, snaps, archive, audited, applied, locks,
                   op, phase, id, txn, plan, orig, tokens, counters>>

UnmarkDone(m) ==
    /\ At(m, "unmark")
    /\ todo[m] = {}
    /\ Goto(m, "raise")
    /\ UNCHANGED <<durable, locks, local, counters>>

(* The original of one destination is recorded; if it exists, a snapshot   *)
(* of it is written first.                                                 *)
TakeSnapshot(m, f) ==
    /\ At(m, "snapshot")
    /\ IsNext(f, todo[m])
    /\ orig' = [orig EXCEPT ![m] =
                  [g \in DOMAIN @ \union {f} |-> IF g = f THEN disk[f] ELSE @[g]]]
    /\ snaps' = IF disk[f] = Absent THEN snaps
                ELSE snaps \union {SnapshotOf(m, txn[m], f, disk[f])}
    /\ todo' = [todo EXCEPT ![m] = @ \ {f}]
    /\ UNCHANGED <<disk, marker, journal, archive, audited, applied, locks, pc,
                   op, phase, id, txn, plan, tokens, counters>>

(* Mutant: the journal is not written. *)
TakeSnapshotsNoJournal(m) ==
    /\ At(m, "snapshot")
    /\ todo[m] = {}
    /\ Goto(m, "audit")
    /\ UNCHANGED <<durable, locks, local, counters>>

TakeSnapshotsDone(m) ==
    /\ At(m, "snapshot")
    /\ todo[m] = {}
    /\ Goto(m, "journal")
    /\ UNCHANGED <<durable, locks, local, counters>>

WriteJournal(m) ==
    /\ At(m, "journal")
    /\ journal' = [journal EXCEPT ![JournalOf[m]] =
         [tx |-> txn[m], cfg |-> Managed[m], orig |-> orig[m], plan |-> plan[m]]]
    /\ Goto(m, "audit")
    /\ UNCHANGED <<disk, marker, snaps, archive, audited, applied, locks, local, counters>>

AppendAudit(m) ==
    /\ At(m, "audit")
    /\ audited' = audited \union {[tx |-> txn[m], files |-> plan[m]]}
    /\ Goto(m, "replace")
    /\ todo' = [todo EXCEPT ![m] = DOMAIN plan[m]]
    /\ UNCHANGED <<disk, marker, journal, snaps, archive, applied, locks,
                   op, phase, id, txn, plan, orig, tokens, counters>>

(* os.replace of one destination by its staged content. *)
Replace(m, f) ==
    /\ At(m, "replace")
    /\ IsNext(f, todo[m])
    /\ disk' = [disk EXCEPT ![f] = plan[m][f]]
    /\ todo' = [todo EXCEPT ![m] = @ \ {f}]
    /\ UNCHANGED <<marker, journal, snaps, archive, audited, applied, locks, pc,
                   op, phase, id, txn, plan, orig, tokens, counters>>

(* Mutant: the journal is not unlinked when the restore is complete. *)
VerifyKeepingJournal(m) ==
    /\ At(m, "replace")
    /\ todo[m] = {}
    /\ Goto(m, "clear_markers")
    /\ todo' = [todo EXCEPT ![m] = DOMAIN plan[m]]
    /\ UNCHANGED <<durable, locks, op, phase, id, txn, plan, orig, tokens, counters>>

Verify(m) ==
    /\ At(m, "replace")
    /\ todo[m] = {}
    /\ Goto(m, IF \A f \in DOMAIN plan[m] : disk[f] = plan[m][f]
               THEN "unlink_journal" ELSE "except")
    /\ UNCHANGED <<durable, locks, local, counters>>

(* Mutant: the except clause only removes the markers. *)
HandleMarkersOnly(m) ==
    /\ At(m, "except")
    /\ phase' = [phase EXCEPT ![m] = "handler"]
    /\ Goto(m, "clear_markers") /\ todo' = [todo EXCEPT ![m] = DOMAIN plan[m]]
    /\ UNCHANGED <<durable, locks, op, id, txn, plan, orig, tokens, counters>>

(* The except clause: with a journal on disk, recover; otherwise remove    *)
(* the markers.                                                            *)
Handle(m) ==
    /\ At(m, "except")
    /\ phase' = [phase EXCEPT ![m] = "handler"]
    /\ IF PendingJournal(m) # None
       THEN Goto(m, "recover") /\ UNCHANGED todo
       ELSE Goto(m, "clear_markers") /\ todo' = [todo EXCEPT ![m] = DOMAIN plan[m]]
    /\ UNCHANGED <<durable, locks, op, id, txn, plan, orig, tokens, counters>>

-----------------------------------------------------------------------------
(* A step raises (an I/O error or an interrupt) instead of taking effect.  *)

Failing == {"recover", "rollback", "rollback_unlink", "unlink_journal", "drop_snapshots",
            "clear_markers", "snapshot", "journal", "audit", "replace", "unmark"}

Fail(m) ==
    /\ faults < MaxFaults
    /\ faults' = faults + 1
    /\ \/ /\ pc[m] \in Failing
          /\ Goto(m, FailTo(m))
          /\ UNCHANGED todo
       \/ /\ At(m, "mark")
          /\ Goto(m, "unmark")
          /\ todo' = [todo EXCEPT ![m] = DOMAIN plan[m] \ @]
    /\ UNCHANGED <<durable, locks, op, phase, id, txn, plan, orig, tokens, ops, manual>>

-----------------------------------------------------------------------------
Recovery(m) ==
    \/ RecoverBlocked(m) \/ RecoverNothing(m) \/ RecoverMarkers(m) \/ RecoverJournal(m)
    \/ \E f \in Files : Rollback(m, f) \/ RollbackUnlink(m, f)
    \/ RollbackDone(m) \/ RollbackVerify(m)

Finalize(m) ==
    \/ UnlinkJournal(m) \/ DropSnapshotsDone(m) \/ ClearMarkersDone(m)
    \/ \E f \in Files : DropSnapshot(m, f) \/ ClearMarker(m, f)

Body(m) ==
    \/ OpenDone(m) \/ Unconfirmed(m)
    \/ \E p \in Paths : CreateBackup(m, p) \/ Preflight(m, p)
    \/ \E p \in Paths, t \in tokens[m] : Confirm(m, p, t)

Restore(m) ==
    \/ MarkDone(m) \/ UnmarkDone(m) \/ TakeSnapshotsDone(m) \/ WriteJournal(m)
    \/ AppendAudit(m) \/ Verify(m) \/ Handle(m)
    \/ \E f \in Files : Mark(m, f) \/ Unmark(m, f) \/ TakeSnapshot(m, f) \/ Replace(m, f)

(* The steps a manager takes by itself once an operation has begun. *)
Step(m) ==
    \/ \E l \in Locks : Acquire(m, l)
    \/ Recovery(m) \/ Finalize(m) \/ Body(m) \/ Restore(m) \/ Release(m)

Next ==
    \/ \E m \in Managers :
          \/ Open(m) \/ Step(m) \/ Quit(m) \/ Crash(m) \/ Fail(m)
          \/ \E o \in Ops \ {"open"} : Begin(m, o)
    \/ \E f \in Files : ManualWrite(f)

Spec == Init /\ [][Next]_vars

(* A process that runs goes on with its operation, a lock that is freed    *)
(* again and again is eventually had by a process polling for it, sessions *)
(* end, and a manager that is down is started again.                       *)
Fairness ==
    \A m \in Managers :
        /\ WF_vars(Step(m)) /\ WF_vars(Quit(m)) /\ WF_vars(Open(m))
        /\ SF_vars(\E l \in Locks : Acquire(m, l))

FairSpec == Spec /\ Fairness

-----------------------------------------------------------------------------
(* Properties.                                                             *)

InOperation(m) == pc[m] \notin {"down", "idle", "lock"}

(* Two managers that share a destination or an audit journal are never     *)
(* both past their locks (_coordinated_restore_lock).                      *)
Exclusion ==
    \A m, n \in Managers :
        m # n /\ InOperation(m) /\ InOperation(n)
          => /\ Managed[m] \intersect Managed[n] = {}
             /\ JournalOf[m] # JournalOf[n]

(* As long as a journal is on disk, every file it covers carries the       *)
(* marker of its transaction, so that a manager of any other configuration *)
(* with one of these files is refused.                                     *)
PendingIsMarked ==
    \A j \in Journals :
        journal[j] # None =>
            \A f \in DOMAIN journal[j].plan :
                marker[f] = [tx |-> journal[j].tx, cfg |-> journal[j].cfg, jrn |-> j]

(* Unless files were edited by hand, whatever crash or exception left a    *)
(* journal behind, its own configuration can recover it: the checks of     *)
(* _recover_pending_restore accept the markers, targets and snapshots.     *)
RecoveryPossible ==
    \A m \in Managers :
        PendingJournal(m) # None /\ PendingJournal(m).cfg = Managed[m] /\ manual = 0
            => MarkersMatchJournal(m) /\ TargetsRecoverable(m)

(* restore returns normally only with every file of the archive in place,  *)
(* and with no journal or marker of its own left to undo it.               *)
ReturnMeansRestored ==
    \A m \in Managers :
        pc[m] = "return" /\ op[m] = "restore" =>
            /\ id[m] \in applied
            /\ PendingJournal(m) = None
            /\ \A f \in DOMAIN plan[m] : disk[f] = plan[m][f] /\ marker[f] = None

(* Write-ahead: a manager changes a managed file only while the marker     *)
(* beside it names a journal on disk that records both its old and its new *)
(* content; and it installs new content only after the audit line.         *)
WriteAhead ==
    [][\A f \in Files :
          disk'[f] # disk[f] /\ manual' = manual =>
              /\ marker[f] # None
              /\ LET j == journal[marker[f].jrn]
                 IN  /\ j # None
                     /\ f \in DOMAIN j.plan
                     /\ {disk[f], disk'[f]} = {j.orig[f], j.plan[f]}
                     /\ disk'[f] = j.orig[f] \/ [tx |-> j.tx, files |-> j.plan] \in audited]_vars

(* A file that was given other content by hand while its restore was       *)
(* pending keeps it, and the journal stays until the operator decides      *)
(* ("retains manual writes that do not match pending restore state").      *)
ManualEditKept ==
    [][\A j \in Journals :
          journal[j] # None /\ manual' = manual =>
              \A f \in DOMAIN journal[j].plan :
                  disk[f] \notin {journal[j].orig[f], journal[j].plan[f]} =>
                      disk'[f] = disk[f] /\ journal'[j] = journal[j]]_vars

(* The abstract promise.  To the outside a file of a pending restore still *)
(* has its original content, unless it was edited by hand.                 *)
Covering(f) == {j \in Journals : journal[j] # None /\ f \in DOMAIN journal[j].plan}

View ==
    [f \in Files |->
        IF \E j \in Covering(f) : disk[f] = journal[j].plan[f]
        THEN LET j == CHOOSE k \in Covering(f) : disk[f] = journal[k].plan[f]
             IN  journal[j].orig[f]
        ELSE disk[f]]

Promise == INSTANCE AtomicRestore WITH view <- View

(* Every restore is all or nothing, audited first, applied at most once;   *)
(* every backup is of one instant (README: refinement).                    *)
AtomicRestoreSpec == Promise!ASpec

(* Every operation ends: it gets its locks and runs to its end, or its     *)
(* process dies.                                                           *)
OperationsEnd ==
    \A m \in Managers : pc[m] = "lock" ~> pc[m] \in {"idle", "down"}

(* With no edit by hand, an interrupted restore is resolved by restarts    *)
(* alone: every journal and every marker eventually goes away.             *)
InterruptionsResolved ==
    /\ \A j \in Journals : journal[j] # None ~> journal[j] = None
    /\ \A f \in Files : marker[f] # None ~> marker[f] = None

=============================================================================
