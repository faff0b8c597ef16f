------------------------ MODULE BackupRestoreProofs ------------------------
(***************************************************************************)
(* Theorems about BackupRestore, for any managers, files, configurations   *)
(* and bounds: the types, the exclusion that the locks give, that a        *)
(* journal on disk is announced by a marker beside each of its files, and  *)
(* what is written to the managed files; then what a restore promises: one *)
(* that returned is complete, every restore is one step of AtomicRestore,  *)
(* and what an interrupted one left can be recovered.                      *)
(*                                                                         *)
(* A marker is removed by whoever finds it his own, perhaps long after the *)
(* process that wrote it died; that it then belongs to no journal is not   *)
(* visible in that step.  The inductive invariant says why: who is past    *)
(* his locks holds them all, every step that removes a marker runs at a    *)
(* point where the manager's own journal path is empty, and a journal is   *)
(* written where all its markers are in place.                             *)
(*                                                                         *)
(* For the promises, PInv says what each step of a restore has achieved,   *)
(* as its manager knows it: in which phase he is, what is installed, which *)
(* markers are gone, and that the id of his operation is nobody else's.    *)
(* RInv says what recovery will find: the original of every file that is   *)
(* marked or journalled.                                                   *)
(***************************************************************************)
EXTENDS BackupRestore, TLAPS

(* Whoever is past the lock step holds every lock of his configuration. *)
LocksHeld ==
    \A m \in Managers : InOperation(m) => \A l \in LocksOf(m) : locks[l] = m

(* What a loop has still to treat is in the plan, or was recorded. *)
TodoInRange ==
    \A m \in Managers :
        /\ pc[m] = "rollback" => todo[m] \subseteq DOMAIN orig[m]
        /\ pc[m] = "replace" => todo[m] \subseteq DOMAIN plan[m]
        /\ pc[m] \in {"mark", "unmark", "clear_markers"} => todo[m] \subseteq Managed[m]

(* A plan only names managed files. *)
PlanManaged == \A m \in Managers : DOMAIN plan[m] \subseteq Managed[m]

(* Where markers are written or removed, and where a journal is about to   *)
(* be written, the manager's journal path is empty.                        *)
NoJournalAt ==
    {"body", "mark", "unmark", "snapshot", "journal", "drop_snapshots", "clear_markers"}

NoJournal == \A m \in Managers : pc[m] \in NoJournalAt => PendingJournal(m) = None

(* The markers of a running restore are there until its journal is. *)
MarkersInPlace ==
    \A m \in Managers :
        /\ pc[m] \in {"snapshot", "journal"} =>
              \A f \in DOMAIN plan[m] : marker[f] = MarkerOf(m, txn[m])
        /\ pc[m] = "mark" =>
              \A f \in DOMAIN plan[m] \ todo[m] : marker[f] = MarkerOf(m, txn[m])

IInv ==
    /\ TypeOK /\ LocksHeld /\ TodoInRange /\ PlanManaged /\ NoJournal
    /\ MarkersInPlace /\ PendingIsMarked

(* Partial functions: how to get one, what one is. *)
LEMMA PartialFnIntro ==
  ASSUME NEW S, NEW T, NEW D \in SUBSET S, NEW g \in [D -> T]
  PROVE  g \in PartialFn(S, T)
BY DEF PartialFn

(* What is known of a partial function. *)
LEMMA PartialFnElim ==
  ASSUME NEW S, NEW T, NEW g \in PartialFn(S, T)
  PROVE  DOMAIN g \subseteq S /\ \A x \in DOMAIN g : g[x] \in T
BY DEF PartialFn

(* The empty plan. *)
LEMMA EmptyPartial ==
  ASSUME NEW S, NEW T
  PROVE  [f \in {} |-> Absent] \in PartialFn(S, T)
<1>1. [f \in {} |-> Absent] \in [{} -> T]
  OBVIOUS
<1>2. QED
  BY <1>1, PartialFnIntro

-----------------------------------------------------------------------------
(* Preservation of the invariant, one lemma per conjunct.  First the types: *)
(* what the loops write comes from a plan, an original or the disk.         *)
LEMMA TypeStep == IInv /\ [Next]_vars => TypeOK'
<1>. SUFFICES ASSUME TypeOK, TodoInRange, [Next]_vars PROVE TypeOK'
  BY DEF IInv
<1>. USE DEF At, Goto, durable, local, counters
<1>disk. disk \in [Files -> Bytes]
  BY DEF TypeOK
<1>marker. marker \in [Files -> Marker \union {None}]
  BY DEF TypeOK
<1>journal. journal \in [Journals -> Journal \union {None}]
  BY DEF TypeOK
<1>snaps. snaps \subseteq Snapshot
  BY DEF TypeOK
<1>archive. archive \in [Paths -> Archive \union {None}]
  BY DEF TypeOK
<1>audited. audited \subseteq [tx : Nat, files : PartialFn(Files, Contents)]
  BY DEF TypeOK
<1>applied. applied \subseteq Nat
  BY DEF TypeOK
<1>locks. locks \in [Locks -> Managers \union {None}]
  BY DEF TypeOK
<1>pc. pc \in [Managers -> PCs]
  BY DEF TypeOK
<1>op. op \in [Managers -> Ops]
  BY DEF TypeOK
<1>phase. phase \in [Managers -> {"recovery", "restore", "handler"}]
  BY DEF TypeOK
<1>id. id \in [Managers -> Nat]
  BY DEF TypeOK
<1>txn. txn \in [Managers -> Nat]
  BY DEF TypeOK
<1>plan. plan \in [Managers -> PartialFn(Files, Contents)]
  BY DEF TypeOK
<1>orig. orig \in [Managers -> PartialFn(Files, Bytes)]
  BY DEF TypeOK
<1>todo. todo \in [Managers -> SUBSET Files]
  BY DEF TypeOK
<1>tokens. tokens \in [Managers -> SUBSET [tok : Nat, path : Paths, id : Nat]]
  BY DEF TypeOK
<1>ops. ops \in Nat
  BY DEF TypeOK
<1>faults. faults \in Nat
  BY DEF TypeOK
<1>part. \A m \in Managers :
           /\ DOMAIN plan[m] \subseteq Files /\ \A f \in DOMAIN plan[m] : plan[m][f] \in Contents
           /\ DOMAIN orig[m] \subseteq Files /\ \A f \in DOMAIN orig[m] : orig[m][f] \in Bytes
  BY <1>plan, <1>orig, PartialFnElim
<1>jrn. JournalOf \in [Managers -> Journals]
  BY ConfigAssumption
<1>cfg. Managed \in [Managers -> SUBSET Files]
  BY ConfigAssumption
<1>1. ASSUME NEW m \in Managers, Open(m) PROVE TypeOK'
  <2>1. pc' \in [Managers -> PCs]
    BY <1>1, <1>pc DEF Open, PCs
  <2>2. op' \in [Managers -> Ops]
    BY <1>1, <1>op DEF Open, Ops
  <2>3. phase' \in [Managers -> {"recovery", "restore", "handler"}]
    BY <1>1, <1>phase DEF Open
  <2>4. QED
    BY <1>1, <2>1, <2>2, <2>3 DEF TypeOK, Open
<1>2. ASSUME NEW m \in Managers, NEW o \in Ops \ {"open"}, Begin(m, o)
      PROVE  TypeOK'
  <2>1. pc' \in [Managers -> PCs]
    BY <1>2, <1>pc DEF Begin, PCs
  <2>2. op' \in [Managers -> Ops]
    BY <1>2, <1>op DEF Begin, Ops
  <2>3. phase' \in [Managers -> {"recovery", "restore", "handler"}]
    BY <1>2, <1>phase DEF Begin
  <2>4. id' \in [Managers -> Nat]
    BY <1>2, <1>id, <1>ops DEF Begin
  <2>5. ops' \in Nat
    BY <1>2, <1>ops DEF Begin
  <2>6. QED
    BY <1>2, <2>1, <2>2, <2>3, <2>4, <2>5 DEF TypeOK, Begin
<1>3. ASSUME NEW m \in Managers, NEW l \in Locks, Acquire(m, l) PROVE TypeOK'
  <2>1. locks' \in [Locks -> Managers \union {None}]
    BY <1>3, <1>locks DEF Acquire
  <2>2. pc' \in [Managers -> PCs]
    BY <1>3, <1>pc DEF Acquire, PCs
  <2>3. QED
    BY <1>3, <2>1, <2>2 DEF TypeOK, Acquire
<1>4. ASSUME NEW m \in Managers,
             \/ Release(m) \/ Crash(m)
      PROVE  TypeOK'
  <2>1. locks' \in [Locks -> Managers \union {None}]
    BY <1>4, <1>locks DEF Release, Crash
  <2>2. pc' \in [Managers -> PCs]
    BY <1>4, <1>pc DEF Release, Crash, PCs
  <2>3. id' \in [Managers -> Nat]
    BY <1>4, <1>id DEF Release, Crash
  <2>4. txn' \in [Managers -> Nat]
    BY <1>4, <1>txn DEF Release, Crash
  <2>5. plan' \in [Managers -> PartialFn(Files, Contents)]
    BY <1>4, <1>plan, EmptyPartial DEF Release, Crash
  <2>6. orig' \in [Managers -> PartialFn(Files, Bytes)]
    BY <1>4, <1>orig, EmptyPartial DEF Release, Crash
  <2>7. todo' \in [Managers -> SUBSET Files]
    BY <1>4, <1>todo DEF Release, Crash
  <2>8. tokens' \in [Managers -> SUBSET [tok : Nat, path : Paths, id : Nat]]
    BY <1>4, <1>tokens DEF Release, Crash
  <2>9. faults' \in Nat
    BY <1>4, <1>faults DEF Release, Crash
  <2>10. QED
    BY <1>4, <2>1, <2>2, <2>3, <2>4, <2>5, <2>6, <2>7, <2>8, <2>9
       DEF TypeOK, Release, Crash
<1>5. ASSUME NEW m \in Managers, Quit(m) PROVE TypeOK'
  <2>1. pc' \in [Managers -> PCs]
    BY <1>5, <1>pc DEF Quit, PCs
  <2>2. tokens' \in [Managers -> SUBSET [tok : Nat, path : Paths, id : Nat]]
    BY <1>5, <1>tokens DEF Quit
  <2>3. QED
    BY <1>5, <2>1, <2>2 DEF TypeOK, Quit
<1>6. ASSUME NEW f \in Files, ManualWrite(f) PROVE TypeOK'
  <2>1. disk' \in [Files -> Bytes]
    BY <1>6, <1>disk DEF ManualWrite
  <2>2. QED
    BY <1>6, <2>1 DEF TypeOK, ManualWrite
<1>7. ASSUME NEW m \in Managers,
             \/ RecoverBlocked(m) \/ RecoverNothing(m) \/ RollbackVerify(m)
             \/ OpenDone(m) \/ Unconfirmed(m) \/ UnmarkDone(m)
             \/ TakeSnapshotsDone(m) \/ Verify(m) \/ ClearMarkersDone(m)
      PROVE  TypeOK'
  <2>1. pc' \in [Managers -> PCs]
    BY <1>7, <1>pc, <1>phase
       DEF RecoverBlocked, RecoverNothing, RollbackVerify, OpenDone,
           Unconfirmed, UnmarkDone, TakeSnapshotsDone, Verify,
           ClearMarkersDone, PCs
  <2>2. QED
    BY <1>7, <2>1
       DEF TypeOK, RecoverBlocked, RecoverNothing, RollbackVerify, OpenDone,
           Unconfirmed, UnmarkDone, TakeSnapshotsDone, Verify,
           ClearMarkersDone
<1>8. ASSUME NEW m \in Managers, RecoverMarkers(m) PROVE TypeOK'
  <2>1. pc' \in [Managers -> PCs]
    BY <1>8, <1>pc DEF RecoverMarkers, PCs
  <2>2. txn' \in [Managers -> Nat]
    <3>1. PICK f \in FoundMarkers(m) : txn' = [txn EXCEPT ![m] = marker[f].tx]
      BY <1>8 DEF RecoverMarkers
    <3>2. marker[f] \in Marker
      BY <1>marker, <1>cfg DEF FoundMarkers
    <3>3. QED
      BY <3>1, <3>2, <1>txn DEF Marker
  <2>3. plan' \in [Managers -> PartialFn(Files, Contents)]
    BY <1>8, <1>plan, EmptyPartial DEF RecoverMarkers
  <2>4. todo' \in [Managers -> SUBSET Files]
    BY <1>8, <1>todo, <1>cfg DEF RecoverMarkers, FoundMarkers
  <2>5. QED
    BY <1>8, <2>1, <2>2, <2>3, <2>4 DEF TypeOK, RecoverMarkers
<1>9. ASSUME NEW m \in Managers, RecoverJournal(m) PROVE TypeOK'
  <2>1. pc' \in [Managers -> PCs]
    BY <1>9, <1>pc DEF RecoverJournal, PCs
  <2>2. txn' \in [Managers -> Nat]
    BY <1>9, <1>txn, <1>journal, <1>jrn
       DEF RecoverJournal, PendingJournal, Journal
  <2>3. plan' \in [Managers -> PartialFn(Files, Contents)]
    BY <1>9, <1>plan, <1>journal, <1>jrn, EmptyPartial
       DEF RecoverJournal, PendingJournal, Journal
  <2>4. orig' \in [Managers -> PartialFn(Files, Bytes)]
    BY <1>9, <1>orig, <1>journal, <1>jrn, EmptyPartial
       DEF RecoverJournal, PendingJournal, Journal
  <2>5. todo' \in [Managers -> SUBSET Files]
    <3>1. PendingJournal(m).orig \in PartialFn(Files, Bytes)
      BY <1>9, <1>journal, <1>jrn DEF RecoverJournal, PendingJournal, Journal
    <3>2. QED
      BY <1>9, <1>todo, <3>1, PartialFnElim DEF RecoverJournal, HadOriginal
  <2>6. QED
    BY <1>9, <2>1, <2>2, <2>3, <2>4, <2>5 DEF TypeOK, RecoverJournal
<1>10. ASSUME NEW m \in Managers, NEW f \in Files,
             \/ Rollback(m, f) \/ RollbackUnlink(m, f) \/ DropSnapshot(m, f)
             \/ Replace(m, f)
      PROVE  TypeOK'
  <2>1. disk' \in [Files -> Bytes]
    BY <1>10, <1>disk, <1>part
       DEF Rollback, RollbackUnlink, DropSnapshot, Replace, TodoInRange,
           IsNext, Bytes
  <2>2. snaps' \subseteq Snapshot
    BY <1>10, <1>snaps DEF Rollback, RollbackUnlink, DropSnapshot, Replace
  <2>3. todo' \in [Managers -> SUBSET Files]
    BY <1>10, <1>todo DEF Rollback, RollbackUnlink, DropSnapshot, Replace
  <2>4. QED
    BY <1>10, <2>1, <2>2, <2>3
       DEF TypeOK, Rollback, RollbackUnlink, DropSnapshot, Replace
<1>11. ASSUME NEW m \in Managers,
             \/ RollbackDone(m) \/ DropSnapshotsDone(m) \/ MarkDone(m)
      PROVE  TypeOK'
  <2>1. pc' \in [Managers -> PCs]
    BY <1>11, <1>pc DEF RollbackDone, DropSnapshotsDone, MarkDone, PCs
  <2>2. todo' \in [Managers -> SUBSET Files]
    BY <1>11, <1>todo, <1>part
       DEF RollbackDone, DropSnapshotsDone, MarkDone, HadOriginal
  <2>3. QED
    BY <1>11, <2>1, <2>2 DEF TypeOK, RollbackDone, DropSnapshotsDone, MarkDone
<1>12. ASSUME NEW m \in Managers, UnlinkJournal(m) PROVE TypeOK'
  <2>1. journal' \in [Journals -> Journal \union {None}]
    BY <1>12, <1>journal, <1>jrn DEF UnlinkJournal
  <2>2. applied' \subseteq Nat
    BY <1>12, <1>applied, <1>txn DEF UnlinkJournal
  <2>3. pc' \in [Managers -> PCs]
    BY <1>12, <1>pc DEF UnlinkJournal, PCs
  <2>4. todo' \in [Managers -> SUBSET Files]
    BY <1>12, <1>todo, <1>part DEF UnlinkJournal, HadOriginal
  <2>5. QED
    BY <1>12, <2>1, <2>2, <2>3, <2>4 DEF TypeOK, UnlinkJournal
<1>13. ASSUME NEW m \in Managers, NEW f \in Files, ClearMarker(m, f)
      PROVE  TypeOK'
  <2>1. marker' \in [Files -> Marker \union {None}]
    BY <1>13, <1>marker, <1>txn, <1>cfg DEF ClearMarker, MarkerOf, Marker
  <2>2. pc' \in [Managers -> PCs]
    BY <1>13, <1>pc DEF ClearMarker, FailTo, PCs
  <2>3. todo' \in [Managers -> SUBSET Files]
    BY <1>13, <1>todo DEF ClearMarker
  <2>4. QED
    BY <1>13, <2>1, <2>2, <2>3 DEF TypeOK, ClearMarker
<1>14. ASSUME NEW m \in Managers, NEW p \in Paths, CreateBackup(m, p)
      PROVE  TypeOK'
  <2>1. archive' \in [Paths -> Archive \union {None}]
    <3> DEFINE present == {f \in Managed[m] : disk[f] # Absent}
    <3>1. present \in SUBSET Files /\ [f \in present |-> disk[f]] \in [present -> Contents]
      BY <1>cfg, <1>disk DEF Bytes
    <3>2. [f \in present |-> disk[f]] \in PartialFn(Files, Contents)
      BY <3>1, PartialFnIntro
    <3>3. [id |-> id[m], files |-> [f \in present |-> disk[f]]] \in Archive
      BY <3>2, <1>id DEF Archive
    <3>4. QED
      BY <1>14, <1>archive, <3>3 DEF CreateBackup
  <2>2. pc' \in [Managers -> PCs]
    BY <1>14, <1>pc DEF CreateBackup, PCs
  <2>3. QED
    BY <1>14, <2>1, <2>2 DEF TypeOK, CreateBackup
<1>15. ASSUME NEW m \in Managers, NEW p \in Paths, Preflight(m, p)
      PROVE  TypeOK'
  <2>1. pc' \in [Managers -> PCs]
    BY <1>15, <1>pc DEF Preflight, PCs
  <2>2. tokens' \in [Managers -> SUBSET [tok : Nat, path : Paths, id : Nat]]
    BY <1>15, <1>tokens, <1>id, <1>archive DEF Preflight, Readable, Archive
  <2>3. QED
    BY <1>15, <2>1, <2>2 DEF TypeOK, Preflight
<1>16. ASSUME NEW m \in Managers, NEW p \in Paths, NEW t \in tokens[m], Confirm(m, p, t)
      PROVE  TypeOK'
  <2>1. pc' \in [Managers -> PCs]
    BY <1>16, <1>pc DEF Confirm, PCs
  <2>2. phase' \in [Managers -> {"recovery", "restore", "handler"}]
    BY <1>16, <1>phase DEF Confirm
  <2>3. txn' \in [Managers -> Nat]
    BY <1>16, <1>txn, <1>id DEF Confirm
  <2>4. plan' \in [Managers -> PartialFn(Files, Contents)]
    BY <1>16, <1>plan, <1>archive, EmptyPartial DEF Confirm, Readable, Archive
  <2>5. orig' \in [Managers -> PartialFn(Files, Bytes)]
    BY <1>16, <1>orig, EmptyPartial DEF Confirm
  <2>6. todo' \in [Managers -> SUBSET Files]
    <3>1. Readable(m, p) => archive[p].files \in PartialFn(Files, Contents)
      BY <1>archive DEF Readable, Archive
    <3>2. QED
      BY <1>16, <1>todo, <3>1, PartialFnElim DEF Confirm
  <2>7. tokens' \in [Managers -> SUBSET [tok : Nat, path : Paths, id : Nat]]
    BY <1>16, <1>tokens DEF Confirm
  <2>8. QED
    BY <1>16, <2>1, <2>2, <2>3, <2>4, <2>5, <2>6, <2>7 DEF TypeOK, Confirm
<1>17. ASSUME NEW m \in Managers, NEW f \in Files, Mark(m, f) PROVE TypeOK'
  <2>1. marker' \in [Files -> Marker \union {None}]
    BY <1>17, <1>marker, <1>txn, <1>cfg, <1>jrn DEF Mark, MarkerOf, Marker
  <2>2. pc' \in [Managers -> PCs]
    BY <1>17, <1>pc DEF Mark, PCs
  <2>3. todo' \in [Managers -> SUBSET Files]
    BY <1>17, <1>todo, <1>part DEF Mark
  <2>4. QED
    BY <1>17, <2>1, <2>2, <2>3 DEF TypeOK, Mark
<1>18. ASSUME NEW m \in Managers, NEW f \in Files, Unmark(m, f) PROVE TypeOK'
  <2>1. marker' \in [Files -> Marker \union {None}]
    BY <1>18, <1>marker, <1>txn, <1>cfg DEF Unmark, MarkerOf, Marker
  <2>2. pc' \in [Managers -> PCs]
    BY <1>18, <1>pc DEF Unmark, PCs
  <2>3. todo' \in [Managers -> SUBSET Files]
    BY <1>18, <1>todo DEF Unmark
  <2>4. QED
    BY <1>18, <2>1, <2>2, <2>3 DEF TypeOK, Unmark
<1>19. ASSUME NEW m \in Managers, NEW f \in Files, TakeSnapshot(m, f)
      PROVE  TypeOK'
  <2>1. snaps' \subseteq Snapshot
    BY <1>19, <1>snaps, <1>disk, <1>txn, <1>jrn
       DEF TakeSnapshot, SnapshotOf, Snapshot, Bytes
  <2>2. orig' \in [Managers -> PartialFn(Files, Bytes)]
    <3> DEFINE D == DOMAIN orig[m] \union {f}
               g == [h \in D |-> IF h = f THEN disk[f] ELSE orig[m][h]]
    <3>1. D \in SUBSET Files /\ g \in [D -> Bytes]
      BY <1>part, <1>disk
    <3>2. g \in PartialFn(Files, Bytes)
      BY <3>1, PartialFnIntro
    <3>3. orig' = [orig EXCEPT ![m] = g]
      BY <1>19, <1>orig DEF TakeSnapshot
    <3>4. QED
      BY <3>2, <3>3, <1>orig
  <2>3. todo' \in [Managers -> SUBSET Files]
    BY <1>19, <1>todo DEF TakeSnapshot
  <2>4. QED
    BY <1>19, <2>1, <2>2, <2>3 DEF TypeOK, TakeSnapshot
<1>20. ASSUME NEW m \in Managers,
             \/ WriteJournal(m) \/ AppendAudit(m)
      PROVE  TypeOK'
  <2>1. journal' \in [Journals -> Journal \union {None}]
    BY <1>20, <1>journal, <1>txn, <1>plan, <1>orig, <1>cfg
       DEF WriteJournal, AppendAudit, Journal
  <2>2. audited' \subseteq [tx : Nat, files : PartialFn(Files, Contents)]
    BY <1>20, <1>audited, <1>plan, <1>txn DEF WriteJournal, AppendAudit
  <2>3. pc' \in [Managers -> PCs]
    BY <1>20, <1>pc DEF WriteJournal, AppendAudit, PCs
  <2>4. todo' \in [Managers -> SUBSET Files]
    BY <1>20, <1>todo, <1>part DEF WriteJournal, AppendAudit
  <2>5. QED
    BY <1>20, <2>1, <2>2, <2>3, <2>4 DEF TypeOK, WriteJournal, AppendAudit
<1>21. ASSUME NEW m \in Managers, Handle(m) PROVE TypeOK'
  <2>1. pc' \in [Managers -> PCs]
    BY <1>21, <1>pc DEF Handle, PCs
  <2>2. phase' \in [Managers -> {"recovery", "restore", "handler"}]
    BY <1>21, <1>phase DEF Handle
  <2>3. todo' \in [Managers -> SUBSET Files]
    BY <1>21, <1>todo, <1>part DEF Handle
  <2>4. QED
    BY <1>21, <2>1, <2>2, <2>3 DEF TypeOK, Handle
<1>22. ASSUME NEW m \in Managers, Fail(m) PROVE TypeOK'
  <2>1. pc' \in [Managers -> PCs]
    BY <1>22, <1>pc DEF Fail, FailTo, Failing, PCs
  <2>2. todo' \in [Managers -> SUBSET Files]
    BY <1>22, <1>todo, <1>part DEF Fail
  <2>3. faults' \in Nat
    BY <1>22, <1>faults DEF Fail
  <2>4. QED
    BY <1>22, <2>1, <2>2, <2>3 DEF TypeOK, Fail
<1>23. CASE UNCHANGED vars
  BY <1>23 DEF vars, TypeOK
<1>24. QED
  BY <1>1, <1>2, <1>3, <1>4, <1>5, <1>6, <1>7, <1>8, <1>9, <1>10, <1>11,
     <1>12, <1>13, <1>14, <1>15, <1>16, <1>17, <1>18, <1>19, <1>20, <1>21,
     <1>22, <1>23
     DEF Next, Step, Recovery, Finalize, Body, Restore


(* What the locks give: managers past their locks have nothing in common. *)
LEMMA HeldExclusion == TypeOK /\ LocksHeld => Exclusion
BY ConfigAssumption DEF TypeOK, LocksHeld, Exclusion, LocksOf, Locks

(* Only Acquire leads past the lock step, with the last lock; locks are    *)
(* dropped only on the way out.                                            *)
LEMMA LocksHeldStep == IInv /\ [Next]_vars => LocksHeld'
<1>. SUFFICES ASSUME TypeOK, LocksHeld, [Next]_vars PROVE LocksHeld'
  BY DEF IInv
<1>. USE DEF LocksHeld, At, Goto, durable, local, counters
<1>t. /\ pc \in [Managers -> PCs] /\ locks \in [Locks -> Managers \union {None}]
      /\ todo \in [Managers -> SUBSET Files] /\ marker \in [Files -> Marker \union {None}]
      /\ journal \in [Journals -> Journal \union {None}] /\ txn \in [Managers -> Nat]
      /\ DOMAIN plan = Managers /\ DOMAIN orig = Managers
  BY DEF TypeOK
<1>c. Managed \in [Managers -> SUBSET Files] /\ JournalOf \in [Managers -> Journals]
  BY ConfigAssumption
<1>1. ASSUME NEW m \in Managers,
             \/ Open(m) \/ Quit(m)
      PROVE  LocksHeld'
  BY <1>1, <1>t, <1>c DEF Open, Quit, InOperation, LocksOf
<1>2. ASSUME NEW m \in Managers, NEW o \in Ops \ {"open"}, Begin(m, o)
      PROVE  LocksHeld'
  BY <1>2, <1>t, <1>c DEF Begin, InOperation, LocksOf
<1>3. ASSUME NEW m \in Managers, NEW l \in Locks, Acquire(m, l)
      PROVE  LocksHeld'
  BY <1>3, <1>t, <1>c, ConfigAssumption
     DEF Acquire, InOperation, LocksOf, Locks
<1>4. ASSUME NEW m \in Managers, Release(m) PROVE LocksHeld'
  BY <1>4, <1>t, <1>c DEF Release, InOperation, LocksOf, Locks
<1>5. ASSUME NEW m \in Managers, Crash(m) PROVE LocksHeld'
  BY <1>5, <1>t, <1>c DEF Crash, InOperation, LocksOf, Locks
<1>6. ASSUME NEW f \in Files, ManualWrite(f) PROVE LocksHeld'
  BY <1>6, <1>t, <1>c DEF ManualWrite, InOperation, LocksOf
<1>7. ASSUME NEW m \in Managers,
             \/ RecoverBlocked(m) \/ RecoverNothing(m) \/ RollbackVerify(m)
             \/ OpenDone(m) \/ Unconfirmed(m) \/ UnmarkDone(m)
             \/ TakeSnapshotsDone(m) \/ Verify(m) \/ ClearMarkersDone(m)
      PROVE  LocksHeld'
  BY <1>7, <1>t, <1>c
     DEF RecoverBlocked, RecoverNothing, RollbackVerify, OpenDone,
         Unconfirmed, UnmarkDone, TakeSnapshotsDone, Verify, ClearMarkersDone,
         InOperation, LocksOf
<1>8. ASSUME NEW m \in Managers,
             \/ RecoverMarkers(m) \/ RecoverJournal(m)
      PROVE  LocksHeld'
  BY <1>8, <1>t, <1>c DEF RecoverMarkers, RecoverJournal, InOperation, LocksOf
<1>9. ASSUME NEW m \in Managers, NEW f \in Files,
             \/ Rollback(m, f) \/ RollbackUnlink(m, f) \/ DropSnapshot(m, f)
             \/ TakeSnapshot(m, f) \/ Replace(m, f)
      PROVE  LocksHeld'
  BY <1>9, <1>t, <1>c
     DEF Rollback, RollbackUnlink, DropSnapshot, TakeSnapshot, Replace,
         InOperation, LocksOf
<1>10. ASSUME NEW m \in Managers,
             \/ RollbackDone(m) \/ DropSnapshotsDone(m) \/ MarkDone(m)
             \/ Handle(m)
      PROVE  LocksHeld'
  BY <1>10, <1>t, <1>c
     DEF RollbackDone, DropSnapshotsDone, MarkDone, Handle, InOperation,
         LocksOf
<1>11. ASSUME NEW m \in Managers,
             \/ WriteJournal(m) \/ AppendAudit(m) \/ UnlinkJournal(m)
      PROVE  LocksHeld'
  BY <1>11, <1>t, <1>c
     DEF WriteJournal, AppendAudit, UnlinkJournal, InOperation, LocksOf
<1>12. ASSUME NEW m \in Managers, NEW f \in Files,
             \/ Mark(m, f) \/ Unmark(m, f) \/ ClearMarker(m, f)
      PROVE  LocksHeld'
  BY <1>12, <1>t, <1>c DEF Mark, Unmark, ClearMarker, InOperation, LocksOf
<1>13. ASSUME NEW m \in Managers, NEW p \in Paths,
             \/ CreateBackup(m, p) \/ Preflight(m, p)
      PROVE  LocksHeld'
  BY <1>13, <1>t, <1>c DEF CreateBackup, Preflight, InOperation, LocksOf
<1>14. ASSUME NEW m \in Managers, NEW p \in Paths, NEW t \in tokens[m], Confirm(m, p, t)
      PROVE  LocksHeld'
  BY <1>14, <1>t, <1>c DEF Confirm, InOperation, LocksOf
<1>15. ASSUME NEW m \in Managers, Fail(m) PROVE LocksHeld'
  BY <1>15, <1>t, <1>c DEF Fail, InOperation, LocksOf, Failing, FailTo
<1>16. CASE UNCHANGED vars
  BY <1>16 DEF vars, InOperation, LocksOf
<1>17. QED
  BY <1>1, <1>2, <1>3, <1>4, <1>5, <1>6, <1>7, <1>8, <1>9, <1>10, <1>11,
     <1>12, <1>13, <1>14, <1>15, <1>16
     DEF Next, Step, Recovery, Finalize, Body, Restore

(* Loops start from the files they are about, and only shrink. *)
LEMMA TodoInRangeStep == IInv /\ [Next]_vars => TodoInRange'
<1>. SUFFICES ASSUME TypeOK, TodoInRange, PlanManaged,
                       [Next]_vars PROVE TodoInRange'
  BY DEF IInv
<1>. USE DEF TodoInRange, At, Goto, durable, local, counters
<1>t. /\ pc \in [Managers -> PCs] /\ locks \in [Locks -> Managers \union {None}]
      /\ todo \in [Managers -> SUBSET Files] /\ marker \in [Files -> Marker \union {None}]
      /\ journal \in [Journals -> Journal \union {None}] /\ txn \in [Managers -> Nat]
      /\ DOMAIN plan = Managers /\ DOMAIN orig = Managers
  BY DEF TypeOK
<1>c. Managed \in [Managers -> SUBSET Files] /\ JournalOf \in [Managers -> Journals]
  BY ConfigAssumption
<1>1. ASSUME NEW m \in Managers,
             \/ Open(m) \/ Quit(m)
      PROVE  TodoInRange'
  BY <1>1, <1>t, <1>c DEF Open, Quit
<1>2. ASSUME NEW m \in Managers, NEW o \in Ops \ {"open"}, Begin(m, o)
      PROVE  TodoInRange'
  BY <1>2, <1>t, <1>c DEF Begin
<1>3. ASSUME NEW m \in Managers, NEW l \in Locks, Acquire(m, l)
      PROVE  TodoInRange'
  BY <1>3, <1>t, <1>c DEF Acquire
<1>4. ASSUME NEW m \in Managers,
             \/ Release(m) \/ Crash(m)
      PROVE  TodoInRange'
  BY <1>4, <1>t, <1>c DEF Release, Crash
<1>5. ASSUME NEW f \in Files, ManualWrite(f) PROVE TodoInRange'
  BY <1>5, <1>t, <1>c DEF ManualWrite
<1>6. ASSUME NEW m \in Managers,
             \/ RecoverBlocked(m) \/ RecoverNothing(m) \/ RollbackVerify(m)
             \/ OpenDone(m) \/ Unconfirmed(m) \/ UnmarkDone(m)
             \/ TakeSnapshotsDone(m) \/ Verify(m)
      PROVE  TodoInRange'
  BY <1>6, <1>t, <1>c
     DEF RecoverBlocked, RecoverNothing, RollbackVerify, OpenDone,
         Unconfirmed, UnmarkDone, TakeSnapshotsDone, Verify
<1>7. ASSUME NEW m \in Managers, RecoverMarkers(m) PROVE TodoInRange'
  BY <1>7, <1>t, <1>c DEF RecoverMarkers, FoundMarkers
<1>8. ASSUME NEW m \in Managers, RecoverJournal(m) PROVE TodoInRange'
  BY <1>8, <1>t, <1>c DEF RecoverJournal, HadOriginal, PendingJournal
<1>9. ASSUME NEW m \in Managers, NEW f \in Files,
             \/ Rollback(m, f) \/ RollbackUnlink(m, f) \/ DropSnapshot(m, f)
             \/ TakeSnapshot(m, f) \/ Replace(m, f)
      PROVE  TodoInRange'
  BY <1>9, <1>t, <1>c
     DEF Rollback, RollbackUnlink, DropSnapshot, TakeSnapshot, Replace
<1>10. ASSUME NEW m \in Managers,
             \/ RollbackDone(m) \/ MarkDone(m)
      PROVE  TodoInRange'
  BY <1>10, <1>t, <1>c DEF RollbackDone, MarkDone
<1>11. ASSUME NEW m \in Managers,
             \/ WriteJournal(m) \/ AppendAudit(m) \/ UnlinkJournal(m)
      PROVE  TodoInRange'
  BY <1>11, <1>t, <1>c DEF WriteJournal, AppendAudit, UnlinkJournal
<1>12. ASSUME NEW m \in Managers, DropSnapshotsDone(m) PROVE TodoInRange'
  BY <1>12, <1>t, <1>c DEF DropSnapshotsDone, PlanManaged
<1>13. ASSUME NEW m \in Managers, NEW f \in Files,
             \/ Mark(m, f) \/ Unmark(m, f) \/ ClearMarker(m, f)
      PROVE  TodoInRange'
  BY <1>13, <1>t, <1>c DEF Mark, Unmark, ClearMarker, PlanManaged, FailTo
<1>14. ASSUME NEW m \in Managers, ClearMarkersDone(m) PROVE TodoInRange'
  BY <1>14, <1>t, <1>c DEF ClearMarkersDone
<1>15. ASSUME NEW m \in Managers, NEW p \in Paths,
             \/ CreateBackup(m, p) \/ Preflight(m, p)
      PROVE  TodoInRange'
  BY <1>15, <1>t, <1>c DEF CreateBackup, Preflight
<1>16. ASSUME NEW m \in Managers, NEW p \in Paths, NEW t \in tokens[m], Confirm(m, p, t)
      PROVE  TodoInRange'
  BY <1>16, <1>t, <1>c DEF Confirm, Readable
<1>17. ASSUME NEW m \in Managers, Handle(m) PROVE TodoInRange'
  BY <1>17, <1>t, <1>c DEF Handle, PlanManaged
<1>18. ASSUME NEW m \in Managers, Fail(m) PROVE TodoInRange'
  BY <1>18, <1>t, <1>c DEF Fail, PlanManaged, FailTo, Failing
<1>19. CASE UNCHANGED vars
  BY <1>19 DEF vars
<1>20. QED
  BY <1>1, <1>2, <1>3, <1>4, <1>5, <1>6, <1>7, <1>8, <1>9, <1>10, <1>11,
     <1>12, <1>13, <1>14, <1>15, <1>16, <1>17, <1>18, <1>19
     DEF Next, Step, Recovery, Finalize, Body, Restore

(* Archives and journals that name other files are refused. *)
LEMMA PlanManagedStep == IInv /\ [Next]_vars => PlanManaged'
<1>. SUFFICES ASSUME TypeOK, PlanManaged, [Next]_vars PROVE PlanManaged'
  BY DEF IInv
<1>. USE DEF PlanManaged, At, Goto, durable, local, counters
<1>t. /\ pc \in [Managers -> PCs] /\ locks \in [Locks -> Managers \union {None}]
      /\ todo \in [Managers -> SUBSET Files] /\ marker \in [Files -> Marker \union {None}]
      /\ journal \in [Journals -> Journal \union {None}] /\ txn \in [Managers -> Nat]
      /\ DOMAIN plan = Managers /\ DOMAIN orig = Managers
  BY DEF TypeOK
<1>c. Managed \in [Managers -> SUBSET Files] /\ JournalOf \in [Managers -> Journals]
  BY ConfigAssumption
<1>1. ASSUME NEW m \in Managers,
             \/ Open(m) \/ Quit(m)
      PROVE  PlanManaged'
  BY <1>1, <1>t, <1>c DEF Open, Quit
<1>2. ASSUME NEW m \in Managers, NEW o \in Ops \ {"open"}, Begin(m, o)
      PROVE  PlanManaged'
  BY <1>2, <1>t, <1>c DEF Begin
<1>3. ASSUME NEW m \in Managers, NEW l \in Locks, Acquire(m, l)
      PROVE  PlanManaged'
  BY <1>3, <1>t, <1>c DEF Acquire
<1>4. ASSUME NEW m \in Managers, Release(m) PROVE PlanManaged'
  BY <1>4, <1>t, <1>c DEF Release
<1>5. ASSUME NEW m \in Managers, Crash(m) PROVE PlanManaged'
  BY <1>5, <1>t, <1>c DEF Crash
<1>6. ASSUME NEW f \in Files, ManualWrite(f) PROVE PlanManaged'
  BY <1>6, <1>t, <1>c DEF ManualWrite
<1>7. ASSUME NEW m \in Managers,
             \/ RecoverBlocked(m) \/ RecoverNothing(m) \/ RollbackVerify(m)
             \/ OpenDone(m) \/ Unconfirmed(m) \/ UnmarkDone(m)
             \/ TakeSnapshotsDone(m) \/ Verify(m) \/ ClearMarkersDone(m)
      PROVE  PlanManaged'
  BY <1>7, <1>t, <1>c
     DEF RecoverBlocked, RecoverNothing, RollbackVerify, OpenDone,
         Unconfirmed, UnmarkDone, TakeSnapshotsDone, Verify, ClearMarkersDone
<1>8. ASSUME NEW m \in Managers, RecoverMarkers(m) PROVE PlanManaged'
  BY <1>8, <1>t, <1>c DEF RecoverMarkers
<1>9. ASSUME NEW m \in Managers, RecoverJournal(m) PROVE PlanManaged'
  BY <1>9, <1>t, <1>c DEF RecoverJournal, JournalMatches, PendingJournal
<1>10. ASSUME NEW m \in Managers, NEW f \in Files,
             \/ Rollback(m, f) \/ RollbackUnlink(m, f) \/ DropSnapshot(m, f)
             \/ TakeSnapshot(m, f) \/ Replace(m, f)
      PROVE  PlanManaged'
  BY <1>10, <1>t, <1>c
     DEF Rollback, RollbackUnlink, DropSnapshot, TakeSnapshot, Replace
<1>11. ASSUME NEW m \in Managers,
             \/ RollbackDone(m) \/ DropSnapshotsDone(m) \/ MarkDone(m)
             \/ Handle(m)
      PROVE  PlanManaged'
  BY <1>11, <1>t, <1>c DEF RollbackDone, DropSnapshotsDone, MarkDone, Handle
<1>12. ASSUME NEW m \in Managers,
             \/ WriteJournal(m) \/ AppendAudit(m) \/ UnlinkJournal(m)
      PROVE  PlanManaged'
  BY <1>12, <1>t, <1>c DEF WriteJournal, AppendAudit, UnlinkJournal
<1>13. ASSUME NEW m \in Managers, NEW f \in Files,
             \/ Mark(m, f) \/ Unmark(m, f) \/ ClearMarker(m, f)
      PROVE  PlanManaged'
  BY <1>13, <1>t, <1>c DEF Mark, Unmark, ClearMarker
<1>14. ASSUME NEW m \in Managers, NEW p \in Paths,
             \/ CreateBackup(m, p) \/ Preflight(m, p)
      PROVE  PlanManaged'
  BY <1>14, <1>t, <1>c DEF CreateBackup, Preflight
<1>15. ASSUME NEW m \in Managers, NEW p \in Paths, NEW t \in tokens[m], Confirm(m, p, t)
      PROVE  PlanManaged'
  BY <1>15, <1>t, <1>c DEF Confirm, Readable
<1>16. ASSUME NEW m \in Managers, Fail(m) PROVE PlanManaged'
  BY <1>16, <1>t, <1>c DEF Fail
<1>17. CASE UNCHANGED vars
  BY <1>17 DEF vars
<1>18. QED
  BY <1>1, <1>2, <1>3, <1>4, <1>5, <1>6, <1>7, <1>8, <1>9, <1>10, <1>11,
     <1>12, <1>13, <1>14, <1>15, <1>16, <1>17
     DEF Next, Step, Recovery, Finalize, Body, Restore

(* The journal path of a manager past his locks is written by him alone. *)
LEMMA NoJournalStep == IInv /\ [Next]_vars => NoJournal'
<1>. SUFFICES ASSUME TypeOK, NoJournal, Exclusion,
                       [Next]_vars PROVE NoJournal'
  BY HeldExclusion DEF IInv
<1>. USE DEF NoJournal, At, Goto, durable, local, counters
<1>t. /\ pc \in [Managers -> PCs] /\ locks \in [Locks -> Managers \union {None}]
      /\ todo \in [Managers -> SUBSET Files] /\ marker \in [Files -> Marker \union {None}]
      /\ journal \in [Journals -> Journal \union {None}] /\ txn \in [Managers -> Nat]
      /\ DOMAIN plan = Managers /\ DOMAIN orig = Managers
  BY DEF TypeOK
<1>c. Managed \in [Managers -> SUBSET Files] /\ JournalOf \in [Managers -> Journals]
  BY ConfigAssumption
<1>1. ASSUME NEW m \in Managers,
             \/ Open(m) \/ Quit(m)
      PROVE  NoJournal'
  BY <1>1, <1>t, <1>c DEF Open, Quit, PendingJournal, NoJournalAt
<1>2. ASSUME NEW m \in Managers, NEW o \in Ops \ {"open"}, Begin(m, o)
      PROVE  NoJournal'
  BY <1>2, <1>t, <1>c DEF Begin, PendingJournal, NoJournalAt
<1>3. ASSUME NEW m \in Managers, NEW l \in Locks, Acquire(m, l)
      PROVE  NoJournal'
  BY <1>3, <1>t, <1>c DEF Acquire, PendingJournal, NoJournalAt
<1>4. ASSUME NEW m \in Managers,
             \/ Release(m) \/ Crash(m)
      PROVE  NoJournal'
  BY <1>4, <1>t, <1>c DEF Release, Crash, PendingJournal, NoJournalAt
<1>5. ASSUME NEW f \in Files, ManualWrite(f) PROVE NoJournal'
  BY <1>5, <1>t, <1>c DEF ManualWrite, PendingJournal, NoJournalAt
<1>6. ASSUME NEW m \in Managers,
             \/ RecoverBlocked(m) \/ RecoverNothing(m) \/ RollbackVerify(m)
             \/ OpenDone(m) \/ Unconfirmed(m) \/ UnmarkDone(m)
             \/ TakeSnapshotsDone(m) \/ Verify(m)
      PROVE  NoJournal'
  BY <1>6, <1>t, <1>c
     DEF RecoverBlocked, RecoverNothing, RollbackVerify, OpenDone,
         Unconfirmed, UnmarkDone, TakeSnapshotsDone, Verify, PendingJournal,
         NoJournalAt
<1>7. ASSUME NEW m \in Managers,
             \/ RecoverMarkers(m) \/ RecoverJournal(m)
      PROVE  NoJournal'
  BY <1>7, <1>t, <1>c
     DEF RecoverMarkers, RecoverJournal, PendingJournal, NoJournalAt
<1>8. ASSUME NEW m \in Managers, NEW f \in Files,
             \/ Rollback(m, f) \/ RollbackUnlink(m, f) \/ DropSnapshot(m, f)
             \/ TakeSnapshot(m, f) \/ Replace(m, f)
      PROVE  NoJournal'
  BY <1>8, <1>t, <1>c
     DEF Rollback, RollbackUnlink, DropSnapshot, TakeSnapshot, Replace,
         PendingJournal, NoJournalAt
<1>9. ASSUME NEW m \in Managers,
             \/ RollbackDone(m) \/ DropSnapshotsDone(m) \/ MarkDone(m)
             \/ Handle(m)
      PROVE  NoJournal'
  BY <1>9, <1>t, <1>c
     DEF RollbackDone, DropSnapshotsDone, MarkDone, Handle, PendingJournal,
         NoJournalAt
<1>10. ASSUME NEW m \in Managers,
             \/ AppendAudit(m) \/ UnlinkJournal(m)
      PROVE  NoJournal'
  BY <1>10, <1>t, <1>c
     DEF AppendAudit, UnlinkJournal, PendingJournal, NoJournalAt
<1>11. ASSUME NEW m \in Managers, NEW f \in Files, ClearMarker(m, f)
      PROVE  NoJournal'
  BY <1>11, <1>t, <1>c DEF ClearMarker, PendingJournal, NoJournalAt, FailTo
<1>12. ASSUME NEW m \in Managers, ClearMarkersDone(m) PROVE NoJournal'
  BY <1>12, <1>t, <1>c DEF ClearMarkersDone, PendingJournal, NoJournalAt
<1>13. ASSUME NEW m \in Managers, NEW p \in Paths,
             \/ CreateBackup(m, p) \/ Preflight(m, p)
      PROVE  NoJournal'
  BY <1>13, <1>t, <1>c
     DEF CreateBackup, Preflight, PendingJournal, NoJournalAt
<1>14. ASSUME NEW m \in Managers, NEW p \in Paths, NEW t \in tokens[m], Confirm(m, p, t)
      PROVE  NoJournal'
  BY <1>14, <1>t, <1>c DEF Confirm, PendingJournal, NoJournalAt
<1>15. ASSUME NEW m \in Managers, NEW f \in Files,
             \/ Mark(m, f) \/ Unmark(m, f)
      PROVE  NoJournal'
  BY <1>15, <1>t, <1>c DEF Mark, Unmark, PendingJournal, NoJournalAt
<1>16. ASSUME NEW m \in Managers, WriteJournal(m) PROVE NoJournal'
  BY <1>16, <1>t, <1>c
     DEF WriteJournal, PendingJournal, NoJournalAt, Exclusion, InOperation
<1>17. ASSUME NEW m \in Managers, Fail(m) PROVE NoJournal'
  BY <1>17, <1>t, <1>c DEF Fail, PendingJournal, NoJournalAt, FailTo, Failing
<1>18. CASE UNCHANGED vars
  BY <1>18 DEF vars, PendingJournal, NoJournalAt
<1>19. QED
  BY <1>1, <1>2, <1>3, <1>4, <1>5, <1>6, <1>7, <1>8, <1>9, <1>10, <1>11,
     <1>12, <1>13, <1>14, <1>15, <1>16, <1>17, <1>18
     DEF Next, Step, Recovery, Finalize, Body, Restore

(* The markers of a running restore are touched by its manager alone. *)
LEMMA MarkersInPlaceStep == IInv /\ [Next]_vars => MarkersInPlace'
<1>. SUFFICES ASSUME TypeOK, MarkersInPlace, Exclusion, TodoInRange,
                       PlanManaged, [Next]_vars PROVE MarkersInPlace'
  BY HeldExclusion DEF IInv
<1>. USE DEF MarkersInPlace, At, Goto, durable, local, counters
<1>t. /\ pc \in [Managers -> PCs] /\ locks \in [Locks -> Managers \union {None}]
      /\ todo \in [Managers -> SUBSET Files] /\ marker \in [Files -> Marker \union {None}]
      /\ journal \in [Journals -> Journal \union {None}] /\ txn \in [Managers -> Nat]
      /\ DOMAIN plan = Managers /\ DOMAIN orig = Managers
  BY DEF TypeOK
<1>c. Managed \in [Managers -> SUBSET Files] /\ JournalOf \in [Managers -> Journals]
  BY ConfigAssumption
<1>1. ASSUME NEW m \in Managers,
             \/ Open(m) \/ Quit(m)
      PROVE  MarkersInPlace'
  BY <1>1, <1>t, <1>c DEF Open, Quit, MarkerOf
<1>2. ASSUME NEW m \in Managers, NEW o \in Ops \ {"open"}, Begin(m, o)
      PROVE  MarkersInPlace'
  BY <1>2, <1>t, <1>c DEF Begin, MarkerOf
<1>3. ASSUME NEW m \in Managers, NEW l \in Locks, Acquire(m, l)
      PROVE  MarkersInPlace'
  BY <1>3, <1>t, <1>c DEF Acquire, MarkerOf
<1>4. ASSUME NEW m \in Managers,
             \/ Release(m) \/ Crash(m)
      PROVE  MarkersInPlace'
  BY <1>4, <1>t, <1>c DEF Release, Crash, MarkerOf
<1>5. ASSUME NEW f \in Files, ManualWrite(f) PROVE MarkersInPlace'
  BY <1>5, <1>t, <1>c DEF ManualWrite, MarkerOf
<1>6. ASSUME NEW m \in Managers,
             \/ RecoverBlocked(m) \/ RecoverNothing(m) \/ RollbackVerify(m)
             \/ OpenDone(m) \/ Unconfirmed(m) \/ UnmarkDone(m)
             \/ TakeSnapshotsDone(m) \/ Verify(m)
      PROVE  MarkersInPlace'
  BY <1>6, <1>t, <1>c
     DEF RecoverBlocked, RecoverNothing, RollbackVerify, OpenDone,
         Unconfirmed, UnmarkDone, TakeSnapshotsDone, Verify, MarkerOf
<1>7. ASSUME NEW m \in Managers,
             \/ RecoverMarkers(m) \/ RecoverJournal(m)
      PROVE  MarkersInPlace'
  BY <1>7, <1>t, <1>c DEF RecoverMarkers, RecoverJournal, MarkerOf
<1>8. ASSUME NEW m \in Managers, NEW f \in Files,
             \/ Rollback(m, f) \/ RollbackUnlink(m, f) \/ DropSnapshot(m, f)
             \/ TakeSnapshot(m, f) \/ Replace(m, f)
      PROVE  MarkersInPlace'
  BY <1>8, <1>t, <1>c
     DEF Rollback, RollbackUnlink, DropSnapshot, TakeSnapshot, Replace,
         MarkerOf
<1>9. ASSUME NEW m \in Managers,
             \/ RollbackDone(m) \/ DropSnapshotsDone(m) \/ MarkDone(m)
             \/ Handle(m)
      PROVE  MarkersInPlace'
  BY <1>9, <1>t, <1>c
     DEF RollbackDone, DropSnapshotsDone, MarkDone, Handle, MarkerOf
<1>10. ASSUME NEW m \in Managers,
             \/ WriteJournal(m) \/ AppendAudit(m) \/ UnlinkJournal(m)
      PROVE  MarkersInPlace'
  BY <1>10, <1>t, <1>c DEF WriteJournal, AppendAudit, UnlinkJournal, MarkerOf
<1>11. ASSUME NEW m \in Managers, NEW f \in Files, ClearMarker(m, f)
      PROVE  MarkersInPlace'
  BY <1>11, <1>t, <1>c
     DEF ClearMarker, MarkerOf, FailTo, Exclusion, InOperation, TodoInRange,
         PlanManaged, IsNext
<1>12. ASSUME NEW m \in Managers, ClearMarkersDone(m) PROVE MarkersInPlace'
  <2>1. /\ pc'[m] \in {"body", "return", "raise"}
        /\ \A n \in Managers \ {m} : pc'[n] = pc[n]
    <3>1. phase[m] \in {"recovery", "restore", "handler"} /\ pc \in [Managers -> PCs]
      BY DEF TypeOK
    <3>2. CASE phase[m] = "recovery"
      BY <1>12, <3>1, <3>2 DEF ClearMarkersDone
    <3>3. CASE phase[m] = "restore"
      BY <1>12, <3>1, <3>3 DEF ClearMarkersDone
    <3>4. CASE phase[m] = "handler"
      BY <1>12, <3>1, <3>4 DEF ClearMarkersDone
    <3>5. QED
      BY <3>1, <3>2, <3>3, <3>4
  <2>2. QED
    BY <1>12, <2>1 DEF ClearMarkersDone, MarkerOf
<1>13. ASSUME NEW m \in Managers, NEW p \in Paths,
             \/ CreateBackup(m, p) \/ Preflight(m, p)
      PROVE  MarkersInPlace'
  BY <1>13, <1>t, <1>c DEF CreateBackup, Preflight, MarkerOf
<1>14. ASSUME NEW m \in Managers, NEW p \in Paths, NEW t \in tokens[m], Confirm(m, p, t)
      PROVE  MarkersInPlace'
  <2>1. CASE pc' = [pc EXCEPT ![m] = "mark"] /\ todo'[m] = DOMAIN plan'[m]
    <3>1. \A n \in Managers \ {m} : /\ pc'[n] = pc[n] /\ plan'[n] = plan[n]
                                  /\ todo'[n] = todo[n] /\ txn'[n] = txn[n]
      BY <1>14, <1>t DEF Confirm
    <3>2. QED
      BY <1>14, <2>1, <3>1, <1>t DEF Confirm, MarkerOf
  <2>2. CASE pc' = [pc EXCEPT ![m] = "raise"] /\ UNCHANGED <<plan, todo, txn>>
    BY <1>14, <2>2, <1>t DEF Confirm, MarkerOf
  <2>3. QED
    BY <1>14, <2>1, <2>2, <1>t DEF Confirm
<1>15. ASSUME NEW m \in Managers, NEW f \in Files, Mark(m, f)
      PROVE  MarkersInPlace'
  BY <1>15, <1>t, <1>c
     DEF Mark, MarkerOf, Exclusion, InOperation, TodoInRange, PlanManaged,
         IsNext
<1>16. ASSUME NEW m \in Managers, NEW f \in Files, Unmark(m, f)
      PROVE  MarkersInPlace'
  BY <1>16, <1>t, <1>c
     DEF Unmark, MarkerOf, Exclusion, InOperation, TodoInRange, PlanManaged,
         IsNext
<1>17. ASSUME NEW m \in Managers, Fail(m) PROVE MarkersInPlace'
  BY <1>17, <1>t, <1>c DEF Fail, MarkerOf, FailTo, Failing
<1>18. CASE UNCHANGED vars
  BY <1>18 DEF vars, MarkerOf
<1>19. QED
  BY <1>1, <1>2, <1>3, <1>4, <1>5, <1>6, <1>7, <1>8, <1>9, <1>10, <1>11,
     <1>12, <1>13, <1>14, <1>15, <1>16, <1>17, <1>18
     DEF Next, Step, Recovery, Finalize, Body, Restore

(* Markers are removed while their own journal path is empty, and a journal *)
(* is written when all its markers are in place.                            *)
LEMMA PendingIsMarkedStep == IInv /\ [Next]_vars => PendingIsMarked'
<1>. SUFFICES ASSUME TypeOK, PendingIsMarked, NoJournal, MarkersInPlace,
                       [Next]_vars PROVE PendingIsMarked'
  BY DEF IInv
<1>. USE DEF PendingIsMarked, At, Goto, durable, local, counters
<1>t. /\ pc \in [Managers -> PCs] /\ locks \in [Locks -> Managers \union {None}]
      /\ todo \in [Managers -> SUBSET Files] /\ marker \in [Files -> Marker \union {None}]
      /\ journal \in [Journals -> Journal \union {None}] /\ txn \in [Managers -> Nat]
      /\ DOMAIN plan = Managers /\ DOMAIN orig = Managers
  BY DEF TypeOK
<1>c. Managed \in [Managers -> SUBSET Files] /\ JournalOf \in [Managers -> Journals]
  BY ConfigAssumption
<1>1. ASSUME NEW m \in Managers,
             \/ Open(m) \/ Quit(m)
      PROVE  PendingIsMarked'
  BY <1>1, <1>t, <1>c DEF Open, Quit
<1>2. ASSUME NEW m \in Managers, NEW o \in Ops \ {"open"}, Begin(m, o)
      PROVE  PendingIsMarked'
  BY <1>2, <1>t, <1>c DEF Begin
<1>3. ASSUME NEW m \in Managers, NEW l \in Locks, Acquire(m, l)
      PROVE  PendingIsMarked'
  BY <1>3, <1>t, <1>c DEF Acquire
<1>4. ASSUME NEW m \in Managers,
             \/ Release(m) \/ Crash(m)
      PROVE  PendingIsMarked'
  BY <1>4, <1>t, <1>c DEF Release, Crash
<1>5. ASSUME NEW f \in Files, ManualWrite(f) PROVE PendingIsMarked'
  BY <1>5, <1>t, <1>c DEF ManualWrite
<1>6. ASSUME NEW m \in Managers,
             \/ RecoverBlocked(m) \/ RecoverNothing(m) \/ RollbackVerify(m)
             \/ OpenDone(m) \/ Unconfirmed(m) \/ UnmarkDone(m)
             \/ TakeSnapshotsDone(m) \/ Verify(m) \/ ClearMarkersDone(m)
      PROVE  PendingIsMarked'
  BY <1>6, <1>t, <1>c
     DEF RecoverBlocked, RecoverNothing, RollbackVerify, OpenDone,
         Unconfirmed, UnmarkDone, TakeSnapshotsDone, Verify, ClearMarkersDone
<1>7. ASSUME NEW m \in Managers,
             \/ RecoverMarkers(m) \/ RecoverJournal(m)
      PROVE  PendingIsMarked'
  BY <1>7, <1>t, <1>c DEF RecoverMarkers, RecoverJournal
<1>8. ASSUME NEW m \in Managers, NEW f \in Files,
             \/ Rollback(m, f) \/ RollbackUnlink(m, f) \/ DropSnapshot(m, f)
             \/ TakeSnapshot(m, f) \/ Replace(m, f)
      PROVE  PendingIsMarked'
  BY <1>8, <1>t, <1>c
     DEF Rollback, RollbackUnlink, DropSnapshot, TakeSnapshot, Replace
<1>9. ASSUME NEW m \in Managers,
             \/ RollbackDone(m) \/ DropSnapshotsDone(m) \/ MarkDone(m)
             \/ Handle(m)
      PROVE  PendingIsMarked'
  BY <1>9, <1>t, <1>c DEF RollbackDone, DropSnapshotsDone, MarkDone, Handle
<1>10. ASSUME NEW m \in Managers,
             \/ AppendAudit(m) \/ UnlinkJournal(m)
      PROVE  PendingIsMarked'
  BY <1>10, <1>t, <1>c DEF AppendAudit, UnlinkJournal
<1>11. ASSUME NEW m \in Managers, NEW f \in Files, ClearMarker(m, f)
      PROVE  PendingIsMarked'
  <2>1. CASE marker' = [marker EXCEPT ![f] = None] /\ marker[f] = MarkerOf(m, txn[m])
    <3>1. SUFFICES ASSUME NEW j \in Journals, journal[j] # None, f \in DOMAIN journal[j].plan
                   PROVE  FALSE
      BY <1>11, <2>1, <1>t DEF ClearMarker
    <3>a. marker[f] = [tx |-> journal[j].tx, cfg |-> journal[j].cfg, jrn |-> j]
      BY <3>1
    <3>b. marker[f] = [tx |-> txn[m], cfg |-> Managed[m], jrn |-> JournalOf[m]]
      BY <2>1 DEF MarkerOf
    <3>2. j = JournalOf[m]
      BY <3>a, <3>b
    <3>3. PendingJournal(m) = None
      BY <1>11 DEF ClearMarker, NoJournal, NoJournalAt
    <3>4. QED
      BY <3>1, <3>2, <3>3 DEF PendingJournal
  <2>2. CASE UNCHANGED marker
    BY <1>11, <2>2 DEF ClearMarker
  <2>3. QED
    BY <1>11, <2>1, <2>2 DEF ClearMarker
<1>12. ASSUME NEW m \in Managers, NEW p \in Paths,
             \/ CreateBackup(m, p) \/ Preflight(m, p)
      PROVE  PendingIsMarked'
  BY <1>12, <1>t, <1>c DEF CreateBackup, Preflight
<1>13. ASSUME NEW m \in Managers, NEW p \in Paths, NEW t \in tokens[m], Confirm(m, p, t)
      PROVE  PendingIsMarked'
  BY <1>13, <1>t, <1>c DEF Confirm
<1>14. ASSUME NEW m \in Managers, NEW f \in Files, Mark(m, f)
      PROVE  PendingIsMarked'
  <2>1. ASSUME NEW j \in Journals, journal[j] # None
        PROVE  [tx |-> journal[j].tx, cfg |-> journal[j].cfg, jrn |-> j] # None
    BY <1>t, <2>1, NoneAssumption DEF Journal, Marker
  <2>2. \A j \in Journals : journal[j] # None =>
            \A g \in DOMAIN journal[j].plan : marker[g] # None
    BY <2>1
  <2>3. CASE marker[f] = None /\ marker' = [marker EXCEPT ![f] = MarkerOf(m, txn[m])]
    <3>1. SUFFICES ASSUME NEW j \in Journals, journal[j] # None,
                          NEW g \in DOMAIN journal[j].plan
                   PROVE  marker'[g] = [tx |-> journal[j].tx, cfg |-> journal[j].cfg, jrn |-> j]
      BY <1>14 DEF Mark
    <3>2. g # f
      BY <2>2, <2>3, <3>1
    <3>3. QED
      BY <2>3, <3>1, <3>2, <1>t
  <2>4. CASE UNCHANGED marker
    BY <1>14, <2>4 DEF Mark
  <2>5. QED
    BY <1>14, <2>3, <2>4 DEF Mark
<1>15. ASSUME NEW m \in Managers, NEW f \in Files, Unmark(m, f)
      PROVE  PendingIsMarked'
  <2>1. CASE marker' = [marker EXCEPT ![f] = None] /\ marker[f] = MarkerOf(m, txn[m])
    <3>1. SUFFICES ASSUME NEW j \in Journals, journal[j] # None, f \in DOMAIN journal[j].plan
                   PROVE  FALSE
      BY <1>15, <2>1, <1>t DEF Unmark
    <3>a. marker[f] = [tx |-> journal[j].tx, cfg |-> journal[j].cfg, jrn |-> j]
      BY <3>1
    <3>b. marker[f] = [tx |-> txn[m], cfg |-> Managed[m], jrn |-> JournalOf[m]]
      BY <2>1 DEF MarkerOf
    <3>2. j = JournalOf[m]
      BY <3>a, <3>b
    <3>3. PendingJournal(m) = None
      BY <1>15 DEF Unmark, NoJournal, NoJournalAt
    <3>4. QED
      BY <3>1, <3>2, <3>3 DEF PendingJournal
  <2>2. CASE UNCHANGED marker
    BY <1>15, <2>2 DEF Unmark
  <2>3. QED
    BY <1>15, <2>1, <2>2 DEF Unmark
<1>16. ASSUME NEW m \in Managers, WriteJournal(m) PROVE PendingIsMarked'
  <2>1. \A f \in DOMAIN plan[m] : marker[f] = MarkerOf(m, txn[m])
    BY <1>16 DEF WriteJournal, MarkersInPlace
  <2>2. \A j \in Journals \ {JournalOf[m]} : journal'[j] = journal[j]
    BY <1>16, <1>t DEF WriteJournal
  <2>3. journal'[JournalOf[m]] =
          [tx |-> txn[m], cfg |-> Managed[m], orig |-> orig[m], plan |-> plan[m]]
    BY <1>16, <1>t, <1>c DEF WriteJournal
  <2>4. QED
    BY <1>16, <2>1, <2>2, <2>3 DEF WriteJournal, MarkerOf
<1>17. ASSUME NEW m \in Managers, Fail(m) PROVE PendingIsMarked'
  BY <1>17, <1>t, <1>c DEF Fail
<1>18. CASE UNCHANGED vars
  BY <1>18 DEF vars
<1>19. QED
  BY <1>1, <1>2, <1>3, <1>4, <1>5, <1>6, <1>7, <1>8, <1>9, <1>10, <1>11,
     <1>12, <1>13, <1>14, <1>15, <1>16, <1>17, <1>18
     DEF Next, Step, Recovery, Finalize, Body, Restore

-----------------------------------------------------------------------------
(* Nothing is pending, locked or running at first. *)
LEMMA IInvInit == Init => IInv
<1>. SUFFICES ASSUME Init PROVE IInv
  OBVIOUS
<1>1. TypeOK
  <2>1. \A S, T : [f \in {} |-> Absent] \in PartialFn(S, T)
    BY EmptyPartial
  <2>2. \A p \in Paths : archive[p] \in Archive \union {None}
    BY DEF Init, Archive
  <2>3. QED
    BY <2>1, <2>2 DEF Init, TypeOK, Bytes, PCs, Ops
<1>2. LocksHeld /\ TodoInRange /\ PlanManaged /\ NoJournal /\ MarkersInPlace /\ PendingIsMarked
  BY ConfigAssumption DEF Init, LocksHeld, InOperation, TodoInRange, PlanManaged, NoJournal,
     NoJournalAt, MarkersInPlace, PendingIsMarked
<1>3. QED
  BY <1>1, <1>2 DEF IInv

(* IInv holds in every reachable state. *)
THEOREM InvariantHolds == Spec => []IInv
<1>1. IInv /\ [Next]_vars => IInv'
  BY TypeStep, LocksHeldStep, TodoInRangeStep, PlanManagedStep, NoJournalStep,
     MarkersInPlaceStep, PendingIsMarkedStep DEF IInv
<1>2. QED
  BY IInvInit, <1>1, PTL DEF Spec

(* Type correctness. *)
THEOREM TypeCorrect == Spec => []TypeOK
<1>1. IInv => TypeOK
  BY DEF IInv
<1>2. QED
  BY InvariantHolds, <1>1, PTL

(* _coordinated_restore_lock excludes all that shares a destination or an  *)
(* audit file, in whatever order locks are asked for and processes die.    *)
THEOREM MutualExclusion == Spec => []Exclusion
<1>1. IInv => Exclusion
  BY HeldExclusion DEF IInv
<1>2. QED
  BY InvariantHolds, <1>1, PTL

(* A journal on disk is announced by the marker beside each of its files,  *)
(* whatever crashes, exceptions and operations of other managers happened. *)
THEOREM JournalsAnnounced == Spec => []PendingIsMarked
<1>1. IInv => PendingIsMarked
  BY DEF IInv
<1>2. QED
  BY InvariantHolds, <1>1, PTL

-----------------------------------------------------------------------------
(***************************************************************************)
(* What a restore does to the managed files: the write-ahead rule and  *)
(* that a change made by hand is never overwritten.                        *)
(*                                                                         *)
(* Both speak of the journal on disk, while a manager works from what he   *)
(* planned and recorded in memory.  The invariant says that from the       *)
(* writing of the journal on these are the same, and that every file he    *)
(* has recorded holds its old or its new content meanwhile, since nobody   *)
(* else touches it.                                                        *)
(***************************************************************************)
(* The steps at which a journal of the manager's own is on disk. *)
Installing == {"audit", "replace", "rollback", "rollback_unlink", "unlink_journal"}

(* The originals are recorded file by file before the journal is written. *)
Recorded(m) ==
    /\ pc[m] = "mark" => DOMAIN orig[m] = {}
    /\ pc[m] = "snapshot" => DOMAIN orig[m] \union todo[m] = DOMAIN plan[m]
    /\ pc[m] = "journal" => DOMAIN orig[m] = DOMAIN plan[m]

(* The journal on disk says what the manager works from. *)
JournalMine(m) ==
    pc[m] \in Installing =>
        /\ PendingJournal(m) # None
        /\ PendingJournal(m).tx = txn[m]
        /\ PendingJournal(m).orig = orig[m]
        /\ PendingJournal(m).plan = plan[m]
        /\ DOMAIN orig[m] = DOMAIN plan[m]

(* What is recorded holds its old or its new content. *)
TargetsKnown(m) ==
    pc[m] \in {"snapshot", "journal"} \union Installing =>
        \A f \in DOMAIN orig[m] : disk[f] \in {orig[m][f], plan[m][f]}

(* A file that is to be removed was not there. *)
RemovesNew(m) ==
    pc[m] = "rollback_unlink" => \A f \in todo[m] : f \in DOMAIN orig[m] /\ orig[m][f] = Absent

(* The audit line is written before the first file is replaced. *)
AuditedFirst(m) == pc[m] = "replace" => [tx |-> txn[m], files |-> plan[m]] \in audited

Working(m) ==
    Recorded(m) /\ JournalMine(m) /\ TargetsKnown(m) /\ RemovesNew(m) /\ AuditedFirst(m)

(* A journal records the original of each file it plans. *)
JournalsWhole ==
    \A j \in Journals : journal[j] # None => DOMAIN journal[j].orig = DOMAIN journal[j].plan

WInv == JournalsWhole /\ \A m \in Managers : Working(m)

(* What one manager does, and what another one sees of his own memory. *)
ManagerStep(m) ==
    Open(m) \/ Step(m) \/ Quit(m) \/ Crash(m) \/ Fail(m) \/ \E o \in Ops \ {"open"} : Begin(m, o)
SameMemory(n) ==
    /\ pc'[n] = pc[n] /\ txn'[n] = txn[n] /\ plan'[n] = plan[n]
    /\ orig'[n] = orig[n] /\ todo'[n] = todo[n]

-----------------------------------------------------------------------------
(* A manager's step leaves the memory of the others alone. *)
LEMMA OthersMemory ==
  ASSUME TypeOK, NEW m \in Managers, ManagerStep(m), NEW n \in Managers \ {m}
  PROVE  SameMemory(n)
<1>. USE DEF SameMemory, At, Goto, durable, local, counters
<1>t. /\ DOMAIN pc = Managers /\ DOMAIN txn = Managers /\ DOMAIN plan = Managers
      /\ DOMAIN orig = Managers /\ DOMAIN todo = Managers
      /\ phase \in [Managers -> {"recovery", "restore", "handler"}]
  BY DEF TypeOK
<1>1. CASE Open(m) \/ Quit(m) \/ Crash(m) \/ Fail(m) \/ \E o \in Ops \ {"open"} : Begin(m, o)
  BY <1>1, <1>t DEF Open, Quit, Crash, Fail, Begin
<1>2. CASE Release(m) \/ \E l \in Locks : Acquire(m, l)
  BY <1>2, <1>t DEF Release, Acquire
<1>3. CASE Recovery(m)
  BY <1>3, <1>t DEF Recovery, RecoverBlocked, RecoverNothing, RecoverMarkers, RecoverJournal,
     Rollback, RollbackUnlink, RollbackDone, RollbackVerify
<1>4. CASE Finalize(m)
  BY <1>4, <1>t DEF Finalize, UnlinkJournal, DropSnapshotsDone, ClearMarkersDone, DropSnapshot,
     ClearMarker
<1>5. CASE Body(m)
  BY <1>5, <1>t DEF Body, OpenDone, Unconfirmed, CreateBackup, Preflight, Confirm
<1>6. CASE Restore(m)
  BY <1>6, <1>t DEF Restore, MarkDone, UnmarkDone, TakeSnapshotsDone, WriteJournal, AppendAudit,
     Verify, Handle, Mark, Unmark, TakeSnapshot, Replace
<1> QED
  BY <1>1, <1>2, <1>3, <1>4, <1>5, <1>6 DEF ManagerStep, Step

(* What a manager has recorded is his. *)
LEMMA OrigManaged ==
  ASSUME IInv, NEW m \in Managers, Working(m),
         pc[m] \in {"snapshot", "journal"} \union Installing
  PROVE  DOMAIN orig[m] \subseteq Managed[m]
BY DEF IInv, PlanManaged, Working, Recorded, JournalMine

(* A manager's step writes only his files and his journal, past his locks. *)
LEMMA Footprint ==
  ASSUME IInv, NEW m \in Managers, Working(m), ManagerStep(m)
  PROVE  /\ \A j \in Journals : j # JournalOf[m] => journal'[j] = journal[j]
         /\ \A f \in Files : disk'[f] # disk[f] => f \in Managed[m]
         /\ InOperation(m) \/ UNCHANGED <<disk, journal>>
         /\ audited \subseteq audited'
<1>. USE DEF At, Goto, durable, local, counters
<1>t. DOMAIN disk = Files /\ DOMAIN journal = Journals
  BY DEF IInv, TypeOK
<1>1. CASE \E f \in Files : Rollback(m, f) \/ RollbackUnlink(m, f) \/ Replace(m, f)
  <2>1. PICK f \in Files : Rollback(m, f) \/ RollbackUnlink(m, f) \/ Replace(m, f)
    BY <1>1
  <2>2. f \in Managed[m]
    <3>1. CASE Rollback(m, f) \/ RollbackUnlink(m, f)
      <4>1. f \in DOMAIN orig[m] /\ pc[m] \in {"rollback", "rollback_unlink"}
        BY <3>1 DEF Rollback, RollbackUnlink, IInv, TodoInRange, IsNext, Working, RemovesNew
      <4> QED
        BY <4>1, OrigManaged DEF Installing
    <3>2. CASE Replace(m, f)
      BY <3>2 DEF Replace, IInv, TodoInRange, PlanManaged, IsNext
    <3> QED
      BY <2>1, <3>1, <3>2
  <2>3. /\ \A g \in Files : disk'[g] # disk[g] => g = f
        /\ journal' = journal /\ audited' = audited
        /\ InOperation(m)
    BY <2>1, <1>t DEF Rollback, RollbackUnlink, Replace, InOperation
  <2> QED
    BY <2>2, <2>3
<1>2. CASE WriteJournal(m) \/ UnlinkJournal(m)
  BY <1>2, <1>t DEF WriteJournal, UnlinkJournal, InOperation
<1>3. CASE AppendAudit(m)
  BY <1>3 DEF AppendAudit
<1>4. CASE Open(m) \/ Quit(m) \/ Crash(m) \/ Fail(m) \/ Release(m)
           \/ (\E o \in Ops \ {"open"} : Begin(m, o)) \/ \E l \in Locks : Acquire(m, l)
  BY <1>4 DEF Open, Quit, Crash, Fail, Release, Begin, Acquire
<1>5. CASE RecoverBlocked(m) \/ RecoverNothing(m) \/ RecoverMarkers(m) \/ RecoverJournal(m)
           \/ RollbackDone(m) \/ RollbackVerify(m)
  BY <1>5 DEF RecoverBlocked, RecoverNothing, RecoverMarkers, RecoverJournal, RollbackDone,
     RollbackVerify
<1>6. CASE DropSnapshotsDone(m) \/ ClearMarkersDone(m)
           \/ \E f \in Files : DropSnapshot(m, f) \/ ClearMarker(m, f)
  BY <1>6 DEF DropSnapshotsDone, ClearMarkersDone, DropSnapshot, ClearMarker
<1>7. CASE Body(m)
  BY <1>7 DEF Body, OpenDone, Unconfirmed, CreateBackup, Preflight, Confirm
<1>8. CASE MarkDone(m) \/ UnmarkDone(m) \/ TakeSnapshotsDone(m) \/ Verify(m) \/ Handle(m)
           \/ \E f \in Files : Mark(m, f) \/ Unmark(m, f) \/ TakeSnapshot(m, f)
  BY <1>8 DEF MarkDone, UnmarkDone, TakeSnapshotsDone, Verify, Handle, Mark, Unmark, TakeSnapshot
<1> QED
  BY <1>1, <1>2, <1>3, <1>4, <1>5, <1>6, <1>7, <1>8
     DEF ManagerStep, Step, Recovery, Finalize, Restore

(* What a manager works from stays true through the steps of the others,   *)
(* as they share neither a file nor the journal with him,                  *)
LEMMA OthersWorking ==
  ASSUME IInv, WInv, NEW m \in Managers, ManagerStep(m), NEW n \in Managers \ {m}
  PROVE  Working(n)'
<1> DEFINE Busy == pc[n] \in {"mark", "snapshot", "journal"} \union Installing
<1>1. SameMemory(n)
  BY OthersMemory DEF IInv
<1>2. Working(m) /\ Working(n)
  BY DEF WInv
<1>3. CASE ~Busy
  BY <1>1, <1>3 DEF SameMemory, Working, Recorded, JournalMine, TargetsKnown, RemovesNew,
     AuditedFirst, Installing
<1>4. CASE Busy
  <2>1. InOperation(n)
    BY <1>4 DEF InOperation, Installing
  <2>2. PendingJournal(n)' = PendingJournal(n) /\ \A f \in Managed[n] : disk'[f] = disk[f]
    <3>1. JournalOf[n] \in Journals /\ Managed[n] \subseteq Files
      BY ConfigAssumption
    <3>2. CASE InOperation(m)
      <4>1. Managed[m] \intersect Managed[n] = {} /\ JournalOf[m] # JournalOf[n]
        BY <2>1, <3>2, HeldExclusion DEF IInv, Exclusion
      <4> QED
        BY <1>2, <3>1, <4>1, Footprint DEF PendingJournal
    <3>3. CASE ~InOperation(m)
      BY <1>2, <3>3, Footprint DEF PendingJournal
    <3> QED
      BY <3>2, <3>3
  <2>3. audited \subseteq audited'
    BY <1>2, Footprint
  <2>4. Recorded(n)' /\ RemovesNew(n)'
    BY <1>1, <1>2 DEF Working, SameMemory, Recorded, RemovesNew
  <2>5. JournalMine(n)'
    BY <1>1, <1>2, <2>2 DEF Working, SameMemory, JournalMine
  <2>6. TargetsKnown(n)'
    <3>1. SUFFICES ASSUME pc[n] \in {"snapshot", "journal"} \union Installing,
                          NEW f \in DOMAIN orig[n]
                   PROVE  disk'[f] \in {orig[n][f], plan[n][f]}
      BY <1>1 DEF SameMemory, TargetsKnown
    <3>2. f \in Managed[n]
      BY <1>2, <3>1, OrigManaged
    <3> QED
      BY <1>2, <2>2, <3>1, <3>2 DEF Working, TargetsKnown
  <2>7. AuditedFirst(n)'
    BY <1>1, <1>2, <2>3 DEF Working, SameMemory, AuditedFirst
  <2> QED
    BY <2>4, <2>5, <2>6, <2>7 DEF Working
<1> QED
  BY <1>3, <1>4

(* and through changes by hand, which no locked file undergoes. *)
LEMMA ManualWorking ==
  ASSUME IInv, WInv, NEW f \in Files, ManualWrite(f), NEW n \in Managers
  PROVE  Working(n)'
<1>1. Working(n) /\ TypeOK /\ LocksHeld
  BY DEF WInv, IInv
<1>2. /\ UNCHANGED <<journal, audited, pc, txn, plan, orig, todo>>
      /\ \A g \in Files \ {f} : disk'[g] = disk[g]
      /\ locks[f] = None
  BY <1>1 DEF ManualWrite, TypeOK, local
<1>3. TargetsKnown(n)'
  <2>1. SUFFICES ASSUME pc[n] \in {"snapshot", "journal"} \union Installing,
                        NEW g \in DOMAIN orig[n]
                 PROVE  disk'[g] \in {orig[n][g], plan[n][g]}
    BY <1>2 DEF TargetsKnown
  <2>2. g \in Managed[n]
    BY <1>1, <2>1, OrigManaged
  <2>3. locks[g] = n
    BY <1>1, <2>1, <2>2 DEF LocksHeld, InOperation, Installing, LocksOf
  <2>4. g \in Files \ {f}
    BY <1>2, <2>2, <2>3, ConfigAssumption
  <2> QED
    BY <1>1, <1>2, <2>1, <2>4 DEF Working, TargetsKnown
<1> QED
  BY <1>1, <1>2, <1>3 DEF Working, Recorded, JournalMine, RemovesNew, AuditedFirst, PendingJournal

-----------------------------------------------------------------------------
(* Where a manager neither prepares nor installs anything, nothing is asked. *)
LEMMA ElsewhereWorking ==
  ASSUME NEW m \in Managers,
         pc'[m] \notin {"mark", "snapshot", "journal"} \union Installing
  PROVE  Working(m)'
BY DEF Working, Recorded, JournalMine, TargetsKnown, RemovesNew, AuditedFirst, Installing

(* These steps lead there. *)
LEMMA LeavingSteps ==
  ASSUME TypeOK, NEW m \in Managers,
         \/ Open(m) \/ Quit(m) \/ Crash(m) \/ Fail(m) \/ Release(m) \/ (Body(m) /\ pc'[m] # "mark")
         \/ (\E o \in Ops \ {"open"} : Begin(m, o)) \/ \E l \in Locks : Acquire(m, l)
         \/ RecoverBlocked(m) \/ RecoverNothing(m) \/ RecoverMarkers(m)
         \/ Finalize(m) \/ UnmarkDone(m) \/ Handle(m) \/ \E f \in Files : Unmark(m, f)
  PROVE  pc'[m] \notin {"mark", "snapshot", "journal"} \union Installing
<1>. USE DEF At, Goto, Installing, durable, local, counters
<1>t. pc \in [Managers -> PCs] /\ phase[m] \in {"recovery", "restore", "handler"}
  BY DEF TypeOK
<1>1. CASE Open(m) \/ Quit(m) \/ Crash(m) \/ Fail(m) \/ Release(m)
  BY <1>1, <1>t DEF Open, Quit, Crash, Fail, FailTo, Failing, Release
<1>2. CASE (\E o \in Ops \ {"open"} : Begin(m, o)) \/ \E l \in Locks : Acquire(m, l)
  BY <1>2, <1>t DEF Begin, Acquire
<1>3. CASE RecoverBlocked(m) \/ RecoverNothing(m) \/ RecoverMarkers(m)
  BY <1>3, <1>t DEF RecoverBlocked, RecoverNothing, RecoverMarkers
<1>4. CASE UnlinkJournal(m) \/ DropSnapshotsDone(m) \/ \E f \in Files : DropSnapshot(m, f) \/ ClearMarker(m, f)
  BY <1>4, <1>t DEF UnlinkJournal, DropSnapshotsDone, DropSnapshot, ClearMarker, FailTo
<1>5. CASE ClearMarkersDone(m)
  <2>1. CASE phase[m] = "recovery"
    BY <1>5, <1>t, <2>1 DEF ClearMarkersDone
  <2>2. CASE phase[m] = "restore"
    BY <1>5, <1>t, <2>2 DEF ClearMarkersDone
  <2>3. CASE phase[m] = "handler"
    BY <1>5, <1>t, <2>3 DEF ClearMarkersDone
  <2> QED
    BY <1>t, <2>1, <2>2, <2>3
<1>6. CASE Body(m) /\ pc'[m] # "mark"
  BY <1>6, <1>t DEF Body, OpenDone, Unconfirmed, CreateBackup, Preflight, Confirm
<1>7. CASE UnmarkDone(m) \/ Handle(m) \/ \E f \in Files : Unmark(m, f)
  BY <1>7, <1>t DEF UnmarkDone, Handle, Unmark
<1> QED
  BY <1>1, <1>2, <1>3, <1>4, <1>5, <1>6, <1>7 DEF Finalize

(* The steps from the confirmation to the journal keep what is recorded    *)
(* true: an original is what the disk holds as it is recorded.             *)
LEMMA PreparingSteps ==
  ASSUME IInv, NEW m \in Managers, Working(m),
         \/ Body(m) /\ pc'[m] = "mark"
         \/ MarkDone(m) \/ TakeSnapshotsDone(m) \/ WriteJournal(m) \/ AppendAudit(m)
         \/ \E f \in Files : Mark(m, f) \/ TakeSnapshot(m, f)
  PROVE  Working(m)'
<1>. USE DEF At, Goto, durable, local, counters
<1>t. /\ DOMAIN pc = Managers /\ DOMAIN plan = Managers /\ DOMAIN orig = Managers
      /\ DOMAIN todo = Managers /\ DOMAIN journal = Journals /\ JournalOf[m] \in Journals
      /\ txn[m] \in Nat /\ plan[m] \in PartialFn(Files, Contents) /\ orig[m] \in PartialFn(Files, Bytes)
      /\ Managed[m] \in SUBSET Files
  BY ConfigAssumption DEF IInv, TypeOK
<1>. USE DEF Working, Recorded, JournalMine, TargetsKnown, RemovesNew, AuditedFirst, Installing
<1>1. CASE Body(m) /\ pc'[m] = "mark"
  <2>1. PICK p \in Paths, t \in tokens[m] : Confirm(m, p, t)
    BY <1>1, <1>t DEF Body, OpenDone, Unconfirmed, CreateBackup, Preflight
  <2>2. DOMAIN orig'[m] = {}
    BY <1>1, <1>t, <2>1 DEF Confirm
  <2> QED
    BY <1>1, <2>2
<1>2. CASE MarkDone(m)
  BY <1>2, <1>t DEF MarkDone
<1>3. CASE TakeSnapshotsDone(m)
  BY <1>3, <1>t DEF TakeSnapshotsDone
<1>4. CASE WriteJournal(m)
  <2> DEFINE j == [tx |-> txn[m], cfg |-> Managed[m], orig |-> orig[m], plan |-> plan[m]]
  <2>1. j # None
    BY <1>t, NoneAssumption DEF Journal
  <2>2. PendingJournal(m)' = j
    BY <1>4, <1>t DEF WriteJournal, PendingJournal
  <2>3. /\ pc'[m] = "audit" /\ UNCHANGED <<disk, txn, orig, plan, todo>>
        /\ DOMAIN orig[m] = DOMAIN plan[m] /\ TargetsKnown(m) /\ pc[m] = "journal"
    BY <1>4, <1>t DEF WriteJournal
  <2>4. JournalMine(m)'
    BY <2>1, <2>2, <2>3
  <2> QED
    BY <2>3, <2>4
<1>5. CASE AppendAudit(m)
  BY <1>5, <1>t DEF AppendAudit, PendingJournal
<1>6. ASSUME NEW f \in Files, Mark(m, f) PROVE Working(m)'
  BY <1>6, <1>t DEF Mark
<1>7. ASSUME NEW f \in Files, TakeSnapshot(m, f) PROVE Working(m)'
  BY <1>7, <1>t DEF TakeSnapshot, IsNext
<1> QED
  BY <1>1, <1>2, <1>3, <1>4, <1>5, <1>6, <1>7

(* So do the steps that install or roll back: what they write is one of    *)
(* the two contents of the journal.                                        *)
LEMMA InstallingSteps ==
  ASSUME IInv, JournalsWhole, NEW m \in Managers, Working(m),
         \/ RecoverJournal(m) \/ RollbackDone(m) \/ RollbackVerify(m) \/ Verify(m)
         \/ \E f \in Files : Rollback(m, f) \/ RollbackUnlink(m, f) \/ Replace(m, f)
  PROVE  Working(m)'
<1>. USE DEF At, Goto, durable, local, counters
<1>t. /\ DOMAIN pc = Managers /\ DOMAIN plan = Managers /\ DOMAIN orig = Managers
      /\ DOMAIN txn = Managers /\ DOMAIN todo = Managers /\ DOMAIN disk = Files
      /\ JournalOf[m] \in Journals
  BY ConfigAssumption DEF IInv, TypeOK
<1>. USE DEF Working, Recorded, JournalMine, TargetsKnown, RemovesNew, AuditedFirst, Installing
<1>1. CASE RecoverJournal(m)
  BY <1>1, <1>t DEF RecoverJournal, PendingJournal, TargetsRecoverable, JournalsWhole
<1>2. CASE RollbackDone(m)
  BY <1>2, <1>t DEF RollbackDone, PendingJournal, HadOriginal
<1>3. CASE RollbackVerify(m)
  BY <1>3, <1>t DEF RollbackVerify, PendingJournal
<1>4. CASE Verify(m)
  BY <1>4, <1>t DEF Verify, PendingJournal
<1>5. ASSUME NEW f \in Files, Rollback(m, f) PROVE Working(m)'
  BY <1>5, <1>t DEF Rollback, PendingJournal
<1>6. ASSUME NEW f \in Files, RollbackUnlink(m, f) PROVE Working(m)'
  BY <1>6, <1>t DEF RollbackUnlink, PendingJournal, IsNext
<1>7. ASSUME NEW f \in Files, Replace(m, f) PROVE Working(m)'
  BY <1>7, <1>t DEF Replace, PendingJournal
<1> QED
  BY <1>1, <1>2, <1>3, <1>4, <1>5, <1>6, <1>7

(* A manager's own steps. *)
LEMMA OwnWorking ==
  ASSUME IInv, WInv, NEW m \in Managers, ManagerStep(m)
  PROVE  Working(m)'
<1>1. Working(m) /\ JournalsWhole /\ TypeOK
  BY DEF WInv, IInv
<1>2. CASE \/ Open(m) \/ Quit(m) \/ Crash(m) \/ Fail(m) \/ Release(m) \/ (Body(m) /\ pc'[m] # "mark")
           \/ (\E o \in Ops \ {"open"} : Begin(m, o)) \/ \E l \in Locks : Acquire(m, l)
           \/ RecoverBlocked(m) \/ RecoverNothing(m) \/ RecoverMarkers(m)
           \/ Finalize(m) \/ UnmarkDone(m) \/ Handle(m) \/ \E f \in Files : Unmark(m, f)
  BY <1>1, <1>2, LeavingSteps, ElsewhereWorking
<1>3. CASE \/ Body(m) /\ pc'[m] = "mark"
           \/ MarkDone(m) \/ TakeSnapshotsDone(m) \/ WriteJournal(m) \/ AppendAudit(m)
           \/ \E f \in Files : Mark(m, f) \/ TakeSnapshot(m, f)
  BY <1>1, <1>3, PreparingSteps
<1>4. CASE \/ RecoverJournal(m) \/ RollbackDone(m) \/ RollbackVerify(m) \/ Verify(m)
           \/ \E f \in Files : Rollback(m, f) \/ RollbackUnlink(m, f) \/ Replace(m, f)
  BY <1>1, <1>4, InstallingSteps
<1>5. CASE Recovery(m)
  BY <1>2, <1>4, <1>5 DEF Recovery
<1>6. CASE Restore(m)
  <2>1. ASSUME NEW f \in Files, Mark(m, f) \/ Unmark(m, f) \/ TakeSnapshot(m, f) \/ Replace(m, f)
        PROVE  Working(m)'
    BY <1>2, <1>3, <1>4, <2>1
  <2>2. CASE \/ MarkDone(m) \/ UnmarkDone(m) \/ TakeSnapshotsDone(m) \/ WriteJournal(m)
             \/ AppendAudit(m) \/ Verify(m) \/ Handle(m)
    BY <1>2, <1>3, <1>4, <2>2
  <2> QED
    BY <1>6, <2>1, <2>2 DEF Restore
<1>7. CASE Body(m)
  BY <1>2, <1>3, <1>7
<1>8. CASE \/ Open(m) \/ Quit(m) \/ Crash(m) \/ Fail(m) \/ Release(m) \/ Finalize(m)
           \/ (\E o \in Ops \ {"open"} : Begin(m, o)) \/ \E l \in Locks : Acquire(m, l)
  <2>1. CASE Open(m) \/ Quit(m) \/ Crash(m) \/ Fail(m) \/ Release(m) \/ Finalize(m)
    BY <1>2, <2>1
  <2>2. CASE \E o \in Ops \ {"open"} : Begin(m, o)
    BY <1>2, <2>2
  <2>3. CASE \E l \in Locks : Acquire(m, l)
    BY <1>2, <2>3
  <2> QED
    BY <1>8, <2>1, <2>2, <2>3
<1> QED
  BY <1>5, <1>6, <1>7, <1>8 DEF ManagerStep, Step

(* Only two actions touch a journal. *)
LEMMA JournalWriters ==
  ASSUME NEW m \in Managers, ManagerStep(m)
  PROVE  WriteJournal(m) \/ UnlinkJournal(m) \/ UNCHANGED journal
<1>. USE DEF At, Goto, durable, local, counters
<1>1. CASE Open(m) \/ Quit(m) \/ Crash(m) \/ Fail(m) \/ Release(m)
           \/ (\E o \in Ops \ {"open"} : Begin(m, o)) \/ \E l \in Locks : Acquire(m, l)
  BY <1>1 DEF Open, Quit, Crash, Fail, Release, Begin, Acquire
<1>2. CASE Recovery(m)
  BY <1>2 DEF Recovery, RecoverBlocked, RecoverNothing, RecoverMarkers, RecoverJournal,
     Rollback, RollbackUnlink, RollbackDone, RollbackVerify
<1>3. CASE Finalize(m)
  BY <1>3 DEF Finalize, DropSnapshotsDone, ClearMarkersDone, DropSnapshot, ClearMarker
<1>4. CASE Body(m)
  BY <1>4 DEF Body, OpenDone, Unconfirmed, CreateBackup, Preflight, Confirm
<1>5. CASE Restore(m)
  BY <1>5 DEF Restore, MarkDone, UnmarkDone, TakeSnapshotsDone, AppendAudit, Verify, Handle,
     Mark, Unmark, TakeSnapshot, Replace
<1> QED
  BY <1>1, <1>2, <1>3, <1>4, <1>5 DEF ManagerStep, Step

(* The journal is written from what is recorded of each planned file. *)
LEMMA JournalsWholeStep ==
  ASSUME IInv, WInv, NEW m \in Managers, ManagerStep(m)
  PROVE  JournalsWhole'
<1>. USE DEF At, Goto, durable, local, counters
<1>t. /\ DOMAIN journal = Journals /\ JournalOf[m] \in Journals /\ JournalsWhole /\ Working(m)
  BY ConfigAssumption DEF IInv, TypeOK, WInv
<1>1. CASE WriteJournal(m)
  BY <1>1, <1>t DEF WriteJournal, JournalsWhole, Working, Recorded
<1>2. CASE UnlinkJournal(m)
  BY <1>2, <1>t DEF UnlinkJournal, JournalsWhole
<1>3. CASE UNCHANGED journal
  BY <1>3, <1>t DEF JournalsWhole
<1>4. WriteJournal(m) \/ UnlinkJournal(m) \/ UNCHANGED journal
  BY JournalWriters
<1> QED
  BY <1>1, <1>2, <1>3, <1>4

-----------------------------------------------------------------------------
(* The invariant is inductive. *)
LEMMA WInvStep == IInv /\ WInv /\ [Next]_vars => WInv'
<1>. SUFFICES ASSUME IInv, WInv, [Next]_vars PROVE WInv'
  OBVIOUS
<1>1. ASSUME NEW m \in Managers, ManagerStep(m) PROVE WInv'
  BY <1>1, OwnWorking, OthersWorking, JournalsWholeStep DEF WInv
<1>2. ASSUME NEW f \in Files, ManualWrite(f) PROVE WInv'
  <2>1. JournalsWhole'
    BY <1>2 DEF ManualWrite, WInv, JournalsWhole
  <2> QED
    BY <1>2, <2>1, ManualWorking DEF WInv
<1>3. CASE UNCHANGED vars
  BY <1>3 DEF vars, durable, local, WInv, JournalsWhole, Working, Recorded, JournalMine,
     TargetsKnown, RemovesNew, AuditedFirst, PendingJournal
<1> QED
  BY <1>1, <1>2, <1>3 DEF Next, ManagerStep

(* Nobody works on anything at first. *)
LEMMA WInvInit == Init => WInv
BY DEF Init, WInv, JournalsWhole, Working, Recorded, JournalMine, TargetsKnown, RemovesNew,
   AuditedFirst, Installing

(* What a manager works from is what his journal says, and every file he   *)
(* recorded holds its old or its new content, in every reachable state.    *)
THEOREM WorkingAlways == Spec => []WInv
<1>1. Spec => []IInv
  BY InvariantHolds
<1> QED
  BY <1>1, WInvInit, WInvStep, PTL DEF Spec

-----------------------------------------------------------------------------
(* A file of a pending journal is announced by the marker beside it. *)
LEMMA MarkerLeads ==
  ASSUME IInv, NEW j \in Journals, journal[j] # None, NEW f \in DOMAIN journal[j].plan
  PROVE  marker[f] # None /\ marker[f].jrn = j
<1>1. journal[j] \in Journal
  BY DEF IInv, TypeOK
<1>2. [tx |-> journal[j].tx, cfg |-> journal[j].cfg, jrn |-> j] \in Marker
  BY <1>1 DEF Journal, Marker
<1>3. marker[f] = [tx |-> journal[j].tx, cfg |-> journal[j].cfg, jrn |-> j]
  BY DEF IInv, PendingIsMarked
<1> QED
  BY <1>2, <1>3, NoneAssumption

(* The write-ahead rule for one manager's write. *)
LEMMA WriteStep ==
  ASSUME IInv, WInv, NEW m \in Managers, NEW f \in Files, disk'[f] # disk[f],
         Rollback(m, f) \/ RollbackUnlink(m, f) \/ Replace(m, f)
  PROVE  LET j == PendingJournal(m)
         IN  /\ marker[f] # None /\ marker[f].jrn = JournalOf[m]
             /\ j # None
             /\ f \in DOMAIN j.plan
             /\ {disk[f], disk'[f]} = {j.orig[f], j.plan[f]}
             /\ disk'[f] = j.orig[f] \/ [tx |-> j.tx, files |-> j.plan] \in audited
<1> DEFINE j == PendingJournal(m)
<1>t. DOMAIN disk = Files /\ JournalOf[m] \in Journals
  BY ConfigAssumption DEF IInv, TypeOK
<1>1. pc[m] \in {"rollback", "rollback_unlink", "replace"} /\ f \in todo[m]
  BY DEF Rollback, RollbackUnlink, Replace, At, IsNext
<1>2. j # None /\ j.tx = txn[m] /\ j.orig = orig[m] /\ j.plan = plan[m] /\ DOMAIN orig[m] = DOMAIN plan[m]
  BY <1>1 DEF WInv, Working, JournalMine, Installing
<1>3. f \in DOMAIN plan[m]
  BY <1>1, <1>2 DEF IInv, TodoInRange, WInv, Working, RemovesNew
<1>4. disk[f] \in {orig[m][f], plan[m][f]}
  BY <1>1, <1>2, <1>3 DEF WInv, Working, TargetsKnown, Installing
<1>5. CASE Replace(m, f)
  <2>1. disk'[f] = plan[m][f] /\ [tx |-> txn[m], files |-> plan[m]] \in audited
    BY <1>5, <1>t DEF Replace, At, WInv, Working, AuditedFirst
  <2> QED
    BY <1>t, <1>2, <1>3, <1>4, <2>1, MarkerLeads DEF PendingJournal
<1>6. CASE Rollback(m, f) \/ RollbackUnlink(m, f)
  <2>1. disk'[f] = orig[m][f]
    BY <1>6, <1>t DEF Rollback, RollbackUnlink, At, IsNext, WInv, Working, RemovesNew
  <2> QED
    BY <1>t, <1>2, <1>3, <1>4, <2>1, MarkerLeads DEF PendingJournal
<1> QED
  BY <1>5, <1>6

(* Only these three actions, or a hand, write a managed file. *)
LEMMA Writers ==
  ASSUME IInv, [Next]_vars, NEW f \in Files, disk'[f] # disk[f], manual' = manual
  PROVE  \E m \in Managers : Rollback(m, f) \/ RollbackUnlink(m, f) \/ Replace(m, f)
<1>. USE DEF At, Goto, durable, local, counters
<1>t. DOMAIN disk = Files /\ manual \in Nat
  BY DEF IInv, TypeOK
<1>1. ~(UNCHANGED vars) /\ ~\E g \in Files : ManualWrite(g)
  BY <1>t DEF vars, ManualWrite
<1>2. PICK m \in Managers : ManagerStep(m)
  BY <1>1 DEF Next, ManagerStep
<1>3. CASE Open(m) \/ Quit(m) \/ Crash(m) \/ Fail(m) \/ Release(m)
           \/ (\E o \in Ops \ {"open"} : Begin(m, o)) \/ \E l \in Locks : Acquire(m, l)
  BY <1>3 DEF Open, Quit, Crash, Fail, Release, Begin, Acquire
<1>4. CASE RecoverBlocked(m) \/ RecoverNothing(m) \/ RecoverMarkers(m) \/ RecoverJournal(m)
           \/ RollbackDone(m) \/ RollbackVerify(m)
  BY <1>4 DEF RecoverBlocked, RecoverNothing, RecoverMarkers, RecoverJournal, RollbackDone,
     RollbackVerify
<1>5. CASE Finalize(m)
  BY <1>5 DEF Finalize, UnlinkJournal, DropSnapshotsDone, ClearMarkersDone, DropSnapshot,
     ClearMarker
<1>6. CASE Body(m)
  BY <1>6 DEF Body, OpenDone, Unconfirmed, CreateBackup, Preflight, Confirm
<1>7. CASE MarkDone(m) \/ UnmarkDone(m) \/ TakeSnapshotsDone(m) \/ WriteJournal(m) \/ AppendAudit(m)
           \/ Verify(m) \/ Handle(m) \/ \E g \in Files : Mark(m, g) \/ Unmark(m, g) \/ TakeSnapshot(m, g)
  BY <1>7 DEF MarkDone, UnmarkDone, TakeSnapshotsDone, WriteJournal, AppendAudit, Verify, Handle,
     Mark, Unmark, TakeSnapshot
<1>8. ASSUME NEW g \in Files, Rollback(m, g) \/ RollbackUnlink(m, g) \/ Replace(m, g)
      PROVE  Rollback(m, f) \/ RollbackUnlink(m, f) \/ Replace(m, f)
  <2>1. f = g
    BY <1>8, <1>t DEF Rollback, RollbackUnlink, Replace
  <2> QED
    BY <1>8, <2>1
<1>9. CASE \E g \in Files : Rollback(m, g) \/ RollbackUnlink(m, g) \/ Replace(m, g)
  BY <1>8, <1>9
<1> QED
  BY <1>2, <1>3, <1>4, <1>5, <1>6, <1>7, <1>9 DEF ManagerStep, Step, Recovery, Restore

(* The journal of a file whose content it does not know is not touched: it *)
(* is unlinked only when every file holds what it says, and none is        *)
(* written while one is pending.                                           *)
LEMMA JournalStays ==
  ASSUME IInv, WInv, [Next]_vars, NEW j \in Journals, journal[j] # None,
         NEW f \in DOMAIN journal[j].plan, disk[f] \notin {journal[j].orig[f], journal[j].plan[f]}
  PROVE  journal'[j] = journal[j]
<1>. USE DEF At, Goto, durable, local, counters
<1>t. DOMAIN journal = Journals
  BY DEF IInv, TypeOK
<1>1. ASSUME NEW m \in Managers, WriteJournal(m) PROVE journal'[j] = journal[j]
  <2>1. PendingJournal(m) = None
    BY <1>1 DEF WriteJournal, IInv, NoJournal, NoJournalAt
  <2> QED
    BY <1>1, <1>t, <2>1 DEF WriteJournal, PendingJournal
<1>2. ASSUME NEW m \in Managers, UnlinkJournal(m) PROVE journal'[j] = journal[j]
  <2>1. SUFFICES ASSUME j = JournalOf[m] PROVE FALSE
    BY <1>2, <1>t DEF UnlinkJournal
  <2>2. journal[j].orig = orig[m] /\ journal[j].plan = plan[m] /\ DOMAIN orig[m] = DOMAIN plan[m]
    BY <1>2, <2>1 DEF UnlinkJournal, WInv, Working, JournalMine, Installing, PendingJournal
  <2>3. \A g \in DOMAIN orig[m] : disk[g] \in {orig[m][g], plan[m][g]}
    BY <1>2 DEF UnlinkJournal, WInv, Working, TargetsKnown, Installing
  <2> QED
    BY <2>2, <2>3
<1>3. CASE \E m \in Managers : ManagerStep(m)
  <2>1. PICK m \in Managers : ManagerStep(m)
    BY <1>3
  <2>2. WriteJournal(m) \/ UnlinkJournal(m) \/ UNCHANGED journal
    BY <2>1, JournalWriters
  <2> QED
    BY <1>1, <1>2, <2>2
<1>4. CASE \E g \in Files : ManualWrite(g)
  BY <1>4 DEF ManualWrite
<1>5. CASE UNCHANGED vars
  BY <1>5 DEF vars
<1> QED
  BY <1>3, <1>4, <1>5 DEF Next, ManagerStep

-----------------------------------------------------------------------------
(* Write-ahead: whoever but a hand changes a managed file finds beside it  *)
(* the marker that leads to a journal on disk with its old and its new     *)
(* content, and new content comes only after the audit line.               *)
THEOREM WritesAhead == Spec => WriteAhead
<1>1. IInv /\ WInv /\ [Next]_vars =>
        [\A f \in Files :
           disk'[f] # disk[f] /\ manual' = manual =>
              /\ marker[f] # None
              /\ LET j == journal[marker[f].jrn]
                 IN  /\ j # None
                     /\ f \in DOMAIN j.plan
                     /\ {disk[f], disk'[f]} = {j.orig[f], j.plan[f]}
                     /\ disk'[f] = j.orig[f] \/ [tx |-> j.tx, files |-> j.plan] \in audited]_vars
  <2>1. SUFFICES ASSUME IInv, WInv, [Next]_vars, NEW f \in Files,
                        disk'[f] # disk[f], manual' = manual
                 PROVE  /\ marker[f] # None
                        /\ LET j == journal[marker[f].jrn]
                           IN  /\ j # None
                               /\ f \in DOMAIN j.plan
                               /\ {disk[f], disk'[f]} = {j.orig[f], j.plan[f]}
                               /\ disk'[f] = j.orig[f] \/ [tx |-> j.tx, files |-> j.plan] \in audited
    OBVIOUS
  <2>2. PICK m \in Managers : Rollback(m, f) \/ RollbackUnlink(m, f) \/ Replace(m, f)
    BY <2>1, Writers
  <2> QED
    BY <2>1, <2>2, WriteStep DEF PendingJournal
<1> QED
  BY <1>1, InvariantHolds, WorkingAlways, PTL DEF Spec, WriteAhead

(* ManualEditKept: a file that was given other content by hand while its   *)
(* restore was pending keeps it, and the journal stays.                    *)
THEOREM HandEditsKept == Spec => ManualEditKept
<1>1. IInv /\ WInv /\ [Next]_vars =>
        [\A j \in Journals :
           journal[j] # None /\ manual' = manual =>
              \A f \in DOMAIN journal[j].plan :
                  disk[f] \notin {journal[j].orig[f], journal[j].plan[f]} =>
                      disk'[f] = disk[f] /\ journal'[j] = journal[j]]_vars
  <2>1. SUFFICES ASSUME IInv, WInv, [Next]_vars, NEW j \in Journals, journal[j] # None,
                        manual' = manual, NEW f \in DOMAIN journal[j].plan,
                        disk[f] \notin {journal[j].orig[f], journal[j].plan[f]}
                 PROVE  disk'[f] = disk[f] /\ journal'[j] = journal[j]
    OBVIOUS
  <2>2. journal'[j] = journal[j]
    BY <2>1, JournalStays
  <2>3. f \in Files
    <3>1. journal[j].plan \in PartialFn(Files, Contents)
      BY <2>1 DEF IInv, TypeOK, Journal
    <3> QED
      BY <2>1, <3>1, PartialFnElim
  <2>4. ASSUME disk'[f] # disk[f] PROVE FALSE
    <3>1. PICK m \in Managers : Rollback(m, f) \/ RollbackUnlink(m, f) \/ Replace(m, f)
      BY <2>1, <2>3, <2>4, Writers
    <3>2. marker[f].jrn = JournalOf[m] /\ marker[f].jrn = j
      BY <2>1, <2>3, <2>4, <3>1, WriteStep, MarkerLeads
    <3>3. PendingJournal(m) = journal[j]
      BY <3>2 DEF PendingJournal
    <3>4. {disk[f], disk'[f]} = {PendingJournal(m).orig[f], PendingJournal(m).plan[f]}
      BY <2>1, <2>3, <2>4, <3>1, WriteStep
    <3> QED
      BY <2>1, <3>3, <3>4
  <2> QED
    BY <2>2, <2>4
<1> QED
  BY <1>1, InvariantHolds, WorkingAlways, PTL DEF Spec, ManualEditKept

------------------------------------------------------------------------------
(* What a restore promises.                                                *)

(* The phase is "restore" from the confirmation to the end of the try      *)
(* block, whose markers and journal carry the id of the operation.         *)
PhaseFits(m) ==
    /\ pc[m] \in {"mark", "unmark", "snapshot", "journal", "audit", "replace", "except"} =>
          phase[m] = "restore"
    /\ pc[m] \in {"lock", "body"} => phase[m] = "recovery"
    /\ pc[m] \in {"recover", "rollback", "rollback_unlink"} => phase[m] # "restore"
    /\ InOperation(m) /\ phase[m] = "restore" => op[m] = "restore" /\ txn[m] = id[m]
    /\ pc[m] = "return" /\ op[m] = "restore" => phase[m] = "restore"
    /\ pc[m] \notin {"down", "idle"} /\ op[m] # "open" => id[m] # 0
    /\ pc[m] \in {"down", "idle"} => id[m] = 0

(* Where the journal is about to go, or gone, the files are what it was for. *)
Settling == {"unlink_journal", "drop_snapshots", "clear_markers", "return"}

Installed(m) ==
    /\ pc[m] \in {"snapshot", "journal"} => \A f \in DOMAIN orig[m] : disk[f] = orig[m][f]
    /\ pc[m] = "unlink_journal" /\ phase[m] # "restore" =>
          \A f \in DOMAIN plan[m] : disk[f] = orig[m][f]
    /\ pc[m] \in Settling /\ phase[m] = "restore" =>
          /\ \A f \in DOMAIN plan[m] : disk[f] = plan[m][f]
          /\ IF pc[m] = "unlink_journal" THEN [tx |-> txn[m], files |-> plan[m]] \in audited
             ELSE txn[m] \in applied /\ PendingJournal(m) = None

(* What markers a manager still has to remove. *)
Cleared(m) ==
    /\ phase[m] = "recovery" =>
          /\ pc[m] = "body" => FoundMarkers(m) = {}
          /\ pc[m] = "clear_markers" => FoundMarkers(m) \subseteq todo[m]
          /\ pc[m] \in {"rollback", "rollback_unlink", "unlink_journal", "drop_snapshots"} =>
                FoundMarkers(m) \subseteq DOMAIN plan[m]
    /\ phase[m] = "restore" =>
          /\ pc[m] = "clear_markers" => \A f \in DOMAIN plan[m] \ todo[m] : marker[f] = None
          /\ pc[m] = "return" => \A f \in DOMAIN plan[m] : marker[f] = None

(* The id of an operation is new, until it has committed or archived. *)
BeforeCommit(m) ==
    \/ phase[m] = "recovery"
    \/ /\ phase[m] = "restore"
       /\ pc[m] \in {"mark", "unmark", "snapshot", "journal", "audit", "replace", "unlink_journal"}

Fresh(m) ==
    id[m] # 0 =>
        /\ id[m] <= ops
        /\ BeforeCommit(m) => id[m] \notin applied
        /\ pc[m] \notin {"return", "raise"} =>
              \A p \in Paths : archive[p] # None => archive[p].id # id[m]

IdsUsed ==
    /\ \A m, n \in Managers : m # n /\ id[m] # 0 => id[m] # id[n]
    /\ \A t \in applied : t <= ops
    /\ \A p \in Paths : archive[p] # None => archive[p].id <= ops

Promising(m) == PhaseFits(m) /\ Installed(m) /\ Cleared(m) /\ Fresh(m)

PInv == IdsUsed /\ \A m \in Managers : Promising(m)

-----------------------------------------------------------------------------
(* The rest of a manager's memory is his own, too. *)
LEMMA OthersOperation ==
  ASSUME TypeOK, NEW m \in Managers, ManagerStep(m), NEW n \in Managers \ {m}
  PROVE  phase'[n] = phase[n] /\ op'[n] = op[n] /\ id'[n] = id[n]
<1>. USE DEF At, Goto, durable, local, counters
<1>t. DOMAIN phase = Managers /\ DOMAIN op = Managers /\ DOMAIN id = Managers
  BY DEF TypeOK
<1>1. CASE Open(m) \/ Quit(m) \/ Crash(m) \/ Fail(m) \/ Release(m)
           \/ (\E o \in Ops \ {"open"} : Begin(m, o)) \/ \E l \in Locks : Acquire(m, l)
  BY <1>1, <1>t DEF Open, Quit, Crash, Fail, Begin, Release, Acquire
<1>2. CASE Recovery(m)
  BY <1>2, <1>t DEF Recovery, RecoverBlocked, RecoverNothing, RecoverMarkers, RecoverJournal,
     Rollback, RollbackUnlink, RollbackDone, RollbackVerify
<1>3. CASE Finalize(m)
  BY <1>3, <1>t DEF Finalize, UnlinkJournal, DropSnapshotsDone, ClearMarkersDone, DropSnapshot,
     ClearMarker
<1>4. CASE Body(m)
  BY <1>4, <1>t DEF Body, OpenDone, Unconfirmed, CreateBackup, Preflight, Confirm
<1>5. CASE Restore(m)
  BY <1>5, <1>t DEF Restore, MarkDone, UnmarkDone, TakeSnapshotsDone, WriteJournal, AppendAudit,
     Verify, Handle, Mark, Unmark, TakeSnapshot, Replace
<1> QED
  BY <1>1, <1>2, <1>3, <1>4, <1>5 DEF ManagerStep, Step

(* Markers are written and removed by three actions, at managed files. *)
LEMMA MarkerFootprint ==
  ASSUME IInv, NEW m \in Managers, ManagerStep(m), NEW f \in Files, marker'[f] # marker[f]
  PROVE  f \in Managed[m] /\ InOperation(m)
<1>. USE DEF At, Goto, durable, local, counters
<1>t. DOMAIN marker = Files
  BY DEF IInv, TypeOK
<1>1. CASE Open(m) \/ Quit(m) \/ Crash(m) \/ Fail(m) \/ Release(m)
           \/ (\E o \in Ops \ {"open"} : Begin(m, o)) \/ \E l \in Locks : Acquire(m, l)
  BY <1>1 DEF Open, Quit, Crash, Fail, Begin, Release, Acquire
<1>2. CASE Recovery(m)
  BY <1>2 DEF Recovery, RecoverBlocked, RecoverNothing, RecoverMarkers, RecoverJournal,
     Rollback, RollbackUnlink, RollbackDone, RollbackVerify
<1>3. CASE UnlinkJournal(m) \/ DropSnapshotsDone(m) \/ ClearMarkersDone(m)
           \/ \E g \in Files : DropSnapshot(m, g)
  BY <1>3 DEF UnlinkJournal, DropSnapshotsDone, ClearMarkersDone, DropSnapshot
<1>4. CASE Body(m)
  BY <1>4 DEF Body, OpenDone, Unconfirmed, CreateBackup, Preflight, Confirm
<1>5. CASE MarkDone(m) \/ UnmarkDone(m) \/ TakeSnapshotsDone(m) \/ WriteJournal(m) \/ AppendAudit(m)
           \/ Verify(m) \/ Handle(m) \/ \E g \in Files : TakeSnapshot(m, g) \/ Replace(m, g)
  BY <1>5 DEF MarkDone, UnmarkDone, TakeSnapshotsDone, WriteJournal, AppendAudit, Verify, Handle,
     TakeSnapshot, Replace
<1>6. ASSUME NEW g \in Files, ClearMarker(m, g) \/ Mark(m, g) \/ Unmark(m, g)
      PROVE  f \in Managed[m] /\ InOperation(m)
  <2>1. f = g /\ g \in todo[m] /\ pc[m] \in {"mark", "unmark", "clear_markers"}
    BY <1>6, <1>t DEF ClearMarker, Mark, Unmark, IsNext
  <2> QED
    BY <2>1 DEF IInv, TodoInRange, InOperation
<1>7. CASE Finalize(m)
  <2>1. ASSUME NEW g \in Files, DropSnapshot(m, g) \/ ClearMarker(m, g)
        PROVE  f \in Managed[m] /\ InOperation(m)
    BY <1>3, <1>6, <2>1
  <2> QED
    BY <1>3, <1>7, <2>1 DEF Finalize
<1>8. CASE Restore(m)
  <2>1. ASSUME NEW g \in Files, Mark(m, g) \/ Unmark(m, g) \/ TakeSnapshot(m, g) \/ Replace(m, g)
        PROVE  f \in Managed[m] /\ InOperation(m)
    BY <1>5, <1>6, <2>1
  <2> QED
    BY <1>5, <1>8, <2>1 DEF Restore
<1> QED
  BY <1>1, <1>2, <1>4, <1>7, <1>8 DEF ManagerStep, Step

(* What counts as an archive, or as a commit, has the id of its operation. *)
LEMMA ArchiveOrCommit ==
  ASSUME NEW m \in Managers, ManagerStep(m)
  PROVE  \/ UnlinkJournal(m)
         \/ \E p \in Paths : CreateBackup(m, p)
         \/ UNCHANGED <<archive, applied>>
<1>. USE DEF At, Goto, durable, local, counters
<1>1. CASE Open(m) \/ Quit(m) \/ Crash(m) \/ Fail(m) \/ Release(m)
           \/ (\E o \in Ops \ {"open"} : Begin(m, o)) \/ \E l \in Locks : Acquire(m, l)
  BY <1>1 DEF Open, Quit, Crash, Fail, Begin, Release, Acquire
<1>2. CASE Recovery(m)
  BY <1>2 DEF Recovery, RecoverBlocked, RecoverNothing, RecoverMarkers, RecoverJournal,
     Rollback, RollbackUnlink, RollbackDone, RollbackVerify
<1>3. CASE Finalize(m)
  BY <1>3 DEF Finalize, DropSnapshotsDone, ClearMarkersDone, DropSnapshot, ClearMarker
<1>4. CASE Body(m)
  BY <1>4 DEF Body, OpenDone, Unconfirmed, Preflight, Confirm
<1>5. CASE Restore(m)
  BY <1>5 DEF Restore, MarkDone, UnmarkDone, TakeSnapshotsDone, WriteJournal, AppendAudit,
     Verify, Handle, Mark, Unmark, TakeSnapshot, Replace
<1> QED
  BY <1>1, <1>2, <1>3, <1>4, <1>5 DEF ManagerStep, Step

(* The numbers of the operations: only Begin draws one, the next. *)
LEMMA IdDrawn ==
  ASSUME TypeOK, NEW m \in Managers, ManagerStep(m)
  PROVE  \/ ops' = ops /\ id'[m] \in {id[m], 0}
         \/ /\ ops' = ops + 1 /\ id'[m] = ops + 1 /\ pc'[m] = "lock"
            /\ UNCHANGED <<archive, applied>>
<1>. USE DEF At, Goto, durable, local, counters
<1>t. DOMAIN id = Managers /\ DOMAIN pc = Managers
  BY DEF TypeOK
<1>1. CASE Open(m) \/ Quit(m) \/ Crash(m) \/ Fail(m) \/ Release(m)
           \/ \E l \in Locks : Acquire(m, l)
  BY <1>1, <1>t DEF Open, Quit, Crash, Fail, Release, Acquire
<1>2. CASE \E o \in Ops \ {"open"} : Begin(m, o)
  BY <1>2, <1>t DEF Begin
<1>3. CASE Recovery(m)
  BY <1>3 DEF Recovery, RecoverBlocked, RecoverNothing, RecoverMarkers, RecoverJournal,
     Rollback, RollbackUnlink, RollbackDone, RollbackVerify
<1>4. CASE Finalize(m)
  BY <1>4 DEF Finalize, UnlinkJournal, DropSnapshotsDone, ClearMarkersDone, DropSnapshot,
     ClearMarker
<1>5. CASE Body(m)
  BY <1>5 DEF Body, OpenDone, Unconfirmed, CreateBackup, Preflight, Confirm
<1>6. CASE Restore(m)
  BY <1>6 DEF Restore, MarkDone, UnmarkDone, TakeSnapshotsDone, WriteJournal, AppendAudit,
     Verify, Handle, Mark, Unmark, TakeSnapshot, Replace
<1> QED
  BY <1>1, <1>2, <1>3, <1>4, <1>5, <1>6 DEF ManagerStep, Step

-----------------------------------------------------------------------------
(* The phase follows the program counter. *)
LEMMA OwnPhaseFits ==
  ASSUME IInv, NEW m \in Managers, PhaseFits(m), ManagerStep(m)
  PROVE  PhaseFits(m)'
<1>. USE DEF PhaseFits, InOperation, At, Goto, durable, local, counters
<1>t. /\ pc \in [Managers -> PCs] /\ op \in [Managers -> Ops]
      /\ phase \in [Managers -> {"recovery", "restore", "handler"}]
      /\ DOMAIN id = Managers /\ DOMAIN txn = Managers /\ ops \in Nat
  BY DEF IInv, TypeOK
<1>1. CASE Open(m) \/ Quit(m) \/ Crash(m) \/ Release(m)
           \/ (\E o \in Ops \ {"open"} : Begin(m, o)) \/ \E l \in Locks : Acquire(m, l)
  <2>1. CASE Open(m) \/ Quit(m) \/ Crash(m) \/ Release(m)
    BY <2>1, <1>t DEF Open, Quit, Crash, Release
  <2>2. CASE \E o \in Ops \ {"open"} : Begin(m, o)
    BY <2>2, <1>t DEF Begin
  <2>3. CASE \E l \in Locks : Acquire(m, l)
    BY <2>3, <1>t DEF Acquire
  <2> QED
    BY <1>1, <2>1, <2>2, <2>3
<1>2. CASE Fail(m)
  BY <1>2, <1>t DEF Fail, FailTo, Failing
<1>3. CASE RecoverBlocked(m) \/ RecoverNothing(m) \/ RecoverMarkers(m) \/ RecoverJournal(m)
  BY <1>3, <1>t DEF RecoverBlocked, RecoverNothing, RecoverMarkers, RecoverJournal
<1>4. CASE \/ RollbackDone(m) \/ RollbackVerify(m)
           \/ \E f \in Files : Rollback(m, f) \/ RollbackUnlink(m, f)
  BY <1>4, <1>t DEF Rollback, RollbackUnlink, RollbackDone, RollbackVerify
<1>5. CASE UnlinkJournal(m) \/ DropSnapshotsDone(m) \/ \E f \in Files : DropSnapshot(m, f)
  BY <1>5, <1>t DEF UnlinkJournal, DropSnapshotsDone, DropSnapshot
<1>6. CASE \E f \in Files : ClearMarker(m, f)
  BY <1>6, <1>t DEF ClearMarker, FailTo
<1>7. CASE ClearMarkersDone(m)
  <2>1. /\ UNCHANGED <<phase, op, id, txn>> /\ pc[m] = "clear_markers"
        /\ \/ phase[m] = "recovery" /\ pc'[m] = "body"
           \/ phase[m] = "restore" /\ pc'[m] = "return"
           \/ phase[m] = "handler" /\ pc'[m] = "raise"
    <3>1. CASE phase[m] = "recovery"
      BY <1>7, <1>t, <3>1 DEF ClearMarkersDone
    <3>2. CASE phase[m] = "restore"
      BY <1>7, <1>t, <3>2 DEF ClearMarkersDone
    <3>3. CASE phase[m] = "handler"
      BY <1>7, <1>t, <3>3 DEF ClearMarkersDone
    <3> QED
      BY <1>t, <3>1, <3>2, <3>3
  <2> QED
    BY <1>t, <2>1
<1>8. CASE Body(m)
  <2>1. ASSUME NEW p \in Paths, NEW t \in tokens[m], Confirm(m, p, t) PROVE PhaseFits(m)'
    BY <2>1, <1>t DEF Confirm
  <2>2. ASSUME NEW p \in Paths, CreateBackup(m, p) PROVE PhaseFits(m)'
    BY <2>2, <1>t DEF CreateBackup
  <2>3. ASSUME NEW p \in Paths, Preflight(m, p) PROVE PhaseFits(m)'
    BY <2>3, <1>t DEF Preflight
  <2>4. CASE OpenDone(m) \/ Unconfirmed(m)
    BY <2>4, <1>t DEF OpenDone, Unconfirmed
  <2> QED
    BY <1>8, <2>1, <2>2, <2>3, <2>4 DEF Body
<1>9. CASE Restore(m)
  <2>1. CASE Handle(m) \/ Verify(m) \/ AppendAudit(m) \/ WriteJournal(m) \/ MarkDone(m)
             \/ UnmarkDone(m) \/ TakeSnapshotsDone(m)
    BY <2>1, <1>t DEF MarkDone, UnmarkDone, TakeSnapshotsDone, WriteJournal, AppendAudit,
       Verify, Handle
  <2>2. CASE \E f \in Files : Mark(m, f) \/ Unmark(m, f) \/ TakeSnapshot(m, f) \/ Replace(m, f)
    BY <2>2, <1>t DEF Mark, Unmark, TakeSnapshot, Replace
  <2> QED
    BY <1>9, <2>1, <2>2 DEF Restore
<1>10. CASE Recovery(m)
  BY <1>3, <1>4, <1>10 DEF Recovery
<1>11. CASE Finalize(m)
  <2>1. ASSUME NEW f \in Files, DropSnapshot(m, f) \/ ClearMarker(m, f)
        PROVE  PhaseFits(m)'
    BY <1>5, <1>6, <2>1
  <2> QED
    BY <1>5, <1>7, <1>11, <2>1 DEF Finalize
<1> QED
  BY <1>1, <1>2, <1>8, <1>9, <1>10, <1>11 DEF ManagerStep, Step

(* Of the steps of a manager, these are not among the loops and bodies that *)
(* settle a restore or a recovery, nor do they lead there.                 *)
LEMMA AwaySteps ==
  ASSUME IInv, NEW m \in Managers, PhaseFits(m),
         \/ Open(m) \/ Quit(m) \/ Crash(m) \/ Fail(m) \/ Release(m)
         \/ (\E o \in Ops \ {"open"} : Begin(m, o)) \/ (\E l \in Locks : Acquire(m, l))
         \/ RecoverBlocked(m) \/ UnmarkDone(m) \/ WriteJournal(m) \/ AppendAudit(m) \/ Handle(m)
         \/ \E f \in Files : Mark(m, f) \/ Unmark(m, f) \/ Replace(m, f)
  PROVE  Installed(m)' /\ Cleared(m)'
<1>. USE DEF Installed, Cleared, Settling, At, Goto, durable, local, counters
<1>t. /\ pc \in [Managers -> PCs]
      /\ phase \in [Managers -> {"recovery", "restore", "handler"}]
  BY DEF IInv, TypeOK
<1>1. CASE Open(m) \/ Quit(m) \/ Crash(m) \/ Release(m)
           \/ (\E o \in Ops \ {"open"} : Begin(m, o)) \/ \E l \in Locks : Acquire(m, l)
  BY <1>1, <1>t DEF Open, Quit, Crash, Release, Begin, Acquire
<1>2. CASE Fail(m)
  BY <1>2, <1>t DEF Fail, FailTo, Failing
<1>3. CASE RecoverBlocked(m) \/ UnmarkDone(m) \/ WriteJournal(m) \/ AppendAudit(m)
  BY <1>3, <1>t DEF RecoverBlocked, UnmarkDone, WriteJournal, AppendAudit
<1>4. CASE Handle(m)
  BY <1>4, <1>t DEF Handle
<1>5. ASSUME NEW f \in Files, Mark(m, f) \/ Unmark(m, f) \/ Replace(m, f)
      PROVE  Installed(m)' /\ Cleared(m)'
  BY <1>5, <1>t DEF Mark, Unmark, Replace
<1> QED
  BY <1>1, <1>2, <1>3, <1>4, <1>5

(* What a manager's own steps make of its files: the originals are read     *)
(* from them, and both ends of an installation are verified before the     *)
(* journal goes.                                                           *)
LEMMA OwnInstalled ==
  ASSUME IInv, NEW m \in Managers, Working(m), PhaseFits(m), Installed(m),
         \/ Finalize(m) \/ Body(m) \/ Recovery(m)
         \/ MarkDone(m) \/ TakeSnapshotsDone(m) \/ Verify(m) \/ \E f \in Files : TakeSnapshot(m, f)
  PROVE  Installed(m)'
<1>. USE DEF Installed, Settling, At, Goto, durable, local, counters
<1>t. /\ pc \in [Managers -> PCs]
      /\ phase \in [Managers -> {"recovery", "restore", "handler"}]
      /\ DOMAIN todo = Managers /\ DOMAIN orig = Managers /\ DOMAIN plan = Managers
      /\ DOMAIN txn = Managers /\ DOMAIN journal = Journals /\ JournalOf[m] \in Journals
  BY ConfigAssumption DEF IInv, TypeOK
<1>1. CASE RecoverBlocked(m) \/ RecoverNothing(m) \/ RecoverMarkers(m) \/ RecoverJournal(m)
  BY <1>1, <1>t DEF RecoverBlocked, RecoverNothing, RecoverMarkers, RecoverJournal, PhaseFits
<1>2. ASSUME NEW f \in Files, Rollback(m, f) \/ RollbackUnlink(m, f)
      PROVE  Installed(m)'
  BY <1>2, <1>t DEF Rollback, RollbackUnlink
<1>3. CASE RollbackDone(m)
  BY <1>3, <1>t DEF RollbackDone
<1>4. CASE RollbackVerify(m)
  <2>1. DOMAIN orig[m] = DOMAIN plan[m]
    BY <1>4 DEF RollbackVerify, Working, JournalMine, Installing
  <2> QED
    BY <1>4, <1>t, <2>1 DEF RollbackVerify, PhaseFits
<1>5. CASE UnlinkJournal(m)
  BY <1>5, <1>t DEF UnlinkJournal, PendingJournal
<1>6. ASSUME NEW f \in Files, DropSnapshot(m, f) PROVE Installed(m)'
  BY <1>6, <1>t DEF DropSnapshot, PendingJournal
<1>7. CASE DropSnapshotsDone(m)
  BY <1>7, <1>t DEF DropSnapshotsDone, PendingJournal
<1>8. ASSUME NEW f \in Files, ClearMarker(m, f) PROVE Installed(m)'
  BY <1>8, <1>t DEF ClearMarker, PendingJournal, FailTo
<1>9. CASE ClearMarkersDone(m)
  <2>1. CASE phase[m] = "recovery"
    BY <1>9, <1>t, <2>1 DEF ClearMarkersDone
  <2>2. CASE phase[m] = "restore"
    BY <1>9, <1>t, <2>2 DEF ClearMarkersDone, PendingJournal
  <2>3. CASE phase[m] = "handler"
    BY <1>9, <1>t, <2>3 DEF ClearMarkersDone
  <2> QED
    BY <1>t, <2>1, <2>2, <2>3
<1>10. CASE Body(m)
  <2>1. ASSUME NEW p \in Paths, NEW t \in tokens[m], Confirm(m, p, t) PROVE Installed(m)'
    BY <2>1, <1>t DEF Confirm
  <2>2. ASSUME NEW p \in Paths, CreateBackup(m, p) \/ Preflight(m, p) PROVE Installed(m)'
    BY <2>2, <1>t DEF CreateBackup, Preflight, PhaseFits
  <2>3. CASE OpenDone(m) \/ Unconfirmed(m)
    BY <2>3, <1>t DEF OpenDone, Unconfirmed, PhaseFits
  <2> QED
    BY <1>10, <2>1, <2>2, <2>3 DEF Body
<1>11. CASE MarkDone(m)
  BY <1>11, <1>t DEF MarkDone, Working, Recorded
<1>12. CASE TakeSnapshotsDone(m)
  BY <1>12, <1>t DEF TakeSnapshotsDone
<1>13. CASE Verify(m)
  BY <1>13, <1>t DEF Verify, PhaseFits, Working, AuditedFirst
<1>14. ASSUME NEW f \in Files, TakeSnapshot(m, f) PROVE Installed(m)'
  BY <1>14, <1>t DEF TakeSnapshot
<1>15. CASE Recovery(m)
  BY <1>1, <1>2, <1>3, <1>4, <1>15 DEF Recovery
<1>16. CASE Finalize(m)
  BY <1>5, <1>6, <1>7, <1>8, <1>9, <1>16 DEF Finalize
<1> QED
  BY <1>10, <1>11, <1>12, <1>13, <1>14, <1>15, <1>16

(* Recovery leaves no marker of its configuration behind, nor does a       *)
(* restore that returns: a loop that clears them treats all that there are. *)
LEMMA OwnCleared ==
  ASSUME IInv, NEW m \in Managers, PhaseFits(m), Cleared(m),
         \/ Finalize(m) \/ Body(m) \/ Recovery(m)
         \/ MarkDone(m) \/ TakeSnapshotsDone(m) \/ Verify(m) \/ \E f \in Files : TakeSnapshot(m, f)
  PROVE  Cleared(m)'
<1>. USE DEF Cleared, FoundMarkers, At, Goto, durable, local, counters
<1>t. /\ pc \in [Managers -> PCs]
      /\ phase \in [Managers -> {"recovery", "restore", "handler"}]
      /\ DOMAIN todo = Managers /\ DOMAIN plan = Managers
      /\ DOMAIN marker = Files
  BY ConfigAssumption DEF IInv, TypeOK
<1>1. CASE RecoverBlocked(m) \/ RecoverNothing(m) \/ RecoverMarkers(m)
  BY <1>1, <1>t DEF RecoverBlocked, RecoverNothing, RecoverMarkers, PhaseFits
<1>2. CASE RecoverJournal(m)
  BY <1>2, <1>t DEF RecoverJournal, PhaseFits, MarkersMatchJournal
<1>3. ASSUME NEW f \in Files, Rollback(m, f) \/ RollbackUnlink(m, f)
      PROVE  Cleared(m)'
  BY <1>3, <1>t DEF Rollback, RollbackUnlink
<1>4. CASE RollbackDone(m) \/ RollbackVerify(m)
  BY <1>4, <1>t DEF RollbackDone, RollbackVerify
<1>5. CASE UnlinkJournal(m)
  BY <1>5, <1>t DEF UnlinkJournal
<1>6. ASSUME NEW f \in Files, DropSnapshot(m, f) PROVE Cleared(m)'
  BY <1>6, <1>t DEF DropSnapshot
<1>7. CASE DropSnapshotsDone(m)
  BY <1>7, <1>t DEF DropSnapshotsDone
<1>8. ASSUME NEW f \in Files, ClearMarker(m, f) PROVE Cleared(m)'
  <2>1. CASE marker[f] = MarkerOf(m, txn[m])
    <3>1. /\ pc[m] = "clear_markers" /\ UNCHANGED <<pc, phase, plan>>
          /\ todo'[m] = todo[m] \ {f} /\ marker'[f] = None
          /\ \A g \in Files \ {f} : marker'[g] = marker[g]
      BY <1>8, <1>t, <2>1 DEF ClearMarker
    <3>2. DOMAIN plan[m] \subseteq Files /\ Managed[m] \subseteq Files
      BY ConfigAssumption DEF IInv, PlanManaged
    <3>3. phase[m] = "recovery" => FoundMarkers(m)' \subseteq todo'[m]
      BY <3>1, <3>2
    <3>4. phase[m] = "restore" => \A g \in DOMAIN plan[m] \ todo'[m] : marker'[g] = None
      BY <3>1, <3>2
    <3> QED
      BY <3>1, <3>3, <3>4
  <2>2. CASE marker[f] # MarkerOf(m, txn[m])
    BY <1>8, <1>t, <2>2 DEF ClearMarker, FailTo
  <2> QED
    BY <2>1, <2>2
<1>9. CASE ClearMarkersDone(m)
  <2>1. CASE phase[m] = "recovery"
    BY <1>9, <1>t, <2>1 DEF ClearMarkersDone
  <2>2. CASE phase[m] = "restore"
    BY <1>9, <1>t, <2>2 DEF ClearMarkersDone
  <2>3. CASE phase[m] = "handler"
    BY <1>9, <1>t, <2>3 DEF ClearMarkersDone
  <2> QED
    BY <1>t, <2>1, <2>2, <2>3
<1>10. CASE Body(m)
  <2>1. ASSUME NEW p \in Paths, NEW t \in tokens[m], Confirm(m, p, t) PROVE Cleared(m)'
    BY <2>1, <1>t DEF Confirm
  <2>2. ASSUME NEW p \in Paths, CreateBackup(m, p) \/ Preflight(m, p) PROVE Cleared(m)'
    BY <2>2, <1>t DEF CreateBackup, Preflight, PhaseFits
  <2>3. CASE OpenDone(m) \/ Unconfirmed(m)
    BY <2>3, <1>t DEF OpenDone, Unconfirmed, PhaseFits
  <2> QED
    BY <1>10, <2>1, <2>2, <2>3 DEF Body
<1>11. CASE MarkDone(m) \/ TakeSnapshotsDone(m)
  BY <1>11, <1>t DEF MarkDone, TakeSnapshotsDone
<1>12. CASE Verify(m)
  BY <1>12, <1>t DEF Verify, PhaseFits
<1>13. ASSUME NEW f \in Files, TakeSnapshot(m, f) PROVE Cleared(m)'
  BY <1>13, <1>t DEF TakeSnapshot
<1>14. CASE Recovery(m)
  BY <1>1, <1>2, <1>3, <1>4, <1>14 DEF Recovery
<1>15. CASE Finalize(m)
  BY <1>5, <1>6, <1>7, <1>8, <1>9, <1>15 DEF Finalize
<1> QED
  BY <1>10, <1>11, <1>12, <1>13, <1>14, <1>15

-----------------------------------------------------------------------------
(* Who has not come to his commit point had not before, and nobody comes   *)
(* back from the end of his operation.                                     *)
LEMMA NoWayBack ==
  ASSUME IInv, NEW m \in Managers, PhaseFits(m), ManagerStep(m), id'[m] = id[m], id[m] # 0
  PROVE  /\ BeforeCommit(m)' => BeforeCommit(m)
         /\ pc'[m] \in {"return", "raise"} \/ pc[m] \notin {"return", "raise"}
<1>. USE DEF BeforeCommit, PhaseFits, At, Goto, durable, local, counters
<1>t. /\ pc \in [Managers -> PCs] /\ id \in [Managers -> Nat]
      /\ phase \in [Managers -> {"recovery", "restore", "handler"}] /\ ops \in Nat
  BY DEF IInv, TypeOK
<1>1. CASE Open(m) \/ Quit(m) \/ Crash(m) \/ Release(m) \/ \E l \in Locks : Acquire(m, l)
  BY <1>1, <1>t DEF Open, Quit, Crash, Release, Acquire
<1>2. CASE \E o \in Ops \ {"open"} : Begin(m, o)
  BY <1>2, <1>t DEF Begin
<1>3. CASE Fail(m)
  BY <1>3, <1>t DEF Fail, FailTo, Failing
<1>4. CASE RecoverBlocked(m) \/ RecoverNothing(m) \/ RecoverMarkers(m) \/ RecoverJournal(m)
  BY <1>4, <1>t DEF RecoverBlocked, RecoverNothing, RecoverMarkers, RecoverJournal
<1>5. CASE \/ RollbackDone(m) \/ RollbackVerify(m)
           \/ \E f \in Files : Rollback(m, f) \/ RollbackUnlink(m, f)
  BY <1>5, <1>t DEF Rollback, RollbackUnlink, RollbackDone, RollbackVerify
<1>6. CASE Finalize(m)
  <2>1. pc[m] \in {"unlink_journal", "drop_snapshots", "clear_markers"} /\ UNCHANGED phase
    BY <1>6 DEF Finalize, UnlinkJournal, DropSnapshotsDone, ClearMarkersDone, DropSnapshot,
       ClearMarker
  <2>2. phase[m] = "restore" => pc'[m] \in {"drop_snapshots", "clear_markers", "return", "except"}
    BY <1>6, <1>t DEF Finalize, UnlinkJournal, DropSnapshotsDone, ClearMarkersDone, DropSnapshot,
       ClearMarker, FailTo
  <2> QED
    BY <2>1, <2>2
<1>7. CASE Body(m)
  BY <1>7, <1>t DEF Body, OpenDone, Unconfirmed, CreateBackup, Preflight, Confirm
<1>8. CASE Restore(m)
  BY <1>8, <1>t DEF Restore, MarkDone, UnmarkDone, TakeSnapshotsDone, WriteJournal, AppendAudit,
     Verify, Handle, Mark, Unmark, TakeSnapshot, Replace
<1>9. CASE Recovery(m)
  BY <1>4, <1>5, <1>9 DEF Recovery
<1> QED
  BY <1>1, <1>2, <1>3, <1>6, <1>7, <1>8, <1>9 DEF ManagerStep, Step

(* An id is drawn new, and used at most twice: for an archive or a commit, *)
(* where the operation is as good as over.                                 *)
LEMMA OwnFresh ==
  ASSUME IInv, NEW m \in Managers, PhaseFits(m), Fresh(m), IdsUsed, ManagerStep(m)
  PROVE  Fresh(m)'
<1>t. /\ ops \in Nat /\ id \in [Managers -> Nat] /\ applied \subseteq Nat
      /\ archive \in [Paths -> Archive \union {None}]
      /\ \A p \in Paths : archive[p] # None => archive[p].id \in Nat
      /\ pc \in [Managers -> PCs]
  BY DEF IInv, TypeOK, Archive
<1>1. CASE id'[m] = 0
  BY <1>1 DEF Fresh
<1>2. CASE ops' = ops + 1 /\ id'[m] = ops + 1 /\ UNCHANGED <<archive, applied>>
  BY <1>2, <1>t DEF Fresh, IdsUsed
<1>3. ASSUME id'[m] = id[m], id[m] # 0, ops' = ops
      PROVE  Fresh(m)'
  <2>1. /\ BeforeCommit(m)' => BeforeCommit(m)
        /\ pc'[m] \in {"return", "raise"} \/ pc[m] \notin {"return", "raise"}
    BY <1>3, NoWayBack
  <2>2. CASE UnlinkJournal(m)
    <3>1. UNCHANGED archive /\ pc'[m] = "drop_snapshots" /\ UNCHANGED phase
          /\ (UNCHANGED applied \/ phase[m] = "restore")
      BY <1>t, <2>2 DEF UnlinkJournal, Goto
    <3>2. CASE phase[m] = "restore"
      BY <1>3, <2>1, <3>1, <3>2 DEF Fresh, BeforeCommit
    <3> QED
      BY <1>3, <2>1, <3>1, <3>2 DEF Fresh
  <2>3. ASSUME NEW p \in Paths, CreateBackup(m, p) PROVE Fresh(m)'
    <3>1. UNCHANGED applied /\ pc'[m] \in {"return", "raise"}
      BY <1>t, <2>3 DEF CreateBackup, Goto
    <3> QED
      BY <1>3, <2>1, <3>1 DEF Fresh
  <2>4. CASE UNCHANGED <<archive, applied>>
    BY <1>3, <2>1, <2>4 DEF Fresh
  <2> QED
    BY <2>2, <2>3, <2>4, ArchiveOrCommit
<1> QED
  BY <1>1, <1>2, <1>3, IdDrawn DEF IInv

(* No two operations have the same id, and none is used before it is drawn. *)
LEMMA IdsUsedStep ==
  ASSUME IInv, PInv, NEW m \in Managers, ManagerStep(m)
  PROVE  IdsUsed'
<1>t. /\ ops \in Nat /\ id \in [Managers -> Nat] /\ applied \subseteq Nat
      /\ archive \in [Paths -> Archive \union {None}]
      /\ \A p \in Paths : archive[p] # None => archive[p].id \in Nat
  BY DEF IInv, TypeOK, Archive
<1>i. IdsUsed /\ \A n \in Managers : Fresh(n) /\ PhaseFits(n)
  BY DEF PInv, Promising
<1>1. \A n \in Managers \ {m} : id'[n] = id[n]
  BY OthersOperation DEF IInv
<1>2. /\ \A n, o \in Managers : n # o /\ id'[n] # 0 => id'[n] # id'[o]
      /\ ops' \in Nat /\ ops <= ops'
  <2>1. CASE ops' = ops /\ id'[m] \in {id[m], 0}
    BY <1>t, <1>i, <1>1, <2>1 DEF IdsUsed
  <2>2. CASE ops' = ops + 1 /\ id'[m] = ops + 1
    BY <1>t, <1>i, <1>1, <2>2 DEF IdsUsed, Fresh
  <2> QED
    BY <2>1, <2>2, IdDrawn DEF IInv
<1>3. /\ \A t \in applied' : t <= ops'
      /\ \A p \in Paths : archive'[p] # None => archive'[p].id <= ops'
  <2>1. CASE UnlinkJournal(m)
    <3>1. UNCHANGED archive /\ (UNCHANGED applied \/ (phase[m] = "restore" /\ applied' = applied \union {txn[m]}))
      BY <2>1 DEF UnlinkJournal
    <3>2. phase[m] = "restore" => txn[m] = id[m] /\ id[m] # 0
      BY <1>i, <2>1 DEF UnlinkJournal, At, PhaseFits, InOperation
    <3>3. \A t \in applied' : t \in Nat /\ t <= ops
      BY <1>t, <1>i, <3>1, <3>2 DEF IdsUsed, Fresh
    <3>4. \A t \in applied' : t <= ops'
      BY <1>t, <1>2, <3>3
    <3>5. \A p \in Paths : archive'[p] # None => archive'[p].id <= ops'
      BY <1>t, <1>i, <1>2, <3>1 DEF IdsUsed
    <3> QED
      BY <3>4, <3>5
  <2>2. ASSUME NEW p \in Paths, CreateBackup(m, p)
        PROVE  /\ \A t \in applied' : t <= ops'
               /\ \A q \in Paths : archive'[q] # None => archive'[q].id <= ops'
    <3>1. /\ UNCHANGED applied
          /\ \A q \in Paths : archive'[q] = archive[q] \/ archive'[q].id = id[m]
      BY <1>t, <2>2 DEF CreateBackup
    <3> QED
      BY <1>t, <1>i, <1>2, <3>1 DEF IdsUsed, Fresh
  <2>3. CASE UNCHANGED <<archive, applied>>
    BY <1>t, <1>i, <1>2, <2>3 DEF IdsUsed
  <2> QED
    BY <2>1, <2>2, <2>3, ArchiveOrCommit
<1> QED
  BY <1>2, <1>3 DEF IdsUsed

-----------------------------------------------------------------------------
(* What a manager has promised stays true through the steps of the others, *)
(* who share neither a file nor the journal with him, nor an id,           *)
LEMMA OthersPromising ==
  ASSUME IInv, WInv, PInv, NEW m \in Managers, ManagerStep(m), NEW n \in Managers \ {m}
  PROVE  Promising(n)'
<1>1. SameMemory(n) /\ phase'[n] = phase[n] /\ op'[n] = op[n] /\ id'[n] = id[n]
  BY OthersMemory, OthersOperation DEF IInv
<1>2. Promising(n) /\ Working(n) /\ Working(m)
  BY DEF PInv, WInv
<1>3. PhaseFits(n)'
  BY <1>1, <1>2 DEF Promising, PhaseFits, SameMemory, InOperation
<1>4. InOperation(n) => /\ PendingJournal(n)' = PendingJournal(n)
                        /\ \A f \in Managed[n] : disk'[f] = disk[f] /\ marker'[f] = marker[f]
  <2>1. JournalOf[n] \in Journals /\ Managed[n] \subseteq Files
    BY ConfigAssumption
  <2>2. CASE InOperation(m) /\ InOperation(n)
    <3>1. Managed[m] \intersect Managed[n] = {} /\ JournalOf[m] # JournalOf[n]
      BY <2>2, HeldExclusion DEF IInv, Exclusion
    <3> QED
      BY <1>2, <2>1, <3>1, Footprint, MarkerFootprint DEF PendingJournal
  <2>3. CASE ~InOperation(m)
    BY <1>2, <2>1, <2>3, Footprint, MarkerFootprint DEF PendingJournal
  <2> QED
    BY <2>2, <2>3
<1>5. DOMAIN plan[n] \subseteq Managed[n]
  BY DEF IInv, PlanManaged
<1>6. audited \subseteq audited'
  BY <1>2, Footprint
<1>7. applied \subseteq applied'
  BY ArchiveOrCommit DEF UnlinkJournal, CreateBackup
<1>8. Installed(n)'
  <2>1. CASE pc[n] \in {"snapshot", "journal"} \union Settling
    <3>1. InOperation(n)
      BY <2>1 DEF Settling, InOperation
    <3>2. pc[n] \in {"snapshot", "journal"} => DOMAIN orig[n] \subseteq Managed[n]
      BY <1>2, OrigManaged
    <3> QED
      BY <1>1, <1>2, <1>4, <1>5, <1>6, <1>7, <3>1, <3>2 DEF Promising, Installed, SameMemory
  <2>2. CASE pc[n] \notin {"snapshot", "journal"} \union Settling
    BY <1>1, <2>2 DEF Installed, SameMemory, Settling
  <2> QED
    BY <2>1, <2>2
<1>9. Cleared(n)'
  <2>1. CASE InOperation(n)
    BY <1>1, <1>2, <1>4, <1>5, <2>1 DEF Promising, Cleared, SameMemory, FoundMarkers
  <2>2. CASE ~InOperation(n)
    BY <1>1, <2>2 DEF Cleared, SameMemory, InOperation
  <2> QED
    BY <2>1, <2>2
<1>10. Fresh(n)'
  <2>1. IdsUsed /\ Fresh(n) /\ (id[n] # 0 => id[m] # id[n])
    BY DEF PInv, Promising, IdsUsed
  <2>2. /\ ops \in Nat /\ id \in [Managers -> Nat] /\ archive \in [Paths -> Archive \union {None}]
    BY DEF IInv, TypeOK
  <2>3. ops' \in Nat /\ ops <= ops'
    BY <2>2, IdDrawn DEF IInv
  <2>4. SUFFICES ASSUME id[n] # 0 PROVE Fresh(n)'
    BY <1>1 DEF Fresh
  <2>5. id'[n] <= ops' /\ (BeforeCommit(n)' <=> BeforeCommit(n))
    BY <1>1, <2>1, <2>2, <2>3, <2>4 DEF Fresh, BeforeCommit, SameMemory
  <2>6. id[n] \in applied' => id[n] \in applied
    <3>1. CASE UnlinkJournal(m)
      <4>1. phase[m] = "restore" => txn[m] = id[m]
        BY <3>1 DEF UnlinkJournal, At, PInv, Promising, PhaseFits, InOperation
      <4> QED
        BY <2>1, <2>4, <3>1, <4>1 DEF UnlinkJournal
    <3>2. CASE \E p \in Paths : CreateBackup(m, p)
      BY <3>2 DEF CreateBackup
    <3> QED
      BY <3>1, <3>2, ArchiveOrCommit
  <2>7. \A p \in Paths : archive'[p] = archive[p] \/ archive'[p].id = id[m]
    <3>1. CASE UnlinkJournal(m)
      BY <3>1 DEF UnlinkJournal
    <3>2. CASE \E p \in Paths : CreateBackup(m, p)
      BY <2>2, <3>2 DEF CreateBackup
    <3> QED
      BY <3>1, <3>2, ArchiveOrCommit
  <2> QED
    BY <1>1, <2>1, <2>4, <2>5, <2>6, <2>7 DEF Fresh, SameMemory
<1> QED
  BY <1>3, <1>8, <1>9, <1>10 DEF Promising

(* and through changes by hand, which no locked file undergoes. *)
LEMMA ManualPromising ==
  ASSUME IInv, WInv, PInv, NEW f \in Files, ManualWrite(f), NEW n \in Managers
  PROVE  Promising(n)'
<1>1. Promising(n) /\ TypeOK /\ LocksHeld /\ PlanManaged /\ Working(n)
  BY DEF PInv, IInv, WInv
<1>2. /\ UNCHANGED <<marker, journal, archive, audited, applied, pc, local, ops>>
      /\ \A g \in Files \ {f} : disk'[g] = disk[g]
      /\ locks[f] = None
  BY <1>1 DEF ManualWrite, TypeOK, local
<1>3. InOperation(n) => \A g \in Managed[n] : disk'[g] = disk[g]
  BY <1>1, <1>2, ConfigAssumption DEF LocksHeld, LocksOf
<1>4. Installed(n)'
  <2>1. CASE pc[n] \in {"snapshot", "journal"} \union Settling
    <3>1. InOperation(n)
      BY <2>1 DEF Settling, InOperation
    <3>2. pc[n] \in {"snapshot", "journal"} => DOMAIN orig[n] \subseteq Managed[n]
      BY <1>1, OrigManaged
    <3> QED
      BY <1>1, <1>2, <1>3, <3>1, <3>2 DEF Promising, Installed, PlanManaged, PendingJournal, local
  <2>2. CASE pc[n] \notin {"snapshot", "journal"} \union Settling
    BY <1>2, <2>2 DEF Installed, Settling
  <2> QED
    BY <2>1, <2>2
<1>5. PhaseFits(n)'
  BY <1>1, <1>2 DEF Promising, PhaseFits, InOperation, local
<1>6. Cleared(n)'
  BY <1>1, <1>2 DEF Promising, Cleared, FoundMarkers, local
<1>7. Fresh(n)'
  BY <1>1, <1>2 DEF Promising, Fresh, BeforeCommit, local
<1> QED
  BY <1>4, <1>5, <1>6, <1>7 DEF Promising

(* A manager's own steps. *)
LEMMA OwnPromising ==
  ASSUME IInv, WInv, PInv, NEW m \in Managers, ManagerStep(m)
  PROVE  Promising(m)'
<1>1. Promising(m) /\ Working(m) /\ IdsUsed
  BY DEF PInv, WInv
<1>2. PhaseFits(m)' /\ Fresh(m)'
  BY <1>1, OwnPhaseFits, OwnFresh DEF Promising
<1>3. Installed(m)' /\ Cleared(m)'
  <2>1. CASE \/ Open(m) \/ Quit(m) \/ Crash(m) \/ Fail(m) \/ Release(m)
             \/ (\E o \in Ops \ {"open"} : Begin(m, o)) \/ (\E l \in Locks : Acquire(m, l))
             \/ UnmarkDone(m) \/ WriteJournal(m) \/ AppendAudit(m) \/ Handle(m)
    BY <1>1, <2>1, AwaySteps DEF Promising
  <2>2. ASSUME NEW f \in Files, Mark(m, f) \/ Unmark(m, f) \/ Replace(m, f)
        PROVE  Installed(m)' /\ Cleared(m)'
    BY <1>1, <2>2, AwaySteps DEF Promising
  <2>3. CASE Finalize(m) \/ Body(m) \/ Recovery(m) \/ MarkDone(m) \/ TakeSnapshotsDone(m) \/ Verify(m)
    BY <1>1, <2>3, OwnInstalled, OwnCleared DEF Promising
  <2>4. ASSUME NEW f \in Files, TakeSnapshot(m, f) PROVE Installed(m)' /\ Cleared(m)'
    BY <1>1, <2>4, OwnInstalled, OwnCleared DEF Promising
  <2>5. CASE Restore(m)
    BY <2>1, <2>2, <2>3, <2>4, <2>5 DEF Restore
  <2> QED
    BY <2>1, <2>3, <2>5 DEF ManagerStep, Step
<1> QED
  BY <1>2, <1>3 DEF Promising

(* The invariant is inductive, together with the two before. *)
LEMMA PInvStep == IInv /\ WInv /\ PInv /\ [Next]_vars => PInv'
<1>. SUFFICES ASSUME IInv, WInv, PInv, [Next]_vars PROVE PInv'
  OBVIOUS
<1>1. ASSUME NEW m \in Managers, ManagerStep(m) PROVE PInv'
  BY <1>1, OwnPromising, OthersPromising, IdsUsedStep DEF PInv
<1>2. ASSUME NEW f \in Files, ManualWrite(f) PROVE PInv'
  <2>1. IdsUsed'
    BY <1>2 DEF ManualWrite, PInv, IdsUsed, local
  <2> QED
    BY <1>2, <2>1, ManualPromising DEF PInv
<1>3. CASE UNCHANGED vars
  <2>1. IdsUsed'
    BY <1>3 DEF vars, durable, local, counters, PInv, IdsUsed
  <2>2. ASSUME NEW m \in Managers PROVE Promising(m)'
    BY <1>3 DEF vars, durable, local, counters, PInv, Promising, PhaseFits, InOperation, Installed,
       PendingJournal, Cleared, FoundMarkers, Fresh, BeforeCommit
  <2> QED
    BY <2>1, <2>2 DEF PInv
<1> QED
  BY <1>1, <1>2, <1>3 DEF Next, ManagerStep

(* At first nobody has promised anything. *)
LEMMA PInvInit == Init => PInv
BY DEF Init, PInv, IdsUsed, Promising, PhaseFits, InOperation, Installed, Settling, Cleared,
   FoundMarkers, Fresh, BeforeCommit

(* In every reachable state the files, markers and ids are as the          *)
(* operations under way count on.                                          *)
THEOREM PromisingAlways == Spec => []PInv
<1> QED
  BY InvariantHolds, WorkingAlways, PInvInit, PInvStep, PTL DEF Spec

(* ReturnMeansRestored: restore returns normally only with every file of   *)
(* the archive in place, and with no journal or marker left to undo it.    *)
THEOREM RestoredOnReturn == Spec => []ReturnMeansRestored
<1>1. PInv => ReturnMeansRestored
  <2>1. SUFFICES ASSUME PInv, NEW m \in Managers, pc[m] = "return", op[m] = "restore"
                 PROVE  /\ id[m] \in applied
                        /\ PendingJournal(m) = None
                        /\ \A f \in DOMAIN plan[m] : disk[f] = plan[m][f] /\ marker[f] = None
    BY DEF ReturnMeansRestored
  <2>2. phase[m] = "restore" /\ txn[m] = id[m]
    BY <2>1 DEF PInv, Promising, PhaseFits, InOperation
  <2> QED
    BY <2>1, <2>2 DEF PInv, Promising, Installed, Settling, Cleared
<1> QED
  BY <1>1, PromisingAlways, PTL

-----------------------------------------------------------------------------
(* The refinement.  What is seen of a file, given what is on disk.         *)
Seen(d, jj, f) ==
    IF \E j \in {i \in Journals : jj[i] # None /\ f \in DOMAIN jj[i].plan} : d[f] = jj[j].plan[f]
    THEN LET j == CHOOSE k \in {i \in Journals : jj[i] # None /\ f \in DOMAIN jj[i].plan} :
                      d[f] = jj[k].plan[f]
         IN  jj[j].orig[f]
    ELSE d[f]

(* The journal j, and only j, covers f. *)
Sole(jj, j, f) ==
    /\ jj[j] # None /\ f \in DOMAIN jj[j].plan
    /\ \A k \in Journals : jj[k] # None /\ f \in DOMAIN jj[k].plan => k = j

Free(jj, f) == \A k \in Journals : jj[k] # None => f \notin DOMAIN jj[k].plan

(* The view is what is seen of each file, before and after a step. *)
LEMMA ViewSeen ==
  /\ View = [f \in Files |-> Seen(disk, journal, f)]
  /\ View' = [f \in Files |-> Seen(disk', journal', f)]
BY DEF View, Covering, Seen

(* A file covered by one journal is seen with the original it records, as  *)
(* long as it holds one of the journal's two contents,                     *)
LEMMA SeenSole ==
  ASSUME NEW d, NEW jj, NEW f, NEW j \in Journals, Sole(jj, j, f)
  PROVE  Seen(d, jj, f) = IF d[f] = jj[j].plan[f] THEN jj[j].orig[f] ELSE d[f]
<1> DEFINE C == {i \in Journals : jj[i] # None /\ f \in DOMAIN jj[i].plan}
<1>1. C = {j}
  BY DEF Sole
<1>2. CASE d[f] = jj[j].plan[f]
  <2>1. (CHOOSE k \in C : d[f] = jj[k].plan[f]) = j
    BY <1>1, <1>2
  <2> QED
    BY <1>1, <1>2, <2>1 DEF Seen
<1>3. CASE d[f] # jj[j].plan[f]
  BY <1>1, <1>3 DEF Seen
<1> QED
  BY <1>2, <1>3

(* and one that no journal covers as it is. *)
LEMMA SeenFree ==
  ASSUME NEW d, NEW jj, NEW f, Free(jj, f)
  PROVE  Seen(d, jj, f) = d[f]
BY DEF Free, Seen

(* The marker beside a file names the only journal that can cover it. *)
LEMMA SoleCovering ==
  ASSUME IInv, NEW j \in Journals, journal[j] # None, NEW f \in DOMAIN journal[j].plan
  PROVE  Sole(journal, j, f)
<1>1. marker[f].jrn = j
  BY MarkerLeads
<1>2. \A k \in Journals : journal[k] # None /\ f \in DOMAIN journal[k].plan => marker[f].jrn = k
  BY MarkerLeads
<1> QED
  BY <1>1, <1>2 DEF Sole

(* A file without a marker, or whose marker leads to no journal, is free. *)
LEMMA FreeUnmarked ==
  ASSUME IInv, NEW f,
         marker[f] = None \/ \E j \in Journals : marker[f].jrn = j /\ journal[j] = None
  PROVE  Free(journal, f)
BY MarkerLeads DEF Free

(* Of a file that a changed journal does not cover, the same is seen. *)
LEMMA SeenApart ==
  ASSUME IInv, NEW j \in Journals, NEW f \in Files, disk'[f] = disk[f],
         \A k \in Journals \ {j} : journal'[k] = journal[k],
         journal[j] # None => f \notin DOMAIN journal[j].plan,
         journal'[j] # None => f \notin DOMAIN journal'[j].plan
  PROVE  Seen(disk', journal', f) = Seen(disk, journal, f)
<1>1. CASE Free(journal, f)
  <2>1. Free(journal', f)
    BY <1>1 DEF Free
  <2> QED
    BY <1>1, <2>1, SeenFree
<1>2. CASE ~Free(journal, f)
  <2>1. PICK k \in Journals : journal[k] # None /\ f \in DOMAIN journal[k].plan
    BY <1>2 DEF Free
  <2>2. Sole(journal, k, f)
    BY <2>1, SoleCovering
  <2>3. journal'[k] = journal[k] /\ Sole(journal', k, f)
    BY <2>1, <2>2 DEF Sole
  <2>4. /\ Seen(disk, journal, f) =
             IF disk[f] = journal[k].plan[f] THEN journal[k].orig[f] ELSE disk[f]
        /\ Seen(disk', journal', f) =
             IF disk'[f] = journal'[k].plan[f] THEN journal'[k].orig[f] ELSE disk'[f]
    BY <2>2, <2>3, SeenSole
  <2> QED
    BY <2>3, <2>4
<1> QED
  BY <1>1, <1>2

(* Installing or rolling back one file is not seen. *)
LEMMA InstallUnseen ==
  ASSUME IInv, WInv, NEW m \in Managers, NEW f \in Files,
         Rollback(m, f) \/ RollbackUnlink(m, f) \/ Replace(m, f)
  PROVE  View' = View
<1>t. /\ DOMAIN disk = Files /\ JournalOf[m] \in Journals
      /\ UNCHANGED journal /\ \A g \in Files \ {f} : disk'[g] = disk[g]
  BY ConfigAssumption DEF IInv, TypeOK, Rollback, RollbackUnlink, Replace
<1>1. ASSUME NEW g \in Files PROVE Seen(disk', journal', g) = Seen(disk, journal, g)
  <2>1. CASE disk'[g] = disk[g]
    BY <1>t, <2>1 DEF Seen
  <2>2. CASE disk'[g] # disk[g]
    <3> DEFINE j == JournalOf[m]
    <3>1. g = f
      BY <1>t, <2>2
    <3>2. /\ journal[j] # None /\ f \in DOMAIN journal[j].plan
          /\ {disk[f], disk'[f]} = {journal[j].orig[f], journal[j].plan[f]}
      BY <2>2, <3>1, WriteStep DEF PendingJournal
    <3>3. Sole(journal, j, f) /\ Sole(journal', j, f)
      BY <1>t, <3>2, SoleCovering
    <3>4. /\ Seen(disk, journal, f) =
               IF disk[f] = journal[j].plan[f] THEN journal[j].orig[f] ELSE disk[f]
          /\ Seen(disk', journal', f) =
               IF disk'[f] = journal[j].plan[f] THEN journal[j].orig[f] ELSE disk'[f]
      BY <1>t, <3>3, SeenSole
    <3> QED
      BY <3>1, <3>2, <3>4
  <2> QED
    BY <2>1, <2>2
<1> QED
  BY <1>1, ViewSeen

(* A journal is written while its files are as it records them. *)
LEMMA JournalUnseen ==
  ASSUME IInv, WInv, PInv, NEW m \in Managers, WriteJournal(m)
  PROVE  View' = View
<1> DEFINE j == JournalOf[m]
           new == [tx |-> txn[m], cfg |-> Managed[m], orig |-> orig[m], plan |-> plan[m]]
<1>t. /\ DOMAIN journal = Journals /\ j \in Journals /\ pc[m] = "journal"
      /\ txn[m] \in Nat /\ plan[m] \in PartialFn(Files, Contents) /\ orig[m] \in PartialFn(Files, Bytes)
      /\ Managed[m] \in SUBSET Files
  BY ConfigAssumption DEF IInv, TypeOK, WriteJournal, At
<1>1. new # None
  BY <1>t, NoneAssumption DEF Journal
<1>2. UNCHANGED disk /\ journal' = [journal EXCEPT ![j] = new] /\ journal[j] = None
  BY <1>t DEF WriteJournal, IInv, NoJournal, NoJournalAt, PendingJournal
<1>3. ASSUME NEW f \in Files PROVE Seen(disk', journal', f) = Seen(disk, journal, f)
  <2>1. CASE f \in DOMAIN plan[m]
    <3>1. marker[f] = MarkerOf(m, txn[m]) /\ disk[f] = orig[m][f]
      BY <1>t, <2>1 DEF IInv, MarkersInPlace, PInv, Promising, Installed, WInv, Working, Recorded
    <3>2. Free(journal, f)
      BY <1>t, <1>2, <3>1, FreeUnmarked DEF MarkerOf
    <3>3. Sole(journal', j, f)
      BY <1>t, <1>1, <1>2, <2>1, <3>2 DEF Free, Sole
    <3>4. Seen(disk', journal', f) =
            IF disk'[f] = journal'[j].plan[f] THEN journal'[j].orig[f] ELSE disk'[f]
      BY <1>t, <3>3, SeenSole
    <3>5. Seen(disk, journal, f) = disk[f]
      BY <3>2, SeenFree
    <3> QED
      BY <1>t, <1>2, <3>1, <3>4, <3>5
  <2>2. CASE f \notin DOMAIN plan[m]
    BY <1>t, <1>2, <2>2, SeenApart
  <2> QED
    BY <2>1, <2>2
<1> QED
  BY <1>3, ViewSeen

(* A journal that goes away after a rollback was not seen; one that goes   *)
(* away at the commit point of a restore is the restore, all at once.      *)
LEMMA UnlinkSeen ==
  ASSUME IInv, WInv, PInv, NEW m \in Managers, UnlinkJournal(m)
  PROVE  IF phase[m] = "restore" THEN View' = Promise!Override(View, plan[m])
         ELSE View' = View
<1> DEFINE j == JournalOf[m]
<1>t. /\ DOMAIN journal = Journals /\ j \in Journals /\ DOMAIN disk = Files
      /\ UNCHANGED disk /\ journal' = [journal EXCEPT ![j] = None] /\ pc[m] = "unlink_journal"
  BY ConfigAssumption DEF IInv, TypeOK, UnlinkJournal, At
<1>1. /\ journal[j] # None /\ journal[j].plan = plan[m] /\ journal[j].orig = orig[m]
      /\ DOMAIN orig[m] = DOMAIN plan[m]
  BY <1>t DEF WInv, Working, JournalMine, Installing, PendingJournal
<1>2. \A f \in DOMAIN plan[m] : disk[f] = IF phase[m] = "restore" THEN plan[m][f] ELSE orig[m][f]
  BY <1>t DEF PInv, Promising, Installed, Settling
<1>3. ASSUME NEW f \in Files
      PROVE  Seen(disk', journal', f) = IF phase[m] = "restore" /\ f \in DOMAIN plan[m]
                                        THEN plan[m][f] ELSE Seen(disk, journal, f)
  <2>1. CASE f \in DOMAIN plan[m]
    <3>1. Sole(journal, j, f)
      BY <1>1, <1>t, <2>1, SoleCovering
    <3>2. Free(journal', f)
      BY <1>t, <3>1 DEF Sole, Free
    <3>3. Seen(disk', journal', f) = disk[f]
      BY <1>t, <3>2, SeenFree
    <3>4. Seen(disk, journal, f) = IF disk[f] = plan[m][f] THEN orig[m][f] ELSE disk[f]
      BY <1>1, <1>t, <3>1, SeenSole
    <3> QED
      BY <1>2, <2>1, <3>3, <3>4
  <2>2. CASE f \notin DOMAIN plan[m]
    BY <1>t, <1>1, <2>2, SeenApart
  <2> QED
    BY <2>1, <2>2
<1>4. CASE phase[m] = "restore"
  BY <1>3, <1>4, ViewSeen DEF Promise!Override
<1>5. CASE phase[m] # "restore"
  BY <1>3, <1>5, ViewSeen
<1> QED
  BY <1>4, <1>5

(* A change by hand is seen as one change of that file, or not at all. *)
LEMMA ManualSeen ==
  ASSUME IInv, WInv, NEW f \in Files, ManualWrite(f)
  PROVE  \E c \in Bytes : View' = [View EXCEPT ![f] = c]
<1>t. DOMAIN disk = Files /\ UNCHANGED journal
  BY DEF IInv, TypeOK, ManualWrite
<1>1. PICK b \in Bytes : disk' = [disk EXCEPT ![f] = b]
  BY DEF ManualWrite
<1>2. Seen(disk', journal', f) \in Bytes
  <2>1. CASE Free(journal, f)
    <3>1. Free(journal', f) /\ disk'[f] = b
      BY <1>t, <1>1, <2>1
    <3>2. Seen(disk', journal', f) = disk'[f]
      BY <3>1, SeenFree
    <3> QED
      BY <3>1, <3>2
  <2>2. CASE ~Free(journal, f)
    <3>1. PICK k \in Journals : journal[k] # None /\ f \in DOMAIN journal[k].plan
      BY <2>2 DEF Free
    <3>2. Sole(journal, k, f)
      BY <3>1, SoleCovering
    <3>3. journal[k].orig[f] \in Bytes
      <4>1. journal[k].orig \in PartialFn(Files, Bytes)
        BY <3>1 DEF IInv, TypeOK, Journal
      <4>2. f \in DOMAIN journal[k].orig
        BY <3>1 DEF WInv, JournalsWhole
      <4> QED
        BY <4>1, <4>2, PartialFnElim
    <3>4. Seen(disk', journal', f) =
            IF disk'[f] = journal[k].plan[f] THEN journal[k].orig[f] ELSE disk'[f]
      BY <1>t, <3>2, SeenSole
    <3> QED
      BY <1>t, <1>1, <3>3, <3>4
  <2> QED
    BY <2>1, <2>2
<1>3. ASSUME NEW g \in Files \ {f} PROVE Seen(disk', journal', g) = Seen(disk, journal, g)
  BY <1>t, <1>1 DEF Seen
<1>4. View' = [View EXCEPT ![f] = Seen(disk', journal', f)]
  BY <1>3, ViewSeen
<1> QED
  BY <1>2, <1>4

(* Where a backup is made no file is covered, and it is seen as it is. *)
LEMMA BackupSeen ==
  ASSUME IInv, PInv, NEW m \in Managers, pc[m] = "body", NEW f \in Managed[m]
  PROVE  View[f] = disk[f]
<1>1. f \in Files
  BY ConfigAssumption
<1>2. marker[f] = None
  BY DEF PInv, Promising, PhaseFits, Cleared, FoundMarkers
<1> QED
  BY <1>1, <1>2, FreeUnmarked, SeenFree, ViewSeen

-----------------------------------------------------------------------------
(* The steps that write neither files nor journals, archives nor histories. *)
LEMMA StutterSteps ==
  ASSUME NEW m \in Managers, ManagerStep(m)
  PROVE  \/ UnlinkJournal(m) \/ WriteJournal(m) \/ AppendAudit(m)
         \/ \E p \in Paths : CreateBackup(m, p)
         \/ \E f \in Files : Rollback(m, f) \/ RollbackUnlink(m, f) \/ Replace(m, f)
         \/ UNCHANGED <<disk, journal, archive, audited, applied>>
<1>. USE DEF At, Goto, durable, local, counters
<1>1. CASE Open(m) \/ Quit(m) \/ Crash(m) \/ Fail(m) \/ Release(m)
           \/ (\E o \in Ops \ {"open"} : Begin(m, o)) \/ \E l \in Locks : Acquire(m, l)
  BY <1>1 DEF Open, Quit, Crash, Fail, Begin, Release, Acquire
<1>2. CASE Recovery(m)
  BY <1>2 DEF Recovery, RecoverBlocked, RecoverNothing, RecoverMarkers, RecoverJournal,
     RollbackDone, RollbackVerify
<1>3. CASE Finalize(m)
  BY <1>3 DEF Finalize, DropSnapshotsDone, ClearMarkersDone, DropSnapshot, ClearMarker
<1>4. CASE Body(m)
  BY <1>4 DEF Body, OpenDone, Unconfirmed, Preflight, Confirm
<1>5. CASE Restore(m)
  BY <1>5 DEF Restore, MarkDone, UnmarkDone, TakeSnapshotsDone, Verify, Handle, Mark, Unmark,
     TakeSnapshot
<1> QED
  BY <1>1, <1>2, <1>3, <1>4, <1>5 DEF ManagerStep, Step

(* An archive is written of the files as they are seen, under a new id. *)
LEMMA BackupPromised ==
  ASSUME IInv, PInv, NEW m \in Managers, NEW p \in Paths, CreateBackup(m, p)
  PROVE  [Promise!ANext]_(Promise!avars)
<1> DEFINE present == {f \in Managed[m] : disk[f] # Absent}
           new == [id |-> id[m], files |-> [f \in present |-> disk[f]]]
<1>t. /\ archive \in [Paths -> Archive \union {None}] /\ disk \in [Files -> Bytes]
      /\ id[m] \in Nat /\ pc[m] = "body" /\ op[m] = "backup" /\ Managed[m] \in SUBSET Files
  BY ConfigAssumption DEF IInv, TypeOK, CreateBackup, At
<1>1. View' = View /\ UNCHANGED <<audited, applied>>
  BY ViewSeen DEF CreateBackup
<1>2. CASE GroupsComplete(m, present)
  <2>1. archive' = [archive EXCEPT ![p] = new]
    BY <1>2 DEF CreateBackup
  <2>2. new \in Archive
    <3>1. present \in SUBSET Files /\ [f \in present |-> disk[f]] \in [present -> Contents]
      BY <1>t DEF Bytes
    <3> QED
      BY <1>t, <3>1, PartialFnIntro DEF Archive
  <2>3. new # None /\ new # archive[p]
    <3>1. archive[p] # None => archive[p].id # id[m]
      BY <1>t DEF PInv, Promising, PhaseFits, Fresh
    <3> QED
      BY <2>2, <3>1, NoneAssumption
  <2>4. new.files = [f \in {g \in Managed[m] : View[g] # Absent} |-> View[f]]
    <3>1. \A f \in Managed[m] : View[f] = disk[f]
      BY <1>t, BackupSeen
    <3> QED
      BY <3>1
  <2>5. archive'[p] = new
    BY <1>t, <2>1
  <2>6. Promise!ABackup
    BY <1>t, <1>1, <2>1, <2>3, <2>4, <2>5 DEF Promise!ABackup
  <2> QED
    BY <2>6 DEF Promise!ANext
<1>3. CASE ~GroupsComplete(m, present)
  BY <1>1, <1>3 DEF CreateBackup, Promise!avars
<1> QED
  BY <1>2, <1>3

(* Every step is a step of the promise, or unseen. *)
LEMMA PromiseStep ==
  IInv /\ WInv /\ PInv /\ [Next]_vars => [Promise!ANext]_(Promise!avars)
<1>. SUFFICES ASSUME IInv, WInv, PInv, [Next]_vars PROVE [Promise!ANext]_(Promise!avars)
  OBVIOUS
<1>1. CASE UNCHANGED <<disk, journal, archive, audited, applied>>
  BY <1>1, ViewSeen DEF Promise!avars
<1>2. ASSUME NEW m \in Managers, UnlinkJournal(m) PROVE [Promise!ANext]_(Promise!avars)
  <2>1. UNCHANGED <<archive, audited>>
    BY <1>2 DEF UnlinkJournal
  <2>2. CASE phase[m] = "restore"
    <3> DEFINE r == [tx |-> txn[m], files |-> plan[m]]
    <3>1. pc[m] = "unlink_journal" /\ applied' = applied \union {r.tx}
      BY <1>2, <2>2 DEF UnlinkJournal, At
    <3>2. r \in audited /\ txn[m] = id[m] /\ id[m] # 0
      BY <2>2, <3>1 DEF PInv, Promising, Installed, Settling, PhaseFits, InOperation
    <3>3. r.tx \notin applied
      BY <2>2, <3>1, <3>2 DEF PInv, Promising, Fresh, BeforeCommit
    <3>4. View' = Promise!Override(View, r.files)
      BY <1>2, <2>2, UnlinkSeen
    <3> QED
      BY <2>1, <3>1, <3>2, <3>3, <3>4 DEF Promise!ANext, Promise!ARestore
  <2>3. CASE phase[m] # "restore"
    BY <1>2, <2>1, <2>3, UnlinkSeen DEF UnlinkJournal, Promise!avars
  <2> QED
    BY <2>2, <2>3
<1>3. ASSUME NEW m \in Managers, WriteJournal(m) PROVE [Promise!ANext]_(Promise!avars)
  BY <1>3, JournalUnseen DEF WriteJournal, Promise!avars
<1>4. ASSUME NEW m \in Managers, AppendAudit(m) PROVE [Promise!ANext]_(Promise!avars)
  <2>1. View' = View
    BY <1>4, ViewSeen DEF AppendAudit
  <2> QED
    BY <1>4, <2>1 DEF AppendAudit, Promise!ANext, Promise!AAudit
<1>5. ASSUME NEW m \in Managers, NEW f \in Files,
             Rollback(m, f) \/ RollbackUnlink(m, f) \/ Replace(m, f)
      PROVE  [Promise!ANext]_(Promise!avars)
  BY <1>5, InstallUnseen DEF Rollback, RollbackUnlink, Replace, Promise!avars
<1>6. ASSUME NEW m \in Managers, ManagerStep(m) PROVE [Promise!ANext]_(Promise!avars)
  BY <1>1, <1>2, <1>3, <1>4, <1>5, <1>6, StutterSteps, BackupPromised
<1>7. ASSUME NEW f \in Files, ManualWrite(f) PROVE [Promise!ANext]_(Promise!avars)
  <2>1. PICK c \in Bytes : View' = [View EXCEPT ![f] = c]
    BY <1>7, ManualSeen
  <2> QED
    BY <1>7, <2>1 DEF ManualWrite, Promise!ANext, Promise!AManual, Bytes
<1>8. CASE UNCHANGED vars
  BY <1>1, <1>8 DEF vars, durable
<1> QED
  BY <1>6, <1>7, <1>8 DEF Next, ManagerStep

(* At first everything is seen as it is. *)
LEMMA PromiseInit == Init => Promise!AInit
<1>. SUFFICES ASSUME Init PROVE Promise!AInit
  OBVIOUS
<1>1. disk \in [Files -> Bytes] /\ journal = [j \in Journals |-> None] /\ audited = {} /\ applied = {}
  BY DEF Init
<1>2. View = disk
  BY <1>1, ViewSeen, SeenFree DEF Free
<1>3. archive \in [Paths -> Promise!Archives \union {None}]
  BY DEF Init, Promise!Archives, PartialFn, Promise!PartialFn
<1> QED
  BY <1>1, <1>2, <1>3 DEF Promise!AInit, Bytes

(* AtomicRestoreSpec: whatever processes crash, files are edited and       *)
(* operations overlap, to the users of the files every restore is all or   *)
(* nothing, audited first and applied once, and every backup of one instant. *)
THEOREM RestoreIsAtomic == Spec => AtomicRestoreSpec
<1> QED
  BY InvariantHolds, WorkingAlways, PromisingAlways, PromiseInit, PromiseStep, PTL
     DEF Spec, AtomicRestoreSpec, Promise!ASpec

-----------------------------------------------------------------------------
(* Recovery.  Before a journal is written, no file but those of its plan   *)
(* carries a marker, and every original that exists has its snapshot.      *)
Prepared(m) ==
    /\ pc[m] = "mark" => /\ todo[m] \subseteq DOMAIN plan[m]
                         /\ FoundMarkers(m) \subseteq DOMAIN plan[m] \ todo[m]
    /\ pc[m] \in {"snapshot", "journal"} =>
          /\ FoundMarkers(m) \subseteq DOMAIN plan[m]
          /\ \A f \in HadOriginal(orig[m]) : SnapshotOf(m, txn[m], f, orig[m][f]) \in snaps

(* A journal on disk finds its snapshots, and without edits by hand every  *)
(* file with one of the two contents it expects.                           *)
JournalKept(j) ==
    \A f \in DOMAIN journal[j].plan :
        /\ f \in journal[j].cfg
        /\ manual = 0 => disk[f] \in {journal[j].orig[f], journal[j].plan[f]}
        /\ journal[j].orig[f] # Absent =>
              [jrn |-> j, tx |-> journal[j].tx, file |-> f, content |-> journal[j].orig[f]] \in snaps

RInv ==
    /\ \A m \in Managers : Prepared(m)
    /\ \A j \in Journals : journal[j] # None => JournalKept(j)

(* Managers that share a file have one configuration; one audit file.      *)
SharedWhole ==
    \A m, n \in Managers : Managed[m] \intersect Managed[n] # {} => Managed[m] = Managed[n]

OneAudit ==
    \A m, n \in Managers : Managed[m] \intersect Managed[n] # {} => JournalOf[m] = JournalOf[n]

(* No archive without files is being restored. *)
PlansSomething == \A j \in Journals : journal[j] # None => DOMAIN journal[j].plan # {}

(* No file of the configuration is marked but for the journal of that      *)
(* configuration.                                                          *)
JournalAlone ==
    \A m \in Managers :
        /\ PendingJournal(m) # None /\ PendingJournal(m).cfg = Managed[m]
        /\ OneAudit \/ DOMAIN PendingJournal(m).plan # {}
        => FoundMarkers(m) \subseteq DOMAIN PendingJournal(m).plan

(* Snapshots are removed where their journal is gone. *)
LEMMA SnapFootprint ==
  ASSUME NEW m \in Managers, ManagerStep(m), NEW s \in snaps, s \notin snaps'
  PROVE  pc[m] = "drop_snapshots" /\ s.jrn = JournalOf[m]
<1>. USE DEF At, Goto, durable, local, counters
<1>1. CASE Open(m) \/ Quit(m) \/ Crash(m) \/ Fail(m) \/ Release(m)
           \/ (\E o \in Ops \ {"open"} : Begin(m, o)) \/ \E l \in Locks : Acquire(m, l)
  BY <1>1 DEF Open, Quit, Crash, Fail, Begin, Release, Acquire
<1>2. CASE Recovery(m)
  BY <1>2 DEF Recovery, RecoverBlocked, RecoverNothing, RecoverMarkers, RecoverJournal,
     Rollback, RollbackUnlink, RollbackDone, RollbackVerify
<1>3. CASE Finalize(m)
  BY <1>3 DEF Finalize, UnlinkJournal, DropSnapshotsDone, ClearMarkersDone, DropSnapshot,
     ClearMarker
<1>4. CASE Body(m)
  BY <1>4 DEF Body, OpenDone, Unconfirmed, CreateBackup, Preflight, Confirm
<1>5. CASE Restore(m)
  BY <1>5 DEF Restore, MarkDone, UnmarkDone, TakeSnapshotsDone, WriteJournal, AppendAudit,
     Verify, Handle, Mark, Unmark, TakeSnapshot, Replace
<1> QED
  BY <1>1, <1>2, <1>3, <1>4, <1>5 DEF ManagerStep, Step

(* How a manager comes to prepare a restore. *)
LEMMA PreparingOnly ==
  ASSUME IInv, NEW m \in Managers, ManagerStep(m), pc'[m] \in {"mark", "snapshot", "journal"}
  PROVE  \/ MarkDone(m) \/ TakeSnapshotsDone(m)
         \/ \E p \in Paths, t \in tokens[m] : Confirm(m, p, t)
         \/ \E f \in Files : Mark(m, f) \/ TakeSnapshot(m, f)
<1>. USE DEF At, Goto, durable, local, counters
<1>t. TypeOK /\ pc \in [Managers -> PCs]
  BY DEF IInv, TypeOK
<1>1. CASE \/ Open(m) \/ Quit(m) \/ Crash(m) \/ Fail(m) \/ Release(m) \/ (Body(m) /\ pc'[m] # "mark")
           \/ (\E o \in Ops \ {"open"} : Begin(m, o)) \/ \E l \in Locks : Acquire(m, l)
           \/ RecoverBlocked(m) \/ RecoverNothing(m) \/ RecoverMarkers(m)
           \/ Finalize(m) \/ UnmarkDone(m) \/ Handle(m) \/ \E f \in Files : Unmark(m, f)
  BY <1>1, <1>t, LeavingSteps
<1>2. CASE Body(m)
  BY <1>2, <1>t DEF Body, OpenDone, Unconfirmed, CreateBackup, Preflight
<1>3. CASE \/ RecoverJournal(m) \/ RollbackDone(m) \/ RollbackVerify(m) \/ Verify(m)
           \/ WriteJournal(m) \/ AppendAudit(m)
           \/ \E f \in Files : Rollback(m, f) \/ RollbackUnlink(m, f) \/ Replace(m, f)
  BY <1>3, <1>t DEF RecoverJournal, RollbackDone, RollbackVerify, Verify, WriteJournal, AppendAudit,
     Rollback, RollbackUnlink, Replace
<1>4. CASE Recovery(m)
  BY <1>1, <1>3, <1>4 DEF Recovery
<1>5. CASE Restore(m)
  <2>1. ASSUME NEW f \in Files, Unmark(m, f) \/ Replace(m, f) PROVE FALSE
    BY <1>1, <1>t, <1>3, <2>1, LeavingSteps DEF Replace
  <2>2. CASE UnmarkDone(m) \/ Handle(m) \/ Verify(m) \/ WriteJournal(m) \/ AppendAudit(m)
    BY <1>1, <1>3, <2>2
  <2> QED
    BY <1>5, <2>1, <2>2 DEF Restore
<1>6. CASE \/ Open(m) \/ Quit(m) \/ Crash(m) \/ Fail(m) \/ Release(m) \/ Finalize(m)
           \/ (\E o \in Ops \ {"open"} : Begin(m, o)) \/ \E l \in Locks : Acquire(m, l)
  BY <1>1, <1>6
<1> QED
  BY <1>2, <1>4, <1>5, <1>6 DEF ManagerStep, Step

(* A manager prepares a restore from a body that found no marker. *)
LEMMA OwnPrepared ==
  ASSUME IInv, WInv, PInv, NEW m \in Managers, Prepared(m), ManagerStep(m)
  PROVE  Prepared(m)'
<1>. USE DEF At, Goto, durable, local, counters
<1>t. /\ pc \in [Managers -> PCs] /\ DOMAIN marker = Files
      /\ DOMAIN todo = Managers /\ DOMAIN plan = Managers /\ DOMAIN orig = Managers
      /\ DOMAIN txn = Managers /\ Managed[m] \subseteq Files
  BY ConfigAssumption DEF IInv, TypeOK
<1>1. CASE pc'[m] \notin {"mark", "snapshot", "journal"}
  BY <1>1 DEF Prepared
<1>2. CASE \E p \in Paths, t \in tokens[m] : Confirm(m, p, t)
  <2>1. PICK p \in Paths, t \in tokens[m] : Confirm(m, p, t)
    BY <1>2
  <2>2. FoundMarkers(m) = {}
    BY <2>1 DEF Confirm, PInv, Promising, PhaseFits, Cleared
  <2> QED
    BY <1>t, <2>1, <2>2 DEF Confirm, Prepared, FoundMarkers
<1>3. ASSUME NEW f \in Files, Mark(m, f) PROVE Prepared(m)'
  <2>1. CASE marker[f] = None
    <3>1. /\ UNCHANGED <<pc, plan>> /\ pc[m] = "mark" /\ f \in todo[m]
          /\ todo'[m] = todo[m] \ {f} /\ \A g \in Files \ {f} : marker'[g] = marker[g]
      BY <1>t, <1>3, <2>1 DEF Mark, IsNext
    <3>2. f \in DOMAIN plan[m]
      BY <3>1 DEF Prepared
    <3> QED
      BY <1>t, <3>1, <3>2 DEF Prepared, FoundMarkers
  <2>2. CASE marker[f] # None
    BY <1>t, <1>3, <2>2 DEF Mark, Prepared
  <2> QED
    BY <2>1, <2>2
<1>4. CASE MarkDone(m)
  BY <1>t, <1>4 DEF MarkDone, Prepared, FoundMarkers, HadOriginal, WInv, Working, Recorded
<1>5. ASSUME NEW f \in Files, TakeSnapshot(m, f) PROVE Prepared(m)'
  <2>1. /\ UNCHANGED <<pc, plan, marker, txn>> /\ pc[m] = "snapshot" /\ snaps \subseteq snaps'
        /\ orig'[m] = [g \in DOMAIN orig[m] \union {f} |-> IF g = f THEN disk[f] ELSE orig[m][g]]
        /\ disk[f] # Absent => SnapshotOf(m, txn[m], f, disk[f]) \in snaps'
    BY <1>t, <1>5 DEF TakeSnapshot
  <2> QED
    BY <2>1 DEF Prepared, FoundMarkers, HadOriginal, SnapshotOf
<1>6. CASE TakeSnapshotsDone(m)
  BY <1>t, <1>6 DEF TakeSnapshotsDone, Prepared, FoundMarkers, HadOriginal, SnapshotOf
<1> QED
  BY <1>1, <1>2, <1>3, <1>4, <1>5, <1>6, PreparingOnly

(* The others neither mark his files nor remove his snapshots. *)
LEMMA OthersPrepared ==
  ASSUME IInv, WInv, NEW m \in Managers, ManagerStep(m), NEW n \in Managers \ {m}, Prepared(n)
  PROVE  Prepared(n)'
<1>. SUFFICES ASSUME pc[n] \in {"mark", "snapshot", "journal"} PROVE Prepared(n)'
  BY OthersMemory DEF IInv, SameMemory, Prepared
<1>1. SameMemory(n)
  BY OthersMemory DEF IInv
<1>2. InOperation(n)
  BY DEF InOperation
<1>3. InOperation(m) => Managed[m] \intersect Managed[n] = {} /\ JournalOf[m] # JournalOf[n]
  BY <1>2, HeldExclusion DEF IInv, Exclusion
<1>4. FoundMarkers(n)' = FoundMarkers(n)
  BY <1>3, MarkerFootprint, ConfigAssumption DEF FoundMarkers
<1>5. \A s \in snaps : s.jrn = JournalOf[n] => s \in snaps'
  BY <1>3, SnapFootprint DEF InOperation
<1>6. \A f \in HadOriginal(orig[n]) : SnapshotOf(n, txn[n], f, orig[n][f]).jrn = JournalOf[n]
  BY DEF SnapshotOf
<1>7. CASE pc[n] = "mark"
  BY <1>1, <1>4, <1>7 DEF Prepared, SameMemory
<1>8. CASE pc[n] \in {"snapshot", "journal"}
  <2>1. \A f \in HadOriginal(orig[n]) : SnapshotOf(n, txn[n], f, orig[n][f]) \in snaps'
    BY <1>5, <1>6, <1>8 DEF Prepared
  <2>2. FoundMarkers(n)' \subseteq DOMAIN plan[n]
    BY <1>4, <1>8 DEF Prepared
  <2>3. /\ HadOriginal(orig[n])' = HadOriginal(orig[n])
        /\ \A f : SnapshotOf(n, txn[n], f, orig[n][f])' = SnapshotOf(n, txn[n], f, orig[n][f])
    BY <1>1 DEF SameMemory, HadOriginal, SnapshotOf
  <2> QED
    BY <1>1, <1>8, <2>1, <2>2, <2>3 DEF Prepared, SameMemory
<1> QED
  BY <1>7, <1>8

(* Managers are not hands. *)
LEMMA HandsOff ==
  ASSUME NEW m \in Managers, ManagerStep(m)
  PROVE  manual' = manual
<1>. USE DEF At, Goto, durable, local, counters
<1>1. CASE Open(m) \/ Quit(m) \/ Crash(m) \/ Fail(m) \/ Release(m)
           \/ (\E o \in Ops \ {"open"} : Begin(m, o)) \/ \E l \in Locks : Acquire(m, l)
  BY <1>1 DEF Open, Quit, Crash, Fail, Begin, Release, Acquire
<1>2. CASE Recovery(m)
  BY <1>2 DEF Recovery, RecoverBlocked, RecoverNothing, RecoverMarkers, RecoverJournal,
     Rollback, RollbackUnlink, RollbackDone, RollbackVerify
<1>3. CASE Finalize(m)
  BY <1>3 DEF Finalize, UnlinkJournal, DropSnapshotsDone, ClearMarkersDone, DropSnapshot,
     ClearMarker
<1>4. CASE Body(m)
  BY <1>4 DEF Body, OpenDone, Unconfirmed, CreateBackup, Preflight, Confirm
<1>5. CASE Restore(m)
  BY <1>5 DEF Restore, MarkDone, UnmarkDone, TakeSnapshotsDone, WriteJournal, AppendAudit,
     Verify, Handle, Mark, Unmark, TakeSnapshot, Replace
<1> QED
  BY <1>1, <1>2, <1>3, <1>4, <1>5 DEF ManagerStep, Step

(* A journal that stays keeps its snapshots and the contents it expects. *)
LEMMA JournalKeeps ==
  ASSUME IInv, WInv, NEW m \in Managers, ManagerStep(m), NEW j \in Journals,
         journal[j] # None, journal'[j] = journal[j], JournalKept(j)
  PROVE  JournalKept(j)'
<1> DEFINE snap(f) == [jrn |-> j, tx |-> journal[j].tx, file |-> f, content |-> journal[j].orig[f]]
<1>1. manual' = manual
  BY HandsOff
<1>2. ASSUME NEW f \in DOMAIN journal[j].plan, journal[j].orig[f] # Absent
      PROVE  snap(f) \in snaps'
  <2>1. snap(f) \in snaps /\ snap(f).jrn = j
    BY <1>2 DEF JournalKept
  <2>2. ASSUME snap(f) \notin snaps' PROVE FALSE
    <3>1. pc[m] = "drop_snapshots" /\ j = JournalOf[m]
      BY <2>1, <2>2, SnapFootprint
    <3> QED
      BY <3>1 DEF IInv, NoJournal, NoJournalAt, PendingJournal
  <2> QED
    BY <2>2
<1>3. ASSUME NEW f \in DOMAIN journal[j].plan, manual = 0
      PROVE  disk'[f] \in {journal[j].orig[f], journal[j].plan[f]}
  <2>1. CASE disk'[f] = disk[f]
    BY <1>3, <2>1 DEF JournalKept
  <2>2. CASE disk'[f] # disk[f]
    <3>1. f \in Files
      <4>1. journal[j].plan \in PartialFn(Files, Contents)
        BY DEF IInv, TypeOK, Journal
      <4> QED
        BY <1>3, <4>1, PartialFnElim
    <3>2. PICK n \in Managers : Rollback(n, f) \/ RollbackUnlink(n, f) \/ Replace(n, f)
      BY <1>1, <2>2, <3>1, Writers DEF Next, ManagerStep
    <3>3. marker[f].jrn = JournalOf[n] /\ marker[f].jrn = j
      BY <1>3, <2>2, <3>1, <3>2, WriteStep, MarkerLeads
    <3>4. PendingJournal(n) = journal[j]
      BY <3>3 DEF PendingJournal
    <3>5. {disk[f], disk'[f]} = {PendingJournal(n).orig[f], PendingJournal(n).plan[f]}
      BY <2>2, <3>1, <3>2, WriteStep
    <3> QED
      BY <3>4, <3>5
  <2> QED
    BY <2>1, <2>2
<1> QED
  BY <1>1, <1>2, <1>3 DEF JournalKept

(* A journal is written of what was recorded and snapshotted. *)
LEMMA JournalBorn ==
  ASSUME IInv, WInv, PInv, NEW m \in Managers, Prepared(m), WriteJournal(m)
  PROVE  JournalKept(JournalOf[m])'
<1> DEFINE j == JournalOf[m]
<1>1. /\ DOMAIN journal = Journals /\ j \in Journals /\ pc[m] = "journal"
      /\ UNCHANGED <<disk, snaps>>
      /\ DOMAIN orig[m] = DOMAIN plan[m] /\ DOMAIN plan[m] \subseteq Managed[m]
      /\ \A f \in DOMAIN orig[m] : disk[f] = orig[m][f]
  BY ConfigAssumption DEF IInv, TypeOK, PlanManaged, WriteJournal, At, WInv, Working, Recorded,
     PInv, Promising, Installed
<1>2. journal'[j] = [tx |-> txn[m], cfg |-> Managed[m], orig |-> orig[m], plan |-> plan[m]]
  BY <1>1 DEF WriteJournal
<1>3. \A f \in HadOriginal(orig[m]) : SnapshotOf(m, txn[m], f, orig[m][f]) \in snaps
  BY <1>1 DEF Prepared
<1> QED
  BY <1>1, <1>2, <1>3 DEF JournalKept, HadOriginal, SnapshotOf

(* The invariant is inductive. *)
LEMMA RInvStep == IInv /\ WInv /\ PInv /\ RInv /\ [Next]_vars => RInv'
<1>. SUFFICES ASSUME IInv, WInv, PInv, RInv, [Next]_vars PROVE RInv'
  OBVIOUS
<1>1. ASSUME NEW m \in Managers, ManagerStep(m) PROVE RInv'
  <2>1. \A n \in Managers : Prepared(n)'
    BY <1>1, OwnPrepared, OthersPrepared DEF RInv
  <2>2. ASSUME NEW j \in Journals, journal'[j] # None PROVE JournalKept(j)'
    <3>1. CASE journal'[j] = journal[j]
      BY <1>1, <2>2, <3>1, JournalKeeps DEF RInv
    <3>2. CASE journal'[j] # journal[j]
      <4>1. DOMAIN journal = Journals
        BY DEF IInv, TypeOK
      <4>2. WriteJournal(m) /\ j = JournalOf[m]
        BY <1>1, <2>2, <3>2, <4>1, JournalWriters DEF WriteJournal, UnlinkJournal
      <4> QED
        BY <4>2, JournalBorn DEF RInv
    <3> QED
      BY <3>1, <3>2
  <2> QED
    BY <2>1, <2>2 DEF RInv
<1>2. ASSUME NEW f \in Files, ManualWrite(f) PROVE RInv'
  <2>1. UNCHANGED <<marker, journal, snaps, pc, txn, plan, orig, todo>> /\ manual' # 0
    BY <1>2 DEF ManualWrite, local, IInv, TypeOK
  <2>2. ASSUME NEW m \in Managers PROVE Prepared(m)'
    BY <2>1 DEF RInv, Prepared, FoundMarkers, HadOriginal, SnapshotOf
  <2>3. ASSUME NEW j \in Journals, journal'[j] # None PROVE JournalKept(j)'
    BY <2>1, <2>3 DEF RInv, JournalKept
  <2> QED
    BY <2>2, <2>3 DEF RInv
<1>3. CASE UNCHANGED vars
  BY <1>3 DEF vars, durable, local, counters, RInv, Prepared, FoundMarkers, HadOriginal, SnapshotOf,
     JournalKept
<1> QED
  BY <1>1, <1>2, <1>3 DEF Next, ManagerStep

(* Every journal on disk can be rolled back by what lies beside it: in     *)
(* every reachable state.                                                  *)
THEOREM RecoverableAlways == Spec => []RInv
<1>1. Init => RInv
  BY DEF Init, RInv, Prepared
<1> QED
  BY <1>1, InvariantHolds, WorkingAlways, PromisingAlways, RInvStep, PTL DEF Spec

(* Markers are set before a restore is prepared. *)
LEMMA MarkerBorn ==
  ASSUME IInv, NEW m \in Managers, ManagerStep(m), NEW f \in Files, marker[f] = None, marker'[f] # None
  PROVE  pc[m] = "mark" /\ UNCHANGED journal
<1>. USE DEF At, Goto, durable, local, counters
<1>t. DOMAIN marker = Files
  BY DEF IInv, TypeOK
<1>1. CASE Open(m) \/ Quit(m) \/ Crash(m) \/ Fail(m) \/ Release(m)
           \/ (\E o \in Ops \ {"open"} : Begin(m, o)) \/ \E l \in Locks : Acquire(m, l)
  BY <1>1 DEF Open, Quit, Crash, Fail, Begin, Release, Acquire
<1>2. CASE Recovery(m)
  BY <1>2 DEF Recovery, RecoverBlocked, RecoverNothing, RecoverMarkers, RecoverJournal,
     Rollback, RollbackUnlink, RollbackDone, RollbackVerify
<1>3. CASE Finalize(m)
  BY <1>t, <1>3 DEF Finalize, UnlinkJournal, DropSnapshotsDone, ClearMarkersDone, DropSnapshot,
     ClearMarker
<1>4. CASE Body(m)
  BY <1>4 DEF Body, OpenDone, Unconfirmed, CreateBackup, Preflight, Confirm
<1>5. CASE Restore(m)
  BY <1>t, <1>5 DEF Restore, MarkDone, UnmarkDone, TakeSnapshotsDone, WriteJournal, AppendAudit,
     Verify, Handle, Mark, Unmark, TakeSnapshot, Replace
<1> QED
  BY <1>1, <1>2, <1>3, <1>4, <1>5 DEF ManagerStep, Step

(* Where managers share all files or none, nobody marks the files of a     *)
(* configuration that has a journal on disk: whoever finds its markers is  *)
(* refused, and whoever uses its audit file finds the journal.             *)
LEMMA JournalAloneStep ==
  SharedWhole /\ IInv /\ WInv /\ PInv /\ RInv /\ JournalAlone /\ [Next]_vars => JournalAlone'
<1>. SUFFICES ASSUME SharedWhole, IInv, WInv, PInv, RInv, JournalAlone, [Next]_vars,
                     NEW m \in Managers, PendingJournal(m)' # None, PendingJournal(m)'.cfg = Managed[m],
                     OneAudit \/ DOMAIN PendingJournal(m)'.plan # {},
                     NEW f \in Managed[m], marker'[f] # None
              PROVE  f \in DOMAIN PendingJournal(m)'.plan
  BY DEF JournalAlone, FoundMarkers, OneAudit
<1>t. /\ DOMAIN marker = Files /\ DOMAIN journal = Journals
      /\ Managed[m] \subseteq Files /\ JournalOf[m] \in Journals
  BY ConfigAssumption DEF IInv, TypeOK
<1>1. CASE PendingJournal(m)' = PendingJournal(m) /\ marker[f] # None
  BY <1>1 DEF JournalAlone, FoundMarkers
<1>2. ASSUME NEW n \in Managers, ManagerStep(n), marker[f] = None PROVE FALSE
  <2>1. pc[n] = "mark" /\ PendingJournal(m)' = PendingJournal(m)
    BY <1>2, <1>t, MarkerBorn DEF PendingJournal
  <2>2. f \in Managed[n] /\ Managed[n] = Managed[m]
    BY <1>2, <1>t, MarkerFootprint DEF SharedWhole
  <2>3. SUFFICES JournalOf[n] = JournalOf[m]
    BY <2>1 DEF IInv, NoJournal, NoJournalAt, PendingJournal
  <2>4. CASE OneAudit
    BY <2>2, <2>4 DEF OneAudit
  <2>5. CASE DOMAIN PendingJournal(m).plan # {}
    <3>1. PICK g \in DOMAIN PendingJournal(m).plan : TRUE
      BY <2>5
    <3>2. marker[g] # None /\ marker[g].jrn = JournalOf[m] /\ g \in Managed[n]
      BY <1>t, <2>1, <2>2, MarkerLeads DEF RInv, JournalKept, PendingJournal
    <3>3. g \in DOMAIN plan[n] \ todo[n]
      BY <2>1, <3>2 DEF RInv, Prepared, FoundMarkers
    <3>4. marker[g] = MarkerOf(n, txn[n])
      BY <2>1, <3>3 DEF IInv, MarkersInPlace
    <3> QED
      BY <3>2, <3>4 DEF MarkerOf
  <2> QED
    BY <2>1, <2>4, <2>5
<1>3. ASSUME NEW n \in Managers, ManagerStep(n), PendingJournal(m)' # PendingJournal(m)
      PROVE  f \in DOMAIN PendingJournal(m)'.plan
  <2>1. WriteJournal(n) /\ JournalOf[n] = JournalOf[m]
    BY <1>3, <1>t, JournalWriters DEF UnlinkJournal, PendingJournal, WriteJournal
  <2>2. PendingJournal(m)' = [tx |-> txn[n], cfg |-> Managed[n], orig |-> orig[n], plan |-> plan[n]]
    BY <1>t, <2>1 DEF WriteJournal, PendingJournal
  <2>3. f \in FoundMarkers(n)
    BY <2>1, <2>2 DEF WriteJournal, FoundMarkers
  <2>4. FoundMarkers(n) \subseteq DOMAIN plan[n]
    BY <2>1 DEF WriteJournal, At, RInv, Prepared
  <2> QED
    BY <2>2, <2>3, <2>4
<1>4. CASE UNCHANGED vars \/ \E g \in Files : ManualWrite(g)
  BY <1>1, <1>4 DEF vars, durable, ManualWrite, PendingJournal
<1> QED
  BY <1>1, <1>2, <1>3, <1>4 DEF Next, ManagerStep

(* RecoveryPossible: unless files were edited by hand, whatever crash or   *)
(* exception left a journal behind, its configuration can recover it.      *)
(* That its files and snapshots are as they must be holds for any          *)
(* configurations (RecoverableAlways).  That no foreign marker stands in   *)
(* the way takes managers that share all files or none, and, where one     *)
(* configuration has two audit files, journals that plan something: an     *)
(* empty one leaves no marker that would refuse the other.                 *)
THEOREM RecoverableWhole ==
  SharedWhole => (Spec => [](PlansSomething \/ OneAudit => RecoveryPossible))
<1>. SUFFICES ASSUME SharedWhole
              PROVE  Spec => [](PlansSomething \/ OneAudit => RecoveryPossible)
  OBVIOUS
<1>1. Init => JournalAlone
  BY ConfigAssumption DEF Init, JournalAlone, PendingJournal
<1>2. IInv /\ RInv /\ JournalAlone => (PlansSomething \/ OneAudit => RecoveryPossible)
  <2>1. SUFFICES ASSUME IInv, RInv, JournalAlone, PlansSomething \/ OneAudit, NEW m \in Managers,
                        PendingJournal(m) # None, PendingJournal(m).cfg = Managed[m], manual = 0
                 PROVE  MarkersMatchJournal(m) /\ TargetsRecoverable(m)
    BY DEF RecoveryPossible
  <2> DEFINE j == JournalOf[m]
  <2>2. j \in Journals /\ Managed[m] \subseteq Files
    BY ConfigAssumption
  <2>3. TargetsRecoverable(m)
    BY <2>1, <2>2 DEF RInv, JournalKept, PendingJournal, TargetsRecoverable, SnapshotOf
  <2>4. \A f \in DOMAIN PendingJournal(m).plan :
           marker[f] # None /\ marker[f].tx = PendingJournal(m).tx
    <3>1. SUFFICES ASSUME NEW f \in DOMAIN journal[j].plan
                   PROVE  marker[f] # None /\ marker[f].tx = journal[j].tx
      BY DEF PendingJournal
    <3>2. marker[f] = [tx |-> journal[j].tx, cfg |-> journal[j].cfg, jrn |-> j]
      BY <2>1, <2>2 DEF IInv, PendingIsMarked, PendingJournal
    <3>3. marker[f] # None
      BY <2>1, <2>2, MarkerLeads DEF PendingJournal
    <3> QED
      BY <3>2, <3>3
  <2>5. FoundMarkers(m) \subseteq DOMAIN PendingJournal(m).plan
    BY <2>1, <2>2 DEF JournalAlone, PlansSomething, PendingJournal
  <2>6. DOMAIN PendingJournal(m).plan \subseteq Managed[m]
    BY <2>1, <2>2 DEF RInv, JournalKept, PendingJournal
  <2> QED
    BY <2>3, <2>4, <2>5, <2>6 DEF MarkersMatchJournal, FoundMarkers
<1> QED
  BY <1>1, <1>2, JournalAloneStep, InvariantHolds, WorkingAlways, PromisingAlways,
     RecoverableAlways, PTL DEF Spec

============================================================================
