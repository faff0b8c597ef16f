-------------------------- MODULE MCBackupRestore --------------------------
(* Small instances of BackupRestore: two files and two managers.           *)
EXTENDS BackupRestore, TLC

CONSTANTS f1, f2, a, b, ja, jb

MCFiles == {f1, f2}
MCRank == f1 :> 1 @@ f2 :> 2 @@ ja :> 3 @@ jb :> 4

(* Two configurations that overlap in one file, with audit files of their  *)
(* own; the pair of files of the first one is a consistency group.         *)
OverlapManaged == a :> {f1, f2} @@ b :> {f1}
OverlapJournals == a :> ja @@ b :> jb
OverlapGroups == a :> {{f1, f2}} @@ b :> {}

(* One configuration in two processes. *)
SharedManaged == a :> {f1, f2} @@ b :> {f1, f2}
NoGroups == a :> {} @@ b :> {}

(* The same files restored under two audit files. *)
RivalJournals == a :> ja @@ b :> jb

(* An archive of both files is there to begin with. *)
FullArchive == Init /\ \A p \in Paths : archive[p] # None /\ DOMAIN archive[p].files = Files
FullArchiveSpec == FullArchive /\ [][Next]_vars /\ Fairness

ContentSymmetry == Permutations(Contents)
=============================================================================
