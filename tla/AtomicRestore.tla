--------------------------- MODULE AtomicRestore ---------------------------
(***************************************************************************)
(* What LocalBackupManager promises to the users of the managed files,     *)
(* without journals, markers, snapshots or processes: a restore replaces   *)
(* every file of its archive at once, only after its audit line exists,    *)
(* and at most once; a backup archives the files as they are at one        *)
(* instant; between those the files change only by hand.                   *)
(***************************************************************************)
EXTENDS Naturals

CONSTANTS Files,      \* managed destinations
          Contents,   \* file contents
          Paths,      \* places where archives are kept
          Absent,     \* the "content" of a file that does not exist
          None        \* no archive

VARIABLES view,       \* the content of every managed file
          archive,    \* the archive at each path
          audited,    \* the restores whose audit line is written
          applied     \* the transactions whose files were replaced

avars == <<view, archive, audited, applied>>

(* The functions from a subset of S to T. *)
PartialFn(S, T) == UNION {[D -> T] : D \in SUBSET S}

Archives == [id : Nat, files : PartialFn(Files, Contents)]

Override(f, g) == [x \in DOMAIN f |-> IF x \in DOMAIN g THEN g[x] ELSE f[x]]

AInit ==
    /\ view \in [Files -> Contents \union {Absent}]
    /\ archive \in [Paths -> Archives \union {None}]
    /\ audited = {}
    /\ applied = {}

(* A backup holds the present files of some set, all read at one instant. *)
ABackup ==
    \E p \in Paths, S \in SUBSET Files :
        /\ archive'[p] \notin {None, archive[p]}
        /\ archive'[p].files = [f \in {g \in S : view[g] # Absent} |-> view[f]]
        /\ archive' = [archive EXCEPT ![p] = archive'[p]]
        /\ UNCHANGED <<view, audited, applied>>

(* The intent of a restore is recorded, with the contents it will write. *)
AAudit ==
    \E r \in audited' :
        /\ audited' = audited \union {r}
        /\ UNCHANGED <<view, archive, applied>>

(* A restore takes effect: all its files at once, audited before, once.    *)
ARestore ==
    \E r \in audited :
        /\ r.tx \notin applied
        /\ applied' = applied \union {r.tx}
        /\ view' = Override(view, r.files)
        /\ UNCHANGED <<archive, audited>>

(* A file is changed by hand. *)
AManual ==
    \E f \in Files, c \in Contents \union {Absent} :
        /\ view' = [view EXCEPT ![f] = c]
        /\ UNCHANGED <<archive, audited, applied>>

ANext == ABackup \/ AAudit \/ ARestore \/ AManual

ASpec == AInit /\ [][ANext]_avars
=============================================================================
