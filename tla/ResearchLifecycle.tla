------------------------- MODULE ResearchLifecycle -------------------------
(***************************************************************************)
(* The research jobs of the workbench: ResearchLifecycle (workbench/       *)
(* app.py) ticks, ResearchJobSupervisor (runtime/research_jobs.py)         *)
(* registers one job per cycle, owns at most one worker process per        *)
(* resource class and checkpoints what it has seen end, and each           *)
(* research_worker process writes its evidence and then its status file.   *)
(* The workbench may crash and leave its workers running.                  *)
(*                                                                         *)
(* A job id is a hash of its command and cycle key; it is modelled as the  *)
(* record of what the key depends on (0 where it does not).  Fingerprints  *)
(* of the research manifest are numbered in the order they appear; 0 is    *)
(* "no verified manifest yet".  The UTC and the Shanghai date are one day. *)
(***************************************************************************)
EXTENDS Naturals, Sequences, FiniteSets, FiniteSetsExt

CONSTANTS
    Networks,    \* whether the workbench may be opened with --network
    Sessions,    \* bound: whether the first day may start with its session over
    Retained,    \* _MAX_RETAINED_TERMINAL_JOBS
    MaxDay,      \* bound: calendar days without the network
    MaxNetDay,   \* bound: calendar days with the network
    MaxPrint,    \* bound: fingerprints
    MaxProc,     \* bound: worker processes launched
    MaxFaults,   \* bound: shutdowns, crashes, failed launches and checkpoint writes
    None

ASSUME BoundsAssumption ==
    /\ Networks \subseteq BOOLEAN /\ Sessions \subseteq BOOLEAN
    /\ MaxNetDay <= MaxDay
    /\ {MaxNetDay, MaxProc, MaxFaults} \subseteq Nat
    /\ {Retained, MaxDay, MaxPrint} \subseteq Nat \ {0}

Days == 1..MaxDay
Prints == 0..MaxPrint
Ids == [cmd : {"history"}, print : {0}, day : Days]
         \union [cmd : {"screen"}, print : Prints, day : {0}]
         \union [cmd : {"predict", "settle"}, print : Prints, day : Days]
Class(id) == IF id.cmd = "history" THEN "network" ELSE "cpu"

(* A ResearchJob holds its id, its place in the order of registration, the *)
(* fingerprint it was registered with, whether it is terminal and          *)
(* completed, its exit code ("none" until known) and the verified digest;  *)
(* a process holds its job id, where it is and its exit code.              *)

VARIABLES
    network,      \* the workbench is opened with --network
    day, closed, fresh, print,  \* the date; session over; daily signal there; manifest
    up,           \* the workbench: "down", "up", "stopping" or "stopped"
    ctx,          \* the context a tick has read and not yet used
    jobs,         \* _jobs: the jobs; nth is the insertion order
    children,     \* _children: the processes owned by the supervisor
    procs,        \* every worker process ever launched
    status, evidence,  \* the files of each job id
    checkpoint,   \* research-checkpoint.json
    faults

env == <<network, day, closed, fresh, print>>
files == <<status, evidence>>
vars == <<env, up, ctx, jobs, children, procs,
                   files, checkpoint, faults>>

-----------------------------------------------------------------------------
(* The supervisor's tables.                                                *)

Registered(id) == \E j \in jobs : j.id = id

Cycle(cmd, p, d) == [cmd |-> cmd, print |-> p, day |-> d]

NewJob(id, n, p) == [id |-> id, nth |-> n, print |-> p, terminal |-> FALSE,
                     completed |-> FALSE, code |-> "none", digest |-> 0]

Running(k) == procs[k].pc # "exited"

(* The cycles in the order of registration, and which of them a context is *)
(* entitled to.                                                            *)
Cycles(c) == <<Cycle("history", 0, day), Cycle("screen", c.print, 0),
               Cycle("predict", c.print, day), Cycle("settle", c.print, day)>>
Entitled(c) == {n \in 1..4 : \/ n = 1 /\ network /\ c.closed
                             \/ n = 2 /\ c.print # 0
                             \/ n = 3 /\ c.window
                             \/ n = 4 /\ c.fresh}

(* _register_cycle raises when the id is there with another fingerprint,   *)
(* and the exception ends the tick.  Only the history key does not hold    *)
(* the fingerprint, and it is registered first.                            *)
Mismatch(c) ==
    \E n \in Entitled(c), j \in jobs : j.id = Cycles(c)[n] /\ j.print # c.print

(* Only the last Retained terminal jobs without a child are kept. *)
Removable(js, kids) == {j \in js : j.terminal /\ \A k \in kids : procs[k].id # j.id}
Prune(js, kids) ==
    {j \in js : j \in Removable(js, kids) =>
                   Cardinality({m \in Removable(js, kids) : m.nth > j.nth}) < Retained}

(* The status file of a job proves success only with the evidence file it  *)
(* names, byte for byte.                                                   *)
Verified(id, digest) ==
    status[id].ok /\ status[id].digest = digest /\ evidence[id] = digest

(* Mutant: only successes are collected. *)
EndedWell(kids) == {k \in kids : ~Running(k) /\ procs[k].code = "ok"}

Ended(kids) == {k \in kids : ~Running(k)}

(* Mutant: the exit code is not looked at. *)
CollectedByStatus(j, kids) ==
    IF \E k \in Ended(kids) : procs[k].id = j.id
    THEN LET k == CHOOSE n \in Ended(kids) : procs[n].id = j.id
         IN  [j EXCEPT !.terminal = TRUE, !.code = procs[k].code,
                       !.completed = Verified(j.id, status[j.id].digest),
                       !.digest = IF status[j.id].digest # 0 THEN status[j.id].digest ELSE @]
    ELSE j

Collected(j, kids) ==
    IF \E k \in Ended(kids) : procs[k].id = j.id
    THEN LET k == CHOOSE n \in Ended(kids) : procs[n].id = j.id
             ok == procs[k].code = "ok" /\ Verified(j.id, status[j.id].digest)
         IN  [j EXCEPT !.terminal = TRUE, !.completed = ok, !.code = procs[k].code,
                       !.digest = IF status[j.id].digest # 0 THEN status[j.id].digest ELSE @]
    ELSE j

(* _collect_finished_children applied to the jobs js. *)
Collect(js) == Prune({Collected(j, children) : j \in js}, children \ Ended(children))

Launchable(js, kids, c) ==
    {j \in js :
        /\ Class(j.id) = c
        /\ ~j.completed /\ ~j.terminal
        /\ \A k \in kids : Class(procs[k].id) # c
        /\ c = "network" => network}

(* In each class the first possible job of js is launched; a process is    *)
(* numbered, the one of the network first.                                 *)
Launched(js, kids, c) ==
    LET possible == Launchable(js, kids, c)
        first == {j \in possible : \A k \in possible : j.nth <= k.nth}
    IN  IF first = {} THEN <<>>
        ELSE <<[id |-> (CHOOSE j \in first : TRUE).id, pc |-> "work", code |-> "none"]>>

-----------------------------------------------------------------------------
Init ==
    /\ network \in Networks
    /\ day = 1 /\ closed \in Sessions /\ fresh \in BOOLEAN /\ print \in {0, 1}
    /\ up = "down"
    /\ ctx = None
    /\ jobs = {} /\ children = {} /\ procs = <<>>
    /\ status = [id \in Ids |-> [ok |-> FALSE, digest |-> 0]]
    /\ evidence = [id \in Ids |-> 0]
    /\ checkpoint = None
    /\ faults = 0

(* The world outside: the session closes, the official daily signal of the *)
(* closed session appears, the next day begins.                            *)
CloseSession ==
    /\ ~closed
    /\ closed' = TRUE /\ fresh' = FALSE
    /\ UNCHANGED <<network, day, print, up, ctx, jobs, children, procs,
                   files, checkpoint, faults>>

RefreshDaily ==
    /\ ~fresh
    /\ fresh' = TRUE
    /\ UNCHANGED <<network, day, closed, print, up, ctx, jobs, children, procs,
                   files, checkpoint, faults>>

NextDay ==
    /\ day < IF network THEN MaxNetDay ELSE MaxDay
    /\ day' = day + 1
    /\ closed' = FALSE
    /\ UNCHANGED <<network, fresh, print, up, ctx, jobs, children, procs,
                   files, checkpoint, faults>>

(* The workbench is opened: jobs come back from the checkpoint; a job      *)
(* whose evidence no longer matches is terminal and not completed.         *)
(* (RestoredSuccess is a mutant: failed jobs may run again.)               *)
RestoredSuccess(j) ==
    IF j.completed /\ ~(j.digest # 0 /\ Verified(j.id, j.digest))
    THEN [j EXCEPT !.completed = FALSE, !.terminal = TRUE]
    ELSE [j EXCEPT !.terminal = j.completed]

Restored(j) ==
    IF j.completed /\ ~(j.digest # 0 /\ Verified(j.id, j.digest))
    THEN [j EXCEPT !.completed = FALSE, !.terminal = TRUE]
    ELSE [j EXCEPT !.terminal = j.completed \/ j.code # "none"]

OpenWorkbench ==
    /\ up = "down"
    /\ up' = "up"
    /\ jobs' = IF checkpoint = None THEN {} ELSE {Restored(j) : j \in checkpoint}
    /\ UNCHANGED <<env, ctx, children, procs, files, checkpoint, faults>>

(* The facts a tick is told: the window for a forecast is open only when    *)
(* the daily signal is there and a contest is frozen, which may fail.      *)
Context(window) == [closed |-> closed, fresh |-> fresh, window |-> window, print |-> print]

(* A tick reads its context (a prediction window is open only with fresh   *)
(* data and a contest that verifies) ...                                   *)
TickRead ==
    /\ up = "up" /\ ctx = None
    /\ \E window \in {FALSE, fresh} : ctx' = Context(window)
    /\ UNCHANGED <<env, up, jobs, children, procs, files, checkpoint, faults>>

(* ... and the whole tick ends without effect if registration raises, ... *)
TickAborted ==
    /\ up = "up" /\ ctx # None
    /\ Mismatch(ctx)
    /\ ctx' = None
    /\ UNCHANGED <<env, up, jobs, children, procs, files, checkpoint, faults>>

(* ... or registers the new cycles, collects ended workers, checkpoints if *)
(* there were any, and launches jobs.  Launches that fail (the first ones  *)
(* of a class) end their jobs and let the next one of the class try; a     *)
(* checkpoint that cannot be written is not noticed.                       *)
Added(c) ==
    IF Mismatch(c) THEN jobs
    ELSE LET new == {n \in Entitled(c) : ~Registered(Cycles(c)[n])}
             last == Max({0} \union {j.nth : j \in jobs})
             Nth(n) == last + Cardinality({m \in new : m <= n})
         IN  Prune(jobs \union {NewJob(Cycles(c)[n], Nth(n), c.print) : n \in new}, children)

FailedLaunches(js, kids) ==
    {L \in SUBSET js :
        \A j \in L : LET same == Launchable(js, kids, Class(j.id))
                     IN  j \in same /\ \A k \in same : k.nth < j.nth => k \in L}
Failed(js, lost) ==
    (js \ lost) \union {[j EXCEPT !.terminal = TRUE, !.code = "bad"] : j \in lost}

TickDone ==
    /\ up = "up" /\ ctx # None
    /\ ~Mismatch(ctx)
    /\ \E js \in {Collect(Added(ctx))}, kids \in {children \ Ended(children)} :
       \E lost \in FailedLaunches(js, kids), saved \in {TRUE, Ended(children) = {}} :
       \E after \in {Failed(js, lost)} :
       \E start \in {Launched(after, kids, "network") \o Launched(after, kids, "cpu")} :
          /\ faults' = faults + Cardinality(lost) + (IF saved THEN 0 ELSE 1)
          /\ faults' <= MaxFaults
          /\ Len(procs) + Len(start) <= MaxProc
          /\ jobs' = after
          /\ procs' = procs \o start
          /\ children' = kids \union (Len(procs) + 1)..(Len(procs) + Len(start))
          /\ checkpoint' = IF saved /\ Ended(children) # {} THEN js ELSE checkpoint
    /\ ctx' = None
    /\ UNCHANGED <<env, up, files>>

-----------------------------------------------------------------------------
(* The checkpoint is replaced as a whole, or stays as it was when that fails. *)
Checkpointed(js) == {js, checkpoint}

(* Shutdown.  The lifecycle stops first: a tick in flight may still        *)
(* register, but not launch.  The supervisor then collects, checkpoints,   *)
(* and only then stops the workers it owns.                                *)
Stop ==
    /\ up = "up" /\ faults < MaxFaults
    /\ faults' = faults + 1
    /\ up' = "stopping"
    /\ ctx' = None
    /\ jobs' = Collect(IF ctx = None THEN jobs ELSE Added(ctx))
    /\ checkpoint' \in Checkpointed(jobs')
    /\ children' = children \ Ended(children)
    /\ UNCHANGED <<env, procs, files>>

StopWorkers ==
    /\ up = "stopping"
    /\ up' = "stopped"
    /\ procs' = [k \in DOMAIN procs |->
                    IF k \in children /\ Running(k)
                    THEN [procs[k] EXCEPT !.pc = "exited", !.code = "bad"] ELSE procs[k]]
    /\ UNCHANGED <<env, ctx, jobs, children, files, checkpoint, faults>>

(* The server ends: at once, or (after a safe exit by HTTP, when the       *)
(* server is still running) with a second shutdown, which finds the        *)
(* stopped workers ended and checkpoints that.                             *)
Leave ==
    /\ up = "stopped"
    /\ up' = "down"
    /\ checkpoint' \in Checkpointed(Collect(jobs))
    /\ jobs' = {} /\ children' = {}
    /\ UNCHANGED <<env, ctx, procs, files, faults>>

(* The workbench dies; its workers run on as orphans. *)
CrashWorkbench ==
    /\ up # "down" /\ faults < MaxFaults
    /\ faults' = faults + 1
    /\ up' = "down" /\ ctx' = None
    /\ jobs' = {} /\ children' = {}
    /\ UNCHANGED <<env, procs, files, checkpoint>>

-----------------------------------------------------------------------------
(* A worker process (runtime/research_worker.py, run_job).                 *)

(* The history job publishes datasets while it runs: the manifest, and so  *)
(* its fingerprint, changes.                                               *)
Publish(k) ==
    /\ procs[k].pc = "work" /\ procs[k].id.cmd = "history"
    /\ print < MaxPrint
    /\ print' = print + 1
    /\ UNCHANGED <<network, day, closed, fresh, up, ctx, jobs, children, procs,
                   files, checkpoint, faults>>

(* The operation succeeded: the evidence is written, then the status that  *)
(* names its digest (k: no two runs write the same bytes), then exit.      *)
WriteEvidence(k) ==
    /\ procs[k].pc = "work"
    /\ evidence' = [evidence EXCEPT ![procs[k].id] = k]
    /\ procs' = [procs EXCEPT ![k].pc = "status"]
    /\ UNCHANGED <<env, up, ctx, jobs, children, status, checkpoint, faults>>

WriteStatus(k) ==
    /\ procs[k].pc = "status"
    /\ status' = [status EXCEPT ![procs[k].id] = [ok |-> TRUE, digest |-> k]]
    /\ procs' = [procs EXCEPT ![k].pc = "exit", ![k].code = "ok"]
    /\ UNCHANGED <<env, up, ctx, jobs, children, evidence, checkpoint, faults>>

(* The operation, or a write, failed: only a status without a digest.      *)
Blocked(k) ==
    /\ procs[k].pc \in {"work", "status"}
    /\ status' = [status EXCEPT ![procs[k].id] = [ok |-> FALSE, digest |-> 0]]
    /\ procs' = [procs EXCEPT ![k].pc = "exit", ![k].code = "bad"]
    /\ UNCHANGED <<env, up, ctx, jobs, children, evidence, checkpoint, faults>>

Exit(k) ==
    /\ procs[k].pc = "exit"
    /\ procs' = [procs EXCEPT ![k].pc = "exited"]
    /\ UNCHANGED <<env, up, ctx, jobs, children, files, checkpoint, faults>>

(* The process dies without a word. *)
Die(k) ==
    /\ Running(k) /\ faults < MaxFaults
    /\ faults' = faults + 1
    /\ procs' = [procs EXCEPT ![k].pc = "exited", ![k].code = "bad"]
    /\ UNCHANGED <<env, up, ctx, jobs, children, files, checkpoint>>

Worker(k) == WriteEvidence(k) \/ WriteStatus(k) \/ Blocked(k) \/ Exit(k)

Tick == TickRead \/ TickAborted \/ TickDone

Next ==
    \/ CloseSession \/ RefreshDaily \/ NextDay
    \/ OpenWorkbench \/ Tick \/ Stop \/ StopWorkers \/ Leave \/ CrashWorkbench
    \/ \E k \in DOMAIN procs : Publish(k) \/ Worker(k) \/ Die(k)

Spec == Init /\ [][Next]_vars

(* The lifecycle thread ticks, workers end, and a workbench that was       *)
(* closed is opened again.                                                 *)
Fairness ==
    /\ WF_vars(Tick) /\ WF_vars(OpenWorkbench) /\ WF_vars(StopWorkers) /\ WF_vars(Leave)
    /\ \A k \in 1..MaxProc : WF_vars(k \in DOMAIN procs /\ Worker(k))

FairSpec == Spec /\ Fairness

-----------------------------------------------------------------------------
(* Properties.                                                             *)

NewProcs == (Len(procs) + 1)..Len(procs')

(* A success is believed only when the worker that this supervisor owns    *)
(* for the job ended well and the evidence on disk is the one it reports,  *)
(* whatever files earlier runs or orphans of the same job left behind; and *)
(* a success restored from the checkpoint still has its evidence.          *)
SuccessIsOwn ==
    [][\A j \in jobs' :
          j.completed /\ j \notin jobs =>
              /\ evidence[j.id] = j.digest
              /\ up # "down" => \E k \in children :
                                   procs[k].id = j.id /\ procs[k].pc = "exited"
                                   /\ procs[k].code = "ok"]_vars

(* "Checkpoint immediately so a later crash cannot replay the cycle": a    *)
(* job that the checkpoint on disk records as ended is not launched.       *)
EndedNotReplayed ==
    [][\A k \in NewProcs : checkpoint # None =>
          ~\E j \in checkpoint : j.id = procs'[k].id /\ j.terminal]_vars

(* A tick that has a verified fingerprint leaves that fingerprint's screen *)
(* job registered ("a new verified input fingerprint ... produces a        *)
(* distinct instance while repeated ticks in that same cycle return None").*)
TickRegistersPrint ==
    [][ctx # None /\ ctx' = None /\ up' = "up" /\ ctx.print # 0 =>
          \E j \in jobs' : j.id = Cycle("screen", ctx.print, 0)]_vars

(* No job starves: again and again the workbench is up with every job that *)
(* it knows ended, whatever worker failed, died, or was orphaned.  Checked *)
(* without network; with it, TickRegistersPrint shows what a manifest that *)
(* changes does to every tick of its day.                                  *)
EveryJobEnds == []<>(up = "up" /\ \A j \in jobs : j.terminal)

=============================================================================
