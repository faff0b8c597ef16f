---------------------------- MODULE AgentRuntime ----------------------------
(***************************************************************************)
(* The optional analysis agent (workbench/agent_runtime.py): workbench     *)
(* processes that each run at most one task, whose paid model requests     *)
(* reserve their highest possible price in one budget file shared by all   *)
(* processes (BudgetLedger) and settle it when the usage is known; the     *)
(* cancellation of a task, which reaches its coroutine only where it       *)
(* awaits; and the settings, the credential and the connection check that  *)
(* permit a request.                                                       *)
(*                                                                         *)
(* Amounts are small numbers: a request reserves Price, the provider       *)
(* charges at most Price + Excess.  Both currencies of the code move       *)
(* together; the experiment is the one that accumulates over days.  A      *)
(* connection stands for the backend and the model, a key for its          *)
(* revision.  Only the paid (CLOUD) backend is followed.                   *)
(***************************************************************************)
EXTENDS Integers, FiniteSets, Functions

CONSTANTS
    Apps,          \* workbench processes that share the budget file
    Crews,         \* bound: which processes run together.  The settings and the key
                   \* of a process that runs alone change; several have been set up
    Conns,         \* connections that can be configured
    Limits,        \* experiment limits that can be configured
    Price, Excess, \* the reservation of a request; what it can cost beyond
    Daily, PerTask,\* the limits of a day and of a task
    MaxRequests,   \* max_model_requests
    MaxDay,        \* bound: calendar days
    MaxTasks,      \* bound: tasks of all processes together
    MaxKeys,       \* bound: key revisions
    MaxUpsets,     \* bound: cancellations, crashes, lock timeouts of a process that runs
                   \* alone (the file sees them as requests that are interrupted)
    None

(* What is assumed of the constants. *)
BoundsAssumption ==
    /\ {Price, Excess, Daily, PerTask, MaxRequests, MaxDay, MaxTasks, MaxKeys, MaxUpsets}
           \subseteq Nat
    /\ Limits \subseteq Nat \ {0} /\ Price > 0 /\ MaxDay > 0 /\ MaxKeys > 0
    /\ Crews \subseteq (SUBSET Apps) \ {{}}
    /\ None \notin [limit : Nat, used : Int]  \* an experiment is told from none

Days == 1..MaxDay
Active == {"QUEUED", "RUNNING", "CANCELLING"} \* all others are "FINAL"
Configs == [conn : Conns, authorized : BOOLEAN, limit : Limits]

(* The active task: where its coroutine is, the status it shows, whether   *)
(* it is to stop, its cost, its requests, and of the request in flight the *)
(* day and the charge; "late" counts the requests sent after a cancel.  "verified" is what had been verified at its start. *)
NoTask == [pc |-> "idle", status |-> "FINAL", stop |-> FALSE, cost |-> 0,
           requests |-> 0, late |-> 0, day |-> 1, charge |-> 0, verified |-> None]

VARIABLES
    crew,                \* the processes that run
    day, tasks, upsets,  \* the date; bounds
    days, trial,         \* budget.json: spent and reserved by day; the experiment
    config, rev, key,    \* settings; key revision; the key (its revision; 0: none)
    probe,               \* the connection and key that are verified
    probing,             \* a probe in flight: the settings and key it was started with
    task,                \* the active task, and the status it shows
    charged, billed      \* history: what the provider has charged of the price of its
                         \* requests, on each day and in all

budget == <<days, trial>>
settings == <<config, rev, key, probe, probing>>
vars == <<crew, day, tasks, upsets, budget, settings, task, charged, billed>>

-----------------------------------------------------------------------------
(* The budget file, under its lock (BudgetLedger).                         *)

Least(x, y) == IF x <= y THEN x ELSE y

Trial(limit) == IF trial = None THEN [limit |-> limit, used |-> 0] ELSE trial

(* approve_experiment: a lower ceiling is kept, a higher one is not. *)
Approved(limit) == [Trial(limit) EXCEPT !.limit = Least(limit, @)]

(* Mutant: the configured limit counts, whatever was recorded. *)
AffordableAsConfigured(c, spent) ==
    /\ Trial(c.limit).used + Price <= c.limit
    /\ days[day] + Price <= Daily
    /\ spent + Price <= PerTask

Affordable(c, spent) ==
    /\ Trial(c.limit).used + Price <= Approved(c.limit).limit
    /\ days[day] + Price <= Daily
    /\ spent + Price <= PerTask

Reserved(c) == [Approved(c.limit) EXCEPT !.used = @ + Price]

(* Mutant: a request whose usage is unknown is taken to have cost nothing. *)
SettledDayRefunding(t, usage) ==
    [days EXCEPT ![t.day] = @ - Price + (IF usage = None THEN 0 ELSE usage)]

(* The reservation gives way to the usage, on the day it was made; it      *)
(* stays if the usage is not known.                                        *)
SettledDay(t, usage) ==
    IF usage = None THEN days ELSE [days EXCEPT ![t.day] = @ - Price + usage]
SettledTrial(usage) ==
    IF usage = None THEN trial ELSE [trial EXCEPT !.used = @ - Price + usage]

-----------------------------------------------------------------------------
Alone == Cardinality(crew) = 1

Upset == Alone /\ upsets < MaxUpsets /\ upsets' = upsets + 1

Init ==
    /\ day = 1 /\ tasks = 0 /\ upsets = 0
    /\ days = [d \in Days |-> 0]
    /\ crew \in Crews
    /\ \E c \in Conns, l \in [crew -> Limits] :
          /\ config = [a \in crew |-> [conn |-> c, authorized |-> ~Alone, limit |-> l[a]]]
          /\ probe = [a \in crew |-> IF Alone THEN None ELSE [conn |-> c, key |-> 1]]
          /\ trial = IF Alone THEN None
                     ELSE [limit |-> CHOOSE m \in Range(l) : \A n \in Range(l) : m <= n,
                           used |-> 0]
    /\ rev = [a \in crew |-> IF Alone THEN 0 ELSE 1] /\ key = rev
    /\ probing = [a \in crew |-> None]
    /\ task = [a \in crew |-> NoTask]
    /\ charged = [d \in Days |-> 0] /\ billed = 0

Busy(a) == task[a].pc # "idle" /\ task[a].status \in Active

NextDay ==
    /\ day < MaxDay
    /\ day' = day + 1
    /\ UNCHANGED <<crew, tasks, upsets, budget, settings, task, charged, billed>>

(* A saved or removed credential: nothing verified before counts.          *)
CredentialChanged(a) ==
    /\ Alone /\ ~Busy(a) /\ rev[a] < MaxKeys
    /\ rev' = [rev EXCEPT ![a] = @ + 1]
    /\ \E k \in {0, rev[a] + 1} : key' = [key EXCEPT ![a] = k]
    /\ probe' = [probe EXCEPT ![a] = None]
    /\ UNCHANGED <<crew, day, tasks, upsets, budget, config, probing, task, charged, billed>>

(* New settings.  Generation is first permitted only on a verified         *)
(* connection, and the experiment's ceiling is recorded with it.           *)
Configure(a, c) ==
    /\ Alone /\ ~Busy(a) /\ c # config[a]
    /\ c.authorized /\ ~config[a].authorized => c.conn = config[a].conn /\ probe[a] # None
    /\ trial' = Approved(c.limit)
    /\ config' = [config EXCEPT ![a] = c]
    /\ probe' = [probe EXCEPT ![a] = IF c.conn = config[a].conn THEN @ ELSE None]
    /\ UNCHANGED <<crew, day, tasks, upsets, days, rev, key, probing, task, charged, billed>>

(* The connection check runs outside the lock; what it finds counts only   *)
(* if neither the settings nor the key changed meanwhile.                  *)
ProbeBegin(a) ==
    /\ ~Busy(a) /\ probing[a] = None /\ key[a] > 0
    /\ probing' = [probing EXCEPT ![a] = [config |-> config[a], key |-> key[a]]]
    /\ UNCHANGED <<crew, day, tasks, upsets, budget, config, rev, key, probe, task, charged, billed>>

(* Mutant: only the settings are compared. *)
ProbeCountsForConfig(a) == config[a] = probing[a].config

ProbeCounts(a) == config[a] = probing[a].config /\ rev[a] = probing[a].key

ProbeEnd(a) ==
    /\ probing[a] # None
    /\ \E found \in {None, [conn |-> probing[a].config.conn, key |-> probing[a].key]} :
          probe' = [probe EXCEPT ![a] = IF ProbeCounts(a) THEN found ELSE @]
    /\ probing' = [probing EXCEPT ![a] = None]
    /\ UNCHANGED <<crew, day, tasks, upsets, budget, config, rev, key, task, charged, billed>>

-----------------------------------------------------------------------------
(* The task of process a.                                                  *)

Ready(a) ==
    /\ config[a].authorized /\ key[a] > 0 /\ probe[a] # None
    /\ trial # None => trial.used < Least(trial.limit, config[a].limit)

Start(a) ==
    /\ task[a].pc = "idle" /\ Ready(a) /\ tasks < MaxTasks
    /\ tasks' = tasks + 1
    /\ task' = [task EXCEPT ![a] = [NoTask EXCEPT !.pc = "queued", !.status = "QUEUED",
                                                     !.verified = probe[a]]]
    /\ UNCHANGED <<crew, day, upsets, budget, settings, charged, billed>>

(* Cancel shows CANCELLING at once and asks the coroutine to end. *)
Cancel(a) ==
    /\ Busy(a)
    /\ Upset
    /\ task' = [task EXCEPT ![a].status = "CANCELLING", ![a].stop = TRUE]
    /\ UNCHANGED <<crew, day, tasks, budget, settings, charged, billed>>

Goes(a, pc) == task' = [task EXCEPT ![a].pc = pc]
Ends(a) == task' = [task EXCEPT ![a].pc = "close", ![a].status = "FINAL"]
Rest == UNCHANGED <<crew, day, tasks, settings, charged, billed>>

(* The coroutine starts (or is cancelled before its first step), collects  *)
(* its evidence, awaiting if it searches the web, and shows RUNNING, over  *)
(* CANCELLING if need be.  Evidence is not collected for a stopped task.   *)
Preflight(a) ==
    /\ task[a].pc \in {"queued", "web"}
    /\ \/ task[a].stop /\ task[a].pc = "queued" /\ Ends(a)  \* CANCELLED
       \/ Ends(a)  \* FAILED
       \/ task[a].pc = "queued" /\ task' = [task EXCEPT ![a].pc = "web", ![a].status = "RUNNING"]
       \/ task' = [task EXCEPT ![a].pc = "loop", ![a].status = "RUNNING"]
    /\ Rest /\ UNCHANGED <<upsets, budget>>

(* Mutant: the loop does not look whether it was stopped. *)
LoopUnstopped(a) ==
    /\ task[a].pc = "loop"
    /\ \/ Ends(a)
       \/ task[a].requests < MaxRequests /\ Goes(a, "send")
    /\ Rest /\ UNCHANGED <<upsets, budget>>

(* The request loop: a stopped task ends, a used up number of requests or  *)
(* too large a context fails, a valid cached answer needs no request, ...  *)
Loop(a) ==
    /\ task[a].pc = "loop"
    /\ \/ task[a].stop /\ Ends(a)  \* CANCELLED
       \/ Ends(a)  \* FAILED
       \/ task[a].requests = 0 /\ ~task[a].stop /\ Ends(a)  \* SUCCEEDED
       \/ ~task[a].stop /\ task[a].requests < MaxRequests /\ Goes(a, "send")
    /\ Rest /\ UNCHANGED <<upsets, budget>>

(* ... and a request first reserves its price in the file and then is sent.*)
Reserve(a) ==
    /\ task[a].pc = "send"
    /\ \/ /\ Affordable(config[a], task[a].cost)
          /\ days' = [days EXCEPT ![day] = @ + Price]
          /\ trial' = Reserved(config[a])
          /\ \E c \in 0..(Price + Excess) :
             /\ task' = [task EXCEPT ![a].pc = "request", ![a].day = day, ![a].charge = c,
                            ![a].cost = @ + Price, ![a].requests = @ + 1,
                            ![a].late = IF task[a].stop THEN @ + 1 ELSE @]
             /\ charged' = [charged EXCEPT ![day] = @ + Least(c, Price)]
             /\ billed' = billed + Least(c, Price)
          /\ UNCHANGED upsets
       \/ /\ ~Affordable(config[a], task[a].cost)
          /\ Ends(a)  \* BUDGET_EXHAUSTED
          /\ UNCHANGED <<budget, upsets, charged, billed>>
       \/ /\ Upset  \* the lock is not to be had
          /\ Ends(a)  \* TIMEOUT
          /\ UNCHANGED <<budget, charged, billed>>
    /\ UNCHANGED <<crew, day, tasks, settings>>

(* The answer arrives, with its usage or without, and is settled: a usage  *)
(* above the reservation is recorded and ends the task.                    *)
Reply(a) ==
    /\ task[a].pc = "request"
    /\ \E usage \in {None, task[a].charge} :
          /\ days' = SettledDay(task[a], usage)
          /\ trial' = SettledTrial(usage)
          /\ task' = [task EXCEPT
                ![a].cost = IF usage = None THEN @ ELSE @ - Price + usage,
                ![a].charge = 0,
                ![a].pc = IF usage # None /\ usage > Price THEN "close" ELSE "answer",
                ![a].status = IF usage # None /\ usage > Price THEN "FINAL" ELSE @]
    /\ Rest /\ UNCHANGED upsets

(* The answer is refused, asks for tools and another request, or is shown. *)
Answer(a) ==
    /\ task[a].pc = "answer"
    /\ \/ Ends(a)  \* FAILED
       \/ Goes(a, "loop")
       \/ ~task[a].stop /\ Ends(a)  \* SUCCEEDED
    /\ Rest /\ UNCHANGED <<upsets, budget>>

(* The request fails, its settlement does not get the lock, or, where the  *)
(* coroutine awaits, a cancellation or the deadline arrives: what was      *)
(* reserved stays reserved.                                                *)
Interrupted(a) ==
    /\ task[a].pc \in {"web", "request"}
    /\ task' = [task EXCEPT ![a].pc = "close", ![a].status = "FINAL", ![a].charge = 0]
    /\ Rest /\ UNCHANGED <<upsets, budget>>

(* Mutant: a task that was cancelled stays the active one. *)
FinallyUnlessStopped(a) ==
    /\ task[a].pc = "close" /\ ~task[a].stop
    /\ task' = [task EXCEPT ![a] = NoTask]
    /\ Rest /\ UNCHANGED <<upsets, budget>>

(* The client is closed (a cancellation may then still replace the status) *)
(* and only now active_id is cleared: until then start() is refused,       *)
(* although the task no longer counts as busy for the settings.            *)
Finally(a) ==
    /\ task[a].pc = "close"
    /\ task' = [task EXCEPT ![a] = NoTask]
    /\ Rest /\ UNCHANGED <<upsets, budget>>

(* The process ends and is started again: tasks and checks are forgotten.  *)
Crash(a) ==
    /\ Upset
    /\ task' = [task EXCEPT ![a] = NoTask]
    /\ probe' = [probe EXCEPT ![a] = None] /\ probing' = [probing EXCEPT ![a] = None]
    /\ UNCHANGED <<crew, day, tasks, budget, config, rev, key, charged, billed>>

Work(a) == Preflight(a) \/ Loop(a) \/ Reserve(a) \/ Reply(a) \/ Answer(a)
           \/ Interrupted(a) \/ Finally(a)

Next ==
    \/ NextDay
    \/ \E a \in crew :
          \/ CredentialChanged(a) \/ ProbeBegin(a) \/ ProbeEnd(a)
          \/ \E c \in Configs : Configure(a, c)
          \/ Start(a) \/ Cancel(a) \/ Work(a) \/ Crash(a)

Spec == Init /\ [][Next]_vars

(* The worker thread runs, and every await of a task ends by its deadline. *)
FairSpec == Spec /\ \A a \in Apps : WF_vars(a \in crew /\ Work(a))

-----------------------------------------------------------------------------
(* Properties.                                                             *)

(* "Durable cross-process conservative reservations; unknown charges stay  *)
(* reserved": at every moment, through crashes and cancellations, the file *)
(* accounts for all that the provider may have charged within the bound of *)
(* each request, for each day and for the experiment.                      *)
ChargesCovered ==
    /\ \A d \in Days : charged[d] <= days[d]
    /\ trial # None => billed <= trial.used

(* "Existing experiments cannot be reset, raised or disabled by a          *)
(* restart": whatever process, settings or crash, a recorded ceiling is    *)
(* never raised nor is spending forgotten without a usage; and a request   *)
(* is added only if it fits under the lowest ceiling recorded and the day. *)
LimitsHold ==
    [][/\ trial # None => trial' # None /\ trial'.limit <= trial.limit
       /\ trial # None /\ trial'.used < trial.used =>
             \E a \in crew : task[a].pc = "request" /\ task[a].charge < Price
       /\ (\E a \in crew : task'[a].requests > task[a].requests) =>
             trial'.used <= trial'.limit /\ days'[day] <= Daily]_vars

(* A request goes out only over the connection and with the key that a     *)
(* check found good before the task was started, whatever settings, keys   *)
(* and checks crossed.                                                     *)
CallsVerified ==
    [][\A a \in crew : task'[a].requests > task[a].requests =>
          task[a].verified = [conn |-> config[a].conn, key |-> key[a]]]_vars

(* Cancelling binds: whatever the status shows meanwhile (RUNNING may       *)
(* replace CANCELLING), a task sends at most the one request it was about  *)
(* to send when it was cancelled.                                          *)
CancelBinds == \A a \in crew : task[a].late <= 1

(* Every task that was started comes to an end and frees the runtime.      *)
Idle(a) == a \in crew => task[a].pc = "idle"
TaskEnds == \A a \in Apps : ~Idle(a) ~> Idle(a)

=============================================================================
