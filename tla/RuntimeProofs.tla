---------------------------- MODULE RuntimeProofs ----------------------------
(* Theorems about what runs beside the decisions of a day, for any constants:  *)
(* the agents that share a budget file (AgentInv), the refresh of public risk  *)
(* (ShownIsKept), the realtime quotes (QuotesInv), and the scenes of the       *)
(* account and of its imports.                                                 *)
(*                                                                             *)
(* That the file covers what was charged is a statement about a sum over the   *)
(* requests in flight of all processes: each reserved its price and may have   *)
(* been charged less.  The invariant has that sum as an additive function of   *)
(* the subsets of the processes, which a step changes at one of them.          *)
(*                                                                             *)
(* What of the public risk is published next is what the store keeps then,     *)
(* perhaps long after the answer that changed it: the invariant says that      *)
(* whatever is shown as adverse is kept as severely meanwhile.                 *)
(*                                                                             *)
(* A quote is handed out of the store, not out of the answer that was judged:  *)
(* the invariant says that an unmarked quote there is the newest one accepted  *)
(* of its symbol, or too old to be handed to anybody, also while an answer of  *)
(* the second thread, or a kept snapshot, waits to replace the store.          *)
(*                                                                             *)
(* What AccountProofs and ImportProofs have of the account, its holdings and   *)
(* the imports is brought to the scenes of these at the end.                   *)
EXTENDS MCWorkbench, WellFoundedInduction, TLAPS

------------------------------------------------------------------------------
(* The agents.                                                             *)

(* What a check found, the tasks, and the experiment.                         *)
Checked == [conn : Conns, key : Nat]
Tasks == [pc : {"idle", "queued", "web", "loop", "send", "request", "answer", "close"},
          status : Agent!Active \union {"FINAL"}, stop : BOOLEAN, cost : Int, requests : Nat,
          late : Nat, day : Agent!Days, charge : Nat, verified : {None} \union Checked]
Experiments == [limit : Nat, used : Int]

AgentTypeOK ==
    /\ date \in Agent!Days
    /\ days \in [Agent!Days -> Int] /\ charged \in [Agent!Days -> Nat] /\ billed \in Nat
    /\ trial \in {None} \union Experiments
    /\ config \in [crew -> Agent!Configs] /\ rev \in [crew -> Nat] /\ key \in [crew -> Nat]
    /\ probe \in [crew -> {None} \union Checked]
    /\ probing \in [crew -> {None} \union [config : Agent!Configs, key : Nat]]
    /\ task \in [crew -> Tasks]

(* A check counts for the connection and the key it was made with; and so     *)
(* does what a task was started with, until the task has ended.               *)
Now(a) == [conn |-> config[a].conn, key |-> key[a]]
KeysKnown ==
    \A a \in crew :
       /\ key[a] \in {0, rev[a]}
       /\ probe[a] # None => probe[a] = Now(a)
       /\ probing[a] # None => /\ probing[a].key <= rev[a]
                               /\ probing[a].key = rev[a] => key[a] = rev[a]
       /\ task[a].pc \notin {"idle", "close"} =>
             task[a].status \in Agent!Active /\ task[a].verified = Now(a)

(* A sum over a set: what an additive function of its subsets makes of it.    *)
Adds(C, t, f) == /\ t \in [SUBSET C -> Nat] /\ t[{}] = 0
                 /\ \A S \in SUBSET C : \A a \in C \ S : t[S \union {a}] = t[S] + f[a]
Covers(C, n, f) == \E t : Adds(C, t, f) /\ t[C] <= n

(* What the file accounts for beyond what has been charged covers what the    *)
(* requests in flight reserved and were not charged.                          *)
Pending(w) == IF w.pc = "request" THEN Price - Agent!Least(w.charge, Price) ELSE 0
PendingOn(d, w) == IF w.day = d THEN Pending(w) ELSE 0
Used == IF trial = None THEN 0 ELSE trial.used
AllCovered ==
    /\ \A d \in Agent!Days :
          Covers(crew, days[d] - charged[d], [a \in crew |-> PendingOn(d, task[a])])
    /\ Covers(crew, Used - billed, [a \in crew |-> Pending(task[a])])
    /\ \A a \in crew : task[a].pc = "request" => trial # None

AgentInv == AgentTypeOK /\ KeysKnown /\ AllCovered

(* A sum follows a change of one summand.                                     *)
LEMMA CoverStep ==
  ASSUME NEW C, NEW f \in [C -> Nat], NEW a \in C, NEW x \in Nat, NEW n \in Int, NEW m \in Int,
         Covers(C, n, f), n - f[a] + x <= m
  PROVE  Covers(C, m, [f EXCEPT ![a] = x])
<1>1. PICK t : Adds(C, t, f) /\ t[C] <= n
  BY DEF Covers
<1> DEFINE g == [f EXCEPT ![a] = x]
           u == [S \in SUBSET C |-> IF a \in S THEN t[S] - f[a] + x ELSE t[S]]
<1>2. t \in [SUBSET C -> Nat] /\ t[{}] = 0
      /\ \A S \in SUBSET C : \A b \in C \ S : t[S \union {b}] = t[S] + f[b]
  BY <1>1 DEF Adds
<1>3. \A S \in SUBSET C : a \in S => t[S] >= f[a]
  <2> SUFFICES ASSUME NEW S \in SUBSET C, a \in S
               PROVE  t[S] >= f[a]
    OBVIOUS
  <2>1. S = (S \ {a}) \union {a} /\ S \ {a} \in SUBSET C /\ a \in C \ (S \ {a})
    OBVIOUS
  <2>2. t[S] = t[S \ {a}] + f[a]
    BY <1>2, <2>1
  <2>3. t[S \ {a}] \in Nat /\ f[a] \in Nat
    BY <1>2, <2>1
  <2> QED
    BY <2>2, <2>3
<1>4. u \in [SUBSET C -> Nat]
  BY <1>2, <1>3
<1>5. u[{}] = 0
  BY <1>2
<1>6. ASSUME NEW S \in SUBSET C, NEW b \in C \ S
      PROVE  u[S \union {b}] = u[S] + g[b]
  <2>1. t[S \union {b}] = t[S] + f[b] /\ S \union {b} \in SUBSET C
    BY <1>2
  <2>2. t[S] \in Nat /\ f[b] \in Nat /\ f[a] \in Nat
    BY <1>2
  <2>3. CASE b = a
    BY <2>1, <2>2, <2>3
  <2>4. CASE b # a
    BY <2>1, <2>2, <2>4
  <2> QED
    BY <2>3, <2>4
<1>7. u[C] <= m
  <2>1. u[C] = t[C] - f[a] + x /\ t[C] \in Nat /\ f[a] \in Nat
    BY <1>2
  <2> QED
    BY <1>1, <2>1
<1>8. Adds(C, u, g)
  BY <1>4, <1>5, <1>6 DEF Adds
<1> QED
  BY <1>7, <1>8 DEF Covers

(* A sum of nothing is covered.                                               *)
LEMMA CoverNothing ==
  ASSUME NEW C, NEW f, \A a \in C : f[a] = 0
  PROVE  Covers(C, 0, f)
<1> DEFINE t == [S \in SUBSET C |-> 0]
<1>1. Adds(C, t, f) /\ t[C] <= 0
  BY DEF Adds
<1> QED
  BY <1>1 DEF Covers

(* What covers a sum is not negative.                                         *)
LEMMA CoverBound ==
  ASSUME NEW C, NEW f, NEW n \in Int, Covers(C, n, f)
  PROVE  n >= 0
BY DEF Covers, Adds

(* The step of a process keeps the sums covered if what it adds to the file   *)
(* beyond what it is charged is what its own request needs more.              *)
LEMMA ChargeStep ==
  ASSUME AgentTypeOK, AllCovered, NEW a \in crew, NEW w \in Tasks,
         crew' = crew, task' = [task EXCEPT ![a] = w],
         days' \in [Agent!Days -> Int], charged' \in [Agent!Days -> Nat],
         Used' \in Int, billed' \in Nat,
         \A d \in Agent!Days : days[d] - charged[d] - PendingOn(d, task[a]) + PendingOn(d, w)
                                 <= days'[d] - charged'[d],
         Used - billed - Pending(task[a]) + Pending(w) <= Used' - billed',
         w.pc = "request" \/ trial # None => trial' # None
  PROVE  AllCovered'
<1> USE BudgetAssumption DEF Agent!BoundsAssumption
<1>1. Price \in Nat
  OBVIOUS
<1>2. \A v \in Tasks : Pending(v) \in Nat /\ \A d : PendingOn(d, v) \in Nat
  BY <1>1 DEF Pending, PendingOn, Tasks, Agent!Least
<1>3. /\ task \in [crew -> Tasks] /\ Used \in Int /\ billed \in Nat
      /\ days \in [Agent!Days -> Int] /\ charged \in [Agent!Days -> Nat]
  BY DEF AgentTypeOK, Used, Experiments
<1>4. ASSUME NEW d \in Agent!Days
      PROVE  Covers(crew', days'[d] - charged'[d], [b \in crew' |-> PendingOn(d, task'[b])])
  <2> DEFINE f == [b \in crew |-> PendingOn(d, task[b])]
             n == days[d] - charged[d]
             m == days'[d] - charged'[d]
             x == PendingOn(d, w)
  <2>1. f \in [crew -> Nat] /\ f[a] = PendingOn(d, task[a]) /\ n \in Int /\ m \in Int /\ x \in Nat
    BY <1>2, <1>3
  <2>2. Covers(crew, n, f)
    BY DEF AllCovered
  <2>3. n - f[a] + x <= m
    BY <2>1
  <2>4. [b \in crew' |-> PendingOn(d, task'[b])] = [f EXCEPT ![a] = x]
    BY <1>3
  <2> HIDE DEF f, n, m, x
  <2>5. Covers(crew, m, [f EXCEPT ![a] = x])
    BY <2>1, <2>2, <2>3, CoverStep
  <2> QED
    BY <2>4, <2>5 DEF m
<1>5. Covers(crew', Used' - billed', [b \in crew' |-> Pending(task'[b])])
  <2> DEFINE f == [b \in crew |-> Pending(task[b])]
             n == Used - billed
             m == Used' - billed'
             x == Pending(w)
  <2>1. f \in [crew -> Nat] /\ f[a] = Pending(task[a]) /\ n \in Int /\ m \in Int /\ x \in Nat
    BY <1>2, <1>3
  <2>2. Covers(crew, n, f)
    BY DEF AllCovered
  <2>3. n - f[a] + x <= m
    BY <2>1
  <2>4. [b \in crew' |-> Pending(task'[b])] = [f EXCEPT ![a] = x]
    BY <1>3
  <2> HIDE DEF f, n, m, x
  <2>5. Covers(crew, m, [f EXCEPT ![a] = x])
    BY <2>1, <2>2, <2>3, CoverStep
  <2> QED
    BY <2>4, <2>5 DEF m
<1>6. \A b \in crew' : task'[b].pc = "request" => trial' # None
  BY <1>3 DEF AllCovered
<1> QED
  BY <1>4, <1>5, <1>6 DEF AllCovered

(* A step that changes one task, and neither the settings nor the file.       *)
TaskStep(a, w) ==
    /\ task' = [task EXCEPT ![a] = w]
    /\ UNCHANGED <<crew, date, days, trial, config, rev, key, probe, probing, charged, billed>>

(* The sums stay covered if the task is not in a request it was not in.       *)
LEMMA TaskStepCovers ==
  ASSUME AgentTypeOK, AllCovered, NEW a \in crew, NEW w \in Tasks, task' = [task EXCEPT ![a] = w],
         UNCHANGED <<crew, days, trial, charged, billed>>,
         w.pc = "request" => /\ task[a].pc = "request" /\ w.day = task[a].day
                             /\ w.charge = task[a].charge
  PROVE  AllCovered'
<1>1. Price \in Nat
  BY BudgetAssumption DEF Agent!BoundsAssumption
<1>2. /\ days \in [Agent!Days -> Int] /\ charged \in [Agent!Days -> Nat]
      /\ Used \in Int /\ billed \in Nat /\ Used' = Used /\ task[a] \in Tasks
  BY DEF AgentTypeOK, Used, Experiments
<1>3. Pending(w) <= Pending(task[a]) /\ \A d : PendingOn(d, w) <= PendingOn(d, task[a])
  BY <1>1, <1>2 DEF Pending, PendingOn, Tasks, Agent!Least
<1>4. \A v \in Tasks : Pending(v) \in Nat /\ \A d : PendingOn(d, v) \in Nat
  BY <1>1 DEF Pending, PendingOn, Tasks, Agent!Least
<1>5. /\ days' \in [Agent!Days -> Int] /\ charged' \in [Agent!Days -> Nat]
      /\ Used' \in Int /\ billed' \in Nat
  BY <1>2
<1>6. \A d \in Agent!Days : days[d] - charged[d] - PendingOn(d, task[a]) + PendingOn(d, w)
                              <= days'[d] - charged'[d]
  BY <1>2, <1>3, <1>4
<1>7. Used - billed - Pending(task[a]) + Pending(w) <= Used' - billed'
  BY <1>2, <1>3, <1>4
<1>8. w.pc = "request" \/ trial # None => trial' # None
  BY DEF AllCovered
<1> QED
  BY <1>5, <1>6, <1>7, <1>8, ChargeStep

(* The invariant holds after it if the task is not sending, and shows and     *)
(* remembers what it should.                                                  *)
LEMMA TaskStepKeeps ==
  ASSUME AgentInv, NEW a \in crew, NEW w \in Tasks, TaskStep(a, w),
         w.pc \notin {"idle", "close"} => w.status \in Agent!Active /\ w.verified = Now(a),
         w.pc = "request" => /\ task[a].pc = "request" /\ w.day = task[a].day
                             /\ w.charge = task[a].charge
  PROVE  AgentInv'
<1>1. /\ crew' = crew /\ task' = [task EXCEPT ![a] = w] /\ task \in [crew -> Tasks]
      /\ UNCHANGED <<date, days, trial, config, rev, key, probe, probing, charged, billed>>
  BY DEF TaskStep, AgentInv, AgentTypeOK
<1>2. AgentTypeOK'
  BY <1>1 DEF AgentInv, AgentTypeOK
<1>3. KeysKnown'
  BY <1>1 DEF AgentInv, KeysKnown, Now
<1>4. AllCovered'
  BY <1>1, TaskStepCovers DEF AgentInv
<1> QED
  BY <1>2, <1>3, <1>4 DEF AgentInv

(* A task that goes on, and one that ends.                                    *)
Steps == {"queued", "web", "loop", "send", "request", "answer", "close"}
Moved(w, pc, status) == [w EXCEPT !.pc = pc, !.status = status]
LEMMA MovedTask ==
  ASSUME NEW w \in Tasks, NEW pc \in Steps, NEW status \in Agent!Active \union {"FINAL"}
  PROVE  /\ Moved(w, pc, status) \in Tasks
         /\ Moved(w, pc, status).pc = pc /\ Moved(w, pc, status).status = status
         /\ Moved(w, pc, status).verified = w.verified
BY DEF Moved, Tasks, Steps

(* A task goes on from where it was busy, or ends.                            *)
LEMMA TaskMoves ==
  ASSUME AgentInv, NEW a \in crew, NEW pc \in Steps \ {"request"},
         NEW status \in Agent!Active \union {"FINAL"},
         pc # "close" => status \in Agent!Active /\ task[a].pc \notin {"idle", "close"},
         TaskStep(a, Moved(task[a], pc, status))
  PROVE  AgentInv'
<1> DEFINE w == Moved(task[a], pc, status)
<1>1. task[a] \in Tasks
  BY DEF AgentInv, AgentTypeOK
<1>2. /\ w \in Tasks /\ w.pc = pc /\ w.status = status
      /\ w.verified = task[a].verified
  BY <1>1, MovedTask
<1>3. TaskStep(a, w)
  OBVIOUS
<1> HIDE DEF w
<1>4. w.pc \notin {"idle", "close"} => w.status \in Agent!Active /\ w.verified = Now(a)
  BY <1>2 DEF AgentInv, KeysKnown
<1>5. w.pc # "request"
  BY <1>2
<1> QED
  BY <1>2, <1>3, <1>4, <1>5, TaskStepKeeps

(* An idle process has a task that is none.                                   *)
LEMMA NoTaskIsTask ==
  Agent!NoTask \in Tasks /\ Agent!NoTask.pc = "idle"
<1>1. 1 \in Agent!Days
  BY BudgetAssumption DEF Agent!BoundsAssumption, Agent!Days
<1> QED
  BY <1>1 DEF Tasks, Agent!NoTask

(* Start: what was verified is what the task will use.                        *)
LEMMA AgentStarts ==
  ASSUME AgentInv, NEW a \in crew, Agent!Start(a)
  PROVE  AgentInv'
<1> DEFINE w == [Agent!NoTask EXCEPT !.pc = "queued", !.status = "QUEUED", !.verified = probe[a]]
<1>1. TaskStep(a, w) /\ probe[a] # None
  BY DEF TaskStep, Agent!Start, Agent!Ready, Agent!settings, Agent!budget
<1>2. probe[a] \in {None} \union Checked /\ probe[a] = Now(a)
  BY <1>1 DEF AgentInv, AgentTypeOK, KeysKnown
<1>3. Agent!NoTask \in Tasks
  BY NoTaskIsTask
<1>4. w \in Tasks /\ w.pc = "queued" /\ w.status = "QUEUED" /\ w.verified = probe[a]
  BY <1>2, <1>3 DEF Tasks, Agent!Active
<1> HIDE DEF w
<1>5. w.pc \notin {"idle", "close"} => w.status \in Agent!Active /\ w.verified = Now(a)
  BY <1>2, <1>4 DEF Agent!Active
<1>6. w.pc # "request"
  BY <1>4
<1> QED
  BY <1>1, <1>4, <1>5, <1>6, TaskStepKeeps

(* Cancel shows and asks, and the task goes on.                               *)
LEMMA AgentCancels ==
  ASSUME AgentInv, NEW a \in crew, Agent!Cancel(a)
  PROVE  AgentInv'
<1> DEFINE w == [task[a] EXCEPT !.status = "CANCELLING", !.stop = TRUE]
<1>1. task[a] \in Tasks /\ task \in [crew -> Tasks]
  BY DEF AgentInv, AgentTypeOK
<1>2. task[a].pc # "idle" /\ task[a].status \in Agent!Active
  BY DEF Agent!Cancel, Agent!Busy
<1>3. TaskStep(a, w)
  BY <1>1 DEF TaskStep, Agent!Cancel, Agent!settings, Agent!budget
<1>4. /\ w \in Tasks /\ w.pc = task[a].pc /\ w.status = "CANCELLING"
      /\ w.verified = task[a].verified /\ w.day = task[a].day /\ w.charge = task[a].charge
  BY <1>1 DEF Tasks, Agent!Active
<1> HIDE DEF w
<1>5. w.pc \notin {"idle", "close"} => w.status \in Agent!Active /\ w.verified = Now(a)
  BY <1>4 DEF AgentInv, KeysKnown, Agent!Active
<1> QED
  BY <1>3, <1>4, <1>5, TaskStepKeeps

(* A task that has ended is cleared.                                          *)
LEMMA AgentClears ==
  ASSUME AgentInv, NEW a \in crew, TaskStep(a, Agent!NoTask)
  PROVE  AgentInv'
BY NoTaskIsTask, TaskStepKeeps

(* The steps of a task that leave the budget alone.                           *)
LEMMA AgentWorks ==
  ASSUME AgentInv, NEW a \in crew,
         Agent!Preflight(a) \/ Agent!Loop(a) \/ Agent!Answer(a) \/ Agent!Interrupted(a)
           \/ Agent!Finally(a)
  PROVE  AgentInv'
<1>1. task[a] \in Tasks /\ task \in [crew -> Tasks]
      /\ task[a].status \in Agent!Active \union {"FINAL"}
  BY DEF AgentInv, AgentTypeOK, Tasks
<1>2. UNCHANGED <<crew, date, days, trial, config, rev, key, probe, probing, charged, billed>>
  BY DEF Agent!Preflight, Agent!Loop, Agent!Answer, Agent!Interrupted, Agent!Finally, Agent!Rest,
     Agent!settings, Agent!budget
<1>3. task[a].pc \notin {"idle", "close"} => task[a].status \in Agent!Active
  BY DEF AgentInv, KeysKnown
<1>4. CASE Agent!Finally(a)
  <2>1. TaskStep(a, Agent!NoTask)
    BY <1>2, <1>4 DEF Agent!Finally, TaskStep
  <2> QED
    BY <2>1, AgentClears
<1>5. CASE Agent!Interrupted(a)
  <2> DEFINE w == [task[a] EXCEPT !.pc = "close", !.status = "FINAL", !.charge = 0]
  <2>1. TaskStep(a, w)
    BY <1>1, <1>2, <1>5 DEF Agent!Interrupted, TaskStep
  <2>2. w \in Tasks /\ w.pc = "close"
    BY <1>1 DEF Tasks
  <2> HIDE DEF w
  <2> QED
    BY <2>1, <2>2, TaskStepKeeps
<1>6. CASE Agent!Ends(a)
  <2>1. TaskStep(a, Moved(task[a], "close", "FINAL"))
    BY <1>1, <1>2, <1>6 DEF Agent!Ends, TaskStep, Moved
  <2> QED
    BY <2>1, TaskMoves DEF Steps
<1>7. ASSUME ~ Agent!Ends(a), Agent!Preflight(a) \/ Agent!Loop(a) \/ Agent!Answer(a)
      PROVE  AgentInv'
  <2>1. \/ /\ task[a].pc \in {"queued", "web"}
           /\ \E pc \in {"web", "loop"} :
                task' = [task EXCEPT ![a].pc = pc, ![a].status = "RUNNING"]
        \/ /\ task[a].pc \in {"loop", "answer"}
           /\ \E pc \in {"send", "loop"} : Agent!Goes(a, pc)
    BY <1>7 DEF Agent!Preflight, Agent!Loop, Agent!Answer
  <2>2. \E pc \in {"web", "loop", "send"}, status \in Agent!Active :
          TaskStep(a, Moved(task[a], pc, status)) /\ task[a].pc \notin {"idle", "close"}
    <3>1. CASE /\ task[a].pc \in {"queued", "web"}
               /\ \E pc \in {"web", "loop"} :
                    task' = [task EXCEPT ![a].pc = pc, ![a].status = "RUNNING"]
      <4>1. PICK pc \in {"web", "loop"} :
              task' = [task EXCEPT ![a].pc = pc, ![a].status = "RUNNING"]
        BY <3>1
      <4>2. TaskStep(a, Moved(task[a], pc, "RUNNING"))
        BY <1>1, <1>2, <4>1 DEF TaskStep, Moved
      <4> QED
        BY <3>1, <4>2 DEF Agent!Active
    <3>2. CASE /\ task[a].pc \in {"loop", "answer"}
               /\ \E pc \in {"send", "loop"} : Agent!Goes(a, pc)
      <4>1. PICK pc \in {"send", "loop"} : Agent!Goes(a, pc)
        BY <3>2
      <4>2. TaskStep(a, Moved(task[a], pc, task[a].status))
        BY <1>1, <1>2, <4>1 DEF Agent!Goes, TaskStep, Moved, Tasks
      <4> QED
        BY <1>3, <3>2, <4>2
    <3> QED
      BY <2>1, <3>1, <3>2
  <2>3. PICK pc \in {"web", "loop", "send"}, status \in Agent!Active :
          TaskStep(a, Moved(task[a], pc, status)) /\ task[a].pc \notin {"idle", "close"}
    BY <2>2
  <2> QED
    BY <2>3, TaskMoves DEF Steps
<1> QED
  BY <1>4, <1>5, <1>6, <1>7

(* A reservation covers the request that it lets out.                         *)
Sent(a, c) ==
    [task[a] EXCEPT !.pc = "request", !.day = date, !.charge = c, !.cost = @ + Price,
                    !.requests = @ + 1, !.late = IF task[a].stop THEN @ + 1 ELSE @]
Sends(a, c) ==
    /\ task[a].pc = "send" /\ Agent!Affordable(config[a], task[a].cost)
    /\ days' = [days EXCEPT ![date] = @ + Price]
    /\ trial' = Agent!Reserved(config[a])
    /\ task' = [task EXCEPT ![a] = Sent(a, c)]
    /\ charged' = [charged EXCEPT ![date] = @ + Agent!Least(c, Price)]
    /\ billed' = billed + Agent!Least(c, Price)
    /\ UNCHANGED <<crew, date, config, rev, key, probe, probing>>

(* The experiment keeps the lower ceiling, and its use.                       *)
LEMMA ApprovedExperiment ==
  ASSUME AgentTypeOK, NEW limit \in Limits
  PROVE  /\ Agent!Approved(limit) \in Experiments /\ Agent!Approved(limit).used = Used
         /\ Agent!Approved(limit).limit <= limit
         /\ trial # None => Agent!Approved(limit).limit <= trial.limit
         /\ Agent!Trial(limit).used = Used
         /\ Agent!Approved(limit) # None
<1>1. limit \in Nat /\ None \notin Experiments
  BY BudgetAssumption DEF Agent!BoundsAssumption, Experiments
<1>2. Agent!Trial(limit) \in Experiments
  BY <1>1 DEF Agent!Trial, AgentTypeOK, Experiments
<1>3. /\ Agent!Trial(limit).used = Used
      /\ trial # None => Agent!Trial(limit).limit = trial.limit
      /\ trial = None => Agent!Trial(limit).limit = limit
  BY DEF Agent!Trial, Used
<1>4. /\ Agent!Approved(limit) \in Experiments
      /\ Agent!Approved(limit).used = Agent!Trial(limit).used
      /\ Agent!Approved(limit).limit <= limit
      /\ Agent!Approved(limit).limit <= Agent!Trial(limit).limit
  BY <1>1, <1>2 DEF Agent!Approved, Agent!Least, Experiments
<1> QED
  BY <1>1, <1>3, <1>4

(* What a reservation does to the experiment.                                 *)
LEMMA ReservedExperiment ==
  ASSUME AgentTypeOK, NEW c \in Agent!Configs
  PROVE  /\ Agent!Reserved(c) \in Experiments /\ Agent!Reserved(c) # None
         /\ Agent!Reserved(c).used = Used + Price
         /\ Agent!Reserved(c).limit = Agent!Approved(c.limit).limit
<1>1. c.limit \in Limits /\ Price \in Nat /\ None \notin Experiments
  BY BudgetAssumption DEF Agent!BoundsAssumption, Agent!Configs, Experiments
<1>2. /\ Agent!Approved(c.limit) \in Experiments /\ Agent!Approved(c.limit).used = Used
  BY <1>1, ApprovedExperiment
<1>3. /\ Agent!Reserved(c) \in Experiments
      /\ Agent!Reserved(c).used = Agent!Approved(c.limit).used + Price
      /\ Agent!Reserved(c).limit = Agent!Approved(c.limit).limit
  BY <1>1, <1>2 DEF Agent!Reserved, Experiments
<1> QED
  BY <1>1, <1>2, <1>3

(* Reserve, when the request goes out.                                        *)
LEMMA AgentSends ==
  ASSUME AgentInv, NEW a \in crew, NEW c \in Nat, Sends(a, c)
  PROVE  AgentInv'
<1> DEFINE w == Sent(a, c)
           fee == Agent!Least(c, Price)
<1>1. Price \in Nat
  BY BudgetAssumption DEF Agent!BoundsAssumption
<1>2. /\ task[a].pc = "send" /\ days' = [days EXCEPT ![date] = @ + Price]
      /\ trial' = Agent!Reserved(config[a])
      /\ task' = [task EXCEPT ![a] = w]
      /\ charged' = [charged EXCEPT ![date] = @ + fee] /\ billed' = billed + fee
      /\ UNCHANGED <<crew, date, config, rev, key, probe, probing>>
  BY DEF Sends
<1>3. /\ task \in [crew -> Tasks] /\ task[a] \in Tasks /\ date \in Agent!Days
      /\ days \in [Agent!Days -> Int] /\ charged \in [Agent!Days -> Nat] /\ billed \in Nat
      /\ config[a] \in Agent!Configs /\ AgentTypeOK
      /\ Used \in Int
  BY DEF AgentInv, AgentTypeOK, Used, Experiments
<1>4. fee \in Nat /\ fee <= Price
  BY <1>1 DEF Agent!Least
<1>5. /\ w \in Tasks /\ w.pc = "request" /\ w.status = task[a].status
      /\ w.verified = task[a].verified /\ w.day = date /\ w.charge = c
  <2>1. /\ task[a].cost + Price \in Int /\ task[a].requests + 1 \in Nat
        /\ (IF task[a].stop THEN task[a].late + 1 ELSE task[a].late) \in Nat
    BY <1>1, <1>3 DEF Tasks
  <2>2. PICK cost \in Int, requests \in Nat, late \in Nat :
          w = [task[a] EXCEPT !.pc = "request", !.day = date, !.charge = c, !.cost = cost,
                              !.requests = requests, !.late = late]
    BY <2>1 DEF Sent
  <2> HIDE DEF w
  <2> QED
    BY <1>3, <2>2 DEF Tasks
<1>6. /\ trial' \in Experiments /\ trial' # None /\ trial'.used = Used + Price
  BY <1>2, <1>3, ReservedExperiment
<1>7. Used' = Used + Price
  BY <1>6 DEF Used
<1>8. Pending(w) = Price - fee /\ Pending(task[a]) = 0
      /\ \A d : /\ PendingOn(d, task[a]) = 0
                /\ PendingOn(d, w) = IF d = date THEN Price - fee ELSE 0
  BY <1>1, <1>2, <1>5 DEF Pending, PendingOn
<1> HIDE DEF w, fee
<1>9. days' \in [Agent!Days -> Int] /\ charged' \in [Agent!Days -> Nat] /\ billed' \in Nat
  BY <1>1, <1>2, <1>3, <1>4
<1>10. AgentTypeOK'
  BY <1>2, <1>3, <1>5, <1>6, <1>9 DEF AgentTypeOK
<1>11. KeysKnown'
  <2>1. w.status \in Agent!Active /\ w.verified = Now(a)
    BY <1>2, <1>5 DEF AgentInv, KeysKnown
  <2> QED
    BY <1>2, <1>3, <2>1 DEF AgentInv, KeysKnown, Now
<1>12. AllCovered'
  <2>1. \A d \in Agent!Days : days[d] - charged[d] - PendingOn(d, task[a]) + PendingOn(d, w)
                                <= days'[d] - charged'[d]
    <3> SUFFICES ASSUME NEW d \in Agent!Days
                 PROVE  days[d] - charged[d] - PendingOn(d, task[a]) + PendingOn(d, w)
                          <= days'[d] - charged'[d]
      OBVIOUS
    <3>1. days[d] \in Int /\ charged[d] \in Nat
      BY <1>3
    <3>2. CASE d = date
      <4>1. days'[d] = days[d] + Price /\ charged'[d] = charged[d] + fee
        BY <1>2, <1>3, <3>2
      <4>2. PendingOn(d, task[a]) = 0 /\ PendingOn(d, w) = Price - fee
        BY <1>8, <3>2
      <4> QED
        BY <1>1, <1>4, <3>1, <4>1, <4>2
    <3>3. CASE d # date
      <4>1. days'[d] = days[d] /\ charged'[d] = charged[d]
        BY <1>2, <1>3, <3>3
      <4>2. PendingOn(d, task[a]) = 0 /\ PendingOn(d, w) = 0
        BY <1>8, <3>3
      <4> QED
        BY <3>1, <4>1, <4>2
    <3> QED
      BY <3>2, <3>3
  <2>2. Used - billed - Pending(task[a]) + Pending(w) <= Used' - billed'
    BY <1>1, <1>2, <1>3, <1>4, <1>7, <1>8
  <2>3. AllCovered /\ Used' \in Int
    BY <1>1, <1>3, <1>7 DEF AgentInv
  <2> QED
    BY <1>2, <1>3, <1>5, <1>6, <1>9, <2>1, <2>2, <2>3, ChargeStep
<1> QED
  BY <1>10, <1>11, <1>12 DEF AgentInv

(* Reply: the usage replaces the reservation, or the reservation stays.       *)
LEMMA AgentReplies ==
  ASSUME AgentInv, NEW a \in crew, Agent!Reply(a)
  PROVE  AgentInv'
<1>1. Price \in Nat
  BY BudgetAssumption DEF Agent!BoundsAssumption
<1>2. PICK usage \in {None, task[a].charge} :
        /\ days' = Agent!SettledDay(task[a], usage)
        /\ trial' = Agent!SettledTrial(usage)
        /\ task' = [task EXCEPT
              ![a].cost = IF usage = None THEN @ ELSE @ - Price + usage,
              ![a].charge = 0,
              ![a].pc = IF usage # None /\ usage > Price THEN "close" ELSE "answer",
              ![a].status = IF usage # None /\ usage > Price THEN "FINAL" ELSE @]
  BY DEF Agent!Reply
<1>3. /\ task[a].pc = "request"
      /\ UNCHANGED <<crew, date, config, rev, key, probe, probing, charged, billed>>
  BY DEF Agent!Reply, Agent!Rest, Agent!settings
<1>4. /\ task \in [crew -> Tasks] /\ task[a] \in Tasks /\ date \in Agent!Days
      /\ days \in [Agent!Days -> Int] /\ charged \in [Agent!Days -> Nat] /\ billed \in Nat
      /\ trial \in Experiments /\ trial # None /\ AgentTypeOK /\ AllCovered
      /\ None \notin Experiments
  BY <1>3, BudgetAssumption
     DEF AgentInv, AgentTypeOK, AllCovered, Agent!BoundsAssumption, Experiments
<1> DEFINE gain == IF usage = None THEN 0 ELSE usage - Price
           day0 == task[a].day
<1>5. /\ gain \in Int /\ day0 \in Agent!Days
      /\ task[a].charge \in Nat /\ gain >= 0 - Pending(task[a])
      /\ Pending(task[a]) \in Nat
  BY <1>1, <1>3, <1>4 DEF Tasks, Pending, Agent!Least
<1>6. days' = [days EXCEPT ![day0] = @ + gain]
  <2>1. CASE usage = None
    BY <1>2, <1>4, <1>5, <2>1 DEF Agent!SettledDay
  <2>2. CASE usage # None
    <3>1. days' = [days EXCEPT ![day0] = @ - Price + usage] /\ gain = usage - Price
          /\ usage \in Nat
      BY <1>2, <1>5, <2>2 DEF Agent!SettledDay
    <3>2. days[day0] - Price + usage = days[day0] + gain
      BY <1>1, <1>4, <1>5, <3>1
    <3> QED
      BY <3>1, <3>2
  <2> QED
    BY <2>1, <2>2
<1>7. trial' \in Experiments /\ trial'.used = trial.used + gain
  <2>1. CASE usage = None
    BY <1>2, <1>4, <2>1 DEF Agent!SettledTrial, Experiments
  <2>2. CASE usage # None
    <3>1. trial' = [trial EXCEPT !.used = @ - Price + usage] /\ gain = usage - Price
          /\ usage \in Nat
      BY <1>2, <1>5, <2>2 DEF Agent!SettledTrial
    <3> QED
      BY <1>1, <1>4, <3>1 DEF Experiments
  <2> QED
    BY <2>1, <2>2
<1>8. Used = trial.used /\ Used' = trial.used + gain /\ trial' # None /\ trial.used \in Int
  BY <1>4, <1>7 DEF Used, Experiments
<1>9. PICK w \in Tasks :
        /\ task' = [task EXCEPT ![a] = w] /\ w.pc \in {"close", "answer"}
        /\ w.pc = "answer" => w.status = task[a].status /\ w.verified = task[a].verified
  <2>1. PICK cost \in Int, pc \in {"close", "answer"}, status \in {"FINAL", task[a].status} :
          /\ task' = [task EXCEPT ![a].cost = cost, ![a].charge = 0, ![a].pc = pc,
                                  ![a].status = status]
          /\ pc = "answer" => status = task[a].status
    <3>1. (IF usage = None THEN task[a].cost ELSE task[a].cost - Price + usage) \in Int
      BY <1>1, <1>4, <1>5, <1>2 DEF Tasks
    <3>2. CASE usage # None /\ usage > Price
      BY <1>2, <1>4, <3>1, <3>2
    <3>3. CASE ~ (usage # None /\ usage > Price)
      BY <1>2, <1>4, <3>1, <3>3
    <3> QED
      BY <3>2, <3>3
  <2> DEFINE w == [task[a] EXCEPT !.cost = cost, !.charge = 0, !.pc = pc, !.status = status]
  <2>2. task' = [task EXCEPT ![a] = w]
    BY <1>4, <2>1
  <2>3. w \in Tasks /\ w.pc = pc /\ w.status = status /\ w.verified = task[a].verified
    BY <1>4 DEF Tasks
  <2> QED
    BY <2>1, <2>2, <2>3
<1> HIDE DEF gain, day0
<1>10. days' \in [Agent!Days -> Int] /\ charged' \in [Agent!Days -> Nat] /\ billed' \in Nat
  BY <1>3, <1>4, <1>5, <1>6
<1>11. AgentTypeOK'
  BY <1>3, <1>4, <1>7, <1>9, <1>10 DEF AgentTypeOK
<1>12. KeysKnown'
  <2>1. w.pc = "answer" => w.status \in Agent!Active /\ w.verified = Now(a)
    BY <1>3, <1>9 DEF AgentInv, KeysKnown
  <2> QED
    BY <1>3, <1>4, <1>9, <2>1 DEF AgentInv, KeysKnown, Now
<1>13. AllCovered'
  <2>1. /\ Pending(w) = 0 /\ \A d : PendingOn(d, w) = 0
        /\ \A d : PendingOn(d, task[a]) = IF d = day0 THEN Pending(task[a]) ELSE 0
    BY <1>9 DEF Pending, PendingOn, day0
  <2>2. \A d \in Agent!Days : days[d] - charged[d] - PendingOn(d, task[a]) + PendingOn(d, w)
                                <= days'[d] - charged'[d]
    <3> SUFFICES ASSUME NEW d \in Agent!Days
                 PROVE  days[d] - charged[d] - PendingOn(d, task[a]) + PendingOn(d, w)
                          <= days'[d] - charged'[d]
      OBVIOUS
    <3>1. days[d] \in Int /\ charged[d] \in Nat /\ charged'[d] = charged[d]
      BY <1>3, <1>4
    <3>2. CASE d = day0
      <4>1. days'[d] = days[d] + gain
        BY <1>4, <1>6, <3>2
      <4> QED
        BY <1>5, <2>1, <3>1, <3>2, <4>1
    <3>3. CASE d # day0
      <4>1. days'[d] = days[d]
        BY <1>4, <1>6, <3>3
      <4> QED
        BY <2>1, <3>1, <3>3, <4>1
    <3> QED
      BY <3>2, <3>3
  <2>3. Used - billed - Pending(task[a]) + Pending(w) <= Used' - billed'
    BY <1>3, <1>4, <1>5, <1>8, <2>1
  <2>4. Used' \in Int /\ crew' = crew
    BY <1>3, <1>5, <1>8
  <2> QED
    BY <1>4, <1>8, <1>9, <1>10, <2>2, <2>3, <2>4, ChargeStep
<1> QED
  BY <1>11, <1>12, <1>13 DEF AgentInv

(* A new key: what was verified counts no longer.                             *)
LEMMA AgentKeyChanges ==
  ASSUME AgentInv, NEW a \in crew, Agent!CredentialChanged(a)
  PROVE  AgentInv'
<1>1. /\ UNCHANGED <<crew, date, days, trial, config, probing, task, charged, billed>>
      /\ rev' = [rev EXCEPT ![a] = @ + 1] /\ probe' = [probe EXCEPT ![a] = None]
      /\ ~ Agent!Busy(a)
  BY DEF Agent!CredentialChanged, Agent!budget
<1>2. PICK k \in {0, rev[a] + 1} : key' = [key EXCEPT ![a] = k]
  BY DEF Agent!CredentialChanged
<1>3. /\ rev \in [crew -> Nat] /\ key \in [crew -> Nat]
      /\ probe \in [crew -> {None} \union Checked]
      /\ probing \in [crew -> {None} \union [config : Agent!Configs, key : Nat]]
  BY DEF AgentInv, AgentTypeOK
<1>4. AgentTypeOK'
  BY <1>1, <1>2, <1>3 DEF AgentInv, AgentTypeOK
<1>5. KeysKnown'
  <2>1. task[a].pc \in {"idle", "close"}
    BY <1>1 DEF Agent!Busy, AgentInv, KeysKnown
  <2>2. \A b \in crew : probing[b] # None => probing[b].key \in Nat
    BY <1>3
  <2>3. /\ key'[a] \in {0, rev'[a]} /\ probe'[a] = None /\ rev'[a] = rev[a] + 1
        /\ probing[a] # None => probing[a].key < rev'[a] /\ probing[a].key <= rev'[a]
    BY <1>1, <1>2, <1>3, <2>2 DEF AgentInv, KeysKnown
  <2>4. \A b \in crew : b # a => key'[b] = key[b] /\ rev'[b] = rev[b] /\ probe'[b] = probe[b]
    BY <1>1, <1>2, <1>3
  <2>5. probing[a] # None => probing[a].key # rev'[a]
    BY <1>3, <2>2, <2>3
  <2>6. task[a].pc \notin {"idle", "close"} => FALSE
    BY <2>1
  <2>7. ASSUME NEW b \in crew, b # a
        PROVE  /\ key'[b] \in {0, rev'[b]}
               /\ probe'[b] # None => probe'[b] = [conn |-> config[b].conn, key |-> key'[b]]
               /\ probing[b] # None => /\ probing[b].key <= rev'[b]
                                       /\ probing[b].key = rev'[b] => key'[b] = rev'[b]
               /\ task[b].pc \notin {"idle", "close"} =>
                     /\ task[b].status \in Agent!Active
                     /\ task[b].verified = [conn |-> config[b].conn, key |-> key'[b]]
    BY <2>4, <2>7 DEF AgentInv, KeysKnown, Now
  <2> QED
    BY <1>1, <2>3, <2>5, <2>6, <2>7 DEF KeysKnown, Now
<1>6. AllCovered'
  BY <1>1 DEF AgentInv, AllCovered, Used
<1> QED
  BY <1>4, <1>5, <1>6 DEF AgentInv

(* New settings: the experiment keeps its use, and a check its connection.    *)
LEMMA AgentConfigures ==
  ASSUME AgentInv, NEW a \in crew, NEW c \in Agent!Configs, Agent!Configure(a, c)
  PROVE  AgentInv'
<1>1. /\ UNCHANGED <<crew, date, days, rev, key, probing, task, charged, billed>>
      /\ config' = [config EXCEPT ![a] = c] /\ trial' = Agent!Approved(c.limit)
      /\ probe' = [probe EXCEPT ![a] = IF c.conn = config[a].conn THEN @ ELSE None]
      /\ ~ Agent!Busy(a)
  BY DEF Agent!Configure
<1>2. AgentTypeOK /\ c.limit \in Limits
  BY DEF AgentInv, Agent!Configs
<1>3. /\ trial' \in Experiments /\ trial' # None /\ trial'.used = Used
  BY <1>1, <1>2, ApprovedExperiment
<1>4. AgentTypeOK'
  BY <1>1, <1>2, <1>3 DEF AgentTypeOK
<1>5. KeysKnown'
  <2>1. task[a].pc \in {"idle", "close"}
    BY <1>1 DEF Agent!Busy, AgentInv, KeysKnown
  <2>2. config \in [crew -> Agent!Configs] /\ probe \in [crew -> {None} \union Checked]
    BY <1>2 DEF AgentTypeOK
  <2>3. \A b \in crew : b # a => config'[b] = config[b] /\ probe'[b] = probe[b]
    BY <1>1, <2>2
  <2>4. config'[a] = c /\ probe'[a] \in {None, probe[a]}
        /\ (probe'[a] = None \/ c.conn = config[a].conn)
    BY <1>1, <2>2
  <2>5. probe'[a] # None => probe'[a] = [conn |-> c.conn, key |-> key[a]]
    BY <2>4 DEF AgentInv, KeysKnown, Now
  <2>6. ASSUME NEW b \in crew, b # a
        PROVE  /\ key[b] \in {0, rev[b]}
               /\ probe'[b] # None => probe'[b] = [conn |-> config'[b].conn, key |-> key[b]]
               /\ probing[b] # None => /\ probing[b].key <= rev[b]
                                       /\ probing[b].key = rev[b] => key[b] = rev[b]
               /\ task[b].pc \notin {"idle", "close"} =>
                     /\ task[b].status \in Agent!Active
                     /\ task[b].verified = [conn |-> config'[b].conn, key |-> key[b]]
    BY <2>3, <2>6 DEF AgentInv, KeysKnown, Now
  <2>7. /\ key[a] \in {0, rev[a]}
        /\ probing[a] # None => /\ probing[a].key <= rev[a]
                                /\ probing[a].key = rev[a] => key[a] = rev[a]
    BY DEF AgentInv, KeysKnown
  <2> QED
    BY <1>1, <2>1, <2>4, <2>5, <2>6, <2>7 DEF KeysKnown, Now
<1>6. AllCovered'
  <2>1. Used' = Used
    BY <1>3 DEF Used
  <2> QED
    BY <1>1, <1>3, <2>1 DEF AgentInv, AllCovered
<1> QED
  BY <1>4, <1>5, <1>6 DEF AgentInv

(* A check remembers what it was started with, and counts only for that.      *)
LEMMA AgentChecks ==
  ASSUME AgentInv, NEW a \in crew, Agent!ProbeBegin(a) \/ Agent!ProbeEnd(a)
  PROVE  AgentInv'
<1>1. UNCHANGED <<crew, date, days, trial, config, rev, key, task, charged, billed>>
  BY DEF Agent!ProbeBegin, Agent!ProbeEnd, Agent!budget
<1>2. /\ config \in [crew -> Agent!Configs] /\ key \in [crew -> Nat] /\ rev \in [crew -> Nat]
      /\ probe \in [crew -> {None} \union Checked]
      /\ probing \in [crew -> {None} \union [config : Agent!Configs, key : Nat]]
  BY DEF AgentInv, AgentTypeOK
<1>3. AllCovered'
  BY <1>1 DEF AgentInv, AllCovered, Used
<1>4. CASE Agent!ProbeBegin(a)
  <2> DEFINE p == [config |-> config[a], key |-> key[a]]
  <2>1. probe' = probe /\ probing' = [probing EXCEPT ![a] = p] /\ key[a] > 0
    BY <1>4 DEF Agent!ProbeBegin
  <2>2. p \in [config : Agent!Configs, key : Nat] /\ p.key = key[a]
    BY <1>2
  <2>3. key[a] = rev[a]
    BY <1>2, <2>1 DEF AgentInv, KeysKnown
  <2> HIDE DEF p
  <2>4. AgentTypeOK'
    BY <1>1, <1>2, <2>1, <2>2 DEF AgentInv, AgentTypeOK
  <2>5. KeysKnown'
    <3>1. probing'[a].key = key[a] /\ \A b \in crew : b # a => probing'[b] = probing[b]
      BY <1>2, <2>1, <2>2
    <3>2. key[a] <= rev[a]
      BY <1>2, <2>3
    <3> QED
      BY <1>1, <2>1, <2>3, <3>1, <3>2 DEF AgentInv, KeysKnown, Now
  <2> QED
    BY <1>3, <2>4, <2>5 DEF AgentInv
<1>5. CASE Agent!ProbeEnd(a)
  <2>1. PICK found \in {None, [conn |-> probing[a].config.conn, key |-> probing[a].key]} :
          probe' = [probe EXCEPT ![a] = IF Agent!ProbeCounts(a) THEN found ELSE @]
    BY <1>5 DEF Agent!ProbeEnd
  <2>2. probing[a] # None /\ probing' = [probing EXCEPT ![a] = None]
    BY <1>5 DEF Agent!ProbeEnd
  <2>3. probing[a].config \in Agent!Configs /\ probing[a].key \in Nat
    BY <1>2, <2>2
  <2>4. found \in {None} \union Checked
    BY <2>1, <2>3 DEF Checked, Agent!Configs
  <2>5. Agent!ProbeCounts(a) /\ found # None => found = Now(a)
    BY <2>1, <2>2 DEF Agent!ProbeCounts, AgentInv, KeysKnown, Now
  <2>6. AgentTypeOK'
    BY <1>1, <1>2, <2>1, <2>2, <2>4 DEF AgentInv, AgentTypeOK
  <2>7. KeysKnown'
    <3>1. probe'[a] # None => probe'[a] = Now(a)
      BY <1>2, <2>1, <2>5 DEF AgentInv, KeysKnown
    <3>2. probing'[a] = None /\ \A b \in crew : b # a => /\ probing'[b] = probing[b]
                                                        /\ probe'[b] = probe[b]
      BY <1>2, <2>1, <2>2
    <3> QED
      BY <1>1, <3>1, <3>2 DEF AgentInv, KeysKnown, Now
  <2> QED
    BY <1>3, <2>6, <2>7 DEF AgentInv
<1> QED
  BY <1>4, <1>5

(* A process that is started again knows of no check and no task.             *)
LEMMA AgentCrashes ==
  ASSUME AgentInv, NEW a \in crew, Agent!Crash(a)
  PROVE  AgentInv'
<1>1. /\ UNCHANGED <<crew, date, days, trial, config, rev, key, charged, billed>>
      /\ task' = [task EXCEPT ![a] = Agent!NoTask]
      /\ probe' = [probe EXCEPT ![a] = None] /\ probing' = [probing EXCEPT ![a] = None]
  BY DEF Agent!Crash, Agent!budget
<1>2. AgentTypeOK'
  BY <1>1, NoTaskIsTask DEF AgentInv, AgentTypeOK
<1>3. KeysKnown'
  <2>1. /\ task \in [crew -> Tasks] /\ probe \in [crew -> {None} \union Checked]
        /\ probing \in [crew -> {None} \union [config : Agent!Configs, key : Nat]]
    BY DEF AgentInv, AgentTypeOK
  <2>2. task'[a].pc = "idle" /\ probe'[a] = None /\ probing'[a] = None
    BY <1>1, <2>1, NoTaskIsTask
  <2>3. \A b \in crew : b # a => /\ task'[b] = task[b] /\ probe'[b] = probe[b]
                                 /\ probing'[b] = probing[b]
    BY <1>1, <2>1
  <2> QED
    BY <1>1, <2>2, <2>3 DEF AgentInv, KeysKnown, Now
<1>4. AllCovered'
  BY <1>1, NoTaskIsTask, TaskStepCovers DEF AgentInv
<1> QED
  BY <1>2, <1>3, <1>4 DEF AgentInv

(* A reservation lets a request out, or ends the task.                        *)
LEMMA ReserveEnds ==
  ASSUME NEW a \in crew, Agent!Reserve(a), \A c \in Nat : ~ Sends(a, c)
  PROVE  /\ Agent!Ends(a)
         /\ UNCHANGED <<crew, date, days, trial, config, rev, key, probe, probing, charged, billed>>
<1>1. 0..(Price + Excess) \subseteq Nat
  BY BudgetAssumption DEF Agent!BoundsAssumption
<1>2. UNCHANGED <<crew, date, config, rev, key, probe, probing>>
  BY DEF Agent!Reserve, Agent!settings
<1>3. CASE /\ Agent!Ends(a)
           /\ UNCHANGED <<Agent!budget, charged, billed>>
  BY <1>2, <1>3 DEF Agent!budget
<1>4. CASE ~ /\ Agent!Ends(a)
             /\ UNCHANGED <<Agent!budget, charged, billed>>
  <2>1. PICK c \in 0..(Price + Excess) :
          /\ Agent!Affordable(config[a], task[a].cost)
          /\ days' = [days EXCEPT ![date] = @ + Price]
          /\ trial' = Agent!Reserved(config[a])
          /\ task' = [task EXCEPT ![a].pc = "request", ![a].day = date, ![a].charge = c,
                         ![a].cost = @ + Price, ![a].requests = @ + 1,
                         ![a].late = IF task[a].stop THEN @ + 1 ELSE @]
          /\ charged' = [charged EXCEPT ![date] = @ + Agent!Least(c, Price)]
          /\ billed' = billed + Agent!Least(c, Price)
    BY <1>4 DEF Agent!Reserve
  <2>2. task' = [task EXCEPT ![a] = Sent(a, c)]
    BY <2>1 DEF Sent
  <2>3. task[a].pc = "send"
    BY DEF Agent!Reserve
  <2>4. Sends(a, c)
    BY <1>2, <2>1, <2>2, <2>3 DEF Sends
  <2> QED
    BY <1>1, <2>4
<1> QED
  BY <1>3, <1>4

(* AgentInv is kept by every step of the agents.                              *)
LEMMA AgentStep ==
  ASSUME AgentInv, Agent!Next
  PROVE  AgentInv'
<1>1. CASE Agent!NextDay
  <2>1. date' = date + 1 /\ date < MaxDay
        /\ UNCHANGED <<crew, days, trial, config, rev, key, probe, probing, task, charged, billed>>
    BY <1>1 DEF Agent!NextDay, Agent!budget, Agent!settings
  <2>2. date' \in Agent!Days
    BY <2>1, BudgetAssumption DEF AgentInv, AgentTypeOK, Agent!Days, Agent!BoundsAssumption
  <2> QED
    BY <2>1, <2>2 DEF AgentInv, AgentTypeOK, KeysKnown, AllCovered, Now, Used
<1>2. ASSUME NEW a \in crew, Agent!CredentialChanged(a) \/ Agent!ProbeBegin(a) \/ Agent!ProbeEnd(a)
                             \/ Agent!Start(a) \/ Agent!Cancel(a) \/ Agent!Crash(a)
      PROVE  AgentInv'
  BY <1>2, AgentKeyChanges, AgentChecks, AgentStarts, AgentCancels, AgentCrashes
<1>3. ASSUME NEW a \in crew, \E c \in Agent!Configs : Agent!Configure(a, c)
      PROVE  AgentInv'
  BY <1>3, AgentConfigures
<1>4. ASSUME NEW a \in crew, Agent!Reserve(a)
      PROVE  AgentInv'
  <2>1. CASE \E c \in Nat : Sends(a, c)
    BY <2>1, AgentSends
  <2>2. CASE ~ \E c \in Nat : Sends(a, c)
    <3>1. /\ Agent!Ends(a)
          /\ UNCHANGED <<crew, date, days, trial, config, rev, key, probe, probing, charged, billed>>
      BY <1>4, <2>2, ReserveEnds
    <3>2. task[a] \in Tasks /\ task \in [crew -> Tasks]
      BY DEF AgentInv, AgentTypeOK
    <3>3. TaskStep(a, Moved(task[a], "close", "FINAL"))
      BY <3>1, <3>2 DEF Agent!Ends, TaskStep, Moved
    <3> QED
      BY <3>3, TaskMoves DEF Steps
  <2> QED
    BY <2>1, <2>2
<1>5. ASSUME NEW a \in crew, Agent!Work(a)
      PROVE  AgentInv'
  BY <1>4, <1>5, AgentWorks, AgentReplies DEF Agent!Work
<1> QED
  BY <1>1, <1>2, <1>3, <1>5 DEF Agent!Next

(* What holds of the agents holds when nothing of them changes.               *)
LEMMA AgentUnchanged ==
  ASSUME AgentInv, UNCHANGED agentVars
  PROVE  AgentInv'
BY DEF AgentInv, AgentTypeOK, KeysKnown, AllCovered, Now, Used, agentVars

(* Before the first task nothing is spent, and nothing in flight.             *)
LEMMA AgentBegins ==
  ASSUME Agent!Init
  PROVE  AgentInv
<1>1. /\ date = 1 /\ days = [d \in Agent!Days |-> 0] /\ crew \in Crews
      /\ task = [a \in crew |-> Agent!NoTask] /\ probing = [a \in crew |-> None]
      /\ rev = [a \in crew |-> IF Agent!Alone THEN 0 ELSE 1] /\ key = rev
      /\ charged = [d \in Agent!Days |-> 0] /\ billed = 0
  BY DEF Agent!Init
<1>2. PICK c \in Conns, l \in [crew -> Limits] :
        /\ config = [a \in crew |-> [conn |-> c, authorized |-> ~ Agent!Alone, limit |-> l[a]]]
        /\ probe = [a \in crew |-> IF Agent!Alone THEN None ELSE [conn |-> c, key |-> 1]]
        /\ trial = IF Agent!Alone THEN None
                   ELSE [limit |-> CHOOSE m \in Agent!Range(l) : \A n \in Agent!Range(l) : m <= n,
                         used |-> 0]
  BY DEF Agent!Init
<1>3. trial \in {None} \union Experiments /\ Used = 0
  <2> DEFINE S == Agent!Range(l)
  <2>1. S \in SUBSET Nat /\ S # {}
    <3>1. crew # {} /\ Limits \subseteq Nat
      BY <1>1, BudgetAssumption DEF Agent!BoundsAssumption
    <3> QED
      BY <3>1 DEF Agent!Range
  <2> HIDE DEF S
  <2>2. PICK m \in S : \A n \in S : ~ (<<n, m>> \in OpToRel(<, Nat))
    BY <2>1, NatLessThanWellFounded, WFMin
  <2>3. \A n \in S : ~ (n < m)
    BY <2>1, <2>2 DEF OpToRel
  <2>4. \A n \in S : m <= n
    BY <2>1, <2>3
  <2>5. (CHOOSE k \in S : \A n \in S : k <= n) \in Nat
    BY <2>1, <2>4
  <2> QED
    BY <1>2, <2>5 DEF S, Experiments, Used
<1>4. AgentTypeOK
  <2>1. 1 \in Agent!Days /\ 0 \in Int /\ 0 \in Nat /\ 1 \in Nat
    BY BudgetAssumption DEF Agent!BoundsAssumption, Agent!Days
  <2>2. /\ config \in [crew -> Agent!Configs] /\ rev \in [crew -> Nat] /\ key \in [crew -> Nat]
        /\ probe \in [crew -> {None} \union Checked]
    BY <1>1, <1>2, <2>1 DEF Agent!Configs, Checked, Agent!Alone
  <2> QED
    BY <1>1, <1>3, <2>1, <2>2, NoTaskIsTask DEF AgentTypeOK
<1>5. KeysKnown
  BY <1>1, <1>2, NoTaskIsTask DEF KeysKnown, Now
<1>6. AllCovered
  <2>1. \A d \in Agent!Days : days[d] - charged[d] = 0
    BY <1>1
  <2>2. Used - billed = 0
    BY <1>1, <1>3
  <2>3. \A d : \A a \in crew : task[a].pc = "idle" /\ PendingOn(d, task[a]) = 0
                              /\ Pending(task[a]) = 0
    BY <1>1, NoTaskIsTask DEF Pending, PendingOn
  <2>4. \A d \in Agent!Days : Covers(crew, 0, [a \in crew |-> PendingOn(d, task[a])])
    BY <2>3, CoverNothing
  <2>5. Covers(crew, 0, [a \in crew |-> Pending(task[a])])
    BY <2>3, CoverNothing
  <2> QED
    BY <2>1, <2>2, <2>3, <2>4, <2>5 DEF AllCovered
<1> QED
  BY <1>4, <1>5, <1>6 DEF AgentInv

(* Only the scene of the agents changes them.                                 *)
LEMMA AgentAlone ==
  ASSUME [Next]_vars
  PROVE  Agent!Next \/ UNCHANGED agentVars
BY DEF Next, vars, In, Parts

(* The invariant of the agents holds in every reachable state.                *)
THEOREM AgentAlways == Spec => []AgentInv
<1>1. Init => AgentInv
  BY AgentBegins DEF Init
<1>2. AgentInv /\ [Next]_vars => AgentInv'
  BY AgentAlone, AgentStep, AgentUnchanged
<1> QED
  BY <1>1, <1>2, PTL DEF Spec

(* At every moment, through crashes and cancellations, the file accounts for  *)
(* all that the provider may have charged of the price of the requests.       *)
THEOREM ChargesAreCovered == Spec => []ChargesCovered
<1>1. AgentInv => ChargesCovered
  <2> SUFFICES ASSUME AgentInv
               PROVE  Agent!ChargesCovered
    BY DEF ChargesCovered
  <2>1. /\ days \in [Agent!Days -> Int] /\ charged \in [Agent!Days -> Nat]
        /\ Used \in Int /\ billed \in Nat
    BY DEF AgentInv, AgentTypeOK, Used, Experiments
  <2>2. ASSUME NEW d \in Agent!Days
        PROVE  days[d] - charged[d] >= 0
    <3>1. days[d] - charged[d] \in Int
      BY <2>1
    <3>2. Covers(crew, days[d] - charged[d], [a \in crew |-> PendingOn(d, task[a])])
      BY DEF AgentInv, AllCovered
    <3> QED
      BY <3>1, <3>2, CoverBound
  <2>3. Used - billed >= 0
    BY <2>1, CoverBound DEF AgentInv, AllCovered
  <2> QED
    BY <2>1, <2>2, <2>3 DEF Agent!ChargesCovered, Used
<1> QED
  BY <1>1, AgentAlways, PTL

(* Only a reservation lets out one request more.                              *)
NoneMore == \A b \in crew : ~ (task'[b].requests > task[b].requests)
LEMMA OnlySendsAdd ==
  ASSUME AgentInv, Agent!Next, \A a \in crew, c \in Nat : ~ Sends(a, c)
  PROVE  NoneMore
<1>1. task \in [crew -> Tasks] /\ \A a \in crew : task[a] \in Tasks /\ task[a].requests \in Nat
  BY DEF AgentInv, AgentTypeOK, Tasks
<1>2. Agent!NoTask.requests = 0
  BY DEF Agent!NoTask
<1>3. task' = task => NoneMore
  BY <1>1 DEF NoneMore
<1>4. ASSUME NEW a \in crew, NEW w, task' = [task EXCEPT ![a] = w],
             w.requests = 0 \/ w.requests = task[a].requests
      PROVE  NoneMore
  BY <1>1, <1>4 DEF NoneMore
<1>5. ASSUME NEW a \in crew, task' = [task EXCEPT ![a] = Agent!NoTask]
      PROVE  NoneMore
  BY <1>2, <1>4, <1>5
<1>6. ASSUME NEW a \in crew, NEW pc, NEW status,
             task' = [task EXCEPT ![a] = Moved(task[a], pc, status)]
      PROVE  NoneMore
  <2>1. Moved(task[a], pc, status).requests = task[a].requests
    BY <1>1 DEF Moved, Tasks
  <2> QED
    BY <1>4, <1>6, <2>1
<1>7. ASSUME NEW a \in crew, Agent!Ends(a)
      PROVE  NoneMore
  <2>1. task' = [task EXCEPT ![a] = Moved(task[a], "close", "FINAL")]
    BY <1>1, <1>7 DEF Agent!Ends, Moved
  <2> QED
    BY <1>6, <2>1
<1>8. ASSUME NEW a \in crew, NEW pc, Agent!Goes(a, pc)
      PROVE  NoneMore
  <2>1. task' = [task EXCEPT ![a] = Moved(task[a], pc, task[a].status)]
    BY <1>1, <1>8 DEF Agent!Goes, Moved, Tasks
  <2> QED
    BY <1>6, <2>1
<1>9. CASE Agent!NextDay \/ \E a \in crew : \/ Agent!CredentialChanged(a) \/ Agent!ProbeBegin(a)
                                            \/ Agent!ProbeEnd(a)
                                            \/ \E c \in Agent!Configs : Agent!Configure(a, c)
  BY <1>3, <1>9 DEF Agent!NextDay, Agent!CredentialChanged, Agent!ProbeBegin, Agent!ProbeEnd,
     Agent!Configure
<1>10. ASSUME NEW a \in crew, Agent!Start(a)
       PROVE  NoneMore
  <2> DEFINE w == [Agent!NoTask EXCEPT !.pc = "queued", !.status = "QUEUED", !.verified = probe[a]]
  <2>1. w.requests = 0
    BY NoTaskIsTask, <1>2 DEF Tasks
  <2>2. task' = [task EXCEPT ![a] = w]
    BY <1>10 DEF Agent!Start
  <2> HIDE DEF w
  <2> QED
    BY <1>4, <2>1, <2>2
<1>11. ASSUME NEW a \in crew, Agent!Crash(a) \/ Agent!Finally(a)
       PROVE  NoneMore
  BY <1>5, <1>11 DEF Agent!Crash, Agent!Finally
<1>12. ASSUME NEW a \in crew, Agent!Cancel(a)
       PROVE  NoneMore
  <2> DEFINE w == [task[a] EXCEPT !.status = "CANCELLING", !.stop = TRUE]
  <2>1. task' = [task EXCEPT ![a] = w]
    BY <1>1, <1>12 DEF Agent!Cancel
  <2>2. w.requests = task[a].requests
    BY <1>1 DEF Tasks
  <2> HIDE DEF w
  <2> QED
    BY <1>4, <2>1, <2>2
<1>13. ASSUME NEW a \in crew, Agent!Interrupted(a)
       PROVE  NoneMore
  <2> DEFINE w == [task[a] EXCEPT !.pc = "close", !.status = "FINAL", !.charge = 0]
  <2>1. task' = [task EXCEPT ![a] = w]
    BY <1>1, <1>13 DEF Agent!Interrupted
  <2>2. w.requests = task[a].requests
    BY <1>1 DEF Tasks
  <2> HIDE DEF w
  <2> QED
    BY <1>4, <2>1, <2>2
<1>14. ASSUME NEW a \in crew, Agent!Reply(a)
       PROVE  NoneMore
  <2>1. PICK cost, pc, status :
          task' = [task EXCEPT ![a].cost = cost, ![a].charge = 0, ![a].pc = pc,
                               ![a].status = status]
    <3>1. PICK usage :
            task' = [task EXCEPT
              ![a].cost = IF usage = None THEN @ ELSE @ - Price + usage,
              ![a].charge = 0,
              ![a].pc = IF usage # None /\ usage > Price THEN "close" ELSE "answer",
              ![a].status = IF usage # None /\ usage > Price THEN "FINAL" ELSE @]
      BY <1>14 DEF Agent!Reply
    <3>2. CASE usage # None /\ usage > Price
      BY <1>1, <3>1, <3>2
    <3>3. CASE ~ (usage # None /\ usage > Price)
      BY <1>1, <3>1, <3>3
    <3> QED
      BY <3>2, <3>3
  <2> DEFINE w == [task[a] EXCEPT !.cost = cost, !.charge = 0, !.pc = pc, !.status = status]
  <2>2. task' = [task EXCEPT ![a] = w]
    BY <1>1, <2>1
  <2>3. w.requests = task[a].requests
    BY <1>1 DEF Tasks
  <2> HIDE DEF w
  <2> QED
    BY <1>4, <2>2, <2>3
<1>15. ASSUME NEW a \in crew, Agent!Reserve(a)
       PROVE  NoneMore
  <2>1. Agent!Ends(a)
    BY <1>15, ReserveEnds
  <2> QED
    BY <1>7, <2>1
<1>16. ASSUME NEW a \in crew, Agent!Preflight(a) \/ Agent!Loop(a) \/ Agent!Answer(a)
       PROVE  NoneMore
  <2>1. \/ Agent!Ends(a)
        \/ \E pc : Agent!Goes(a, pc)
        \/ \E pc : task' = [task EXCEPT ![a].pc = pc, ![a].status = "RUNNING"]
    BY <1>16 DEF Agent!Preflight, Agent!Loop, Agent!Answer
  <2>2. ASSUME NEW pc, task' = [task EXCEPT ![a].pc = pc, ![a].status = "RUNNING"]
        PROVE  NoneMore
    <3>1. task' = [task EXCEPT ![a] = Moved(task[a], pc, "RUNNING")]
      BY <1>1, <2>2 DEF Moved
    <3> QED
      BY <1>6, <3>1
  <2> QED
    BY <1>7, <1>8, <2>1, <2>2
<1> QED
  BY <1>9, <1>10, <1>11, <1>12, <1>13, <1>14, <1>15, <1>16 DEF Agent!Next, Agent!Work

(* The experiment changes with new settings, a reservation or a usage.        *)
LEMMA OnlyTheseSpend ==
  ASSUME Agent!Next, trial' # trial, \A a \in crew, c \in Nat : ~ Sends(a, c)
  PROVE  \E a \in crew : Agent!Reply(a) \/ \E c \in Agent!Configs : Agent!Configure(a, c)
<1>1. ASSUME NEW a \in crew, Agent!Reserve(a)
      PROVE  FALSE
  BY <1>1, ReserveEnds
<1> QED
  BY <1>1 DEF Agent!Next, Agent!NextDay, Agent!CredentialChanged, Agent!ProbeBegin, Agent!ProbeEnd,
     Agent!Start, Agent!Cancel, Agent!Crash, Agent!Work, Agent!Preflight, Agent!Loop, Agent!Answer,
     Agent!Interrupted, Agent!Finally, Agent!budget

(* CallsVerified: a request goes out only over the connection and with the    *)
(* key that a check found good before its task was started.                   *)
THEOREM CallsAreVerified == Spec => CallsVerified
<1> DEFINE Good == \A a \in crew : task'[a].requests > task[a].requests =>
                      task[a].verified = [conn |-> config[a].conn, key |-> key[a]]
<1>1. AgentInv /\ [Next]_vars => [Good]_(Agent!vars)
  <2> SUFFICES ASSUME AgentInv, [Next]_vars
               PROVE  [Good]_(Agent!vars)
    OBVIOUS
  <2>1. CASE UNCHANGED agentVars
    BY <2>1 DEF agentVars, Agent!vars, Agent!budget, Agent!settings
  <2>2. CASE Agent!Next
    <3> SUFFICES ASSUME NEW a \in crew, task'[a].requests > task[a].requests
                 PROVE  task[a].verified = Now(a)
      BY DEF Now
    <3>1. task[a].requests \in Nat /\ task[a] \in Tasks /\ task \in [crew -> Tasks]
      BY DEF AgentInv, AgentTypeOK, Tasks
    <3>2. ~ NoneMore
      BY DEF NoneMore
    <3>3. PICK b \in crew, c \in Nat : Sends(b, c)
      BY <2>2, <3>2, OnlySendsAdd
    <3>4. b = a
      BY <3>1, <3>3 DEF Sends
    <3> QED
      BY <3>3, <3>4 DEF Sends, AgentInv, KeysKnown
  <2> QED
    BY <2>1, <2>2, AgentAlone
<1> QED
  BY <1>1, AgentAlways, PTL DEF Spec, CallsVerified, Agent!CallsVerified

(* What a step must respect of the recorded limits.                           *)
CeilingKept == trial # None => trial' # None /\ trial'.limit <= trial.limit
SpentKept == trial # None /\ trial'.used < trial.used =>
                \E a \in crew : task[a].pc = "request" /\ task[a].charge < Price
Within == (\E a \in crew : task'[a].requests > task[a].requests) =>
             trial'.used <= trial'.limit /\ days'[date] <= Daily
Respected == CeilingKept /\ SpentKept /\ Within

(* A request that is sent fits under every recorded limit.                    *)
LEMMA SendsWithin ==
  ASSUME AgentInv, NEW a \in crew, NEW c \in Nat, Sends(a, c)
  PROVE  Respected
<1>1. /\ AgentTypeOK /\ config[a] \in Agent!Configs /\ config[a].limit \in Limits
      /\ date \in Agent!Days /\ days \in [Agent!Days -> Int]
  BY DEF AgentInv, AgentTypeOK, Agent!Configs
<1>2. Price \in Nat /\ Daily \in Nat
  BY BudgetAssumption DEF Agent!BoundsAssumption
<1>3. /\ Agent!Approved(config[a].limit) \in Experiments
      /\ trial # None => Agent!Approved(config[a].limit).limit <= trial.limit
      /\ Agent!Trial(config[a].limit).used = Used
  BY <1>1, ApprovedExperiment
<1>4. /\ trial' # None /\ trial' \in Experiments /\ trial'.used = Used + Price
      /\ trial'.limit = Agent!Approved(config[a].limit).limit
  BY <1>1, ReservedExperiment DEF Sends
<1>5. /\ Used + Price <= Agent!Approved(config[a].limit).limit
      /\ days[date] + Price <= Daily /\ days'[date] = days[date] + Price
  BY <1>1, <1>3 DEF Sends, Agent!Affordable
<1>6. CeilingKept
  BY <1>3, <1>4 DEF CeilingKept
<1>7. SpentKept
  <2>1. trial # None => Used = trial.used /\ trial.used \in Int
    BY <1>1 DEF Used, AgentTypeOK, Experiments
  <2> QED
    BY <1>2, <1>4, <2>1 DEF SpentKept
<1>8. Within
  BY <1>4, <1>5 DEF Within
<1> QED
  BY <1>6, <1>7, <1>8 DEF Respected

(* So does every other step, which sends none.                                *)
LEMMA OthersWithin ==
  ASSUME AgentInv, Agent!Next, \A a \in crew, c \in Nat : ~ Sends(a, c)
  PROVE  Respected
<1>1. Price \in Nat /\ None \notin Experiments
  BY BudgetAssumption DEF Agent!BoundsAssumption, Experiments
<1>2. AgentTypeOK /\ (trial # None => trial \in Experiments /\ Used = trial.used)
  BY DEF AgentInv, AgentTypeOK, Used
<1>3. Within
  BY OnlySendsAdd DEF Within, NoneMore
<1>4. CASE trial' = trial
  BY <1>2, <1>3, <1>4 DEF Respected, CeilingKept, SpentKept, Experiments
<1>5. ASSUME NEW a \in crew, NEW c \in Agent!Configs, Agent!Configure(a, c)
      PROVE  Respected
  <2>1. c.limit \in Limits /\ trial' = Agent!Approved(c.limit)
    BY <1>5 DEF Agent!Configs, Agent!Configure
  <2>2. /\ trial' \in Experiments /\ trial' # None /\ trial'.used = Used
        /\ trial # None => trial'.limit <= trial.limit
    BY <1>2, <2>1, ApprovedExperiment
  <2> QED
    BY <1>2, <1>3, <2>2 DEF Respected, CeilingKept, SpentKept, Experiments
<1>6. ASSUME NEW a \in crew, Agent!Reply(a), trial' # trial
      PROVE  Respected
  <2>1. PICK usage \in {None, task[a].charge} : trial' = Agent!SettledTrial(usage)
    BY <1>6 DEF Agent!Reply
  <2>2. /\ usage = task[a].charge /\ trial' = [trial EXCEPT !.used = @ - Price + usage]
    BY <1>6, <2>1 DEF Agent!SettledTrial
  <2>3. /\ task[a].pc = "request" /\ trial \in Experiments /\ usage \in Nat
    BY <1>2, <1>6, <2>2 DEF Agent!Reply, AgentInv, AllCovered, AgentTypeOK, Tasks
  <2>4. /\ trial' \in Experiments /\ trial'.limit = trial.limit
        /\ trial'.used = trial.used - Price + usage /\ trial.used \in Int /\ trial.limit \in Nat
    BY <1>1, <2>2, <2>3 DEF Experiments
  <2>5. CeilingKept
    BY <1>1, <2>4 DEF CeilingKept
  <2>6. trial'.used < trial.used => task[a].charge < Price
    BY <1>1, <2>2, <2>3, <2>4
  <2>7. SpentKept
    BY <2>3, <2>6 DEF SpentKept
  <2> QED
    BY <1>3, <2>5, <2>7 DEF Respected
<1> QED
  BY <1>4, <1>5, <1>6, OnlyTheseSpend

(* LimitsHold: a recorded ceiling is never raised, spending is forgotten for  *)
(* a smaller usage only, and a request is sent only within every limit.       *)
THEOREM LimitsAreKept == Spec => LimitsHold
<1>1. AgentInv /\ [Next]_vars => [Respected]_(Agent!vars)
  <2> SUFFICES ASSUME AgentInv, [Next]_vars
               PROVE  [Respected]_(Agent!vars)
    OBVIOUS
  <2>1. CASE UNCHANGED agentVars
    BY <2>1 DEF agentVars, Agent!vars, Agent!budget, Agent!settings
  <2>2. CASE Agent!Next
    BY <2>2, SendsWithin, OthersWithin
  <2> QED
    BY <2>1, <2>2, AgentAlone
<1> QED
  BY <1>1, AgentAlways, PTL
     DEF Spec, LimitsHold, Agent!LimitsHold, Respected, CeilingKept, SpentKept, Within

------------------------------------------------------------------------------
(* The refresh of public risk, as a specification of its own.              *)

(* Of two maps of levels, the second knows what is adverse in the first,   *)
(* and as severely.                                                        *)
AsSevere(old, new) ==
    \A s \in DOMAIN old :
        old[s] \in Adverse => /\ s \in DOMAIN new /\ new[s] \in Adverse
                              /\ old[s] = "BLOCKED" => new[s] = "BLOCKED"

(* What is shown as adverse is in the store. *)
ShownIsKept == AsSevere(shown.levels, kept)

(* _retain_adverse_evidence: the maps it returns are as severe as the old. *)
LEMMA RetainedSevere ==
  ASSUME NEW old, NEW new
  PROVE  AsSevere(old, Retained(old, new))
<1> DEFINE bad == {s \in DOMAIN old : old[s] \in Adverse}
           all == Retained(old, new)
<1>1. SUFFICES ASSUME NEW s \in DOMAIN old, old[s] \in Adverse
               PROVE  /\ s \in DOMAIN all /\ all[s] \in Adverse
                      /\ old[s] = "BLOCKED" => all[s] = "BLOCKED"
  BY DEF AsSevere
<1>2. s \in bad
  BY <1>1
<1>3. s \in DOMAIN all /\ all[s] = IF s \in DOMAIN new THEN Severer(old[s], new[s]) ELSE old[s]
  BY <1>2 DEF Retained
<1>4. CASE s \in DOMAIN new
  BY <1>1, <1>3, <1>4 DEF Severer, Adverse
<1>5. CASE s \notin DOMAIN new
  BY <1>1, <1>3, <1>5
<1> QED
  BY <1>4, <1>5

(* Severity is kept along two steps. *)
LEMMA SevereTransitive ==
  ASSUME NEW a, NEW b, NEW c, AsSevere(a, b), AsSevere(b, c)
  PROVE  AsSevere(a, c)
BY DEF AsSevere

(* Each map is as severe as itself. *)
LEMMA SevereReflexive ==
  ASSUME NEW a
  PROVE  AsSevere(a, a)
BY DEF AsSevere

(* A step publishes what is kept, or leaves what is shown, and what is     *)
(* kept only grows more severe.                                            *)
LEMMA StepKinds ==
  ASSUME [RiskNext]_riskVars
  PROVE  \/ shown'.levels = kept /\ kept' = kept
         \/ shown' = shown /\ AsSevere(kept, kept')
<1>1. CASE \E symbols \in SUBSET Symbols : Change(symbols)
  BY <1>1, SevereReflexive DEF Change
<1>2. CASE Request
  BY <1>2, SevereReflexive DEF Request
<1>3. CASE Ask
  BY <1>3, SevereReflexive DEF Ask
<1>4. CASE \E companies, refused \in SUBSET Symbols : Learn(companies, refused)
  BY <1>4, RetainedSevere DEF Learn
<1>5. CASE Miss
  BY <1>5, SevereReflexive DEF Miss
<1>6. CASE Publish
  BY <1>6 DEF Publish
<1>7. CASE Wake
  BY <1>7, SevereReflexive DEF Wake
<1>8. CASE Restart
  BY <1>8 DEF Restart, Begin
<1>9. CASE \E s \in Symbols : News(s)
  BY <1>9, SevereReflexive DEF News
<1>10. CASE UNCHANGED riskVars
  BY <1>10, SevereReflexive DEF riskVars
<1> QED
  BY <1>1, <1>2, <1>3, <1>4, <1>5, <1>6, <1>7, <1>8, <1>9, <1>10 DEF RiskNext, RiskWork

(* The invariant is inductive. *)
LEMMA ShownIsKeptInductive ==
  ASSUME ShownIsKept, [RiskNext]_riskVars
  PROVE  ShownIsKept'
<1>1. CASE shown'.levels = kept /\ kept' = kept
  BY <1>1, SevereReflexive DEF ShownIsKept
<1>2. CASE shown' = shown /\ AsSevere(kept, kept')
  BY <1>2, SevereTransitive DEF ShownIsKept
<1> QED
  BY <1>1, <1>2, StepKinds

(* What is shown after a step is as severe as what was shown before it.    *)
LEMMA ShownSevere ==
  ASSUME ShownIsKept, [RiskNext]_riskVars
  PROVE  AsSevere(shown.levels, shown'.levels)
<1>1. CASE shown'.levels = kept /\ kept' = kept
  BY <1>1 DEF ShownIsKept
<1>2. CASE shown' = shown /\ AsSevere(kept, kept')
  BY <1>2, SevereReflexive
<1> QED
  BY <1>1, <1>2, StepKinds

(* effective_risk_assessment: an adverse level of the published snapshot   *)
(* is shown whatever the status, and what is shown as adverse is in it.    *)
LEMMA ViewAdverse ==
  ASSUME NEW s
  PROVE  /\ View(s) \in Adverse =>
                s \in DOMAIN shown.levels /\ View(s) = shown.levels[s]
         /\ s \in DOMAIN shown.levels /\ shown.levels[s] \in Adverse =>
                View(s) = shown.levels[s]
BY DEF View, Adverse

(* The view of the next state, likewise. *)
LEMMA ViewAdverseNext ==
  ASSUME NEW s
  PROVE  s \in DOMAIN shown'.levels /\ shown'.levels[s] \in Adverse =>
             View(s)' = shown'.levels[s]
BY DEF View, Adverse

(* One step never improves what is shown as adverse. *)
LEMMA AdverseStep ==
  ASSUME ShownIsKept, [RiskNext]_riskVars, NEW s \in Symbols
  PROVE  /\ View(s) = "BLOCKED" => View(s)' = "BLOCKED"
         /\ View(s) = "REVIEW" => View(s)' \in Adverse
<1>1. AsSevere(shown.levels, shown'.levels)
  BY ShownSevere
<1>2. SUFFICES ASSUME View(s) \in Adverse
               PROVE  View(s)' \in Adverse /\ (View(s) = "BLOCKED" => View(s)' = "BLOCKED")
  BY DEF Adverse
<1>3. s \in DOMAIN shown.levels /\ shown.levels[s] = View(s)
  BY <1>2, ViewAdverse
<1>4. /\ s \in DOMAIN shown'.levels /\ shown'.levels[s] \in Adverse
      /\ View(s) = "BLOCKED" => shown'.levels[s] = "BLOCKED"
  BY <1>1, <1>2, <1>3 DEF AsSevere
<1> QED
  BY <1>4, ViewAdverseNext

(* Whatever is shown as adverse is in the store as severely, in every      *)
(* reachable state: a publication, or a restart that reads the file, can   *)
(* then only repeat or raise it.                                           *)
THEOREM ShownAlwaysKept == RiskSpec => []ShownIsKept
<1>1. RiskInit => ShownIsKept
  BY DEF RiskInit, ShownIsKept, AsSevere, Nothing
<1> QED
  BY <1>1, ShownIsKeptInductive, PTL DEF RiskSpec

(* AdverseStays: what was shown as blocked stays blocked, and what was     *)
(* under review is never shown as clear, through failed and partial        *)
(* refreshes, changes of the symbols and restarts.                         *)
THEOREM AdverseKept == RiskSpec => AdverseStays
<1> DEFINE Kept(s) == /\ View(s) = "BLOCKED" => View(s)' = "BLOCKED"
                      /\ View(s) = "REVIEW" => View(s)' \in Adverse
<1>1. ShownIsKept /\ [RiskNext]_riskVars => [\A s \in Symbols : Kept(s)]_riskVars
  BY AdverseStep
<1> QED
  BY <1>1, ShownAlwaysKept, PTL DEF RiskSpec, AdverseStays

------------------------------------------------------------------------------
(* The realtime quotes.                                                    *)

(* A quote was recorded when it was exchanged, or an instant later; what a    *)
(* provider answers is marked by nobody.                                      *)
Timely(q) == /\ q \in [ts : Nat, rec : Nat, stale : BOOLEAN]
             /\ q.ts <= q.rec /\ q.rec <= q.ts + 1
AllTimely(quotes) == \A s \in DOMAIN quotes : Timely(quotes[s]) /\ ~ quotes[s].stale
QuotesTimely ==
    /\ \A s \in DOMAIN store : Timely(store[s])
    /\ snap # None => AllTimely(snap.quotes)
    /\ pending # None /\ pending.ok => AllTimely(pending.quotes)

(* A poll judges by the instant it began at.                                  *)
PollKnown ==
    /\ now \in Nat
    /\ poll = [pc |-> poll.pc, now |-> poll.now, prio |-> poll.prio, tick |-> poll.tick]
    /\ poll.now \in Nat /\ poll.now <= now
    /\ \A s \in DOMAIN lastSeen : lastSeen[s] \in Nat

(* A quote of the store that is not marked stale is the newest accepted one   *)
(* of its symbol, or too old to be handed to anybody.                         *)
NewestOrOld(q, s, seen, at) ==
    ~ q.stale => /\ s \in DOMAIN seen /\ q.ts <= seen[s]
                 /\ q.ts = seen[s] \/ at - q.ts > StaleAfter
StoreNewest == \A s \in DOMAIN store : NewestOrOld(store[s], s, lastSeen, now)

QuotesInv == QuotesTimely /\ PollKnown /\ StoreNewest
(* The instants are numbers. *)
LEMMA StaleAfterNat == StaleAfter \in Nat
BY QuotesAssumption DEF Quotes!QuotesAssumption

(* A verdict that is not usable has no fresh quote. *)
LEMMA UnusableIsOld ==
  ASSUME NEW quotes, NEW expected, NEW at, ~ Quotes!Usable(Quotes!Assess(quotes, expected, at))
  PROVE  Quotes!FreshOf(quotes, at) = {}
<1> SUFFICES ASSUME Quotes!FreshOf(quotes, at) # {}
             PROVE  FALSE
  OBVIOUS
<1>1. DOMAIN quotes # {}
  BY DEF Quotes!FreshOf
<1>2. Quotes!Assess(quotes, expected, at) \in {"GOOD", "DEGRADED"}
  BY <1>1 DEF Quotes!Assess
<1> QED
  BY <1>2 DEF Quotes!Usable

(* _check_quotes: the times that are remembered never go back, what is kept   *)
(* has the time that is remembered, and of what is not kept the time is the   *)
(* earlier one, or too old.                                                   *)
Forward(seen) ==
    /\ \A s \in DOMAIN lastSeen : s \in DOMAIN seen /\ seen[s] >= lastSeen[s]
    /\ \A s \in DOMAIN seen : seen[s] \in Nat
KeptSeen(some, seen) ==
    \A s \in DOMAIN some :
       /\ Timely(some[s]) /\ ~ some[s].stale
       /\ s \in DOMAIN seen /\ seen[s] = some[s].ts
LEMMA JudgedQuotes ==
  ASSUME PollKnown, NEW quotes, AllTimely(quotes)
  PROVE  LET seen == Quotes!Seen(quotes, poll.now)
             some == Quotes!Kept(quotes, poll.now)
         IN  /\ Forward(seen) /\ KeptSeen(some, seen)
             /\ \A s \in DOMAIN seen \ DOMAIN some :
                   (s \in DOMAIN lastSeen /\ seen[s] = lastSeen[s]) \/ now - seen[s] > StaleAfter
             /\ ~ Quotes!Usable(Quotes!Judge(quotes, poll.now)) => DOMAIN some = {}
<1> DEFINE seen == Quotes!Seen(quotes, poll.now)
           some == Quotes!Kept(quotes, poll.now)
           checked == Quotes!Checked(quotes, poll.now)
           Bad(s) == Quotes!Rejected(s, quotes[s], poll.now)
<1>1. /\ DOMAIN checked = DOMAIN quotes
      /\ \A s \in DOMAIN quotes : checked[s] = IF Bad(s) THEN Quotes!Stale(quotes[s]) ELSE quotes[s]
  BY DEF Quotes!Checked
<1>2. \A s \in DOMAIN quotes : Bad(s) => checked[s].stale
  <2> SUFFICES ASSUME NEW s \in DOMAIN quotes, Bad(s)
               PROVE  checked[s].stale
    OBVIOUS
  <2>1. quotes[s] \in [ts : Nat, rec : Nat, stale : BOOLEAN]
    BY DEF AllTimely, Timely
  <2>2. checked[s] = [quotes[s] EXCEPT !.stale = TRUE]
    BY <1>1 DEF Quotes!Stale
  <2> QED
    BY <2>1, <2>2
<1>3. /\ DOMAIN seen = DOMAIN lastSeen \cup {s \in DOMAIN quotes : ~ Bad(s)}
      /\ \A s \in DOMAIN seen : seen[s] = IF s \in DOMAIN quotes /\ ~ Bad(s) THEN quotes[s].ts ELSE lastSeen[s]
  BY DEF Quotes!Seen
<1>4. \A s \in DOMAIN quotes : Timely(quotes[s]) /\ quotes[s].ts \in Nat /\ ~ quotes[s].stale
  BY DEF AllTimely, Timely
<1>5. \A s \in DOMAIN quotes : ~ Bad(s) =>
         /\ ~ (quotes[s].ts > poll.now)
         /\ ~ (s \in DOMAIN lastSeen /\ quotes[s].ts < lastSeen[s])
  BY DEF Quotes!Rejected
<1>6. /\ DOMAIN some = {s \in DOMAIN checked : Quotes!Fresh(checked[s], poll.now)}
      /\ \A s \in DOMAIN some : some[s] = checked[s]
  BY DEF Quotes!Kept, Quotes!FreshOf, Quotes!Restrict
<1>7. ~ Quotes!Usable(Quotes!Judge(quotes, poll.now)) => DOMAIN some = {}
  BY <1>6, UnusableIsOld DEF Quotes!Judge, Quotes!FreshOf
<1>8. /\ now \in Nat /\ poll.now \in Nat /\ poll.now <= now /\ StaleAfter \in Nat
      /\ \A s \in DOMAIN lastSeen : lastSeen[s] \in Nat
  BY StaleAfterNat DEF PollKnown
<1> HIDE DEF seen, some, checked, Bad
<1>9. Forward(seen)
  BY <1>3, <1>4, <1>5, <1>8 DEF Forward
<1>10. \A s \in DOMAIN some : s \in DOMAIN quotes /\ ~ checked[s].stale /\ ~ Bad(s) /\ some[s] = quotes[s]
  BY <1>1, <1>2, <1>6 DEF Quotes!Fresh
<1>11. KeptSeen(some, seen)
  BY <1>1, <1>3, <1>4, <1>6, <1>10 DEF KeptSeen
<1>12. ASSUME NEW s \in DOMAIN seen \ DOMAIN some
       PROVE  (s \in DOMAIN lastSeen /\ seen[s] = lastSeen[s]) \/ now - seen[s] > StaleAfter
  <2>1. CASE s \in DOMAIN quotes /\ ~ Bad(s)
    <3>1. checked[s] = quotes[s] /\ seen[s] = quotes[s].ts /\ quotes[s].ts <= poll.now
      BY <1>1, <1>3, <1>4, <1>5, <1>8, <2>1
    <3>2. ~ Quotes!Fresh(quotes[s], poll.now)
      BY <1>1, <1>6, <2>1, <3>1
    <3>3. ~ (poll.now - quotes[s].ts <= StaleAfter)
      BY <1>4, <2>1, <3>1, <3>2 DEF Quotes!Fresh
    <3> QED
      BY <1>4, <1>8, <2>1, <3>1, <3>3
  <2>2. CASE ~ (s \in DOMAIN quotes /\ ~ Bad(s))
    BY <1>3, <2>2
  <2> QED
    BY <2>1, <2>2
<1> QED
  BY <1>7, <1>9, <1>11, <1>12 DEF seen, some
(* put_quotes: an answer that is recorded earlier than what the store has of  *)
(* a symbol is not newer than it.                                             *)
LEMMA PutNewest ==
  ASSUME PollKnown, QuotesTimely, StoreNewest, NEW seen, NEW some,
         Forward(seen), KeptSeen(some, seen),
         \A s \in DOMAIN seen \ DOMAIN some :
            (s \in DOMAIN lastSeen /\ seen[s] = lastSeen[s]) \/ now - seen[s] > StaleAfter
  PROVE  LET put == Quotes!Put(some)
         IN  /\ \A s \in DOMAIN put : Timely(put[s]) /\ NewestOrOld(put[s], s, seen, now)
             /\ \A s \in DOMAIN some : NewestOrOld(some[s], s, seen, now)
             /\ DOMAIN some = {} => \A s \in DOMAIN store : NewestOrOld(store[s], s, seen, now)
<1> DEFINE put == Quotes!Put(some)
<1>1. /\ DOMAIN put = DOMAIN store \cup DOMAIN some
      /\ \A s \in DOMAIN put :
            \/ s \in DOMAIN some /\ put[s] = some[s]
            \/ /\ s \in DOMAIN store /\ put[s] = store[s]
               /\ s \in DOMAIN some => ~ (some[s].rec >= store[s].rec)
  BY DEF Quotes!Put, Quotes!Newer
<1>2. /\ now \in Nat /\ StaleAfter \in Nat
      /\ \A s \in DOMAIN lastSeen : lastSeen[s] \in Nat
      /\ \A s \in DOMAIN seen : seen[s] \in Nat
      /\ \A s \in DOMAIN lastSeen : s \in DOMAIN seen /\ lastSeen[s] <= seen[s]
  BY StaleAfterNat DEF PollKnown, Forward
<1>3. \A s \in DOMAIN some : NewestOrOld(some[s], s, seen, now)
  BY <1>2 DEF KeptSeen, NewestOrOld
<1>4. ASSUME NEW s \in DOMAIN store, s \notin DOMAIN some
      PROVE  NewestOrOld(store[s], s, seen, now)
  <2> SUFFICES ASSUME ~ store[s].stale
               PROVE  /\ s \in DOMAIN seen /\ store[s].ts <= seen[s]
                      /\ store[s].ts = seen[s] \/ now - store[s].ts > StaleAfter
    BY DEF NewestOrOld
  <2>1. /\ s \in DOMAIN lastSeen /\ store[s].ts <= lastSeen[s] /\ store[s].ts \in Nat
        /\ store[s].ts = lastSeen[s] \/ now - store[s].ts > StaleAfter
    BY DEF StoreNewest, NewestOrOld, QuotesTimely, Timely
  <2>2. s \in DOMAIN seen /\ lastSeen[s] <= seen[s] /\ lastSeen[s] \in Nat /\ seen[s] \in Nat
    BY <1>2, <2>1
  <2>3. seen[s] = lastSeen[s] \/ now - seen[s] > StaleAfter
    BY <1>4, <2>2
  <2> QED
    BY <1>2, <2>1, <2>2, <2>3
<1>5. ASSUME NEW s \in DOMAIN store, s \in DOMAIN some, ~ (some[s].rec >= store[s].rec)
      PROVE  NewestOrOld(store[s], s, seen, now)
  <2> SUFFICES ASSUME ~ store[s].stale
               PROVE  /\ s \in DOMAIN seen /\ store[s].ts <= seen[s]
                      /\ store[s].ts = seen[s]
    BY DEF NewestOrOld
  <2>1. /\ s \in DOMAIN lastSeen /\ store[s].ts <= lastSeen[s] /\ store[s].ts \in Nat
        /\ store[s].rec \in Nat /\ store[s].ts <= store[s].rec /\ store[s].rec <= store[s].ts + 1
    BY DEF StoreNewest, NewestOrOld, QuotesTimely, Timely
  <2>2. s \in DOMAIN seen /\ lastSeen[s] <= seen[s] /\ lastSeen[s] \in Nat
    BY <1>2, <2>1
  <2>3. seen[s] = some[s].ts /\ some[s].ts \in Nat /\ some[s].rec \in Nat /\ some[s].ts <= some[s].rec
    BY <1>5 DEF KeptSeen, Timely
  <2> QED
    BY <1>5, <2>1, <2>2, <2>3
<1>6. ASSUME NEW s \in DOMAIN put
      PROVE  Timely(put[s]) /\ NewestOrOld(put[s], s, seen, now)
  <2>1. Timely(put[s])
    BY <1>1 DEF KeptSeen, QuotesTimely
  <2>2. NewestOrOld(put[s], s, seen, now)
    BY <1>1, <1>3, <1>4, <1>5
  <2> QED
    BY <2>1, <2>2
<1> HIDE DEF put
<1> QED
  BY <1>3, <1>4, <1>6 DEF put

(* What a poll stores of an answer, and what it then remembers.               *)
Stores(quotes) ==
    LET verdict == Quotes!Judge(quotes, poll.now)
        some == Quotes!Kept(quotes, poll.now)
    IN  /\ lastSeen' = Quotes!Seen(quotes, poll.now)
        /\ IF Quotes!Usable(verdict) THEN store' \in {some, Quotes!Put(some)} ELSE store' = store
LEMMA StoredNewest ==
  ASSUME QuotesInv, NEW quotes, AllTimely(quotes), Stores(quotes), now' = now
  PROVE  /\ Forward(lastSeen') /\ StoreNewest'
         /\ \A s \in DOMAIN store' : Timely(store'[s])
<1> DEFINE seen == Quotes!Seen(quotes, poll.now)
           some == Quotes!Kept(quotes, poll.now)
           good == Quotes!Usable(Quotes!Judge(quotes, poll.now))
<1>1. PollKnown /\ QuotesTimely /\ StoreNewest
  BY DEF QuotesInv
<1>2. /\ Forward(seen) /\ KeptSeen(some, seen)
      /\ \A s \in DOMAIN seen \ DOMAIN some :
            (s \in DOMAIN lastSeen /\ seen[s] = lastSeen[s]) \/ now - seen[s] > StaleAfter
      /\ ~ good => DOMAIN some = {}
  BY <1>1, JudgedQuotes
<1>3. lastSeen' = seen /\ IF good THEN store' \in {some, Quotes!Put(some)} ELSE store' = store
  BY DEF Stores
<1> HIDE DEF seen, some, good
<1>4. /\ \A s \in DOMAIN Quotes!Put(some) :
           Timely(Quotes!Put(some)[s]) /\ NewestOrOld(Quotes!Put(some)[s], s, seen, now)
      /\ \A s \in DOMAIN some : NewestOrOld(some[s], s, seen, now)
      /\ DOMAIN some = {} => \A s \in DOMAIN store : NewestOrOld(store[s], s, seen, now)
  BY <1>1, <1>2, PutNewest
<1>5. \A s \in DOMAIN store' : Timely(store'[s]) /\ NewestOrOld(store'[s], s, seen, now)
  BY <1>1, <1>2, <1>3, <1>4 DEF KeptSeen, QuotesTimely
<1>6. StoreNewest'
  BY <1>3, <1>5 DEF StoreNewest, NewestOrOld
<1> QED
  BY <1>2, <1>3, <1>5, <1>6
(* Whatever a poll does next, it is of the instant it began at.               *)
PollMoves == poll' = [pc |-> poll'.pc, now |-> poll.now, prio |-> poll'.prio, tick |-> poll'.tick]
LEMMA PollFinishes ==
  ASSUME PollKnown, NEW tick
  PROVE  LET done == Quotes!Finish(tick)
         IN  done = [pc |-> done.pc, now |-> poll.now, prio |-> done.prio, tick |-> done.tick]
<1> DEFINE done == Quotes!Finish(tick)
<1>1. poll = [pc |-> poll.pc, now |-> poll.now, prio |-> poll.prio, tick |-> poll.tick]
  BY DEF PollKnown
<1>2. done = [poll EXCEPT !.pc = "publish", !.tick = tick]
  BY DEF Quotes!Finish
<1>3. done = [pc |-> "publish", now |-> poll.now, prio |-> poll.prio, tick |-> tick]
  BY <1>1, <1>2
<1> HIDE DEF done
<1>4. done = [pc |-> done.pc, now |-> poll.now, prio |-> done.prio, tick |-> done.tick]
  BY <1>3
<1> QED
  BY <1>4 DEF done

(* A change of where the poll is, or of its priority verdict, is no other.    *)
LEMMA PollSteps ==
  ASSUME PollKnown, NEW pc, NEW prio,
         poll' = [poll EXCEPT !.pc = pc] \/ poll' = [poll EXCEPT !.pc = pc, !.prio = prio]
  PROVE  PollMoves
<1>1. poll = [pc |-> poll.pc, now |-> poll.now, prio |-> poll.prio, tick |-> poll.tick]
  BY DEF PollKnown
<1>2. \/ poll' = [pc |-> pc, now |-> poll.now, prio |-> poll.prio, tick |-> poll.tick]
      \/ poll' = [pc |-> pc, now |-> poll.now, prio |-> prio, tick |-> poll.tick]
  BY <1>1
<1> QED
  BY <1>2 DEF PollMoves

(* _take_pending_full_result: without a usable answer the poll goes on.       *)
LEMMA UnavailableMoves ==
  ASSUME PollKnown, Quotes!Unavailable
  PROVE  PollMoves
<1>1. CASE poll' = Quotes!Finish(Quotes!PriorityTick(FALSE))
  BY <1>1, PollFinishes DEF PollMoves
<1>2. CASE poll' = [poll EXCEPT !.pc = "decide"]
  BY <1>2, PollSteps
<1> QED
  BY <1>1, <1>2 DEF Quotes!Unavailable

(* A full snapshot that raises ends the poll. *)
LEMMA RaisesMoves ==
  ASSUME PollKnown, NEW before, Quotes!FullRaises(before)
  PROVE  PollMoves
BY PollFinishes DEF Quotes!FullRaises, PollMoves

(* A full snapshot is stored if it is usable, and ends the poll or fails.     *)
LEMMA ProcessStores ==
  ASSUME PollKnown, NEW quotes, NEW given,
         Quotes!Process(quotes, given)
  PROVE  Stores(quotes) /\ (PollMoves \/ given)
<1>1. Stores(quotes)
  BY DEF Quotes!Process, Stores
<1>2. \/ given
      \/ \E tick : poll' = Quotes!Finish(tick)
  BY DEF Quotes!Process
<1> QED
  BY <1>1, <1>2, PollFinishes DEF PollMoves

(* What the network answers is recorded now. *)
LEMMA AnswersTimely ==
  ASSUME now \in Nat, NEW asked, NEW quotes \in Quotes!Answers(asked)
  PROVE  AllTimely(quotes)
<1>1. PICK t \in {now} \cup ({now - 1} \cap Nat) : quotes = [s \in asked |-> Quotes!Quote(t, now)]
  BY DEF Quotes!Answers
<1>2. t \in Nat /\ t <= now /\ now <= t + 1
  OBVIOUS
<1>3. Timely(Quotes!Quote(t, now)) /\ ~ Quotes!Quote(t, now).stale
  BY <1>2 DEF Quotes!Quote, Timely
<1> QED
  BY <1>1, <1>3 DEF AllTimely

(* So is what the provider answers from the snapshot it kept.                 *)
LEMMA SnapshotsTimely ==
  ASSUME QuotesInv, NEW started, NEW quotes \in Quotes!Snapshots(started)
  PROVE  AllTimely(quotes)
         /\ (Quotes!Remember(started, quotes) => (snap' # None => AllTimely(snap'.quotes)))
<1>1. AllTimely(quotes)
  BY AnswersTimely DEF Quotes!Snapshots, Quotes!Cached, QuotesInv, QuotesTimely, PollKnown
<1> QED
  BY <1>1 DEF Quotes!Remember, QuotesInv, QuotesTimely

(* Of a step that stores an answer, or leaves the store alone: the invariant  *)
(* stays, and the times that are remembered go forward.                       *)
LEMMA QuotesStays ==
  ASSUME QuotesInv, now' = now, PollMoves \/ poll' = poll,
         \/ UNCHANGED <<store, lastSeen>>
         \/ \E quotes : AllTimely(quotes) /\ Stores(quotes),
         snap' # None => AllTimely(snap'.quotes),
         pending' # None /\ pending'.ok => AllTimely(pending'.quotes)
  PROVE  QuotesInv' /\ Forward(lastSeen')
<1>1. /\ Forward(lastSeen') /\ StoreNewest'
      /\ \A s \in DOMAIN store' : Timely(store'[s])
  <2>1. CASE UNCHANGED <<store, lastSeen>>
    BY <2>1 DEF QuotesInv, StoreNewest, NewestOrOld, QuotesTimely, PollKnown, Forward
  <2>2. CASE \E quotes : AllTimely(quotes) /\ Stores(quotes)
    BY <2>2, StoredNewest
  <2> QED
    BY <2>1, <2>2
<1>2. poll' = [pc |-> poll'.pc, now |-> poll'.now, prio |-> poll'.prio, tick |-> poll'.tick] /\ poll'.now = poll.now
  <2>1. CASE PollMoves
    BY <2>1 DEF PollMoves
  <2>2. CASE poll' = poll
    BY <2>2 DEF QuotesInv, PollKnown
  <2> QED
    BY <2>1, <2>2
<1>3. PollKnown'
  BY <1>1, <1>2 DEF QuotesInv, PollKnown, Forward
<1>4. QuotesTimely'
  BY <1>1 DEF QuotesTimely
<1> QED
  BY <1>1, <1>3, <1>4 DEF QuotesInv

(* Every step of the quotes keeps the invariant and goes forward.             *)
LEMMA QuotesStep ==
  ASSUME QuotesInv, Quotes!RealtimeNext
  PROVE  QuotesInv' /\ Forward(lastSeen')
<1> USE DEF Quotes!feed, Quotes!view, Quotes!outside
<1>0. PollKnown /\ (snap # None => AllTimely(snap.quotes))
      /\ (pending # None /\ pending.ok => AllTimely(pending.quotes))
  BY DEF QuotesInv, QuotesTimely
<1>1. CASE Quotes!Begin
  <2>1. PICK pc, tick : poll' = [Quotes!Idle EXCEPT !.now = now, !.pc = pc, !.tick = tick]
    BY <1>1 DEF Quotes!Begin
  <2>2. poll' = [pc |-> pc, now |-> now, prio |-> None, tick |-> tick]
    BY <2>1 DEF Quotes!Idle
  <2>3. UNCHANGED <<now, store, lastSeen, snap, pending>>
    BY <1>1 DEF Quotes!Begin
  <2> QED
    BY <2>2, <2>3 DEF QuotesInv, QuotesTimely, PollKnown, StoreNewest, NewestOrOld, Forward
<1>2. CASE Quotes!Priority
  <2>1. PICK quotes \in IF Quotes!Reusable THEN {Quotes!Restrict(snap.quotes, priority)}
                        ELSE Quotes!PriorityAnswers :
           /\ Stores(quotes)
           /\ \E prio : poll' = [poll EXCEPT !.pc = "take", !.prio = prio]
    BY <1>2 DEF Quotes!Priority, Stores
  <2>2. AllTimely(quotes)
    <3>1. CASE Quotes!Reusable
      BY <1>0, <2>1, <3>1 DEF Quotes!Reusable, Quotes!Restrict, AllTimely
    <3>2. CASE ~ Quotes!Reusable
      BY <1>0, <2>1, <3>2, AnswersTimely DEF Quotes!PriorityAnswers, PollKnown
    <3> QED
      BY <3>1, <3>2
  <2>3. UNCHANGED <<now, snap, pending>>
    BY <1>2 DEF Quotes!Priority
  <2>4. PollMoves
    BY <1>0, <2>1, PollSteps
  <2> QED
    BY <1>0, <2>1, <2>2, <2>3, <2>4, QuotesStays
<1>3. CASE Quotes!PriorityFails
  <2>1. PollMoves /\ UNCHANGED <<now, store, lastSeen, snap, pending>>
    BY <1>0, <1>3, PollSteps DEF Quotes!PriorityFails
  <2> QED
    BY <1>0, <2>1, QuotesStays
<1>4. CASE Quotes!Take
  <2>1. pending' = None /\ UNCHANGED <<now, snap>>
    BY <1>4 DEF Quotes!Take
  <2>2. CASE pending = None
    <3>1. PollMoves /\ UNCHANGED <<store, lastSeen>>
      BY <1>0, <1>4, <2>2, PollSteps DEF Quotes!Take
    <3> QED
      BY <1>0, <2>1, <3>1, QuotesStays
  <2>3. CASE pending # None /\ ~ pending.ok
    <3>1. PollMoves /\ UNCHANGED <<store, lastSeen>>
      BY <1>0, <1>4, <2>3, UnavailableMoves DEF Quotes!Take
    <3> QED
      BY <1>0, <2>1, <3>1, QuotesStays
  <2>4. CASE pending # None /\ pending.ok
    <3>1. Quotes!Process(pending.quotes, breaker' = "CLOSED" /\ Quotes!Unavailable)
      BY <1>4, <2>4 DEF Quotes!Take
    <3>2. Stores(pending.quotes) /\ PollMoves
      BY <1>0, <3>1, ProcessStores, UnavailableMoves
    <3> QED
      BY <1>0, <2>1, <2>4, <3>2, QuotesStays
  <2> QED
    BY <2>2, <2>3, <2>4
<1>5. CASE Quotes!Decide
  <2>1. UNCHANGED <<now, store, lastSeen, snap, pending>>
    BY <1>5 DEF Quotes!Decide
  <2>2. (\E tick : poll' = Quotes!Finish(tick)) \/ poll' = [poll EXCEPT !.pc = "full"]
    BY <1>5 DEF Quotes!Decide
  <2>3. PollMoves
    BY <1>0, <2>2, PollFinishes, PollSteps DEF PollMoves
  <2> QED
    BY <1>0, <2>1, <2>3, QuotesStays
<1>6. CASE Quotes!Full
  <2>1. PICK quotes \in Quotes!Snapshots(slot) :
           Quotes!Remember(slot, quotes) /\ Quotes!Process(quotes, Quotes!FullRaises("CLOSED"))
    BY <1>6 DEF Quotes!Full
  <2>2. AllTimely(quotes) /\ (snap' # None => AllTimely(snap'.quotes))
    BY <2>1, SnapshotsTimely
  <2>3. Stores(quotes) /\ PollMoves
    BY <1>0, <2>1, ProcessStores, RaisesMoves
  <2>4. UNCHANGED <<now, pending>>
    BY <1>6 DEF Quotes!Full
  <2> QED
    BY <1>0, <2>2, <2>3, <2>4, QuotesStays
<1>7. CASE Quotes!FullFails
  <2>1. PollMoves /\ UNCHANGED <<now, store, lastSeen, snap, pending>>
    BY <1>0, <1>7, RaisesMoves DEF Quotes!FullFails
  <2> QED
    BY <1>0, <2>1, QuotesStays
<1>8. CASE Quotes!Publish
  <2>1. UNCHANGED <<now, store, lastSeen, snap, pending>> /\ poll' = Quotes!Idle
    BY <1>8 DEF Quotes!Publish
  <2>2. poll' = [pc |-> "idle", now |-> 0, prio |-> None, tick |-> None]
    BY <2>1 DEF Quotes!Idle
  <2>3. PollKnown'
    BY <1>0, <2>1, <2>2 DEF PollKnown
  <2> QED
    BY <2>1, <2>3 DEF QuotesInv, QuotesTimely, PollKnown, StoreNewest, NewestOrOld, Forward
<1>9. CASE Quotes!Refreshed
  <2>1. PICK quotes \in Quotes!Snapshots(refresh) :
           Quotes!Remember(refresh, quotes) /\ pending' = Quotes!Result(TRUE, quotes)
    BY <1>9 DEF Quotes!Refreshed
  <2>2. AllTimely(quotes) /\ (snap' # None => AllTimely(snap'.quotes))
    BY <2>1, SnapshotsTimely
  <2>3. pending'.quotes = quotes
    BY <2>1 DEF Quotes!Result
  <2>4. UNCHANGED <<now, store, lastSeen, poll>>
    BY <1>9 DEF Quotes!Refreshed
  <2> QED
    BY <2>2, <2>3, <2>4, QuotesStays
<1>10. CASE Quotes!RefreshFails
  <2>1. UNCHANGED <<now, store, lastSeen, poll, snap>> /\ ~ pending'.ok
    BY <1>10 DEF Quotes!RefreshFails, Quotes!Result
  <2> QED
    BY <1>0, <2>1, QuotesStays
<1>11. CASE Quotes!Change
  <2>1. UNCHANGED <<now, store, lastSeen, poll, snap, pending>>
    BY <1>11 DEF Quotes!Change
  <2> QED
    BY <1>0, <2>1, QuotesStays
<1>12. CASE Quotes!Passes
  <2>1. UNCHANGED <<store, lastSeen, poll, snap, pending>> /\ now' = now + 1
    BY <1>12 DEF Quotes!Passes
  <2>2. StaleAfter \in Nat /\ now \in Nat
    BY <1>0, StaleAfterNat DEF PollKnown
  <2>3. \A s \in DOMAIN store : store[s].ts \in Nat
    BY DEF QuotesInv, QuotesTimely, Timely
  <2>4. StoreNewest'
    BY <2>1, <2>2, <2>3 DEF QuotesInv, StoreNewest, NewestOrOld
  <2>5. PollKnown' /\ QuotesTimely' /\ Forward(lastSeen')
    BY <1>0, <2>1 DEF QuotesInv, PollKnown, QuotesTimely, Forward
  <2> QED
    BY <2>4, <2>5 DEF QuotesInv
<1> QED
  BY <1>1, <1>2, <1>3, <1>4, <1>5, <1>6, <1>7, <1>8, <1>9, <1>10, <1>11, <1>12
     DEF Quotes!RealtimeNext

(* The scene of the quotes, or a step that leaves them alone.                 *)
LEMMA QuotesAlone ==
  ASSUME [Next]_vars
  PROVE  Quotes!RealtimeNext \/ UNCHANGED quoteVars
BY DEF Next, In, vars, Parts, Account, Research

(* What is saved of an earlier process is marked, and as timely as it was.    *)
LEMMA MarkedIsTimely ==
  ASSUME NEW q \in [ts : Nat, rec : Nat, stale : BOOLEAN], q.ts = q.rec
  PROVE  Timely(Quotes!Stale(q)) /\ Quotes!Stale(q).stale
<1> DEFINE marked == [q EXCEPT !.stale = TRUE]
<1>1. marked \in [ts : Nat, rec : Nat, stale : BOOLEAN]
  OBVIOUS
<1>2. marked.ts = q.ts /\ marked.rec = q.rec /\ marked.stale
  OBVIOUS
<1>3. Quotes!Stale(q) = marked
  BY DEF Quotes!Stale
<1>4. q.ts \in Nat /\ q.rec \in Nat
  OBVIOUS
<1> HIDE DEF marked
<1> QED
  BY <1>1, <1>2, <1>3, <1>4 DEF Timely

(* In every reachable state, a quote of the store that nobody marked is the   *)
(* newest accepted one of its symbol, or too old to be handed to anybody.     *)
THEOREM QuotesAlways == Spec => []QuotesInv
<1>1. Init => QuotesInv
  <2> SUFFICES ASSUME Quotes!RealtimeInit PROVE QuotesInv
    BY DEF Init
  <2>1. PICK old : store = [s \in old |-> Quotes!Stale(Quotes!Quote(1, 1))]
    BY DEF Quotes!RealtimeInit
  <2> DEFINE saved == Quotes!Quote(1, 1)
  <2>2. saved \in [ts : Nat, rec : Nat, stale : BOOLEAN] /\ saved.ts = saved.rec
    BY DEF Quotes!Quote
  <2> HIDE DEF saved
  <2>3. Timely(Quotes!Stale(saved)) /\ Quotes!Stale(saved).stale
    BY <2>2, MarkedIsTimely
  <2>4. store = [s \in old |-> Quotes!Stale(saved)]
    BY <2>1 DEF saved
  <2>5. \A s \in DOMAIN store : Timely(store[s]) /\ store[s].stale
    BY <2>3, <2>4
  <2>6. /\ now = 1 /\ DOMAIN lastSeen = {} /\ snap = None /\ pending = None
        /\ poll = [pc |-> "idle", now |-> 0, prio |-> None, tick |-> None]
    BY DEF Quotes!RealtimeInit, Quotes!Empty, Quotes!Idle
  <2> QED
    BY <2>5, <2>6 DEF QuotesInv, QuotesTimely, PollKnown, StoreNewest, NewestOrOld
<1>2. QuotesInv /\ [Next]_vars => QuotesInv'
  <2> SUFFICES ASSUME QuotesInv, [Next]_vars PROVE QuotesInv'
    OBVIOUS
  <2>1. CASE UNCHANGED quoteVars
    BY <2>1 DEF quoteVars, QuotesInv, QuotesTimely, PollKnown, StoreNewest
  <2> QED
    BY <2>1, QuotesAlone, QuotesStep
<1> QED
  BY <1>1, <1>2, PTL DEF Spec

(* HandedForward: a caller is handed the newest quote that was ever accepted  *)
(* of a symbol, or none, for any symbols, intervals and instants, although    *)
(* two threads fetch, the slower one's answer replaces the whole store, and   *)
(* the provider answers from a snapshot it kept.                              *)
THEOREM HandedIsNewest == Spec => HandedForward
<1> DEFINE Good == \A s \in UNION Watched : Quotes!Validated(s)' =>
                      /\ store'[s].ts = lastSeen'[s]
                      /\ s \in DOMAIN lastSeen => lastSeen'[s] >= lastSeen[s]
<1>1. QuotesInv /\ [Next]_vars => [Good]_(Quotes!rtVars)
  <2> SUFFICES ASSUME QuotesInv, [Next]_vars
               PROVE  [Good]_(Quotes!rtVars)
    OBVIOUS
  <2>1. CASE UNCHANGED quoteVars
    BY <2>1 DEF quoteVars, Quotes!rtVars
  <2>2. CASE Quotes!RealtimeNext
    <3>1. QuotesInv' /\ Forward(lastSeen')
      BY <2>2, QuotesStep
    <3> SUFFICES ASSUME NEW s \in UNION Watched, Quotes!Validated(s)'
                 PROVE  store'[s].ts = lastSeen'[s]
      BY <3>1 DEF Forward
    <3>2. s \in DOMAIN store' /\ ~ store'[s].stale /\ now' - store'[s].ts <= StaleAfter
      BY DEF Quotes!Validated, Quotes!Fresh
    <3>3. /\ store'[s].ts = lastSeen'[s] \/ now' - store'[s].ts > StaleAfter
          /\ now' \in Nat /\ store'[s].ts \in Nat
      BY <3>1, <3>2 DEF QuotesInv, StoreNewest, NewestOrOld, PollKnown, QuotesTimely, Timely
    <3> QED
      BY <3>2, <3>3, StaleAfterNat
  <2> QED
    BY <2>1, <2>2, QuotesAlone
<1> QED
  BY <1>1, QuotesAlways, PTL DEF Spec, HandedForward, Quotes!HandedForward
------------------------------------------------------------------------------
(* The account, what it holds, and the imports.  AccountProofs and            *)
(* ImportProofs prove of any account and any inbox what the runs check of     *)
(* these; the scenes are instances of the same modules, so that the steps of  *)
(* one are the steps of the other, operator by operator.                      *)
DeskFacts == INSTANCE AccountProofs
               WITH Symbols <- {1, 2}, Requests <- {0, 1, 2}, Files <- Exports,
                    monitored <- universe, mishaps <- faults
WatchFacts == INSTANCE AccountProofs
                WITH Symbols <- {1, 2}, Requests <- {2}, Files <- Exports, MaxDay <- 1,
                     monitored <- universe, mishaps <- faults
ImportFacts == INSTANCE ImportProofs
                 WITH Sheet <- Sheets, day <- on, previews <- looks, tokens <- offered

(* What is known of the account, and of the inbox, in the scenes of each.      *)
AccountInv ==
    /\ scene = "desk" => DeskFacts!DeskInv
    /\ scene = "watch" => WatchFacts!WatchInv
ImportsInv == scene = "imports" => ImportFacts!InboxInv

(* None is no set of fills.                                                   *)
NoneIsNoFills == None \notin SUBSET Desk!Lots

(* What the two proofs assume holds of the exports of the run.                *)
LEMMA FillsAssumed ==
  ASSUME NoneIsNoFills
  PROVE  DeskFacts!Assumed /\ WatchFacts!Assumed
<1>1. DeskFacts!Assumed
  BY DeskAssumption DEF NoneIsNoFills, DeskFacts!Assumed, DeskFacts!AccountAssumption,
     Desk!AccountAssumption, DeskFacts!Lots, Desk!Lots, DeskFacts!Sides, Desk!Sides,
     DeskFacts!Confirmations, Desk!Confirmations
<1>2. WatchFacts!Assumed
  BY WatchAssumption
     DEF NoneIsNoFills, WatchFacts!Assumed, WatchFacts!AccountAssumption, Watch!AccountAssumption,
         WatchFacts!Lots, Watch!Lots, Desk!Lots, WatchFacts!Sides, Watch!Sides, Desk!Sides,
         WatchFacts!Confirmations, Watch!Confirmations
<1> QED
  BY <1>1, <1>2

(* At the beginning nothing runs and nothing is on disk.                      *)
LEMMA AccountBegins ==
  ASSUME NoneIsNoFills, Init
  PROVE  AccountInv
<1>1. DeskFacts!DeskInv
  <2>1. DeskFacts!DeskInit
    BY DEF Init, Desk!DeskInit, DeskFacts!DeskInit
  <2> QED
    BY <2>1, FillsAssumed, DeskFacts!DeskBegins
<1>2. WatchFacts!WatchInv
  <2>1. WatchFacts!DeskInit
    BY DEF Init, Desk!DeskInit, WatchFacts!DeskInit
  <2>2. WatchFacts!DeskInv
    BY <2>1, FillsAssumed, WatchFacts!DeskBegins
  <2>3. WatchFacts!HoldingsTold
    BY <2>1 DEF WatchFacts!DeskInit, WatchFacts!HoldingsTold
  <2>4. books = None
    BY <2>1 DEF WatchFacts!DeskInit
  <2>5. thread = [pc |-> "ask", asked |-> {}, result |-> None] /\ owed = 0
    BY DEF Init, RiskInit, Started
  <2>6. WatchFacts!ThreadTypeOK /\ WatchFacts!ThreadFollows
    BY <2>4, <2>5 DEF WatchFacts!ThreadTypeOK, WatchFacts!ThreadFollows
  <2> QED
    BY <2>2, <2>3, <2>6 DEF WatchFacts!WatchInv
<1> QED
  BY <1>1, <1>2 DEF AccountInv

(* A step of the account alone is one of AccountDesk with its symbols, cash   *)
(* and exports.                                                               *)
LEMMA DeskLink ==
  ASSUME Desk!DeskNext
  PROVE  DeskFacts!DeskNext
<1>1. \A fills, side : Desk!Count(fills, side) = DeskFacts!Count(fills, side)
  BY DEF Desk!Count, DeskFacts!Count, Desk!Cardinality, DeskFacts!Cardinality
<1>2. \A fills, sym : Desk!Of(fills, sym) = DeskFacts!Of(fills, sym)
  BY DEF Desk!Of, DeskFacts!Of
<1>3. \A fills, sym : Desk!Total(fills, sym) = DeskFacts!Total(fills, sym)
  BY <1>1, <1>2 DEF Desk!Total, DeskFacts!Total
<1>4. \A fills, sym, d : Desk!Available(fills, sym, d) = DeskFacts!Available(fills, sym, d)
  BY <1>1, <1>2 DEF Desk!Available, DeskFacts!Available
<1>5. \A rws : Desk!Range(rws) = DeskFacts!Range(rws)
  BY DEF Desk!Range, DeskFacts!Range
<1>6. \A fills : Desk!Held(fills) = DeskFacts!Held(fills)
  BY <1>3 DEF Desk!Held, DeskFacts!Held
<1>7. \A fills, cash : Desk!Replays(fills, cash) = DeskFacts!Replays(fills, cash)
  BY <1>1, <1>2 DEF Desk!Replays, DeskFacts!Replays, Desk!Earlier, DeskFacts!Earlier
<1>8. \A fills, e : Desk!Has(fills, e) = DeskFacts!Has(fills, e)
  BY DEF Desk!Has, DeskFacts!Has
<1>9. \A fills, cash, e : Desk!Recordable(fills, cash, e) = DeskFacts!Recordable(fills, cash, e)
  BY <1>8, <1>4, <1>7 DEF Desk!Recordable, DeskFacts!Recordable
<1>10. \A rws : Desk!AllRecordable(rws) = DeskFacts!AllRecordable(rws)
  BY <1>9, <1>5, <1>8 DEF Desk!AllRecordable, DeskFacts!AllRecordable, Desk!Prospect,
     DeskFacts!Prospect
<1>11. \A rws, cash : Desk!Loads(rws, cash) = DeskFacts!Loads(rws, cash)
  BY <1>5, <1>7 DEF Desk!Loads, DeskFacts!Loads
<1>12. \A requested \in {0, 1, 2} : Desk!Start(requested) => DeskFacts!Start(requested)
  BY <1>11, <1>6, <1>5 DEF Desk!Start, DeskFacts!Start, Desk!Accepts, DeskFacts!Accepts,
     Desk!Chosen, DeskFacts!Chosen, Desk!Rows, DeskFacts!Rows, Desk!RecordCash,
     DeskFacts!RecordCash, Desk!file, DeskFacts!file, Desk!memory, DeskFacts!memory, Desk!world,
     DeskFacts!world, Desk!notice, DeskFacts!notice
<1>13. \A s \in {1, 2} : Desk!PreviewBuy(s) => DeskFacts!PreviewBuy(s)
  BY <1>9 DEF Desk!PreviewBuy, DeskFacts!PreviewBuy, Desk!Free, DeskFacts!Free, Desk!Fill,
         DeskFacts!Fill, Desk!file, DeskFacts!file, Desk!memory, DeskFacts!memory,
         Desk!world, DeskFacts!world, Desk!notice, DeskFacts!notice
<1>14. Desk!PreviewFile => DeskFacts!PreviewFile
  BY DEF Desk!PreviewFile, DeskFacts!PreviewFile, Desk!Free, DeskFacts!Free, Desk!Fill,
         DeskFacts!Fill, Desk!file, DeskFacts!file, Desk!memory, DeskFacts!memory,
         Desk!world, DeskFacts!world, Desk!notice, DeskFacts!notice
<1>15. \A t \in tokens : Desk!Refuse(t) => DeskFacts!Refuse(t)
  BY <1>10, <1>5 DEF Desk!Refuse, DeskFacts!Refuse, Desk!Free, DeskFacts!Free, Desk!Unchanged,
         DeskFacts!Unchanged, Desk!IsPositions, DeskFacts!IsPositions, Desk!file,
         DeskFacts!file, Desk!memory, DeskFacts!memory, Desk!world, DeskFacts!world,
         Desk!notice, DeskFacts!notice
<1>16. \A t \in tokens : Desk!Confirm(t) => DeskFacts!Confirm(t)
  BY <1>10, <1>5 DEF Desk!Confirm, DeskFacts!Confirm, Desk!Free, DeskFacts!Free, Desk!Unchanged,
         DeskFacts!Unchanged, Desk!IsPositions, DeskFacts!IsPositions, Desk!RecordCash,
         DeskFacts!RecordCash, Desk!file, DeskFacts!file, Desk!memory, DeskFacts!memory,
         Desk!world, DeskFacts!world, Desk!notice, DeskFacts!notice
<1>17. \A t \in tokens : Desk!CashFails(t) => DeskFacts!CashFails(t)
  BY <1>10 DEF Desk!CashFails, DeskFacts!CashFails, Desk!Free, DeskFacts!Free, Desk!file,
         DeskFacts!file, Desk!memory, DeskFacts!memory, Desk!world, DeskFacts!world,
         Desk!notice, DeskFacts!notice
<1>18. \A t \in tokens : Desk!ConfirmPositions(t) => DeskFacts!ConfirmPositions(t)
  BY <1>5 DEF Desk!ConfirmPositions, DeskFacts!ConfirmPositions, Desk!Free, DeskFacts!Free,
         Desk!Unchanged, DeskFacts!Unchanged, Desk!IsPositions, DeskFacts!IsPositions,
         Desk!file, DeskFacts!file, Desk!memory, DeskFacts!memory, Desk!world,
         DeskFacts!world, Desk!notice, DeskFacts!notice
<1>19. Desk!Append1 => DeskFacts!Append1
  BY <1>8, <1>5 DEF Desk!Append1, DeskFacts!Append1, Desk!Row, DeskFacts!Row, Desk!Written,
         DeskFacts!Written, Desk!Joins, DeskFacts!Joins, Desk!Rows, DeskFacts!Rows,
         Desk!file, DeskFacts!file, Desk!memory, DeskFacts!memory, Desk!world,
         DeskFacts!world, Desk!notice, DeskFacts!notice
<1>20. Desk!Remember => DeskFacts!Remember
  BY <1>8, <1>5 DEF Desk!Remember, DeskFacts!Remember, Desk!Recorded, DeskFacts!Recorded, Desk!Row,
         DeskFacts!Row, Desk!file, DeskFacts!file, Desk!memory, DeskFacts!memory, Desk!world,
         DeskFacts!world, Desk!notice, DeskFacts!notice
<1>21. Desk!AppendFails => DeskFacts!AppendFails
  BY <1>8, <1>5 DEF Desk!AppendFails, DeskFacts!AppendFails, Desk!Row, DeskFacts!Row,
     Desk!Withdrawn, DeskFacts!Withdrawn, Desk!Written, DeskFacts!Written, Desk!Joins,
     DeskFacts!Joins, Desk!Rows, DeskFacts!Rows, Desk!file, DeskFacts!file, Desk!memory,
     DeskFacts!memory, Desk!world, DeskFacts!world, Desk!notice, DeskFacts!notice
<1>22. Desk!Tell => DeskFacts!Tell
  BY <1>6 DEF Desk!Tell, DeskFacts!Tell, Desk!MayTell, DeskFacts!MayTell, Desk!Free,
         DeskFacts!Free, Desk!file, DeskFacts!file, Desk!memory, DeskFacts!memory,
         Desk!world, DeskFacts!world, Desk!notice, DeskFacts!notice
<1>23. \A symbols \in taken : Desk!Told(symbols) => DeskFacts!Told(symbols)
  BY DEF Desk!Told, DeskFacts!Told, Desk!file, DeskFacts!file, Desk!memory, DeskFacts!memory,
         Desk!world, DeskFacts!world, Desk!notice, DeskFacts!notice
<1>24. Desk!Crash => DeskFacts!Crash
  BY <1>8, <1>5 DEF Desk!Crash, DeskFacts!Crash, Desk!Row, DeskFacts!Row, Desk!Written,
         DeskFacts!Written, Desk!Joins, DeskFacts!Joins, Desk!Rows, DeskFacts!Rows,
         Desk!file, DeskFacts!file, Desk!memory, DeskFacts!memory, Desk!world,
         DeskFacts!world, Desk!notice, DeskFacts!notice
<1>25. \A f \in DOMAIN Exports : Desk!Export(f) => DeskFacts!Export(f)
  BY DEF Desk!Export, DeskFacts!Export, Desk!file, DeskFacts!file, Desk!memory,
         DeskFacts!memory, Desk!world, DeskFacts!world, Desk!notice, DeskFacts!notice
<1>26. Desk!NextDay => DeskFacts!NextDay
  BY DEF Desk!NextDay, DeskFacts!NextDay, Desk!file, DeskFacts!file, Desk!memory,
         DeskFacts!memory, Desk!world, DeskFacts!world, Desk!notice, DeskFacts!notice
<1> QED
  BY <1>12, <1>13, <1>14, <1>15, <1>16, <1>17, <1>18, <1>19, <1>20, <1>21, <1>22, <1>23,
     <1>24, <1>25, <1>26
     DEF Desk!DeskNext, DeskFacts!DeskNext

(* A step of the account beside the risk thread is one of AccountWatch.       *)
LEMMA WatchLink ==
  ASSUME Watch!WatchNext
  PROVE  WatchFacts!WatchNext
<1>1. \A fills, side : Watch!Count(fills, side) = WatchFacts!Count(fills, side)
  BY DEF Watch!Count, WatchFacts!Count, Watch!Cardinality, WatchFacts!Cardinality
<1>2. \A fills, sym : Watch!Of(fills, sym) = WatchFacts!Of(fills, sym)
  BY DEF Watch!Of, WatchFacts!Of
<1>3. \A fills, sym : Watch!Total(fills, sym) = WatchFacts!Total(fills, sym)
  BY <1>1, <1>2 DEF Watch!Total, WatchFacts!Total
<1>4. \A fills, sym, d : Watch!Available(fills, sym, d) = WatchFacts!Available(fills, sym, d)
  BY <1>1, <1>2 DEF Watch!Available, WatchFacts!Available
<1>5. \A rws : Watch!Range(rws) = WatchFacts!Range(rws)
  BY DEF Watch!Range, WatchFacts!Range
<1>6. \A fills : Watch!Held(fills) = WatchFacts!Held(fills)
  BY <1>3 DEF Watch!Held, WatchFacts!Held
<1>7. \A fills, cash : Watch!Replays(fills, cash) = WatchFacts!Replays(fills, cash)
  BY <1>1, <1>2 DEF Watch!Replays, WatchFacts!Replays, Watch!Earlier, WatchFacts!Earlier
<1>8. \A fills, e : Watch!Has(fills, e) = WatchFacts!Has(fills, e)
  BY DEF Watch!Has, WatchFacts!Has
<1>9. \A fills, cash, e : Watch!Recordable(fills, cash, e) = WatchFacts!Recordable(fills, cash, e)
  BY <1>8, <1>4, <1>7 DEF Watch!Recordable, WatchFacts!Recordable
<1>10. \A rws : Watch!AllRecordable(rws) = WatchFacts!AllRecordable(rws)
  BY <1>9, <1>5, <1>8 DEF Watch!AllRecordable, WatchFacts!AllRecordable, Watch!Prospect,
     WatchFacts!Prospect
<1>11. \A rws, cash : Watch!Loads(rws, cash) = WatchFacts!Loads(rws, cash)
  BY <1>5, <1>7 DEF Watch!Loads, WatchFacts!Loads
<1>12. \A requested \in {2} : Watch!Start(requested) => WatchFacts!Start(requested)
  BY <1>11, <1>6, <1>5 DEF Watch!Start, WatchFacts!Start, Watch!Accepts, WatchFacts!Accepts,
     Watch!Chosen, WatchFacts!Chosen, Watch!Rows, WatchFacts!Rows, Watch!RecordCash,
     WatchFacts!RecordCash, Watch!file, WatchFacts!file, Watch!memory, WatchFacts!memory,
     Watch!world, WatchFacts!world, Watch!notice, WatchFacts!notice
<1>13. \A s \in {1, 2} : Watch!PreviewBuy(s) => WatchFacts!PreviewBuy(s)
  BY <1>9 DEF Watch!PreviewBuy, WatchFacts!PreviewBuy, Watch!Free, WatchFacts!Free, Watch!Fill,
         WatchFacts!Fill, Watch!file, WatchFacts!file, Watch!memory, WatchFacts!memory,
         Watch!world, WatchFacts!world, Watch!notice, WatchFacts!notice
<1>14. Watch!PreviewFile => WatchFacts!PreviewFile
  BY DEF Watch!PreviewFile, WatchFacts!PreviewFile, Watch!Free, WatchFacts!Free, Watch!Fill,
         WatchFacts!Fill, Watch!file, WatchFacts!file, Watch!memory, WatchFacts!memory,
         Watch!world, WatchFacts!world, Watch!notice, WatchFacts!notice
<1>15. \A t \in tokens : Watch!Refuse(t) => WatchFacts!Refuse(t)
  BY <1>10, <1>5 DEF Watch!Refuse, WatchFacts!Refuse, Watch!Free, WatchFacts!Free, Watch!Unchanged,
         WatchFacts!Unchanged, Watch!IsPositions, WatchFacts!IsPositions, Watch!file,
         WatchFacts!file, Watch!memory, WatchFacts!memory, Watch!world, WatchFacts!world,
         Watch!notice, WatchFacts!notice
<1>16. \A t \in tokens : Watch!Confirm(t) => WatchFacts!Confirm(t)
  BY <1>10, <1>5 DEF Watch!Confirm, WatchFacts!Confirm, Watch!Free, WatchFacts!Free,
     Watch!Unchanged, WatchFacts!Unchanged, Watch!IsPositions, WatchFacts!IsPositions,
     Watch!RecordCash, WatchFacts!RecordCash, Watch!file, WatchFacts!file, Watch!memory,
     WatchFacts!memory, Watch!world, WatchFacts!world, Watch!notice, WatchFacts!notice
<1>17. \A t \in tokens : Watch!CashFails(t) => WatchFacts!CashFails(t)
  BY <1>10 DEF Watch!CashFails, WatchFacts!CashFails, Watch!Free, WatchFacts!Free, Watch!file,
         WatchFacts!file, Watch!memory, WatchFacts!memory, Watch!world, WatchFacts!world,
         Watch!notice, WatchFacts!notice
<1>18. \A t \in tokens : Watch!ConfirmPositions(t) => WatchFacts!ConfirmPositions(t)
  BY <1>5 DEF Watch!ConfirmPositions, WatchFacts!ConfirmPositions, Watch!Free, WatchFacts!Free,
         Watch!Unchanged, WatchFacts!Unchanged, Watch!IsPositions, WatchFacts!IsPositions,
         Watch!file, WatchFacts!file, Watch!memory, WatchFacts!memory, Watch!world,
         WatchFacts!world, Watch!notice, WatchFacts!notice
<1>19. Watch!Append1 => WatchFacts!Append1
  BY <1>8, <1>5 DEF Watch!Append1, WatchFacts!Append1, Watch!Row, WatchFacts!Row, Watch!Written,
         WatchFacts!Written, Watch!Joins, WatchFacts!Joins, Watch!Rows, WatchFacts!Rows,
         Watch!file, WatchFacts!file, Watch!memory, WatchFacts!memory, Watch!world,
         WatchFacts!world, Watch!notice, WatchFacts!notice
<1>20. Watch!Remember => WatchFacts!Remember
  BY <1>8, <1>5 DEF Watch!Remember, WatchFacts!Remember, Watch!Recorded, WatchFacts!Recorded,
     Watch!Row, WatchFacts!Row, Watch!file, WatchFacts!file, Watch!memory, WatchFacts!memory,
     Watch!world, WatchFacts!world, Watch!notice, WatchFacts!notice
<1>21. Watch!AppendFails => WatchFacts!AppendFails
  BY <1>8, <1>5 DEF Watch!AppendFails, WatchFacts!AppendFails, Watch!Row, WatchFacts!Row,
         Watch!Withdrawn, WatchFacts!Withdrawn, Watch!Written, WatchFacts!Written,
         Watch!Joins, WatchFacts!Joins, Watch!Rows, WatchFacts!Rows, Watch!file,
         WatchFacts!file, Watch!memory, WatchFacts!memory, Watch!world, WatchFacts!world,
         Watch!notice, WatchFacts!notice
<1>22. Watch!Tell => WatchFacts!Tell
  BY <1>6 DEF Watch!Tell, WatchFacts!Tell, Watch!MayTell, WatchFacts!MayTell, Watch!Free,
         WatchFacts!Free, Watch!file, WatchFacts!file, Watch!memory, WatchFacts!memory,
         Watch!world, WatchFacts!world, Watch!notice, WatchFacts!notice
<1>23. \A symbols \in taken : Watch!Told(symbols) => WatchFacts!Told(symbols)
  BY DEF Watch!Told, WatchFacts!Told, Watch!file, WatchFacts!file, Watch!memory,
         WatchFacts!memory, Watch!world, WatchFacts!world, Watch!notice, WatchFacts!notice
<1>24. Watch!Crash => WatchFacts!Crash
  BY <1>8, <1>5 DEF Watch!Crash, WatchFacts!Crash, Watch!Row, WatchFacts!Row, Watch!Written,
         WatchFacts!Written, Watch!Joins, WatchFacts!Joins, Watch!Rows, WatchFacts!Rows,
         Watch!file, WatchFacts!file, Watch!memory, WatchFacts!memory, Watch!world,
         WatchFacts!world, Watch!notice, WatchFacts!notice
<1>25. \A f \in DOMAIN Exports : Watch!Export(f) => WatchFacts!Export(f)
  BY DEF Watch!Export, WatchFacts!Export, Watch!file, WatchFacts!file, Watch!memory,
         WatchFacts!memory, Watch!world, WatchFacts!world, Watch!notice, WatchFacts!notice
<1>26. Watch!NextDay => WatchFacts!NextDay
  BY DEF Watch!NextDay, WatchFacts!NextDay, Watch!file, WatchFacts!file, Watch!memory,
         WatchFacts!memory, Watch!world, WatchFacts!world, Watch!notice, WatchFacts!notice
<1>27. \A requested \in {2} : Watch!Open(requested) => WatchFacts!Open(requested)
  BY <1>12 DEF Watch!Open, WatchFacts!Open, Watch!Risk!Begin, WatchFacts!Risk!Begin,
         Watch!Risk!Started, WatchFacts!Risk!Started, Watch!Risk!Nothing,
         WatchFacts!Risk!Nothing, Watch!Risk!outside, WatchFacts!Risk!outside
<1>28. \A symbols \in taken : Watch!Handed(symbols) => WatchFacts!Handed(symbols)
  BY <1>23 DEF Watch!Handed, WatchFacts!Handed
<1>29. Watch!AtTheDesk => WatchFacts!AtTheDesk
  BY <1>13, <1>14, <1>15, <1>16, <1>17, <1>18, <1>19, <1>20, <1>21, <1>22, <1>25, <1>26
     DEF Watch!AtTheDesk, WatchFacts!AtTheDesk
<1>30. Watch!Risk!Request => WatchFacts!Risk!Request
  BY DEF Watch!Risk!Request, WatchFacts!Risk!Request, Watch!Risk!outside,
         WatchFacts!Risk!outside
<1>31. Watch!Risk!Ask => WatchFacts!Risk!Ask
  BY DEF Watch!Risk!Ask, WatchFacts!Risk!Ask, Watch!Risk!outside, WatchFacts!Risk!outside
<1>32. \A companies, refused \in SUBSET {1, 2} : Watch!Risk!Learn(companies, refused) => WatchFacts!Risk!Learn(companies, refused)
  BY DEF Watch!Risk!Learn, WatchFacts!Risk!Learn, Watch!Risk!outside,
         WatchFacts!Risk!outside, Watch!Risk!Answered, WatchFacts!Risk!Answered,
         Watch!Risk!Listed, WatchFacts!Risk!Listed, Watch!Risk!Retained,
         WatchFacts!Risk!Retained, Watch!Risk!Severer, WatchFacts!Risk!Severer,
         Watch!Risk!Adverse, WatchFacts!Risk!Adverse, Watch!Risk!Fetched,
         WatchFacts!Risk!Fetched, Watch!Risk!Assessed, WatchFacts!Risk!Assessed,
         Watch!Risk!Announced, WatchFacts!Risk!Announced, Watch!Risk!Unresolved,
         WatchFacts!Risk!Unresolved, Watch!Risk!Level, WatchFacts!Risk!Level,
         Watch!Risk!Unknown, WatchFacts!Risk!Unknown
<1>33. Watch!Risk!Miss => WatchFacts!Risk!Miss
  BY DEF Watch!Risk!Miss, WatchFacts!Risk!Miss, Watch!Risk!outside, WatchFacts!Risk!outside
<1>34. Watch!Risk!Publish => WatchFacts!Risk!Publish
  BY DEF Watch!Risk!Publish, WatchFacts!Risk!Publish, Watch!Risk!outside,
         WatchFacts!Risk!outside
<1>35. Watch!Risk!Wake => WatchFacts!Risk!Wake
  BY DEF Watch!Risk!Wake, WatchFacts!Risk!Wake, Watch!Risk!outside, WatchFacts!Risk!outside
<1>36. Watch!Risk!RiskWork => WatchFacts!Risk!RiskWork
  BY <1>31, <1>32, <1>33, <1>34, <1>35 DEF Watch!Risk!RiskWork, WatchFacts!Risk!RiskWork
<1> QED
  BY <1>27, <1>28, <1>29, <1>24, <1>30, <1>36
     DEF Watch!WatchNext, WatchFacts!WatchNext, Watch!threadVars, WatchFacts!threadVars,
         Watch!accountVars, WatchFacts!accountVars, Watch!file, WatchFacts!file,
         Watch!memory, WatchFacts!memory, Watch!world, WatchFacts!world, Watch!notice,
         WatchFacts!notice

(* Every step keeps what the two proofs keep, in the scene that takes it.     *)
LEMMA AccountStep ==
  ASSUME NoneIsNoFills, AccountInv, [Next]_vars
  PROVE  AccountInv'
<1>1. UNCHANGED scene
  BY DEF Next, In, vars
<1>2. ASSUME scene = "desk"
      PROVE  DeskFacts!DeskInv'
  <2>1. Desk!DeskNext \/ UNCHANGED <<deskVars, sharedVars>>
    BY <1>2 DEF Next, In, vars
  <2>2. [DeskFacts!DeskNext]_(DeskFacts!deskVars)
    BY <2>1, DeskLink
       DEF deskVars, sharedVars, DeskFacts!deskVars, DeskFacts!file, DeskFacts!memory,
           DeskFacts!world, DeskFacts!notice
  <2>3. DeskFacts!DeskInv
    BY <1>2 DEF AccountInv
  <2> QED
    BY <2>2, <2>3, FillsAssumed, DeskFacts!DeskInvStep
<1>3. ASSUME scene = "watch"
      PROVE  WatchFacts!WatchInv'
  <2>1. Watch!WatchNext \/ UNCHANGED <<deskVars, sharedVars, threadVars>>
    BY <1>3 DEF Next, In, vars
  <2>2. [WatchFacts!WatchNext]_(WatchFacts!watchVars)
    BY <2>1, WatchLink
       DEF deskVars, sharedVars, threadVars, WatchFacts!watchVars, WatchFacts!deskVars,
           WatchFacts!file, WatchFacts!memory, WatchFacts!world, WatchFacts!notice,
           WatchFacts!threadVars
  <2>3. WatchFacts!WatchInv
    BY <1>3 DEF AccountInv
  <2> QED
    BY <2>2, <2>3, FillsAssumed, WatchFacts!WatchInvStep
<1> QED
  BY <1>1, <1>2, <1>3 DEF AccountInv

(* What they promise is what the scenes are checked for.                      *)
LEMMA AccountPromises ==
  ASSUME AccountInv
  PROVE  AnsweredIsKept /\ FileReplays
<1>1. scene \in {"desk", "watch"} =>
        \/ DeskFacts!AnsweredIsKept /\ DeskFacts!FileReplays
        \/ WatchFacts!AnsweredIsKept /\ WatchFacts!FileReplays
  BY DeskFacts!DeskPromises, WatchFacts!DeskPromises DEF AccountInv, WatchFacts!WatchInv
<1>2. \A rws : Desk!Range(rws) = DeskFacts!Range(rws) /\ Desk!Range(rws) = WatchFacts!Range(rws)
  BY DEF Desk!Range, DeskFacts!Range, WatchFacts!Range
<1>3. Desk!Rows = DeskFacts!Rows /\ Desk!Rows = WatchFacts!Rows
  BY DEF Desk!Rows, DeskFacts!Rows, WatchFacts!Rows
<1>4. \A fills, side : /\ Desk!Count(fills, side) = DeskFacts!Count(fills, side)
                       /\ Desk!Count(fills, side) = WatchFacts!Count(fills, side)
  BY DEF Desk!Count, DeskFacts!Count, WatchFacts!Count, Desk!Cardinality, DeskFacts!Cardinality,
         WatchFacts!Cardinality
<1>5. \A fills, sym : /\ Desk!Of(fills, sym) = DeskFacts!Of(fills, sym)
                      /\ Desk!Of(fills, sym) = WatchFacts!Of(fills, sym)
  BY DEF Desk!Of, DeskFacts!Of, WatchFacts!Of
<1>6. \A fills, cash : Desk!Replays(fills, cash) = DeskFacts!Replays(fills, cash)
  <2>1. \A fills, side : Desk!Count(fills, side) = DeskFacts!Count(fills, side)
    BY <1>4
  <2>2. \A fills, sym : Desk!Of(fills, sym) = DeskFacts!Of(fills, sym)
    BY <1>5
  <2> QED
    BY <2>1, <2>2 DEF Desk!Replays, DeskFacts!Replays, Desk!Earlier, DeskFacts!Earlier
<1>7. \A fills, cash : Desk!Replays(fills, cash) = WatchFacts!Replays(fills, cash)
  <2>1. \A fills, side : Desk!Count(fills, side) = WatchFacts!Count(fills, side)
    BY <1>4
  <2>2. \A fills, sym : Desk!Of(fills, sym) = WatchFacts!Of(fills, sym)
    BY <1>5
  <2> QED
    BY <2>1, <2>2 DEF Desk!Replays, WatchFacts!Replays, Desk!Earlier, WatchFacts!Earlier
<1>8. \A rws, cash : Desk!Loads(rws, cash) = DeskFacts!Loads(rws, cash)
  BY <1>2, <1>6 DEF Desk!Loads, DeskFacts!Loads
<1>9. \A rws, cash : Desk!Loads(rws, cash) = WatchFacts!Loads(rws, cash)
  BY <1>2, <1>7 DEF Desk!Loads, WatchFacts!Loads
<1>10. AnsweredIsKept
  BY <1>1, <1>2, <1>3
     DEF AnsweredIsKept, Desk!AnsweredIsKept, DeskFacts!AnsweredIsKept, WatchFacts!AnsweredIsKept
<1>11. FileReplays
  BY <1>1, <1>2, <1>3, <1>8, <1>9
     DEF FileReplays, Desk!FileReplays, DeskFacts!FileReplays, WatchFacts!FileReplays
<1> QED
  BY <1>10, <1>11

(* And of what is held.                                                      *)
LEMMA WatchPromises ==
  ASSUME AccountInv
  PROVE  HoldingsAssessed
<1> SUFFICES ASSUME scene = "watch"
             PROVE  Watch!HoldingsAssessed
  BY DEF HoldingsAssessed
<1>1. WatchFacts!HoldingsAssessed
  BY WatchFacts!WatchPromises DEF AccountInv
<1>2. \A fills, side : Watch!Count(fills, side) = WatchFacts!Count(fills, side)
  BY DEF Watch!Count, WatchFacts!Count, Watch!Cardinality, WatchFacts!Cardinality
<1>3. \A fills, sym : Watch!Of(fills, sym) = WatchFacts!Of(fills, sym)
  BY DEF Watch!Of, WatchFacts!Of
<1>4. Watch!AnsweredHoldings = WatchFacts!AnsweredHoldings
  BY <1>2, <1>3 DEF Watch!AnsweredHoldings, WatchFacts!AnsweredHoldings, Watch!Bought,
     WatchFacts!Bought
<1> QED
  BY <1>1, <1>4
     DEF Watch!HoldingsAssessed, WatchFacts!HoldingsAssessed, Watch!Free, WatchFacts!Free,
         Watch!Asleep, WatchFacts!Asleep

(* What DeskAlways and WatchAlways say of any account and any risk thread     *)
(* holds of those of the run.                                                 *)
THEOREM AccountAlways ==
  ASSUME NoneIsNoFills
  PROVE  Spec => []AccountInv
<1>1. Init => AccountInv
  BY AccountBegins
<1>2. AccountInv /\ [Next]_vars => AccountInv'
  BY AccountStep
<1> QED
  BY <1>1, <1>2, PTL DEF Spec

(* AnsweredIsKept: what a confirmation of the run answered for is kept, alone *)
(* and beside the risk thread, as AnsweredStays has it of any account.        *)
THEOREM AnswersAreKept ==
  ASSUME NoneIsNoFills
  PROVE  Spec => []AnsweredIsKept
<1>1. AccountInv => AnsweredIsKept
  BY AccountPromises
<1> QED
  BY <1>1, AccountAlways, PTL

(* FileReplays: and its file replays, as FileAlwaysReplays has it.            *)
THEOREM TheFileReplays ==
  ASSUME NoneIsNoFills
  PROVE  Spec => []FileReplays
<1>1. AccountInv => FileReplays
  BY AccountPromises
<1> QED
  BY <1>1, AccountAlways, PTL

(* HoldingsAssessed: what answered confirmations of the run hold is assessed, *)
(* as HoldingsAreAssessed has it.                                             *)
THEOREM WatchAssesses ==
  ASSUME NoneIsNoFills
  PROVE  Spec => []HoldingsAssessed
<1>1. AccountInv => HoldingsAssessed
  BY WatchPromises
<1> QED
  BY <1>1, AccountAlways, PTL

------------------------------------------------------------------------------
(* The imports, in the same way.                                              *)
(* What a file has, in the scene and in ImportInbox.                          *)
LEMMA ImportsAlike ==
  /\ \A c : Imports!Rows(c) = ImportFacts!Rows(c)
  /\ \A c : Imports!IsPositions(c) = ImportFacts!IsPositions(c)
  /\ \A digest, c, d : Imports!Fills(digest, c, d) = ImportFacts!Fills(digest, c, d)
  /\ \A digest, c, d : Imports!Saved(digest, c, d) = ImportFacts!Saved(digest, c, d)
  /\ \A c : Imports!Previewable(c) = ImportFacts!Previewable(c)
<1>1. \A c : Imports!Rows(c) = ImportFacts!Rows(c)
  BY DEF Imports!Rows, ImportFacts!Rows
<1>2. \A row, f : Imports!Cell(row, f) = ImportFacts!Cell(row, f)
  BY DEF Imports!Cell, ImportFacts!Cell
<1>3. \A x : Imports!IsNumber(x) = ImportFacts!IsNumber(x)
  BY DEF Imports!IsNumber, ImportFacts!IsNumber
<1>4. \A row : Imports!Named(row) = ImportFacts!Named(row)
  BY <1>2, <1>3 DEF Imports!Named, ImportFacts!Named, Imports!Side, ImportFacts!Side
<1>5. \A c : Imports!FillRows(c) = ImportFacts!FillRows(c)
  BY <1>1, <1>2, <1>3, <1>4 DEF Imports!FillRows, ImportFacts!FillRows, Imports!Side,
     ImportFacts!Side
<1>6. \A digest, c, d : Imports!Fills(digest, c, d) = ImportFacts!Fills(digest, c, d)
  BY <1>1, <1>2, <1>5 DEF Imports!Fills, ImportFacts!Fills, Imports!FillOf, ImportFacts!FillOf,
     Imports!Side, ImportFacts!Side
<1>7. \A c : Imports!IsPositions(c) = ImportFacts!IsPositions(c)
  BY DEF Imports!IsPositions, ImportFacts!IsPositions
<1>8. \A c, n : Imports!First(c, n) = ImportFacts!First(c, n)
  BY <1>1 DEF Imports!First, ImportFacts!First
<1>9. \A row : Imports!Free(row) = ImportFacts!Free(row)
  BY <1>2 DEF Imports!Free, ImportFacts!Free
<1>10. \A row : Imports!Consistent(row) = ImportFacts!Consistent(row)
  BY <1>2, <1>9 DEF Imports!Consistent, ImportFacts!Consistent
<1>11. \A c : Imports!PositionRows(c) = ImportFacts!PositionRows(c)
  BY <1>1, <1>2, <1>3, <1>8, <1>10 DEF Imports!PositionRows, ImportFacts!PositionRows
<1>12. \A c : Imports!CashValues(c) = ImportFacts!CashValues(c)
  BY <1>1, <1>2, <1>11 DEF Imports!CashValues, ImportFacts!CashValues
<1>13. \A c : Imports!DateValues(c) = ImportFacts!DateValues(c)
  BY <1>1, <1>2, <1>11 DEF Imports!DateValues, ImportFacts!DateValues
<1>14. \A S : Imports!Max(S) = ImportFacts!Max(S)
  BY DEF Imports!Max, ImportFacts!Max
<1>15. \A digest, c, d : Imports!Saved(digest, c, d) = ImportFacts!Saved(digest, c, d)
  BY <1>1, <1>11, <1>12, <1>13, <1>14 DEF Imports!Saved, ImportFacts!Saved
<1>16. \A c : Imports!Raises(c) = ImportFacts!Raises(c)
  BY <1>1, <1>2, <1>3, <1>7, <1>8, <1>4 DEF Imports!Raises, ImportFacts!Raises, Imports!Counts,
     ImportFacts!Counts
<1>17. \A S : Imports!Cardinality(S) = ImportFacts!Cardinality(S)
  BY DEF Imports!Cardinality, ImportFacts!Cardinality
<1>18. \A c : Imports!Recognised(c) = ImportFacts!Recognised(c)
  BY <1>1, <1>7 DEF Imports!Recognised, ImportFacts!Recognised, Imports!PositionFields,
         ImportFacts!PositionFields, Imports!FillFields, ImportFacts!FillFields
<1>19. \A c : Imports!Previewable(c) = ImportFacts!Previewable(c)
  BY <1>18, <1>16, <1>7, <1>11, <1>17, <1>12, <1>13 DEF Imports!Previewable, ImportFacts!Previewable
<1> QED
  BY <1>1, <1>7, <1>6, <1>15, <1>19

(* A step of the imports is one of ImportInbox.                               *)
LEMMA ImportLink ==
  ASSUME Imports!InboxNext
  PROVE  ImportFacts!InboxNext
<1>1. \A n \in Names, c \in DOMAIN Sheets : Imports!Write(n, c) => ImportFacts!Write(n, c)
  BY DEF Imports!Write, ImportFacts!Write, Imports!outside, ImportFacts!outside,
         Imports!memory, ImportFacts!memory, Imports!store, ImportFacts!store
<1>2. \A n \in Names : Imports!Remove(n) => ImportFacts!Remove(n)
  BY DEF Imports!Remove, ImportFacts!Remove, Imports!outside, ImportFacts!outside,
         Imports!memory, ImportFacts!memory, Imports!store, ImportFacts!store
<1>3. Imports!Scan => ImportFacts!Scan
  BY DEF Imports!Scan, ImportFacts!Scan, Imports!outside, ImportFacts!outside,
         Imports!memory, ImportFacts!memory, Imports!store, ImportFacts!store, Imports!Entry,
         ImportFacts!Entry
<1>4. \A e \in entries : Imports!Check(e) => ImportFacts!Check(e)
  BY DEF Imports!Check, ImportFacts!Check, Imports!outside, ImportFacts!outside,
         Imports!memory, ImportFacts!memory, Imports!store, ImportFacts!store, Imports!Entry,
         ImportFacts!Entry
<1>5. Imports!Read => ImportFacts!Read
  BY ImportsAlike
     DEF Imports!Read, ImportFacts!Read, Imports!outside, ImportFacts!outside,
         Imports!memory, ImportFacts!memory, Imports!store, ImportFacts!store
<1>6. \A t \in offered : Imports!Confirm(t) => ImportFacts!Confirm(t)
  BY ImportsAlike
     DEF Imports!Confirm, ImportFacts!Confirm, Imports!outside, ImportFacts!outside,
         Imports!memory, ImportFacts!memory, Imports!store, ImportFacts!store,
         Imports!Unchanged, ImportFacts!Unchanged, Imports!Conflict, ImportFacts!Conflict,
         Imports!New, ImportFacts!New, Imports!Replaced, ImportFacts!Replaced
<1>7. Imports!Look => ImportFacts!Look
  BY DEF Imports!Look, ImportFacts!Look, Imports!outside, ImportFacts!outside,
         Imports!memory, ImportFacts!memory, Imports!store, ImportFacts!store,
         Imports!Loaded, ImportFacts!Loaded
<1>8. Imports!Restart => ImportFacts!Restart
  BY DEF Imports!Restart, ImportFacts!Restart, Imports!outside, ImportFacts!outside,
         Imports!memory, ImportFacts!memory, Imports!store, ImportFacts!store
<1>9. Imports!Spoil => ImportFacts!Spoil
  BY DEF Imports!Spoil, ImportFacts!Spoil, Imports!outside, ImportFacts!outside,
         Imports!memory, ImportFacts!memory, Imports!store, ImportFacts!store
<1>10. Imports!NextDay => ImportFacts!NextDay
  BY DEF Imports!NextDay, ImportFacts!NextDay, Imports!outside, ImportFacts!outside,
         Imports!memory, ImportFacts!memory, Imports!store, ImportFacts!store
<1> QED
  BY <1>1, <1>2, <1>3, <1>4, <1>5, <1>6, <1>7, <1>8, <1>9, <1>10
     DEF Imports!InboxNext, ImportFacts!InboxNext, Imports!Exported, ImportFacts!Exported

(* The scene of the imports keeps what InboxInv says, others leave it alone.  *)
LEMMA ImportsStep ==
  ASSUME ImportsInv, [Next]_vars
  PROVE  ImportsInv'
<1>1. UNCHANGED scene
  BY DEF Next, In, vars
<1>2. ASSUME scene = "imports"
      PROVE  ImportFacts!InboxInv'
  <2>1. Imports!InboxNext \/ UNCHANGED importVars
    BY <1>2 DEF Next, In, vars
  <2>2. [ImportFacts!InboxNext]_(ImportFacts!inboxVars)
    BY <2>1, ImportLink DEF importVars, ImportFacts!inboxVars, ImportFacts!outside,
       ImportFacts!memory, ImportFacts!store
  <2>3. ImportFacts!InboxInv
    BY <1>2 DEF ImportsInv
  <2> QED
    BY <2>2, <2>3, ImportFacts!InboxStep
<1> QED
  BY <1>1, <1>2 DEF ImportsInv

(* And what it promises.                                                      *)
LEMMA ImportsPromises ==
  ASSUME ImportsInv
  PROVE  ImportsAreTheirSource
<1> SUFFICES ASSUME scene = "imports"
             PROVE  Imports!ImportsAreTheirSource
  BY DEF ImportsAreTheirSource
<1>1. ImportFacts!ImportsAreTheirSource
  BY ImportFacts!InboxPromises DEF ImportsInv
<1>2. /\ \A digest, c, d : Imports!Fills(digest, c, d) = ImportFacts!Fills(digest, c, d)
      /\ \A c : Imports!IsPositions(c) = ImportFacts!IsPositions(c)
      /\ \A digest, c, d : Imports!Saved(digest, c, d) = ImportFacts!Saved(digest, c, d)
  BY ImportsAlike
<1> QED
  BY <1>1, <1>2 DEF Imports!ImportsAreTheirSource, ImportFacts!ImportsAreTheirSource

(* ImportsAreTheirSource: no import of the run says what its source did not   *)
(* say, which ImportsSayTheirSource has for any names and sheets.             *)
THEOREM ImportsKeepTheirSource == Spec => []ImportsAreTheirSource
<1>1. Init => ImportsInv
  <2>1. Init => ImportFacts!InboxInit
    BY DEF Init, Imports!InboxInit, ImportFacts!InboxInit, Imports!Exported, ImportFacts!Exported
  <2> QED
    BY <2>1, ImportFacts!InboxBegins DEF ImportsInv
<1>2. ImportsInv /\ [Next]_vars => ImportsInv'
  BY ImportsStep
<1>3. ImportsInv => ImportsAreTheirSource
  BY ImportsPromises
<1> QED
  BY <1>1, <1>2, <1>3, PTL DEF Spec
==============================================================================
