-------------------------- MODULE ProspectiveLedger --------------------------
(***************************************************************************)
(* The ledger of prospective predictions: ProspectiveLedgerStore (storage/ *)
(* prospective_ledger_store.py), an append-only file of JSON lines, and    *)
(* the predict and settle workers (runtime/research_worker.py) that append *)
(* to it through ProspectiveCompetition.  Workers are processes: they load *)
(* the file when they open it, and load it again, under the file lock,     *)
(* before each append; any of them may die or fail in the middle of a      *)
(* write.  The lock makes one load, check and append one step.             *)
(*                                                                         *)
(* A prediction is its id (the id is a digest of its details).  Outcomes   *)
(* carry the instant of the run that derived them, so no two runs derive   *)
(* equal outcomes: an outcome is the prediction and the run.  A worker only *)
(* derives outcomes it can settle with, so the store's pending records are *)
(* never written and not modelled.                                         *)
(***************************************************************************)
EXTENDS Naturals, Sequences, FiniteSets, SequencesExt

CONSTANTS
    Workers,      \* worker processes (one may be an orphan of an earlier session)
    Preds,        \* predictions
    AsOf,         \* AsOf[p]: the day of the signal that p is made from
    Horizon,      \* days from AsOf[p] to the maturity of p
    Unpriced,     \* predictions whose maturity price never becomes usable
    MaxDay,       \* bound: days
    MaxFaults,    \* bound: workers that die or fail while they write
    None

(* What is assumed of the constants. *)
ConstantsAssumption ==
    /\ AsOf \in [Preds -> Nat]
    /\ Horizon \in Nat \ {0}
    /\ Unpriced \subseteq Preds
    /\ {MaxDay, MaxFaults} \subseteq Nat
    /\ IsFiniteSet(Workers) /\ IsFiniteSet(Preds)

Maturity(p) == AsOf[p] + Horizon

(* Runs are told apart; a number is used again when nothing bears it.      *)
Runs == 1..(Cardinality(Workers) + 2 * Cardinality(Preds) + 1)

(* A line of the file: a whole record (a kind, a prediction and, for a     *)
(* settlement, its run), or bytes that are no record (None), with or       *)
(* without the line feed.                                                  *)

VARIABLES
    file,      \* the lines of the ledger
    acked,     \* history: records whose append returned
    priced,    \* predictions with a usable maturity price
    day,
    pc, kind,  \* what each worker does: "off", "open", "work"
    now,       \* the day its clock said when it started
    mem,       \* the records in its memory
    batch,     \* outcomes (settle) or predictions (predict) it has still to append
    faults

vars == <<file, acked, priced, day, pc, kind, now, mem, batch, faults>>
worker == <<pc, kind, now, mem, batch>>

-----------------------------------------------------------------------------
(* The file.                                                               *)

Prediction(p) == [kind |-> "prediction", pred |-> p, run |-> 0]
RecordsOf(f) == {f[i].rec : i \in DOMAIN f} \ {None}
Settled(records) == {r.pred : r \in {s \in records : s.kind = "settlement"}}
Predicted(records) == {r.pred : r \in {s \in records : s.kind = "prediction"}}

(* Bytes appended after an unterminated line continue that line. *)
Write(f, rec, nl) ==
    IF f = <<>> \/ Last(f).nl THEN Append(f, [rec |-> rec, nl |-> nl])
    ELSE Append(Front(f), [rec |-> None, nl |-> nl])

(* What recovery leaves: a tail that is no record and has no line feed is  *)
(* cut off.  (RecoveredTwo is a mutant: it cuts one line too many.)        *)
TornTail(f) == f # <<>> /\ Last(f).rec = None /\ ~Last(f).nl

RecoveredTwo(f) == IF TornTail(f) THEN SubSeq(f, 1, Len(f) - 2) ELSE f

Recovered(f) == IF TornTail(f) THEN Front(f) ELSE f

(* _load accepts the file: every line is a record (but for a torn tail), a *)
(* settlement follows its prediction, and no prediction has two different  *)
(* settlements.                                                            *)
Loads(f) ==
    LET g == Recovered(f)
    IN  /\ \A i \in DOMAIN g : g[i].rec # None
        /\ \A i \in DOMAIN g : g[i].rec.kind # "prediction" =>
              \E j \in 1..(i - 1) : g[j].rec = Prediction(g[i].rec.pred)
        /\ \A r, s \in RecordsOf(g) :
              r.kind = s.kind /\ r.pred = s.pred => r = s

Loaded(f) == RecordsOf(Recovered(f))

-----------------------------------------------------------------------------
Init ==
    /\ file = <<>> /\ acked = {}
    /\ priced = {} /\ day = 0
    /\ pc = [w \in Workers |-> "off"]
    /\ kind = [w \in Workers |-> "predict"]
    /\ now = [w \in Workers |-> 0]
    /\ mem = [w \in Workers |-> {}]
    /\ batch = [w \in Workers |-> {}]
    /\ faults = 0

NextDay ==
    /\ day < MaxDay
    /\ day' = day + 1
    /\ UNCHANGED <<file, acked, priced, worker, faults>>

(* A price of the maturity day of p comes into the daily lake, or into the *)
(* research returns: an outcome is derived of either, the latter also when *)
(* the lake has the price and refuses it.                                  *)
Derived(p) == p \in priced

PriceAppears(p) ==
    /\ p \notin Unpriced /\ ~ Derived(p)
    /\ Maturity(p) <= day
    /\ priced' = priced \union {p}
    /\ UNCHANGED <<file, acked, day, worker, faults>>

Launch(w, k) ==
    /\ pc[w] = "off"
    /\ pc' = [pc EXCEPT ![w] = "open"]
    /\ kind' = [kind EXCEPT ![w] = k]
    /\ now' = [now EXCEPT ![w] = day]
    /\ UNCHANGED <<file, acked, priced, day, mem, batch, faults>>

(* A worker ends (status OK, BLOCKED or FAILED): its memory is gone.       *)
Ended(w) ==
    /\ pc' = [pc EXCEPT ![w] = "off"]
    /\ kind' = [kind EXCEPT ![w] = "predict"]
    /\ now' = [now EXCEPT ![w] = 0]
    /\ mem' = [mem EXCEPT ![w] = {}]
    /\ batch' = [batch EXCEPT ![w] = {}]

(* Opening the store fails on a ledger that does not load.                 *)
OpenRefused(w) ==
    /\ pc[w] = "open"
    /\ ~Loads(file)
    /\ Ended(w)
    /\ UNCHANGED <<file, acked, priced, day, faults>>

(* Predict: one prediction for each signal of the latest day that has any. *)
OpenPredict(w) ==
    /\ pc[w] = "open" /\ kind[w] = "predict"
    /\ Loads(file)
    /\ file' = Recovered(file)
    /\ mem' = [mem EXCEPT ![w] = Loaded(file)]
    /\ \E latest \in 0..now[w] :
          batch' = [batch EXCEPT ![w] = {Prediction(p) : p \in {q \in Preds : AsOf[q] = latest}}]
    /\ pc' = [pc EXCEPT ![w] = "work"]
    /\ UNCHANGED <<acked, priced, day, kind, now, faults>>

(* Settle: the predictions that are due.                                   *)
(* (DueLate is a mutant: due only after the maturity day.)                 *)
DueLate(records, today) ==
    {p \in Predicted(records) \ Settled(records) : Maturity(p) < today}

Due(records, today) ==
    {p \in Predicted(records) \ Settled(records) : Maturity(p) <= today}

FreshRun ==
    CHOOSE r \in Runs :
        \A rec \in acked \union RecordsOf(file) \union UNION {batch[w] : w \in Workers} :
            rec.run # r

(* Every due prediction must have a price, or the job is blocked.          *)
SettleBlocked(w) ==
    /\ pc[w] = "open" /\ kind[w] = "settle"
    /\ Loads(file)
    /\ file' = Recovered(file)
    /\ LET due == Due(Loaded(file), now[w]) IN due = {} \/ \E p \in due : ~ Derived(p)
    /\ Ended(w)
    /\ UNCHANGED <<acked, priced, day, faults>>

OpenSettle(w) ==
    LET due == Due(Loaded(file), now[w])
    IN  /\ pc[w] = "open" /\ kind[w] = "settle"
        /\ Loads(file)
        /\ due # {} /\ \A p \in due : Derived(p)
        /\ file' = Recovered(file)
        /\ mem' = [mem EXCEPT ![w] = Loaded(file)]
        /\ batch' = [batch EXCEPT ![w] =
              {[kind |-> "settlement", pred |-> p, run |-> FreshRun] : p \in due}]
        /\ pc' = [pc EXCEPT ![w] = "work"]
        /\ UNCHANGED <<acked, priced, day, kind, now, faults>>

-----------------------------------------------------------------------------
(* One append, under the lock, after loading the file again.               *)

(* Refused: settle_due finds another settlement in memory, or the store    *)
(* finds one in the file, or no prediction; a prediction is past its       *)
(* maturity for the clock of the worker.  (RefusedByMemory is a mutant: the *)
(* file is not looked at.)                                                 *)
RefusedByMemory(w, rec) ==
    IF rec.kind = "prediction" THEN Maturity(rec.pred) <= now[w]
    ELSE rec.pred \in Settled(mem[w])

Refused(w, rec) ==
    IF rec.kind = "prediction" THEN Maturity(rec.pred) <= now[w]
    ELSE \/ rec.pred \in Settled(mem[w]) \union Settled(Loaded(file))
         \/ rec.pred \notin Predicted(Loaded(file))

(* An equal record is not written again.                                   *)
Present(rec) == rec \in Loaded(file)

AppendFails(w, rec) ==
    /\ pc[w] = "work" /\ rec \in batch[w]
    /\ ~Loads(file) \/ Refused(w, rec)
    /\ file' = IF Loads(file) THEN Recovered(file) ELSE file
    /\ Ended(w)
    /\ UNCHANGED <<acked, priced, day, faults>>

AppendDone(w, rec) ==
    /\ pc[w] = "work" /\ rec \in batch[w]
    /\ Loads(file) /\ ~Refused(w, rec)
    /\ file' = IF Present(rec) THEN Recovered(file) ELSE Write(Recovered(file), rec, TRUE)
    /\ acked' = acked \union {rec}
    /\ mem' = [mem EXCEPT ![w] = Loaded(file) \union {rec}]
    /\ batch' = [batch EXCEPT ![w] = @ \ {rec}]
    /\ UNCHANGED <<priced, day, pc, kind, now, faults>>

(* The write is cut off, or its process dies before append returns: none   *)
(* of the line is there, some of it, all but the line feed, or all of it.  *)
Cut(f, rec) ==
    {f, Write(f, None, FALSE), Write(f, rec, FALSE), Write(f, rec, TRUE)}

AppendCut(w, rec) ==
    /\ pc[w] = "work" /\ rec \in batch[w]
    /\ faults < MaxFaults
    /\ Loads(file) /\ ~Refused(w, rec) /\ ~Present(rec)
    /\ file' \in Cut(Recovered(file), rec)
    /\ Ended(w)
    /\ faults' = faults + 1
    /\ UNCHANGED <<acked, priced, day>>

Finish(w) ==
    /\ pc[w] = "work" /\ batch[w] = {}
    /\ Ended(w)
    /\ UNCHANGED <<file, acked, priced, day, faults>>

-----------------------------------------------------------------------------
Work(w) ==
    \/ OpenRefused(w) \/ OpenPredict(w) \/ SettleBlocked(w) \/ OpenSettle(w) \/ Finish(w)
    \/ \E rec \in batch[w] : AppendFails(w, rec) \/ AppendDone(w, rec)

Next ==
    \/ NextDay
    \/ \E p \in Preds : PriceAppears(p)
    \/ \E w \in Workers :
          \/ \E k \in {"predict", "settle"} : Launch(w, k)
          \/ Work(w)
          \/ \E rec \in batch[w] : AppendCut(w, rec)

Spec == Init /\ [][Next]_vars

(* Workers go on with what they do, days pass, prices that exist appear,   *)
(* and a settle job is launched again and again (one each day; after the   *)
(* last day of the model time stands still, but jobs are still launched).  *)
Fairness ==
    /\ WF_vars(NextDay)
    /\ \A p \in Preds : WF_vars(PriceAppears(p))
    /\ \A w \in Workers : WF_vars(Work(w)) /\ SF_vars(Launch(w, "settle"))

FairSpec == Spec /\ Fairness

-----------------------------------------------------------------------------
(* Properties.                                                             *)

(* What makes a ledger unreadable is only ever a line that was continued   *)
(* after its line feed was lost: never the order of its records, a second  *)
(* settlement of a prediction by two racing workers, or a torn tail.       *)
OnlyJoinedLinesBreak ==
    Loads(file) \/ [rec |-> None, nl |-> TRUE] \in Range(file)

(* "Durable append-only": what an append returned for is in every later    *)
(* load, whatever was cut off since.                                       *)
Durable == Loads(file) => acked \subseteq Loaded(file)

(* Append-only: no step removes, reorders or rewrites a terminated line.   *)
HistoryKept ==
    [][\A i \in DOMAIN file :
          file[i].nl => i \in DOMAIN file' /\ file'[i] = file[i]]_vars

(* "Unusable observations remain pending": they do not keep others from    *)
(* being settled.  A recorded prediction whose maturity price is there is  *)
(* eventually settled (_derive_settle_context, _run_settle), as long as    *)
(* the ledger can be read and the record is not lost with a joined line.   *)
DueSettled ==
    \A p \in Preds :
        p \in Predicted(RecordsOf(file)) /\ Derived(p)
            ~> \/ p \in Settled(RecordsOf(file)) \/ p \notin Predicted(RecordsOf(file))
               \/ ~Loads(file)

=============================================================================
