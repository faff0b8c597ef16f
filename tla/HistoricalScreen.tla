--------------------------- MODULE HistoricalScreen ---------------------------
(* The historical screen: a worker reads the verified daily returns of every  *)
(* covered symbol while the backfill extends them, derives lagged features    *)
(* and forward labels from what it read, and tries each candidate on rolling  *)
(* windows.  Sessions are numbered; a symbol misses some of them, so its own  *)
(* tenth session is not the market's.                                         *)
EXTENDS Naturals, Sequences, FiniteSets

CONSTANTS Symbols, Halts,         \* the sessions a symbol may miss
          MaxHalts,
          Reaches,                \* how far the history of a symbol may reach
          Candidates, Lookback,   \* candidate -> closes its momentum looks back
          Horizon,                \* sessions to the outcome of a label
          TrainSessions, ValidationSessions, EmbargoSessions, TestSessions,
          MinimumWindows, MinimumSessions

(* What is assumed of the constants. *)
ScreenAssumption ==
    /\ IsFiniteSet(Symbols) /\ Reaches \subseteq Nat
    /\ {TrainSessions, ValidationSessions, EmbargoSessions} \subseteq Nat
    /\ TestSessions \in Nat \ {0}

VARIABLES halts,          \* symbol -> the sessions it missed
          active,         \* symbol -> where its newest artifact ends
          recorded,       \* symbol -> where the artifact of the backfill's checkpoint ends
          damaged,        \* symbols whose newest artifact fails its verification
          worker          \* the screen: where it stands, and what it has read

screenVars == <<halts, active, recorded, damaged, worker>>

Usable(s, end) == (1 .. end) \ halts[s]
------------------------------------------------------------------------------
(* What is derived from one symbol's usable sessions U.                       *)
Rank(U, d) == Cardinality({e \in U : e < d})
Longest == CHOOSE k \in {Lookback[c] : c \in Candidates} : \A c \in Candidates : Lookback[c] <= k

(* A feature is shifted by one observed session: a momentum over k returns    *)
(* reads the k + 1 closes before the session and not its own.  (SameDayRead   *)
(* is a mutant: the shift is missing.)                                        *)
SameDayRead(U, d, k) == {e \in U : e <= d /\ Rank(U, d) - Rank(U, e) <= k}
FeatureReads(U, d, k) == {e \in U : e < d /\ Rank(U, d) - Rank(U, e) <= k + 1}
FeatureDates(U) == {d \in U : Rank(U, d) > Longest}

(* A label looks ahead on the symbol's own sessions; the last have none.      *)
Matures(U, d, m) == m \in U /\ Rank(U, m) = Rank(U, d) + Horizon
Labels(U) == {l \in [date : U, maturity : U] : Matures(U, l.date, l.maturity)}
------------------------------------------------------------------------------
(* Windows are cut from the sessions any symbol has a feature for, one test   *)
(* window after the other.                                                    *)
Dates(read) ==
    LET D == UNION {FeatureDates(read[s]) : s \in Symbols}
    IN [i \in 1 .. Cardinality(D) |-> CHOOSE d \in D : Rank(D, d) = i - 1]
Span == TrainSessions + ValidationSessions + EmbargoSessions + TestSessions
FoldCount(dates) == IF Len(dates) < Span THEN 0 ELSE (Len(dates) - Span) \div TestSessions + 1

Fold(dates, i) ==
    LET start == (i - 1) * TestSessions
        Cut(from, n) == {dates[j] : j \in start + from + 1 .. start + from + n}
    IN [train |-> Cut(0, TrainSessions),
        validation |-> Cut(TrainSessions, ValidationSessions),
        embargo |-> Cut(TrainSessions + ValidationSessions, EmbargoSessions),
        test |-> Cut(Span - TestSessions, TestSessions)]

(* Rows with both a feature and a finite label. *)
Merged(read) == UNION {{[symbol |-> s, date |-> l.date, maturity |-> l.maturity] :
                           l \in {k \in Labels(read[s]) : k.date \in FeatureDates(read[s])}} :
                       s \in Symbols}
Within(rows, window) == {r \in rows : r.date \in window}

(* Training keeps the outcomes known by the end of its window.  (AllOutcomes  *)
(* is a mutant: it keeps them all.)                                           *)
AllOutcomes(rows, window) == rows
MatureOnly(rows, window) == {r \in rows : \E e \in window : r.maturity <= e}
Training(rows, window) == MatureOnly(Within(rows, window), window)

(* The metrics of a window are taken of the test rows, each scored by what    *)
(* its features saw; no other row has a part in them.                         *)
Reads(read, c, r) == FeatureReads(read[r.symbol], r.date, Lookback[c])
Scored(read, c, rows) == {[symbol |-> r.symbol, date |-> r.date, saw |-> Reads(read, c, r)] : r \in rows}

(* What one window's evidence rests on: the sessions whose closes fitted the  *)
(* scale of the candidate, and the rows that were scored with what each saw.  *)
Evidence(read, c, fold) ==
    LET rows == Merged(read)
        train == Training(rows, fold.train)
    IN [fitted |-> UNION {Reads(read, c, r) \cup {r.date, r.maturity} : r \in train},
        scored |-> Scored(read, c, Within(rows, fold.test)),
        validated |-> Within(rows, fold.validation) # {}]

(* A window without training outcomes, or without rows to score, blocks the   *)
(* trial; so does a snapshot without any labelled row.                        *)
Trial(read, c) ==
    LET dates == Dates(read)
        windows == [i \in 1 .. FoldCount(dates) |-> Evidence(read, c, Fold(dates, i))]
    IN IF \A i \in DOMAIN windows :
             windows[i].fitted # {} /\ windows[i].scored # {} /\ windows[i].validated
       THEN windows ELSE <<>>
------------------------------------------------------------------------------
(* The backfill publishes a longer artifact and then saves its checkpoint. *)
Publish(s) == /\ active[s] = recorded[s]
              /\ \E end \in Reaches : end > active[s] /\ active' = [active EXCEPT ![s] = end]
              /\ damaged' = damaged \ {s}
              /\ UNCHANGED <<halts, recorded, worker>>

Checkpoint(s) == /\ active[s] # recorded[s]
                 /\ recorded' = [recorded EXCEPT ![s] = active[s]]
                 /\ UNCHANGED <<halts, active, damaged, worker>>

Damage(s) == /\ damaged = {}
             /\ damaged' = {s}
             /\ UNCHANGED <<halts, active, recorded, worker>>

Blocked == [step |-> "blocked"]

(* The worker starts from the coverage: the checkpoint is loaded first, and   *)
(* what it names must be what the store has active by then.                   *)
Begin == /\ worker.step \in {"idle", "blocked", "screened"}
         /\ worker' = [step |-> "coverage", checkpoint |-> recorded]
         /\ UNCHANGED <<halts, active, recorded, damaged>>

(* An artifact's record is in the manifest, its blob has the digest recorded. *)
Verified(s) == s \notin damaged

Compare == /\ worker.step = "coverage"
           /\ worker' = IF /\ worker.checkpoint = active /\ \A s \in Symbols : Verified(s)
                           /\ \E s \in Symbols : worker.checkpoint[s] >= MinimumSessions
                        THEN [step |-> "reading", read |-> [s \in {} |-> {}]] ELSE Blocked
           /\ UNCHANGED <<halts, active, recorded, damaged>>

(* One active artifact after the other is looked up, verified and read.       *)
Read(s) ==
    /\ worker.step = "reading"
    /\ s \notin DOMAIN worker.read
    /\ worker' = IF ~ Verified(s) \/ Usable(s, active[s]) = {} THEN Blocked
                 ELSE [worker EXCEPT !.read =
                          [t \in DOMAIN @ \cup {s} |-> IF t = s THEN Usable(s, active[s]) ELSE @[t]]]
    /\ UNCHANGED <<halts, active, recorded, damaged>>

(* Every candidate is tried; one that is blocked blocks the screen's verdict  *)
(* and keeps its place in the report.                                         *)
Screen ==
    /\ worker.step = "reading" /\ DOMAIN worker.read = Symbols
    /\ worker' = IF FoldCount(Dates(worker.read)) < MinimumWindows THEN Blocked
                 ELSE [step |-> "screened", dates |-> Dates(worker.read),
                       trials |-> [c \in Candidates |-> Trial(worker.read, c)]]
    /\ UNCHANGED <<halts, active, recorded, damaged>>

ScreenInit ==
    /\ halts \in [Symbols -> {H \in SUBSET Halts : Cardinality(H) <= MaxHalts}]
    /\ active \in [Symbols -> Reaches] /\ recorded = active
    /\ damaged = {}
    /\ worker = [step |-> "idle"]

ScreenNext == \/ \E s \in Symbols : Publish(s) \/ Checkpoint(s) \/ Damage(s) \/ Read(s)
              \/ Begin \/ Compare \/ Screen

Spec == ScreenInit /\ [][ScreenNext]_screenVars
------------------------------------------------------------------------------
(* No close that fitted a window was seen by its scores, none of these saw    *)
(* ahead, and the windows do not share a session they test.                   *)
Unseen(windows, dates) ==
    LET fold == [i \in DOMAIN windows |-> Fold(dates, i)]
    IN /\ \A i \in DOMAIN windows :
             /\ \A e \in windows[i].fitted, r \in windows[i].scored :
                   /\ \E t \in fold[i].train : e <= t
                   /\ Cardinality({j \in DOMAIN dates : e < dates[j] /\ dates[j] < r.date})
                         >= EmbargoSessions
             /\ \A r \in windows[i].scored : \A e \in r.saw : e < r.date
       /\ \A i, j \in DOMAIN windows : i # j =>
             {r.date : r \in windows[i].scored} \cap {r.date : r \in windows[j].scored} = {}

(* The evidence of a screen is out of sample, however many sessions a symbol  *)
(* missed and whatever the backfill published between two reads: no close     *)
(* that fitted a window lies after that window's training or within an        *)
(* embargo of its test, no score saw the close of its own session or of a     *)
(* later one, and no session is tested twice.                                 *)
OutOfSample ==
    worker.step = "screened" => \A c \in Candidates : Unseen(worker.trials[c], worker.dates)
==============================================================================
