------------------------- MODULE HistoricalBackfill -------------------------
(* The historical backfill: batches of bounded requests that fill the research *)
(* returns of every symbol, each publishing through the data store's log what  *)
(* it adds and then recording it in a checkpoint.  A batch may fail or end     *)
(* anywhere, and the checkpoint is rebuilt from the log.                       *)
EXTENDS DatasetLog, FiniteSets, FiniteSetsExt

CONSTANTS Symbols,     \* 1 .. n: the instruments in the order batches visit them
          Limit,       \* MAX_SYMBOLS_PER_BATCH
          Span,        \* max_request_days
          Histories,   \* what the provider may have of a symbol: sets of days
          MaxDay,      \* bound: the last day
          MaxUpsets,   \* bound: failed requests, ended batches, lost checkpoints
          None

(* What is assumed of the constants: days and symbols are numbered from 1. *)
BackfillAssumption ==
    /\ Symbols \subseteq Nat \ {0} /\ Span \in Nat \ {0}
    /\ \A h \in Histories : h \subseteq Nat \ {0}
    /\ None \notin [days : SUBSET Nat, gap : BOOLEAN]

VARIABLES traded,      \* [Symbols -> Histories]
          today, posted, \* the day, and whether its rows can be had already
          checkpoint,  \* [Symbols -> None or [days, gap]]: the symbol records
          failures,    \* symbols the checkpoint records as failed
          batch,       \* None or [at, end, attempted, saving]
          mishaps

backfillVars == <<log, held, traded, today, posted, checkpoint, failures, batch, mishaps>>

Listing == 0    \* the key of the instrument lists, beside the symbols
Known(s) == Keyed(s) # {}
Days(s) == IF Known(s) THEN Active(s).digest ELSE {}
SymbolRecord(days) == [days |-> days, gap |-> FALSE]

BackfillInit ==
    /\ LogInit
    /\ traded \in [Symbols -> Histories]
    /\ today = 1 /\ posted = FALSE
    /\ checkpoint = [s \in Symbols |-> None] /\ failures = {}
    /\ batch = None /\ mishaps = 0

(* run: the instruments of the day are published first; a second batch of    *)
(* the day finds them published.                                             *)
Start ==
    /\ batch = None
    /\ batch' = [at |-> 1, end |-> today, attempted |-> 0, saving |-> FALSE]
    /\ IF Versioned(Listing, {today}) THEN UNCHANGED <<log, held>>
       ELSE Publish(Listing, {today}, {today}) /\ held' = held
    /\ UNCHANGED <<traded, today, posted, checkpoint, failures, mishaps>>

At == batch.at
(* _reconcile_symbol: a record that is not of the active artifact is made    *)
(* anew from the artifact.                                                   *)
Reconciled == IF checkpoint[At] # None /\ checkpoint[At].days = Days(At) THEN checkpoint[At]
              ELSE IF Known(At) THEN SymbolRecord(Days(At)) ELSE None

(* Mutant: of a range that is too long the newest days are asked for. *)
WindowNewest(r) ==
    LET first == IF r = None THEN <<1, batch.end>>
                 ELSE IF Min(r.days) > 1 /\ ~ r.gap THEN <<1, Min(r.days) - 1>>
                 ELSE <<Max(r.days) + 1, batch.end>>
    IN  Max({first[1], first[2] - Span + 1}) .. first[2]

(* _missing_ranges: before the first and after the last day held, until a    *)
(* leading range turned out empty.  The first range alone is asked for, cut  *)
(* to Span days: the days of it, none if nothing is missing.                 *)
Window(r) ==
    LET first == IF r = None THEN <<1, batch.end>>
                 ELSE IF Min(r.days) > 1 /\ ~ r.gap THEN <<1, Min(r.days) - 1>>
                 ELSE <<Max(r.days) + 1, batch.end>>
    IN  first[1] .. Min({first[2], first[1] + Span - 1})
Rows(days) == {d \in days \cap traded[At] : d < today \/ posted}

(* Mutant: a leading range without rows is asked for again and again. *)
LeadingForgotten(r, days) == FALSE

Leading(r, days) == r # None /\ 1 \in days

Onward(tried) == batch' = [batch EXCEPT !.at = @ + 1, !.attempted = @ + tried, !.saving = FALSE]
Reconcile(r) == /\ checkpoint' = [checkpoint EXCEPT ![At] = r]
                /\ failures' = IF checkpoint[At] = r THEN failures ELSE failures \ {At}

Skip(r) == Reconcile(r) /\ Onward(0) /\ UNCHANGED <<log, held, mishaps>>

(* The batch is full at a symbol that misses something.                      *)
Full(r) == Reconcile(r) /\ batch' = None /\ UNCHANGED <<log, held, mishaps>>

(* The request fails, for good or after its retries; the batch goes on.      *)
Fail(r) ==
    /\ mishaps < MaxUpsets /\ mishaps' = mishaps + 1
    /\ checkpoint' = [checkpoint EXCEPT ![At] = r]
    /\ failures' = failures \cup {At}
    /\ Onward(1)
    /\ UNCHANGED <<log, held>>

(* No rows: a leading range is not asked for again, any other is a failure.  *)
Empty(r, days) ==
    /\ checkpoint' = [checkpoint EXCEPT ![At] = IF Leading(r, days) THEN [r EXCEPT !.gap = TRUE] ELSE r]
    /\ failures' = IF Leading(r, days) THEN failures \ {At} ELSE failures \cup {At}
    /\ Onward(1)
    /\ UNCHANGED <<log, held, mishaps>>

(* _merge_with_previous and replace_dataset.                                 *)
Merged(r, days) == Rows(days) \cup (IF r = None THEN {} ELSE r.days)
PublishRows(r, days) ==
    /\ Reconcile(r)
    /\ Publish(At, Merged(r, days), Merged(r, days)) /\ held' = Range(log')
    /\ batch' = [batch EXCEPT !.saving = TRUE]
    /\ UNCHANGED mishaps

Visit ==
    /\ batch # None /\ ~ batch.saving /\ At \in Symbols
    /\ \E r \in {Reconciled} : \E days \in {Window(r)} :
         \/ days = {} /\ Skip(r)
         \/ days # {} /\ batch.attempted >= Limit /\ Full(r)
         \/ days # {} /\ batch.attempted < Limit /\ IF Rows(days) = {} THEN Empty(r, days)
                                                                   ELSE PublishRows(r, days)
    /\ UNCHANGED <<traded, today, posted>>
Refuse ==
    /\ batch # None /\ ~ batch.saving /\ At \in Symbols /\ batch.attempted < Limit
    /\ \E r \in {Reconciled} : Window(r) # {} /\ Fail(r)
    /\ UNCHANGED <<traded, today, posted>>

(* _write_checkpoint of the new record, which keeps the mark of the old one. *)
Save ==
    /\ batch # None /\ batch.saving
    /\ checkpoint' = [checkpoint EXCEPT ![At] =
                        [days |-> Days(At), gap |-> checkpoint[At] # None /\ checkpoint[At].gap]]
    /\ failures' = failures \ {At}
    /\ Onward(1)
    /\ UNCHANGED <<log, held, traded, today, posted, mishaps>>

Done ==
    /\ batch # None /\ At \notin Symbols
    /\ batch' = None
    /\ UNCHANGED <<log, held, traded, today, posted, checkpoint, failures, mishaps>>

(* A local failure or the end of the worker: the batch ends where it is.     *)
Abort ==
    /\ batch # None /\ mishaps < MaxUpsets
    /\ batch' = None /\ mishaps' = mishaps + 1
    /\ UNCHANGED <<log, held, traded, today, posted, checkpoint, failures>>

(* The checkpoint lies under .runtime and may be removed with it.            *)
Lose ==
    /\ batch = None /\ mishaps < MaxUpsets /\ checkpoint # [s \in Symbols |-> None]
    /\ checkpoint' = [s \in Symbols |-> None] /\ failures' = {}
    /\ mishaps' = mishaps + 1
    /\ UNCHANGED <<log, held, traded, today, posted, batch>>

Post == ~ posted /\ posted' = TRUE
        /\ UNCHANGED <<log, held, traded, today, checkpoint, failures, batch, mishaps>>
NextDay == today < MaxDay /\ posted /\ today' = today + 1 /\ posted' = FALSE
           /\ UNCHANGED <<log, held, traded, checkpoint, failures, batch, mishaps>>

Work == Start \/ Visit \/ Save \/ Done
BackfillNext == Work \/ Refuse \/ Abort \/ Lose \/ Post \/ NextDay
BackfillSpec == BackfillInit /\ [][BackfillNext]_backfillVars

(* Batches run again and again (a lifecycle per day, and every retry of one), *)
(* days pass and their rows appear.                                           *)
FairBackfill == BackfillSpec /\ WF_backfillVars(Work) /\ WF_backfillVars(Post)
                             /\ WF_backfillVars(NextDay)
------------------------------------------------------------------------------
(* Between the first and the last day held of a symbol no row is missing:    *)
(* edges alone are asked for, whatever failed and whatever record was lost.  *)
NoHole == \A s \in Symbols : Known(s) =>
            Days(s) = traded[s] \cap (Min(Days(s)) .. Max(Days(s)))

(* Coverage advances over repeated batches to every row of every symbol, as   *)
(* long as fewer symbols than a batch takes are stuck: a symbol with no row   *)
(* in some window of Span days, or none on the last day (it is no longer      *)
(* listed), asks in vain in every batch.                                      *)
Covered(s) == Days(s) = traded[s] \cap (1 .. MaxDay)
LivelyHistories == {h \in Histories : /\ MaxDay \in h
                                      /\ \A d \in 1 .. (MaxDay + 1 - Span) : h \cap (d .. (d + Span - 1)) # {}}
Stuck == {s \in Symbols : traded[s] \notin LivelyHistories}
LivelyAdvance ==
    \A s \in Symbols : <>[](s \in Stuck \/ Cardinality(Stuck) >= Limit \/ Covered(s))
==============================================================================
