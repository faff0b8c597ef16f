--------------------------- MODULE DailyPublication ---------------------------
(***************************************************************************)
(* The daily job of the workbench: EODCoordinator (runtime/                *)
(* eod_coordinator.py) refreshes the latest completed session,             *)
(* refresh_eod_state (workbench/app.py) stages candidates and price plans, *)
(* and DailyBundleTransaction (runtime/daily_bundle.py) replaces the two   *)
(* files under a journal.  Meanwhile account events change the holdings    *)
(* that the plans have to cover (workbench/advisory_service.py).           *)
(*                                                                         *)
(* Candidates and plans of one generation are one bundle: its session and  *)
(* the holdings it has plans for.  A session is its number.                *)
(***************************************************************************)
EXTENDS Naturals, FiniteSets

CONSTANTS
    Stocks,       \* stocks the account may hold
    MaxAttempts,  \* EODCoordinator.maximum_attempts
    MaxDay,       \* bound: sessions
    MaxChanges,   \* bound: account events
    MaxUpsets,    \* bound: ends of the process or the calendar, reviews, new sessions
    None

(* A bundle: a session with the holdings that its plans cover.  What the   *)
(* job records of a run that went wrong.                                   *)
Bundles == [day : Nat, holdings : SUBSET Stocks]
Errors == {"UPDATE_FAILED", "PERMISSION_DENIED", "CHECKPOINT_WRITE_FAILED", "CALENDAR_UNAVAILABLE",
           "CHECKPOINT_REJECTED"}

(* What is assumed of the constants. *)
ConstantsAssumption ==
    /\ IsFiniteSet(Stocks)
    /\ {MaxAttempts, MaxDay} \subseteq Nat \ {0}
    /\ {MaxChanges, MaxUpsets} \subseteq Nat
    /\ None \notin Nat \union Bundles \union Errors

Days == 1..MaxDay
(* The coordinator and its checkpoint record a status, the completed       *)
(* sessions, the pending one with its attempts and whether its retry is    *)
(* still to be waited for, the session that was denied, and an error.      *)

VARIABLES
    latest, closed,   \* latest completed session; today's session has closed
    calendar,         \* the calendar knows the current year
    account,          \* holdings in the account ledger
    signals, guidance, journal, \* the two published files and the journal
    ckpt,             \* the checkpoint file
    up, stop,         \* the process runs; the coordinator was told to stop
    job,              \* the coordinator's fields
    symbols,          \* WorkbenchService._account_symbols
    live,             \* the candidates and plans in memory
    runner,           \* the coordinator's thread
    note, notes,      \* the notification under way, and those that wait
    published,        \* history: bundles both of whose files were in place
    changes, upsets

files == <<signals, guidance, journal>>
clock == <<latest, closed, calendar>>
counters == <<changes, upsets>>
notifier == <<note, notes>>
vars == <<clock, account, files, ckpt, up, stop, job, symbols, live, runner,
          notifier, published, counters>>

Empty == [day |-> 0, holdings |-> {}]
FreshJob == [status |-> "NOT_RUN", completed |-> {}, pending |-> None, attempts |-> 0,
             backoff |-> FALSE, blocked |-> None, error |-> None]
NoRunner == [pc |-> "off", target |-> None, stale |-> FALSE, holdings |-> {}, recovering |-> FALSE]
NoNote == [pc |-> "idle", symbols |-> {}, target |-> None]

-----------------------------------------------------------------------------
(* The job: its guards and its steps, as functions of the record.          *)

Paused(j) == j.status = "BLOCKED" /\ j.error \in {"PERMISSION_DENIED", "CHECKPOINT_WRITE_FAILED"}

Startable(j, target) ==
    /\ target \notin j.completed /\ target # j.blocked
    /\ ~Paused(j)
    /\ target # j.pending \/ (j.attempts < MaxAttempts /\ ~j.backoff)

Begun(j, target) ==
    [j EXCEPT !.pending = target, !.backoff = @ /\ target = j.pending, !.status = "RUNNING",
              !.attempts = (IF target = j.pending THEN @ ELSE 0) + 1]

(* request_refresh: the session must be done again for the new holdings.   *)
(* (RequestedUnlessDone is a mutant: a completed session is not requested.) *)
RequestedUnlessDone(j, target) ==
    IF target \in j.completed \/ Paused(j) THEN j
    ELSE [j EXCEPT !.pending = target, !.backoff = FALSE, !.attempts = 0, !.status = "PENDING"]

Requested(j, target) ==
    LET k == [j EXCEPT !.completed = @ \ {target}, !.pending = target, !.backoff = FALSE]
    IN  IF Paused(j) THEN k ELSE [k EXCEPT !.attempts = 0, !.status = "PENDING"]

(* The end of a run, unless a request came since it began (stale).         *)
(* (SucceededAnyway is a mutant: requests in between are overlooked.)      *)
SucceededAnyway(j, target, stale) ==
    [j EXCEPT !.error = None, !.completed = @ \union {target}, !.pending = None,
              !.backoff = FALSE, !.status = "SUCCESS"]

Succeeded(j, target, stale) ==
    LET k == [j EXCEPT !.error = None, !.backoff = FALSE]
    IN  IF stale THEN [k EXCEPT !.status = "PENDING"]
        ELSE [k EXCEPT !.completed = @ \union {target}, !.pending = None, !.status = "SUCCESS"]

FailedRun(j, stale) ==
    LET k == [j EXCEPT !.error = "UPDATE_FAILED"]
    IN  IF stale THEN [k EXCEPT !.status = "PENDING"]
        ELSE IF j.attempts >= MaxAttempts THEN [k EXCEPT !.status = "RETRY_EXHAUSTED", !.backoff = FALSE]
        ELSE [k EXCEPT !.status = "FAILED", !.backoff = TRUE]

DeniedRun(j, target) ==
    [j EXCEPT !.error = "PERMISSION_DENIED", !.blocked = target, !.status = "BLOCKED", !.backoff = FALSE]

(* The checkpoint could not be written.                                    *)
Unsaved(j, target) ==
    [j EXCEPT !.completed = @ \ {target}, !.pending = target, !.status = "BLOCKED",
              !.blocked = target, !.error = "CHECKPOINT_WRITE_FAILED"]

(* completed_daily_bundle_is_valid, for the files on disk.                 *)
Valid(day, sig, gui, held) == sig.day = day /\ gui.day = day /\ held \subseteq gui.holdings

(* A restored checkpoint, after the journal was recovered.  (Trusting is a *)
(* mutant: what the checkpoint says is done is believed.)                  *)
RestoredTrusting(c, sig, gui, held) ==
    IF c = None THEN FreshJob
    ELSE [c EXCEPT !.status = IF @ = "RUNNING" THEN "PENDING" ELSE @]

Restored(c, sig, gui, held) ==
    IF c = None THEN FreshJob
    ELSE [c EXCEPT !.completed = {d \in @ : Valid(d, sig, gui, held)},
                   !.status = IF @ = "RUNNING" THEN "PENDING" ELSE @]

Rejected(j) == [j EXCEPT !.status = "BLOCKED", !.error = "CHECKPOINT_REJECTED"]

-----------------------------------------------------------------------------
Init ==
    /\ latest = 1 /\ closed \in BOOLEAN /\ calendar = TRUE
    /\ account = {} /\ symbols = {}
    /\ signals = Empty /\ guidance = Empty /\ journal = None
    /\ ckpt = None /\ job = FreshJob
    /\ up = TRUE /\ stop = FALSE
    /\ live = [signals |-> Empty, guidance |-> Empty]
    /\ runner = [NoRunner EXCEPT !.pc = "initial"]
    /\ note = NoNote /\ notes = 0
    /\ published = {}
    /\ changes = 0 /\ upsets = 0

(* Time.                                                                   *)

Morning ==
    /\ closed /\ latest < MaxDay
    /\ closed' = FALSE
    /\ UNCHANGED <<latest, calendar, account, files, ckpt, up, stop, job, symbols, live, runner,
                   notifier, published, counters>>

Close ==
    /\ ~closed /\ latest < MaxDay /\ upsets < MaxUpsets
    /\ latest' = latest + 1 /\ closed' = TRUE /\ upsets' = upsets + 1
    /\ UNCHANGED <<calendar, account, files, ckpt, up, stop, job, symbols, live, runner,
                   notifier, published, changes>>

(* A new year begins that the calendar of this version does not have.      *)
CalendarEnds ==
    /\ calendar /\ upsets < MaxUpsets
    /\ calendar' = FALSE /\ upsets' = upsets + 1
    /\ UNCHANGED <<latest, closed, account, files, ckpt, up, stop, job, symbols, live, runner,
                   notifier, published, changes>>

(* The instant of the next retry passes, for the process and its file      *)
(* (after a rejected checkpoint nobody looks at it).                       *)
BackoffOver ==
    /\ job.backoff /\ job.error # "CHECKPOINT_REJECTED"
    /\ job' = [job EXCEPT !.backoff = FALSE]
    /\ ckpt' = IF ckpt = None THEN None ELSE [ckpt EXCEPT !.backoff = FALSE]
    /\ UNCHANGED <<clock, account, files, up, stop, symbols, live, runner, notifier,
                   published, counters>>

-----------------------------------------------------------------------------
(* The coordinator's thread.                                               *)

(* The checkpoint is replaced as a whole, or it cannot be written and stays *)
(* as it was; in the runner this pauses the job.                           *)
SavedOr(j, failure) ==
    \/ job' = j /\ ckpt' = j
    \/ job' = failure /\ ckpt' = ckpt

Goto(pc) == runner' = [runner EXCEPT !.pc = pc]

(* run_initial takes the latest completed session, run_due today's session *)
(* once it has closed and what is pending before that.                     *)
Target == IF runner.pc = "initial" \/ closed THEN latest ELSE job.pending

CalendarFailure ==
    /\ runner.pc \in {"initial", "idle"} /\ ~stop /\ ~calendar
    /\ SavedOr([job EXCEPT !.status = "BLOCKED", !.error = "CALENDAR_UNAVAILABLE"],
               [job EXCEPT !.status = "BLOCKED", !.error = "CHECKPOINT_WRITE_FAILED"])
    /\ Goto("idle")
    /\ UNCHANGED <<clock, account, files, up, stop, symbols, live, notifier, published, counters>>

(* The intent is written before anything else is done. *)
Begin ==
    /\ runner.pc \in {"initial", "idle"} /\ ~stop /\ calendar
    /\ Target # None /\ Startable(job, Target)
    /\ \/ /\ job' = Begun(job, Target) /\ ckpt' = job'
          /\ runner' = [NoRunner EXCEPT !.pc = "read", !.target = Target]
       \/ /\ job' = Unsaved(Begun(job, Target), Target) /\ ckpt' = ckpt
          /\ Goto("idle")
    /\ UNCHANGED <<clock, account, files, up, stop, symbols, live, notifier, published, counters>>

InitialSkipped ==
    /\ runner.pc = "initial" /\ ~stop /\ calendar
    /\ ~Startable(job, latest)
    /\ Goto("idle")
    /\ UNCHANGED <<clock, account, files, ckpt, up, stop, job, symbols, live, notifier,
                   published, counters>>

(* refresh_eod_state: a journal that is there is recovered first.          *)
Recover ==
    /\ runner.pc = "read" /\ journal # None
    /\ runner' = [runner EXCEPT !.pc = "signals", !.recovering = TRUE]
    /\ UNCHANGED <<clock, account, files, ckpt, up, stop, job, symbols, live, notifier,
                   published, counters>>

ReadHoldings ==
    /\ runner.pc = "read" /\ journal = None
    /\ runner' = [runner EXCEPT !.pc = "fetch", !.holdings = symbols]
    /\ UNCHANGED <<clock, account, files, ckpt, up, stop, job, symbols, live, notifier,
                   published, counters>>

(* The candidates in memory, if there are any, replace the file.           *)
Persisted == IF live.signals = Empty THEN signals ELSE live.signals

(* The data are fetched and staged; or not, and then the candidates in     *)
(* memory are shown, and written, again.                                   *)
Fetch ==
    /\ runner.pc = "fetch"
    /\ \/ Goto("commit") /\ signals' = signals
       \/ Goto("failed") /\ signals' = Persisted
       \/ Goto("failed") /\ signals' = signals
       \/ Goto("denied") /\ signals' = signals
    /\ UNCHANGED <<clock, account, guidance, journal, ckpt, up, stop, job, symbols, live, notifier,
                   published, counters>>

(* commit, under the state lock, which is held until the files are in      *)
(* place: give up, or write the journal.                                   *)
Locked == runner.pc \in {"signals", "guidance", "unlink"}

Commit ==
    /\ runner.pc = "commit"
    /\ \/ (stop \/ symbols # runner.holdings) /\ Goto("failed") /\ journal' = journal
       \/ Goto("failed") /\ journal' = journal
       \/ /\ ~stop /\ symbols = runner.holdings
          /\ journal' = [day |-> runner.target, holdings |-> runner.holdings]
          /\ Goto("signals")
    /\ UNCHANGED <<clock, account, signals, guidance, ckpt, up, stop, job, symbols, live, notifier,
                   published, counters>>

(* _apply: each replacement may fail and leave the rest to the journal.    *)
ReplaceSignals ==
    /\ runner.pc = "signals"
    /\ \/ signals' = journal /\ Goto("guidance")
       \/ signals' = signals /\ \E pc \in {"failed", "denied"} : Goto(pc)
    /\ UNCHANGED <<clock, account, guidance, journal, ckpt, up, stop, job, symbols, live, notifier,
                   published, counters>>

ReplaceGuidance ==
    /\ runner.pc = "guidance"
    /\ \/ /\ guidance' = journal /\ published' = published \union {journal}
          /\ Goto("unlink")
       \/ /\ UNCHANGED <<guidance, published>>
          /\ \E pc \in {"failed", "denied"} : Goto(pc)
    /\ UNCHANGED <<clock, account, signals, journal, ckpt, up, stop, job, symbols, live, notifier,
                   counters>>

(* The view in memory follows the files: every row of them, or none.       *)
Loaded(sig, gui) == [signals |-> sig, guidance |-> gui]

(* The journal goes, and the view in memory is loaded again.               *)
UnlinkJournal ==
    /\ runner.pc = "unlink"
    /\ \/ /\ journal' = None /\ live' = Loaded(signals, guidance)
          /\ runner' = [runner EXCEPT !.pc = IF runner.recovering THEN "read" ELSE "finish",
                                      !.recovering = FALSE]
       \/ /\ UNCHANGED <<journal, live>>
          /\ \E pc \in {"failed", "denied"} : Goto(pc)
    /\ UNCHANGED <<clock, account, signals, guidance, ckpt, up, stop, job, symbols, notifier,
                   published, counters>>

(* The end of a run: the outcome is recorded, or the job is paused because *)
(* it cannot be.  (OutcomeIgnored is a mutant: what the refresh returned is *)
(* not looked at.)                                                         *)
OutcomeIgnored ==
    IF runner.pc = "denied" THEN DeniedRun(job, runner.target)
    ELSE Succeeded(job, runner.target, runner.stale)

Outcome ==
    CASE runner.pc = "finish" -> Succeeded(job, runner.target, runner.stale)
      [] runner.pc = "failed" -> FailedRun(job, runner.stale)
      [] OTHER -> DeniedRun(job, runner.target)

RunEnds ==
    /\ runner.pc \in {"finish", "failed", "denied"}
    /\ SavedOr(Outcome, Unsaved(Outcome, runner.target))
    /\ runner' = [NoRunner EXCEPT !.pc = "idle"]
    /\ UNCHANGED <<clock, account, files, up, stop, symbols, live, notifier, published, counters>>

-----------------------------------------------------------------------------
(* Account events and their notification; one notification at a time.      *)

AccountChanges(held) ==
    /\ up /\ changes < MaxChanges /\ held # account
    /\ account' = held /\ notes' = notes + 1 /\ changes' = changes + 1
    /\ UNCHANGED <<clock, files, ckpt, up, stop, job, symbols, live, runner, note,
                   published, upsets>>

NoteRead ==
    /\ note.pc = "idle" /\ notes > 0
    /\ note' = [NoNote EXCEPT !.pc = "update", !.symbols = account]
    /\ UNCHANGED <<clock, account, files, ckpt, up, stop, job, symbols, live, runner, notes,
                   published, counters>>

NoteEnds == note' = NoNote /\ notes' = notes - 1

NoteUpdate ==
    /\ note.pc = "update" /\ ~Locked
    /\ symbols' = note.symbols
    /\ IF symbols' # symbols THEN note' = [note EXCEPT !.pc = "clock"] /\ notes' = notes ELSE NoteEnds
    /\ UNCHANGED <<clock, account, files, ckpt, up, stop, job, live, runner, published, counters>>

(* request_refresh reads the clock before it takes the lock.               *)
NoteClock ==
    /\ note.pc = "clock"
    /\ IF calendar THEN note' = [note EXCEPT !.pc = "request", !.target = latest] /\ notes' = notes
       ELSE NoteEnds
    /\ UNCHANGED <<clock, account, files, ckpt, up, stop, job, symbols, live, runner,
                   published, counters>>

(* A request resets the attempts, and makes a run under way stale; its     *)
(* failure to write the checkpoint is only reported.                       *)
RequestAt(j, target) ==
    /\ SavedOr(Requested(j, target), Requested(j, target))
    /\ runner' = [runner EXCEPT !.stale = TRUE]

NoteRequest ==
    /\ note.pc = "request"
    /\ NoteEnds
    /\ IF job.error = "CHECKPOINT_REJECTED" THEN UNCHANGED <<job, ckpt, runner>>
       ELSE RequestAt(job, note.target)
    /\ UNCHANGED <<clock, account, files, up, stop, symbols, live, published, counters>>

(* retry_after_review: the operator lifts a pause.                         *)
Review ==
    LET lifted == [job EXCEPT !.blocked = None, !.status = "PENDING", !.error = None]
    IN  /\ up /\ upsets < MaxUpsets
        /\ job.error # "CHECKPOINT_REJECTED" /\ ~stop
        /\ runner.pc \in {"initial", "idle"}
        /\ IF calendar THEN RequestAt(lifted, latest)
           ELSE job' = lifted /\ UNCHANGED <<ckpt, runner>>
        /\ upsets' = upsets + 1
        /\ UNCHANGED <<clock, account, files, up, stop, symbols, live, notifier, published,
                       changes>>

-----------------------------------------------------------------------------
(* The process.                                                            *)

Stop ==
    /\ up /\ ~stop
    /\ stop' = TRUE
    /\ UNCHANGED <<clock, account, files, ckpt, up, job, symbols, live, runner, notifier,
                   published, counters>>

Ends ==
    /\ up /\ upsets < MaxUpsets
    /\ up' = FALSE /\ stop' = FALSE /\ upsets' = upsets + 1
    /\ job' = FreshJob /\ symbols' = {} /\ runner' = NoRunner /\ note' = NoNote /\ notes' = 0
    /\ live' = [signals |-> Empty, guidance |-> Empty]
    /\ UNCHANGED <<clock, account, files, ckpt, published, changes>>

(* Startup recovers the journal, loads the files and the holdings, and     *)
(* restores the checkpoint, which the clock may show to be wrong.          *)
(* (RecoveredNothing is a mutant.)                                           *)
RecoveredNothing(file) == file

RecoveredFile(file) == IF journal = None THEN file ELSE journal

Start ==
    /\ ~up
    /\ up' = TRUE
    /\ signals' = RecoveredFile(signals) /\ guidance' = RecoveredFile(guidance) /\ journal' = None
    /\ published' = published \union (IF journal = None THEN {} ELSE {journal})
    /\ live' = Loaded(signals', guidance')
    /\ symbols' = account
    /\ calendar' \in BOOLEAN
    /\ LET j == Restored(ckpt, signals', guidance', account)
       IN  \/ job' = j /\ stop' = FALSE /\ runner' = [NoRunner EXCEPT !.pc = "initial"]
           \/ ckpt # None /\ job' = Rejected(j) /\ stop' = TRUE /\ runner' = NoRunner
    /\ UNCHANGED <<latest, closed, account, ckpt, notifier, counters>>

-----------------------------------------------------------------------------
Run ==
    \/ CalendarFailure \/ Begin \/ InitialSkipped \/ Recover \/ ReadHoldings \/ Fetch \/ Commit
    \/ ReplaceSignals \/ ReplaceGuidance \/ UnlinkJournal \/ RunEnds

Notify == NoteRead \/ NoteUpdate \/ NoteClock \/ NoteRequest

Next ==
    \/ Morning \/ Close \/ CalendarEnds \/ BackoffOver
    \/ Run \/ Notify \/ Review
    \/ \E held \in SUBSET Stocks : AccountChanges(held)
    \/ Stop \/ Ends \/ Start

Spec == Init /\ [][Next]_vars

(* The thread polls every minute and each of its steps ends (a refresh has *)
(* a deadline); a request thread goes on; retry delays pass.               *)
FairSpec == Spec /\ WF_vars(Run) /\ WF_vars(Notify) /\ WF_vars(BackoffOver)

-----------------------------------------------------------------------------
(* Properties.                                                             *)

(* "Never as a fabricated success": a session that the checkpoint calls    *)
(* completed had both files of one bundle of it in place (_persist, _apply, *)
(* recover).                                                               *)
NoFabricatedSuccess ==
    ckpt # None => \A d \in ckpt.completed : \E b \in published : b.day = d

(* The "logical commit": without a journal, candidates and plans on disk   *)
(* are of one bundle, and those in memory always are (publish_daily_bundle, *)
(* startup recovery).                                                      *)
OneBundle ==
    /\ journal = None => signals = guidance
    /\ live.signals = live.guidance

(* A completed session covers the holdings: as long as no notification is  *)
(* under way, the plans cover the account.  A calendar that ended or a     *)
(* rejected checkpoint refuses requests (request_refresh).                 *)
CompletedCovers ==
    (up /\ calendar /\ job.error # "CHECKPOINT_REJECTED" /\ notes = 0 /\ latest \in job.completed)
        => account \subseteq guidance.holdings

(* A change of the holdings is covered in the end, and the latest session  *)
(* done, unless the process is gone or the job says that it is paused or   *)
(* has used up its attempts.                                               *)
Halted ==
    \/ ~up \/ stop
    \/ job.status = "BLOCKED" \/ job.blocked # None \/ job.attempts = MaxAttempts

HoldingsCovered ==
    <>[](Halted \/ (latest \in job.completed /\ account \subseteq guidance.holdings))

=============================================================================
