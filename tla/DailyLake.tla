------------------------------ MODULE DailyLake ------------------------------
(* The daily refresh of the local lake: a child process brings one file per    *)
(* symbol up to the session asked for, request by request, and the workbench   *)
(* publishes candidates only when every file of the refresh succeeded.  The    *)
(* child may be terminated between any two requests; when the workbench itself *)
(* dies, the child works on and nobody reads its result.  (A second child that *)
(* works beside such an orphan is not modelled: a file has no lock, and the    *)
(* bars one of them wrote last are lost or not by chance.)                     *)
EXTENDS Naturals, FiniteSets, FiniteSetsExt

CONSTANTS Stocks, Index,  \* the symbols; Index is the benchmark
          Halted, HaltDay,\* stocks without a trade on one session
          MaxSession,     \* bound: the last session
          Lookback,       \* lookback_days, in sessions
          MinRows,        \* minimum_history_rows, and min_history of the ranking
          MinStocks,      \* min_cross_section
          Holdings,       \* what the account may hold at a refresh
          MaxDamages,     \* bound: files damaged
          MaxEnds,        \* bound: refused requests, ended processes
          None

VARIABLES lake,       \* [Tracked -> file], evidence: symbols with a *.corrupt-* file
          evidence,
          session, posted,   \* the latest session, and whether its bars can be had
          listed,     \* stocks the instrument list has
          child,      \* None or the refresh the child works on
          cutoff,     \* session of the published candidates
          damages, ends

lakeVars == <<lake, evidence, session, posted, listed, child, cutoff, damages, ends>>

Tracked == Stocks \cup {Index}
Sessions == 1..MaxSession
Traded(s) == IF s \in Halted THEN Sessions \ {HaltDay} ELSE Sessions
Newest == IF posted THEN session ELSE session - 1

(* A file: absent, damaged, or bars of some days in one adjustment.           *)
Absent == [state |-> "absent", days |-> {}, own |-> TRUE]
Bars(days, own) == [state |-> "bars", days |-> days, own |-> own]
Valid(s) == lake[s].state = "bars"
First(target) == IF target > Lookback THEN target - Lookback ELSE 1

LakeInit ==
    /\ session = 3 /\ posted \in BOOLEAN
    /\ lake \in [Tracked -> {Absent, Bars({1, 2}, TRUE), Bars({1}, TRUE), Bars({1, 2}, FALSE)}]
    /\ lake[Index] # Absent /\ lake[Index].own
    /\ \A s \in Tracked : lake[s].days \subseteq Traded(s)
    /\ evidence = {} /\ listed = Stocks /\ cutoff = 0
    /\ child = None /\ damages = 0 /\ ends = 0

World == <<session, posted, listed, damages>>
Stage(stage) == child # None /\ child.stage = stage

(* paths: every file there is, and those the account requires.                *)
Paths(held) == {s \in Tracked : lake[s].state # "absent"}
                   \cup IF held = {} THEN {} ELSE held \cup {Index}
Complete(paths) == /\ paths # {}
                   /\ \A s \in paths : /\ Valid(s) /\ Max(lake[s].days) >= session
                                       /\ Cardinality(lake[s].days) >= MinRows

(* run_bounded_daily_refresh starts a child, which looks at the files.        *)
Launch(held) ==
    /\ child = None
    /\ LET paths == Paths(held)
       IN  child' = [target |-> session, had |-> Newest, todo |-> paths, failed |-> {},
                          bad |-> {s \in paths : lake[s].state = "damaged"}, ask |-> None,
                          stage |-> IF Complete(paths) THEN "end" ELSE "list"]
    /\ UNCHANGED <<lake, evidence, World, cutoff, ends>>

(* A damaged file is renamed, and kept as evidence.                           *)
Quarantine(s) ==
    /\ Stage("list") /\ s \in child.bad
    /\ child' = [child EXCEPT !.bad = @ \ {s}]
    /\ lake' = [lake EXCEPT ![s] = Absent]
    /\ evidence' = IF lake[s] = Absent THEN evidence ELSE evidence \cup {s}
    /\ UNCHANGED <<World, cutoff, ends>>

(* The instruments, restricted to the files there are; a file of none fails.  *)
List ==
    /\ Stage("list") /\ child.bad = {}
    /\ LET paths == child.todo
       IN  child' = IF paths = {} THEN [child EXCEPT !.stage = "ask", !.todo = listed]
                    ELSE [child EXCEPT !.stage = "ask", !.todo = paths \cap (listed \cup {Index}),
                                       !.failed = paths \ (listed \cup {Index})]
    /\ UNCHANGED <<lake, evidence, World, cutoff, ends>>

(* requested_start: the day after the last one held, or the whole window. An  *)
(* index whose adjustment changed is asked for from its own first day.        *)
Short(s) == Cardinality(lake[s].days) < MinRows
Start(s, target) ==
    IF ~ lake[s].own THEN IF s = Index THEN Min(lake[s].days) ELSE First(target)
    ELSE IF Short(s) THEN First(target) ELSE Max(lake[s].days) + 1
Answer(s, target) == {d \in Traded(s) : Start(s, target) <= d /\ d <= target /\ d <= Newest}

(* The stocks come first, the index after them; a request may be unnecessary. *)
Asking(s) == /\ Stage("ask") /\ child.ask = None /\ s \in child.todo
             /\ s = Index => child.todo = {Index}
             /\ lake[s].state # "damaged"
Skip(s) ==
    /\ Asking(s) /\ Start(s, child.target) > child.target
    /\ child' = [child EXCEPT !.todo = @ \ {s}]
    /\ UNCHANGED <<lake, evidence, World, cutoff, ends>>
Ask(s) ==
    /\ Asking(s) /\ Start(s, child.target) <= child.target
    /\ child' = [child EXCEPT !.ask = [sym |-> s, days |-> Answer(s, child.target),
                                       replace |-> ~ lake[s].own]]
    /\ UNCHANGED <<lake, evidence, World, cutoff, ends>>

(* Mutant: a symbol whose request failed counts as one that was updated. *)
FailUncounted(r, s) == [r EXCEPT !.todo = @ \ {s}, !.ask = None]

(* Any error of one symbol is counted, and the next one is asked for.         *)
FailedFor(r, s) == [r EXCEPT !.todo = @ \ {s}, !.ask = None, !.failed = @ \cup {s}]
Refused(s) ==
    /\ ends < MaxEnds /\ ends' = ends + 1
    /\ Asking(s) /\ Start(s, child.target) <= child.target
    /\ child' = FailedFor(child, s)
    /\ UNCHANGED <<lake, evidence, World, cutoff>>

(* The bars are merged with those of the file, or replace them; no bars      *)
(* change nothing.  A file that cannot be read now fails.                    *)
Merged(s, ask) == IF ask.days = {} THEN lake[s]
                  ELSE Bars(ask.days \cup IF ask.replace THEN {} ELSE lake[s].days, TRUE)
Write ==
    /\ Stage("ask") /\ child.ask # None
    /\ LET ask == child.ask
           s == ask.sym
           unread == lake[s].state = "damaged" /\ ~ ask.replace /\ ask.days # {}
       IN  /\ lake' = IF unread THEN lake ELSE [lake EXCEPT ![s] = Merged(s, ask)]
           /\ child' = IF unread THEN FailedFor(child, s)
                       ELSE [child EXCEPT !.todo = @ \ {s}, !.ask = None]
    /\ UNCHANGED <<evidence, World, cutoff, ends>>

Finish == /\ Stage("ask") /\ child.ask = None /\ child.todo = {}
          /\ child' = [child EXCEPT !.stage = "end"]
          /\ UNCHANGED <<lake, evidence, World, cutoff, ends>>

(* A file damaged since the child looked ends it: daily_profile raises.  A   *)
(* child may also end at its deadline, with the workbench, or by itself.       *)
Break ==
    /\ child # None /\ child' = None
    /\ \/ /\ Stage("ask") /\ child.ask = None
          /\ \E s \in child.todo : lake[s].state = "damaged"
          /\ ends' = ends
       \/ ends < MaxEnds /\ ends' = ends + 1
    /\ UNCHANGED <<lake, evidence, World, cutoff>>

(* The session that the benchmark and enough other long files reach.          *)
Ready == {s \in Tracked : Valid(s) /\ ~ Short(s)}
Reached(d) == {s \in Ready : Max(lake[s].days) >= d}
AsOf == Max({0} \cup {d \in Sessions : /\ Index \in Reached(d)
                                       /\ Cardinality(Reached(d)) > MinStocks
                                       /\ \E s \in Ready : Max(lake[s].days) = d})

(* load_or_generate_official_store: the candidates of the latest common       *)
(* session, when all files can be read and that session is fresh and no older *)
(* than what there is.                                                        *)
Fresh(target) == /\ \A s \in Tracked : lake[s].state # "damaged"
                 /\ AsOf = target /\ session - target <= 1 /\ target >= cutoff

(* refresh_eod_state: nothing is published after any failure.  Publication   *)
(* may still fail: no stock passes the gates, the holdings changed, ...       *)
Publish ==
    /\ Stage("end") /\ child.failed = {} /\ Fresh(child.target)
    /\ cutoff' = child.target /\ child' = None
    /\ UNCHANGED <<lake, evidence, World, ends>>
GiveUp ==
    /\ Stage("end") /\ child' = None
    /\ UNCHANGED <<lake, evidence, World, cutoff, ends>>

Environment ==
    \/ /\ session < MaxSession /\ session' = session + 1 /\ posted' = FALSE
       /\ UNCHANGED <<lake, listed, damages>>
    \/ /\ ~ posted /\ posted' = TRUE /\ UNCHANGED <<lake, session, listed, damages>>
    \/ /\ \E s \in listed : listed' = listed \ {s} /\ Cardinality(listed) > MinStocks
       /\ UNCHANGED <<lake, session, posted, damages>>
    \/ /\ damages < MaxDamages /\ damages' = damages + 1
       /\ \E s \in Tracked : /\ Valid(s)
                             /\ lake' = [lake EXCEPT ![s] = [Absent EXCEPT !.state = "damaged"]]
       /\ UNCHANGED <<session, posted, listed>>
Elsewhere == Environment /\ UNCHANGED <<evidence, child, cutoff, ends>>

LakeNext ==
    \/ \E held \in Holdings : Launch(held)
    \/ \E s \in Tracked : Quarantine(s) \/ Skip(s) \/ Ask(s) \/ Refused(s)
    \/ List \/ Write \/ Finish \/ Break \/ Publish \/ GiveUp \/ Elsewhere

LakeSpec == LakeInit /\ [][LakeNext]_lakeVars
------------------------------------------------------------------------------
(* What a publication of daily candidates rests on: every file of the lake    *)
(* has, from its first day in the window on, each session that the provider   *)
(* had when the refresh began, whatever failed, ended or was merged before.   *)
Owed(s, r) == {d \in Traded(s) : /\ First(r.target) <= d /\ Min(lake[s].days) <= d
                                 /\ d <= r.target /\ d <= r.had}
PublishedWhole ==
    [][cutoff' # cutoff =>
         \A s \in Tracked : Valid(s) => Owed(s, child) \subseteq lake[s].days]_lakeVars

(* "A damaged file is never mistaken for a finished refresh"                  *)
(* (docs/superpowers/specs/2026-08-13-reliability-upgrade-design.md:28): when *)
(* candidates are published, every file that was put aside is there again.    *)
DamageRepaired == [][cutoff' # cutoff => \A s \in evidence : lake[s] # Absent]_lakeVars
==============================================================================
