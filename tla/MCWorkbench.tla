----------------------------- MODULE MCWorkbench -----------------------------
(* The parts of the workbench that share no state with each other, each in a  *)
(* scene of its own: the scene is chosen at the start, and only the part it   *)
(* names takes steps.  The account is checked alone over two days and with    *)
(* the risk thread that watches its holdings over one.                        *)
EXTENDS PublicRisk, TLC

CONSTANTS MaxUpsets,
          Keys, Versions, Contents, MaxFile, MaxBytes, MaxReplaces,
          Apps, Crews, Conns, Limits, Price, Excess, Daily, PerTask, MaxRequests, MaxTasks, MaxKeys,
          Watched, StaleAfter, Interval, MaxTime, MaxChanges,
          MaxDay, MaxPreviews,
          Workers, Preds, MaxCuts,
          Stocks, Steady, Index, MaxSession,
          Bundles, MaxArtifacts, MaxFrozen,
          Names, Blank, Unreadable, Damaged, MaxWrites

VARIABLES scene,
          manifest, blobs, damaged, strays, markers, op, handed, calls, failed,
          crew, date, tasks, upsets, days, trial, config, rev, key, probe, probing, task,
          charged, billed,
          now, priority, store, lastSeen, breaker, slot, refresh, pending, snap, poll, gate,
          cached, quoted, changes,
          disk, torn, surplus, recorded, positions, books, baseline, unrecorded, tokens, confirm,
          inbox, day, previews, acked, telling, taken, sync,
          lines, answered, priced, dated, stage, job, clock, mem, batch, cuts,
          lake, evidence, session, posted, listed, child, cutoff, damages, ends,
          bundle, today, over, artifact, made, contest, archive, frozen, freezer, predictor,
          rows, deaths,
          folder, past, returned, writes, on, looks, entries, reading, offered, ledger, snapshot, view

Row(side, sym, d) == [side |-> side, sym |-> sym, day |-> d]
Exports == [fills |-> <<Row("buy", 1, 1), Row("sell", 1, 2)>>, holding |-> <<Row("hold", 2, 1)>>]

(* Two exports of a day's fills, the second one longer and with a bad row, one *)
(* with a count that is none, and positions listed twice.                      *)
Bought(s) == [symbol |-> s, name |-> "name", quantity |-> 1, price |-> 1]
Holds(s, total, available, cash) ==
    [symbol |-> s, total |-> total, available |-> available, cost |-> 1, cash |-> cash]
SheetOf(columns, cells) == [columns |-> columns, doubled |-> {}, rows |-> cells]
FillColumns == {"symbol", "name", "quantity", "price"}
Sheets ==
    [morning |-> SheetOf(FillColumns, <<Bought("a")>>),
     evening |-> SheetOf(FillColumns, <<Bought("a"), [Bought("b") EXCEPT !.name = Blank], Bought("b")>>),
     summed |-> SheetOf(FillColumns, <<Bought("a"), [Bought("b") EXCEPT !.quantity = Blank]>>),
     holding |-> SheetOf({"symbol", "total", "available", "cost", "cash"},
                         <<Holds("a", 2, 1, Unreadable), Holds("a", 2, 2, 7), Holds("b", 1, Blank, 7)>>)]

Store == INSTANCE ResearchDataStore WITH Size <- [d \in Contents |-> 1], upsets <- failed
Agent == INSTANCE AgentRuntime WITH day <- date
Quotes == INSTANCE RealtimeQuotes
            WITH Symbols <- UNION Watched, Monitored <- Watched, shown <- quoted
Desk == INSTANCE AccountDesk
          WITH Symbols <- {1, 2}, Requests <- {0, 1, 2}, Files <- Exports,
               monitored <- universe, mishaps <- faults
Watch == INSTANCE AccountWatch
           WITH Symbols <- {1, 2}, Requests <- {2}, Files <- Exports, MaxDay <- 1,
                monitored <- universe, mishaps <- faults

Ledger == INSTANCE ProspectiveLedger
            WITH AsOf <- [p \in Preds |-> 0], Horizon <- 1, Unpriced <- {}, MaxDay <- 1,
                 MaxFaults <- MaxCuts, file <- lines, acked <- answered, day <- dated,
                 pc <- stage, kind <- job, now <- clock, faults <- cuts
Lake == INSTANCE DailyLake
          WITH Halted <- Stocks \ Steady, HaltDay <- 3, Lookback <- 2, MinRows <- 2,
               MinStocks <- 1, Holdings <- {{}, Steady}, MaxDamages <- MaxUpsets,
               MaxEnds <- MaxUpsets
Contest == INSTANCE ProspectiveContest
             WITH Symbols <- Stocks, Freezers <- {"tick"}, Predictors <- {"worker"},
                  LastDay <- 2, MaxDeaths <- MaxUpsets
Imports == INSTANCE ImportInbox
             WITH Sheet <- Sheets, day <- on, previews <- looks, tokens <- offered

ASSUME LedgerAssumption == Ledger!ConstantsAssumption
ASSUME BudgetAssumption == Agent!BoundsAssumption
ASSUME DeskAssumption == Desk!AccountAssumption
ASSUME WatchAssumption == Watch!AccountAssumption
ASSUME QuotesAssumption == Quotes!QuotesAssumption
ASSUME SteadyAssumption == Steady \subseteq Stocks

storeVars == <<manifest, blobs, damaged, strays, markers, op, handed, calls, failed>>
agentVars == <<crew, date, tasks, upsets, days, trial, config, rev, key, probe, probing, task,
               charged, billed>>
quoteVars == <<now, priority, store, lastSeen, breaker, slot, refresh, pending, snap, poll, gate,
               cached, quoted, changes>>
deskVars == <<disk, torn, surplus, recorded, positions, books, baseline, unrecorded, tokens,
              confirm, inbox, day, previews, acked, telling, taken, sync>>
sharedVars == <<faults, universe>>
threadVars == <<owed, wake, thread, kept, shown>>
newsVars == <<news, events>>
ledgerVars == <<lines, answered, priced, dated, stage, job, clock, mem, batch, cuts>>
lakeVars == <<lake, evidence, session, posted, listed, child, cutoff, damages, ends>>
contestVars == <<bundle, today, over, artifact, made, contest, archive, frozen, freezer,
                 predictor, rows, deaths>>
importVars == <<folder, past, returned, writes, on, looks, entries, reading, offered, ledger,
                snapshot, view>>
vars == <<scene, storeVars, agentVars, quoteVars, deskVars, sharedVars, threadVars, newsVars,
          ledgerVars, lakeVars, contestVars, importVars>>

Init == /\ scene \in {"store", "agent", "quotes", "desk", "watch", "risk", "ledger", "lake", "contest",
                    "imports"}
        /\ Store!StoreInit /\ Agent!Init /\ Quotes!RealtimeInit
        /\ Desk!DeskInit /\ RiskInit
        /\ Ledger!Init /\ Lake!LakeInit /\ Contest!ContestInit
        /\ Imports!InboxInit
        /\ scene # "imports" => DOMAIN folder = {}
        /\ scene # "agent" => trial = None /\ \A a \in crew : config[a].limit = 1
        /\ scene # "quotes" => ~ cached /\ priority = UNION Watched
        /\ scene \notin {"desk", "watch"} => inbox = "fills"
        /\ lake[Index].days = {1, 2}
        /\ scene # "lake" => posted /\ \A s \in DOMAIN lake : lake[s] = lake[Index]
        /\ scene # "contest" => bundle = CHOOSE b \in Bundles : TRUE

(* A scene leaves the variables of all other scenes alone. *)
In(name, step) == scene = name /\ step /\ UNCHANGED scene
Parts == <<storeVars, agentVars, quoteVars>>
Account == <<deskVars, sharedVars, threadVars, newsVars, importVars>>
Research == <<ledgerVars, lakeVars, contestVars>>

Next ==
    \/ /\ In("store", Store!StoreNext)
       /\ UNCHANGED <<agentVars, quoteVars, Account, Research>>
    \/ /\ In("agent", Agent!Next)
       /\ UNCHANGED <<storeVars, quoteVars, Account, Research>>
    \/ /\ In("quotes", Quotes!RealtimeNext)
       /\ UNCHANGED <<storeVars, agentVars, Account, Research>>
    \/ /\ In("desk", Desk!DeskNext)
       /\ UNCHANGED <<Parts, threadVars, newsVars, Research, importVars>>
    \/ /\ In("watch", Watch!WatchNext)
       /\ UNCHANGED <<Parts, newsVars, Research, importVars>>
    \/ /\ In("risk", RiskNext)
       /\ UNCHANGED <<Parts, deskVars, Research, importVars>>
    \/ /\ In("ledger", Ledger!Next)
       /\ UNCHANGED <<Parts, Account, lakeVars, contestVars>>
    \/ /\ In("lake", Lake!LakeNext)
       /\ UNCHANGED <<Parts, Account, ledgerVars, contestVars>>
    \/ /\ In("contest", Contest!ContestNext)
       /\ UNCHANGED <<Parts, Account, ledgerVars, lakeVars>>
    \/ /\ In("imports", Imports!InboxNext)
       /\ UNCHANGED <<Parts, deskVars, sharedVars, threadVars, newsVars, Research>>

Spec == Init /\ [][Next]_vars
------------------------------------------------------------------------------
GivenStaysReadable == scene = "store" => Store!GivenStaysReadable
NothingUnmarked == scene = "store" => Store!NothingUnmarked
StoreIsLog == Store!StoreIsLog

ChargesCovered == scene = "agent" => Agent!ChargesCovered
LimitsHold == Agent!LimitsHold
CallsVerified == Agent!CallsVerified

HandedForward == Quotes!HandedForward

AnsweredIsKept == scene \in {"desk", "watch"} => Desk!AnsweredIsKept
FileReplays == scene \in {"desk", "watch"} => Desk!FileReplays
HoldingsAssessed == scene = "watch" => Watch!HoldingsAssessed
ImportsAreTheirSource == scene = "imports" => Imports!ImportsAreTheirSource

OnlyJoinedLinesBreak == scene = "ledger" => Ledger!OnlyJoinedLinesBreak
HistoryKept == Ledger!HistoryKept
PublishedWhole == Lake!PublishedWhole
OneInputPerDay == scene = "contest" => Contest!OneInputPerDay
ContestKept == scene = "contest" => Contest!ContestKept
==============================================================================
