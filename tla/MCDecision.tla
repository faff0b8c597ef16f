------------------------------ MODULE MCDecision ------------------------------
(* The parts between the data and the person who decides, each in a scene of  *)
(* its own: the daily job that publishes candidates and plans, the guidance a *)
(* reader is shown, the confirmations that change the champion, and the       *)
(* historical screen of the models.                                           *)
EXTENDS Integers, Sequences, FiniteSets, TLC

CONSTANTS None, Stocks, MaxAttempts, MaxDay, MaxChanges, MaxUpsets,
          Prices, Scores, SessionLength, StaleAfter, RiskAge, MaxTime, MaxEvents,
          Handlers, Reports, Models, MaxTokens, MaxFaults,
          Symbols, Halts, MaxHalts, Reaches, Horizon, TrainSessions, ValidationSessions,
          EmbargoSessions, TestSessions, MinimumWindows, MinimumSessions

VARIABLES scene,
          latest, closed, calendar, account, signals, guidance, journal, ckpt, up, stop, job,
          symbols, live, runner, note, notes, published, changes, upsets,
          now, quote, poll, view, cache, daily, plans, risk, events, request,
          champion, reports, tokens, audit, file, previews, handler, issued, spent, faults,
          halts, active, recorded, damaged, worker

(* One rising stock: its close, its range and its supports. *)
Rising == [close |-> 100, atr |-> 2, ma20 |-> 100, ma60 |-> 95, support |-> 97]

Publication == INSTANCE DailyPublication
Guidance == INSTANCE PriceGuidance WITH Features <- {Rising}
Evolution == INSTANCE ModelEvolution
Screening == INSTANCE HistoricalScreen
                WITH Candidates <- {"momentum-5", "momentum-20"},
                     Lookback <- ("momentum-5" :> 1 @@ "momentum-20" :> 2)

ASSUME PublicationAssumption == Publication!ConstantsAssumption
ASSUME GuidanceAssumption == Guidance!GuidanceAssumption
ASSUME ScreenAssumption == Screening!ScreenAssumption

publicationVars == <<latest, closed, calendar, account, signals, guidance, journal, ckpt, up, stop,
                     job, symbols, live, runner, note, notes, published, changes, upsets>>
guidanceVars == <<now, quote, poll, view, cache, daily, plans, risk, events, request>>
evolutionVars == <<champion, reports, tokens, audit, file, previews, handler, issued, spent, faults>>
screenVars == <<halts, active, recorded, damaged, worker>>
vars == <<scene, publicationVars, guidanceVars, evolutionVars, screenVars>>

Init == /\ scene \in {"publication", "guidance", "evolution", "screen"}
        /\ Publication!Init /\ Guidance!GuidanceInit /\ Evolution!EvolutionInit
        /\ Screening!ScreenInit
        /\ scene # "publication" => ~ closed
        /\ scene # "guidance" => risk = None
        /\ scene # "screen" => \A s \in Symbols : halts[s] = {} /\ active[s] = MinimumSessions

(* A scene leaves the variables of all other scenes alone. *)
InPublication(step) ==
    scene = "publication" /\ step /\ UNCHANGED <<scene, guidanceVars, evolutionVars, screenVars>>

Next ==
    \/ InPublication(Publication!Next)
    \/ /\ scene = "guidance" /\ Guidance!GuidanceNext
       /\ UNCHANGED <<scene, publicationVars, evolutionVars, screenVars>>
    \/ /\ scene = "evolution" /\ Evolution!EvolutionNext
       /\ UNCHANGED <<scene, publicationVars, guidanceVars, screenVars>>
    \/ /\ scene = "screen" /\ Screening!ScreenNext
       /\ UNCHANGED <<scene, publicationVars, guidanceVars, evolutionVars>>

Spec == /\ Init /\ [][Next]_vars
        /\ WF_vars(InPublication(Publication!Run))
        /\ WF_vars(InPublication(Publication!Notify))
        /\ WF_vars(InPublication(Publication!BackoffOver))
------------------------------------------------------------------------------
NoFabricatedSuccess == scene = "publication" => Publication!NoFabricatedSuccess
OneBundle == scene = "publication" => Publication!OneBundle
CompletedCovers == scene = "publication" => Publication!CompletedCovers
HoldingsCovered == scene = "publication" => Publication!HoldingsCovered

JudgedTogether == scene = "guidance" => Guidance!JudgedTogether
ConfirmedOnce == scene = "evolution" => Evolution!ConfirmedOnce
OutOfSample == scene = "screen" => Screening!OutOfSample
==============================================================================
