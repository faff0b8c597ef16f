----------------------------- MODULE MCProgress ------------------------------
(* What must end or advance under fairness: the batches of the historical     *)
(* backfill and the tasks of the agent, each in a scene of its own.           *)
EXTENDS Naturals, Sequences, FiniteSets

CONSTANTS None, MaxUpsets,
          Symbols, Limit, Span, Histories, Horizon,
          Apps, Crews, Conns, Limits, Price, Excess, Daily, PerTask, MaxRequests, MaxTasks, MaxKeys,
          MaxDay

VARIABLES scene,
          log, held, traded, today, posted, checkpoint, failures, batch, mishaps,
          crew, day, tasks, upsets, days, trial, config, rev, key, probe, probing, task,
          charged, billed

Backfill == INSTANCE HistoricalBackfill
              WITH MaxDay <- Horizon
Agent == INSTANCE AgentRuntime

ASSUME BackfillAssumption == Backfill!BackfillAssumption

backfillVars == <<log, held, traded, today, posted, checkpoint, failures, batch, mishaps>>
agentVars == <<crew, day, tasks, upsets, days, trial, config, rev, key, probe, probing, task,
               charged, billed>>
vars == <<scene, backfillVars, agentVars>>

Init == /\ scene \in {"backfill", "agent"}
        /\ Backfill!BackfillInit /\ Agent!Init
        /\ scene # "agent" => trial = None /\ \A a \in crew : config[a].limit = 1
        /\ scene # "backfill" => traded = [s \in Symbols |-> {1}]

InBackfill(step) ==
    scene = "backfill" /\ step /\ UNCHANGED <<scene, agentVars>>
InAgent(step) ==
    scene = "agent" /\ step /\ UNCHANGED <<scene, backfillVars>>

Next ==
    \/ InBackfill(Backfill!BackfillNext)
    \/ InAgent(Agent!Next)

Spec == Init /\ [][Next]_vars
        /\ WF_vars(InBackfill(Backfill!Work))
        /\ WF_vars(InBackfill(Backfill!Post))
        /\ WF_vars(InBackfill(Backfill!NextDay))
        /\ \A a \in Apps : WF_vars(InAgent(a \in crew /\ Agent!Work(a)))
------------------------------------------------------------------------------
NoHole == Backfill!NoHole
LivelyAdvance == scene = "backfill" => Backfill!LivelyAdvance

CancelBinds == Agent!CancelBinds
TaskEnds == Agent!TaskEnds

==============================================================================
