---------------------------- MODULE AccountWatch -----------------------------
(* The account and the public risk of what it holds: the callback that the    *)
(* account makes after a confirmation changes the symbols that the risk       *)
(* thread asks for, and both begin anew with every process.  What the          *)
(* announcements say does not matter here.                                     *)
EXTENDS AccountDesk

VARIABLES owed, wake, thread, kept, shown

Risk == INSTANCE PublicRisk
          WITH universe <- monitored, faults <- mishaps, MaxFaults <- 0, MaxOwed <- 0,
               news <- [s \in Symbols |-> <<>>], events <- 0, MaxNews <- 0, Pages <- 1

threadVars == <<owed, wake, thread, kept, shown>>
accountVars == <<file, recorded, positions, memory, tokens, confirm, world, acked, telling, taken, sync>>
watchVars == <<deskVars, threadVars>>

WatchInit == DeskInit /\ Risk!RiskInit /\ monitored = {}

(* A start, a callback with other symbols, any other step of the account.     *)
Open(requested) == Start(requested) /\ Risk!Begin(monitored')
Handed(symbols) ==
    /\ Told(symbols)
    /\ owed' = IF monitored' # monitored THEN owed + 1 ELSE owed
    /\ UNCHANGED <<wake, thread, kept, shown>>
AtTheDesk ==
    \/ \E s \in Symbols : PreviewBuy(s)
    \/ PreviewFile
    \/ \E t \in tokens : Refuse(t) \/ Confirm(t) \/ CashFails(t) \/ ConfirmPositions(t)
    \/ Append1 \/ Remember \/ AppendFails \/ Tell
    \/ \E f \in DOMAIN Files : Export(f)
    \/ NextDay

WatchNext ==
    \/ \E requested \in Requests : Open(requested)
    \/ \E symbols \in taken : Handed(symbols)
    \/ AtTheDesk /\ UNCHANGED threadVars
    \/ Crash /\ UNCHANGED threadVars
    \/ books # None /\ (Risk!Request \/ Risk!RiskWork) /\ UNCHANGED accountVars

WatchSpec == WatchInit /\ [][WatchNext]_watchVars
------------------------------------------------------------------------------
(* Every holding of an answered confirmation has an assessment, once nobody   *)
(* waits for its notification and the risk thread sleeps unwoken; unless the  *)
(* notification or the check itself was reported as failed.  A holding is of  *)
(* answered confirmations if what they bought exceeds all that was sold: what *)
(* an import that failed half-way bought was never reported to anybody.       *)
Bought(s) == Count({e \in Of(books, s) : e.id \in acked}, "buy")
AnsweredHoldings == positions \cup {s \in Symbols : Bought(s) > Count(Of(books, s), "sell")}
Asleep == thread.pc = "wait" /\ ~ wake /\ owed = 0
HoldingsAssessed ==
    Free /\ telling = 0 /\ taken = {} /\ sync # "UPDATE_FAILED" /\ Asleep
      => /\ AnsweredHoldings \subseteq thread.asked
         /\ shown.status # "UPDATE_FAILED" => AnsweredHoldings \subseteq DOMAIN shown.levels
==============================================================================
