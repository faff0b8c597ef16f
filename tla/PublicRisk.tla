----------------------------- MODULE PublicRisk ------------------------------
(* Public risk: one thread asks the announcements of the symbols that are     *)
(* candidates or held, every six hours and whenever these change, keeps what  *)
(* it learnt in a cache file and publishes it to the service.                 *)
EXTENDS Naturals, Sequences, FiniteSets

CONSTANTS Symbols,
          Pages,       \* announcements that are read of a symbol, at most
          MaxNews,     \* bound: announcements that appear or leave the window
          MaxOwed,     \* bound: requests that are owed at a time
          MaxFaults,   \* bound: ends of the process
          None

VARIABLES universe,    \* public_risk_symbols of the service
          owed,        \* changes of it whose refresh request is not made yet
          wake,        \* the wake flag of the thread
          thread,      \* [pc, asked, result]
          kept,        \* the snapshot of the store, and on disk: [symbols -> levels]
          shown,       \* the published snapshot and status
          news,        \* [symbols -> announcements in the window, newest first]
          events, faults

riskVars == <<universe, owed, wake, thread, kept, shown, news, events, faults>>
outside == <<news, events>>

Adverse == {"REVIEW", "BLOCKED"}

(* Titles: a delisting warning, a lawsuit, which no title relieves, and the   *)
(* relief of the former, which has no risk of its own.                        *)
Titles == {"DELISTING_RISK", "LITIGATION_RISK", "relief"}
Level(title) == CASE title = "DELISTING_RISK" -> "BLOCKED"
                  [] title = "LITIGATION_RISK" -> "REVIEW"
                  [] title = "relief" -> "CLEAR"
Nothing == [s \in {} |-> None]
Started == [pc |-> "ask", asked |-> {}, result |-> None]

RiskInit ==
    /\ universe \in SUBSET Symbols /\ owed = 0 /\ wake = FALSE
    /\ thread = Started
    /\ kept = Nothing
    /\ shown = [levels |-> Nothing, status |-> "NOT_CHECKED"]
    /\ news = [s \in Symbols |-> <<>>] /\ events = 0 /\ faults = 0

(* update_account_symbols, publish_official_daily: first the symbols, then    *)
(* request_refresh.                                                           *)
Change(symbols) ==
    /\ symbols # universe /\ owed < MaxOwed
    /\ universe' = symbols
    /\ owed' = owed + 1
    /\ UNCHANGED <<wake, thread, kept, shown, outside, faults>>
Request ==
    /\ owed > 0 /\ owed' = owed - 1
    /\ wake' = TRUE
    /\ UNCHANGED <<universe, thread, kept, shown, outside, faults>>

(* refresh_once: without symbols nothing is asked and nothing published.      *)
Ask ==
    /\ thread.pc = "ask"
    /\ thread' = [thread EXCEPT !.pc = IF universe = {} THEN "wait" ELSE "fetch", !.asked = universe]
    /\ UNCHANGED <<universe, owed, wake, kept, shown, outside, faults>>

(* Mutant: the newest answer counts, whatever was known. *)
SevererNewest(old, new) == new

(* _retain_adverse_evidence.                                                  *)
Severer(old, new) == IF "BLOCKED" \in {old, new} THEN "BLOCKED" ELSE "REVIEW"
Retained(old, new) ==
    LET bad == {s \in DOMAIN old : old[s] \in Adverse}
    IN  [s \in DOMAIN new \cup bad |->
           IF s \notin bad THEN new[s]
           ELSE IF s \in DOMAIN new THEN Severer(old[s], new[s]) ELSE old[s]]

(* The answer, symbol by symbol: the newest pages are read, whatever is left  *)
(* of them, and what was relieved later does not count; a symbol that is not  *)
(* listed, or of which a page or a row was refused, is unknown.               *)
Announced(s) == [n \in {k \in DOMAIN news[s] : k <= Pages} |-> news[s][n]]
Unresolved(titles) ==
    {n \in DOMAIN titles : titles[n] = "DELISTING_RISK" => \A m \in 1 .. n - 1 : titles[m] # "relief"}
Assessed(titles) ==
    LET levels == {Level(titles[n]) : n \in Unresolved(titles)}
    IN  CASE "BLOCKED" \in levels -> "BLOCKED"
          [] "BLOCKED" \notin levels /\ "REVIEW" \in levels -> "REVIEW"
          [] levels \cap Adverse = {} -> "CLEAR"
Unknown == "UNKNOWN"
Listed(companies) == thread.asked \cap companies
Answered(companies, refused) == Listed(companies) \ refused
Fetched(answered) ==
    [s \in thread.asked |-> IF s \in answered THEN Assessed(Announced(s)) ELSE Unknown]

(* save replaces the file, then the snapshot of the store, and returns.       *)
Learn(companies, refused) ==
    /\ thread.pc = "fetch" /\ refused \subseteq Listed(companies)
    /\ LET answered == Answered(companies, refused)
       IN  /\ kept' = Retained(kept, Fetched(answered))
           /\ thread' = [thread EXCEPT !.pc = "publish",
                                       !.result = IF answered = thread.asked THEN "FRESH" ELSE "PARTIAL"]
    /\ UNCHANGED <<universe, owed, wake, shown, outside, faults>>

(* The company list was refused, there are too many symbols, or the write     *)
(* failed: what the store has is published as a failed update.                *)
Miss ==
    /\ thread.pc = "fetch"
    /\ thread' = [thread EXCEPT !.pc = "publish", !.result = "UPDATE_FAILED"]
    /\ UNCHANGED <<universe, owed, wake, kept, shown, outside, faults>>

Publish ==
    /\ thread.pc = "publish"
    /\ shown' = [levels |-> kept, status |-> thread.result]
    /\ thread' = [thread EXCEPT !.pc = "wait"]
    /\ UNCHANGED <<universe, owed, wake, kept, outside, faults>>

(* _run: woken or after the interval, the flag is cleared and then the        *)
(* symbols are read.                                                          *)
Wake ==
    /\ thread.pc = "wait"
    /\ wake' = FALSE
    /\ thread' = [thread EXCEPT !.pc = "ask"]
    /\ UNCHANGED <<universe, owed, kept, shown, outside, faults>>

(* A new process begins with what the file has.                               *)
Begin(symbols) ==
    /\ universe' = symbols /\ owed' = 0 /\ wake' = FALSE
    /\ thread' = Started
    /\ shown' = [levels |-> kept, status |-> IF kept = Nothing THEN "NOT_CHECKED" ELSE "FRESH"]
    /\ UNCHANGED <<kept, outside>>
Restart ==
    /\ faults < MaxFaults /\ faults' = faults + 1
    /\ \E symbols \in SUBSET Symbols : Begin(symbols)

(* An announcement appears, or the oldest one leaves the window.              *)
News(s) ==
    /\ events < MaxNews /\ events' = events + 1
    /\ \/ \E title \in Titles : news' = [news EXCEPT ![s] = <<title>> \o @]
       \/ news[s] # <<>> /\ news' = [news EXCEPT ![s] = SubSeq(@, 1, Len(@) - 1)]
    /\ UNCHANGED <<universe, owed, wake, thread, kept, shown, faults>>

RiskWork == Ask \/ (\E companies, refused \in SUBSET Symbols : Learn(companies, refused)) \/ Miss \/ Publish
            \/ Wake
RiskNext ==
    \/ \E symbols \in SUBSET Symbols : Change(symbols)
    \/ Request \/ RiskWork \/ Restart
    \/ \E s \in Symbols : News(s)

RiskSpec == RiskInit /\ [][RiskNext]_riskVars
------------------------------------------------------------------------------
(* effective_risk_assessment: what is shown of a symbol.                      *)
View(s) == IF s \notin DOMAIN shown.levels THEN "UNKNOWN"
           ELSE IF shown.status \in {"FRESH", "PARTIAL"} \/ shown.levels[s] \in Adverse
           THEN shown.levels[s] ELSE "UNKNOWN"

(* "An empty rolling window is NOT proof that a severe event was resolved":   *)
(* what was shown as blocked stays so, and what was under review is never     *)
(* shown as clear, through failed and partial refreshes, changes of the       *)
(* symbols and restarts.                                                      *)
AdverseStays ==
    [][\A s \in Symbols : /\ View(s) = "BLOCKED" => View(s)' = "BLOCKED"
                          /\ View(s) = "REVIEW" => View(s)' \in Adverse]_riskVars
==============================================================================
