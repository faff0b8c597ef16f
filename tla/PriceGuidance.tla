---------------------------- MODULE PriceGuidance ----------------------------
(* The price guidance of one stock: the plan the evening refresh freezes for  *)
(* the next session, the quotes that arrive beside it and are published later,*)
(* the public-event risk that withdraws a verdict, and the request that reads *)
(* all of them one after another and hands a human one answer.                *)
(* Prices count ticks.  A day has SessionLength instants, the last one after  *)
(* the close.                                                                 *)
EXTENDS Integers, Sequences, FiniteSets

CONSTANTS None,
          Features,       \* the bar features a day may show: [close, atr, ma20, ma60, support]
          Prices,         \* the prices a quote may have
          Scores,         \* the grades of the ranking: at least the ready or the watch score
          SessionLength, StaleAfter, RiskAge,
          MaxTime, MaxEvents

(* What is assumed of the constants. *)
GuidanceAssumption == SessionLength \in Nat \ {0} /\ None \notin Nat

VARIABLES now,
          quote,          \* the newest quote of the store: None or [at, price, stale]
          poll,           \* the tick between ingestion and publication: None or [updated, good]
          view,           \* the published state: [quality, listed, row]
          cache,          \* the last fresh quote saved: None or [at, price, stale]
          daily,          \* the candidates: [cutoff, grade, status], grade None when not listed
          plans,          \* plan type -> None or [calc, valid, zone]
          risk,           \* the last assessment: [level, at, status]
          events,         \* happenings so far (bound of the check)
          request         \* the request in progress or its answer

guidanceVars == <<now, quote, poll, view, cache, daily, plans, risk, events, request>>

Day(t) == t \div SessionLength + 1
LatestCompleted(t) == IF t % SessionLength = SessionLength - 1 THEN Day(t) ELSE Day(t) - 1
(* Whatever comes from outside is bounded in number by the check. *)
Happens == events < MaxEvents /\ events' = events + 1
------------------------------------------------------------------------------
(* The rule of the plan.  All boundaries are multiples of a four-hundredth of *)
(* a tick until they are rounded, the floor up and the ceiling down.          *)
Scale == 400
RoundUp(x) == -((-x) \div Scale)
RoundDown(x) == x \div Scale
Least(S) == CHOOSE x \in S : \A y \in S : x <= y
Greatest(S) == CHOOSE x \in S : \A y \in S : x >= y

Anchor(f) == Least({Scale * f.close, Scale * f.ma20 + 200 * f.atr})
Floor(f) == Greatest({Scale * f.support - 100 * f.atr, Scale * f.ma60 - 200 * f.atr,
                      Scale * f.close - 800 * f.atr})
Ceiling(f) == Anchor(f) + 100 * f.atr

Zone(f, previous) ==
    [low |-> RoundUp(Anchor(f) - 200 * f.atr),
     high |-> RoundDown(Ceiling(f)),
     top |-> RoundDown(Least({Ceiling(f), 404 * f.close})),
     inv |-> RoundUp(Floor(f)),
     prot |-> RoundUp(Greatest({Floor(f), Scale * previous}))]

ZoneFits(z, close) ==
    /\ z.inv < z.low /\ z.low <= z.high /\ z.high <= z.top
    /\ LET distance == 100 * (close - z.prot) IN 2 * close <= distance /\ distance <= 12 * close

(* Bars that are missing, too short, stale or refused leave a plan without    *)
(* prices; so does a zone the rule rejects.                                   *)
Unpriced(f, previous) == f = None \/ ~ ZoneFits(Zone(f, previous), f.close)
Plan(f, previous, calculation) ==
    [calc |-> calculation, valid |-> calculation + 1,
     zone |-> IF Unpriced(f, previous) THEN None ELSE Zone(f, previous)]

(* The refresh names the held symbols and nothing else about them, so every   *)
(* holding plan starts without an earlier protection price.                   *)
NoProtection == 0
Generated(f, calculation, listed, held) ==
    [type \in {"DAILY_CANDIDATE", "HOLDING"} |->
        IF (IF type = "HOLDING" THEN held ELSE listed)
        THEN Plan(f, NoProtection, calculation) ELSE None]
------------------------------------------------------------------------------
(* Quotes: a poll stores the quote without the state lock and publishes the   *)
(* tick afterwards; a poll without an update falls back on the last fresh     *)
(* quote, marked stale.                                                       *)
Stale(q) == [q EXCEPT !.stale = TRUE]
FreshAt(q, t) == ~ q.stale /\ t - q.at <= StaleAfter

(* The trigger of a row is computed when the row is published, from the score *)
(* of the candidate and a quote that a batch less than good makes stale;      *)
(* reading the row later does not compute it again.                           *)
Monitored(q, quality) == IF quality = "GOOD" THEN q ELSE Stale(q)
Trigger(q) ==
    CASE ~ FreshAt(q, now) -> "STALE_DATA"
      [] daily.grade = None -> "WAIT"
      [] daily.grade = "ready" -> "READY"
      [] daily.grade = "watch" -> "WATCH"

Overlay(q, trigger) == [at |-> q.at, price |-> q.price, trigger |-> trigger]
Graded(good) == IF good THEN "GOOD" ELSE "DEGRADED"
Published(q, quality) ==
    [quality |-> quality, listed |-> q, row |-> Overlay(q, Trigger(Monitored(q, quality)))]
Bare == [at |-> None, price |-> None, trigger |-> "STALE_DATA"]

Ingest == /\ Happens /\ poll = None
          /\ \E p \in Prices, good \in BOOLEAN :
                /\ quote' = [at |-> now, price |-> p, stale |-> FALSE]
                /\ poll' = [updated |-> TRUE, good |-> good]
          /\ UNCHANGED <<now, view, cache, daily, plans, risk, request>>

PollFails == /\ Happens /\ poll = None
             /\ poll' = [updated |-> FALSE, good |-> FALSE]
             /\ UNCHANGED <<now, quote, view, cache, daily, plans, risk, request>>

(* The cache file is replaced as a whole, or cannot be written; a new process *)
(* marks what it loads of it as stale, or rejects it.                         *)
Saved(q) == {cache, q}
Loaded == IF cache = None THEN {None} ELSE {None, Stale(cache)}

ApplyTick ==
    /\ poll # None
    /\ poll' = None
    /\ IF poll.updated
       THEN /\ cache' \in Saved(quote)
            /\ view' = Published(quote, Graded(poll.good))
       ELSE /\ view' = IF cache # None THEN Published(Stale(cache), "STALE")
                                       ELSE [view EXCEPT !.quality = "FAILED"]
            /\ UNCHANGED cache
    /\ UNCHANGED <<now, quote, daily, plans, risk, events, request>>
------------------------------------------------------------------------------
(* The effective quality of the quote behind a row, as it is read.  (AnyQuote *)
(* is a mutant: the newest quote stands in for the one the row was made of.)  *)
AnyQuote(row, q) == q # None
Matches(row, q) == q # None /\ q.at = row.at /\ q.price = row.price
RowQuote(row) == IF Matches(row, quote) THEN quote ELSE None

(* The frozen plan against one quote; a plan past its day is refused. *)
PriceVerdicts == {"INVALIDATED", "PRICE_TOO_HIGH", "RESEARCH_REFERENCE", "WAIT_FOR_PRICE"}
Compare(z, price) ==
    CASE price < z.inv -> "INVALIDATED"
      [] price > z.top -> "PRICE_TOO_HIGH"
      [] z.low <= price /\ price <= z.high -> "RESEARCH_REFERENCE"
      [] OTHER -> "WAIT_FOR_PRICE"

Reliable(plan, q) == Day(now) <= plan.valid /\ view.quality = "GOOD" /\ FreshAt(q, now)
Judge(plan, q) == IF plan # None /\ plan.zone # None /\ q # None /\ Reliable(plan, q)
                  THEN Compare(plan.zone, q.price) ELSE "NO_RELIABLE_GUIDANCE"

(* A clearance that has expired, or whose refresh failed, clears nothing; an  *)
(* adverse finding stays.                                                     *)
Expired(r) == now - r.at > RiskAge
Effective(r) == IF r.level = "CLEAR" /\ (Expired(r) \/ r.status = "FAILED")
                THEN "UNKNOWN" ELSE r.level
Assessed == IF risk = None THEN "UNKNOWN" ELSE Effective(risk)

Guidance(row) == IF Assessed = "CLEAR" THEN Judge(plans["DAILY_CANDIDATE"], RowQuote(row))
                                       ELSE "NO_RELIABLE_GUIDANCE"

(* What the health page calls ready. *)
DataReady == view.quality = "GOOD" /\ view.listed # None /\ FreshAt(view.listed, now)
RiskCovered == risk # None /\ risk.status = "FRESH" /\ ~ Expired(risk) /\ Assessed # "UNKNOWN"
CoreReady == /\ DataReady /\ RiskCovered
             /\ daily.grade # None /\ daily.status = "FRESH"
             /\ daily.cutoff = LatestCompleted(now)
------------------------------------------------------------------------------
(* The evening refresh commits the files, reloads the plans and then replaces *)
(* the candidates and the rows under one lock.  When the plans cannot be      *)
(* generated the old ones stay beside the new candidates.                     *)
Rows(listed) == IF listed THEN Bare ELSE None
Put(cutoff, grade) == [cutoff |-> cutoff, grade |-> grade, status |-> "FRESH"]
Replaced(new) == {plans, new}

PublishDaily ==
    /\ Happens /\ LatestCompleted(now) > daily.cutoff
    /\ \E grade \in Scores \cup {None}, f \in Features \cup {None}, held \in BOOLEAN :
          /\ daily' = Put(LatestCompleted(now), grade)
          /\ plans' \in Replaced(Generated(f, LatestCompleted(now), grade # None, held))
          /\ view' = [view EXCEPT !.row = Rows(grade # None)]
    /\ UNCHANGED <<now, quote, poll, cache, risk, request>>

DailyFails ==
    /\ Happens /\ LatestCompleted(now) > daily.cutoff
    /\ daily' = [daily EXCEPT !.status = "UPDATE_FAILED"]
    /\ view' = [view EXCEPT !.row = Rows(daily.grade # None)]
    /\ UNCHANGED <<now, quote, poll, cache, plans, risk, request>>

RiskRefresh == /\ Happens
               /\ \E level \in {"CLEAR", "REVIEW"} :
                     risk' = [level |-> level, at |-> now, status |-> "FRESH"]
               /\ UNCHANGED <<now, quote, poll, view, cache, daily, plans, request>>
RiskFails == /\ Happens /\ risk # None
             /\ risk' = [risk EXCEPT !.status = "FAILED"]
             /\ UNCHANGED <<now, quote, poll, view, cache, daily, plans, request>>
------------------------------------------------------------------------------
(* The account is another part's: a read of it finds no position, units that  *)
(* may be sold today or units bought today, in the local ledger and in the    *)
(* broker's export, and the local ledger goes first.                          *)
Positions == {None} \cup [total : {1}, available : 0..1]
Position(local, imported) == IF local # None THEN local ELSE imported
------------------------------------------------------------------------------
(* A request takes one snapshot of the published state, judges it at a later  *)
(* clock, then reads the account, the holding plan, the risk and the newest   *)
(* quote one after another.                                                   *)
Capture ==
    /\ request = None
    /\ request' = [step |-> "captured", at |-> now,
                   guidance |-> IF view.row = None THEN "NO_RELIABLE_GUIDANCE"
                                                   ELSE Guidance(view.row),
                   judged |-> IF view.row = None THEN None ELSE RowQuote(view.row),
                   plan |-> plans["DAILY_CANDIDATE"], risk |-> Assessed,
                   daily |-> daily, listed |-> view.listed, quality |-> view.quality]
    /\ UNCHANGED <<now, quote, poll, view, cache, daily, plans, risk, events>>

ShownQuote(r) == IF /\ r.listed # None /\ r.quality = "GOOD" /\ FreshAt(r.listed, now)
                 THEN r.listed ELSE None

(* The reasons that stop a reader, the guidance's own codes aside. *)
InputStale(candidate) == candidate.grade # None /\ candidate.cutoff # LatestCompleted(now)
Blocking(r) ==
    {reason \in {"NO_VALIDATED_REALTIME_QUOTE", "NOT_IN_CURRENT_CANDIDATES", "PUBLIC_RISK",
                 "DAILY_INPUT_STALE", "DAILY_UPDATE_FAILED", "PRICE_PLAN_NOT_APPLICABLE"} :
        \/ reason = "NO_VALIDATED_REALTIME_QUOTE" /\ ShownQuote(r) = None
        \/ reason = "NOT_IN_CURRENT_CANDIDATES" /\ r.daily.grade = None
        \/ reason = "PUBLIC_RISK" /\ r.risk # "CLEAR"
        \/ reason = "DAILY_INPUT_STALE" /\ InputStale(r.daily)
        \/ reason = "DAILY_UPDATE_FAILED" /\ r.daily.status = "UPDATE_FAILED"
        \/ reason = "PRICE_PLAN_NOT_APPLICABLE" /\ r.plan # None /\ r.plan.valid # Day(now)}

StockContext ==
    /\ request # None /\ request.step = "captured"
    /\ request' = [step |-> "stock", at |-> now, guidance |-> request.guidance,
                   judged |-> request.judged, plan |-> request.plan,
                   shown |-> ShownQuote(request), blocking |-> Blocking(request)]
    /\ UNCHANGED <<now, quote, poll, view, cache, daily, plans, risk, events>>

ReadPosition ==
    /\ request # None /\ request.step = "stock"
    /\ \E local, imported \in Positions :
          request' = [step |-> "position", position |-> Position(local, imported)]
    /\ UNCHANGED <<now, quote, poll, view, cache, daily, plans, risk, events>>

ReadPlan ==
    /\ request # None /\ request.step = "position"
    /\ request' = [step |-> "plan", position |-> request.position, plan |-> plans["HOLDING"]]
    /\ UNCHANGED <<now, quote, poll, view, cache, daily, plans, risk, events>>

(* A plan without prices has no protection, and its day is not asked for. *)
HoldingState(position, plan, price) ==
    CASE plan.zone = None \/ price > plan.zone.prot -> "HOLD_WATCH"
      [] position.available > 0 -> "RISK_ALERT"
      [] OTHER -> "T_PLUS_ONE_BLOCKED"
HoldingGuidance(position, plan) ==
    IF /\ position # None /\ plan # None /\ Assessed = "CLEAR"
       /\ quote # None /\ FreshAt(quote, now)
    THEN HoldingState(position, plan, quote.price) ELSE "NO_RELIABLE_GUIDANCE"

HoldingContext ==
    /\ request # None /\ request.step = "plan"
    /\ LET state == HoldingGuidance(request.position, request.plan)
       IN request' = [step |-> "holding", state |-> state,
                      sell |-> IF state = "RISK_ALERT" THEN request.position.available ELSE 0]
    /\ UNCHANGED <<now, quote, poll, view, cache, daily, plans, risk, events>>

Health == /\ request = None
          /\ request' = [step |-> "health", ready |-> CoreReady]
          /\ UNCHANGED <<now, quote, poll, view, cache, daily, plans, risk, events>>

Answered == /\ request # None /\ request.step \in {"stock", "holding", "health"}
            /\ request' = None
            /\ UNCHANGED <<now, quote, poll, view, cache, daily, plans, risk, events>>
------------------------------------------------------------------------------
(* Candidates, plans, the account, the risk file and the quote cache survive  *)
(* a restart; the store starts with the cached quote, if the file is good.    *)
Restart ==
    /\ Happens
    /\ cache' \in Loaded /\ quote' = cache'
    /\ view' = IF cache' # None THEN Published(cache', "STALE")
               ELSE [quality |-> "FAILED", listed |-> None, row |-> Rows(daily.grade # None)]
    /\ daily' = [daily EXCEPT !.status = "UNKNOWN"]
    /\ risk' = IF risk = None THEN None ELSE [risk EXCEPT !.status = "FRESH"]
    /\ poll' = None /\ request' = None
    /\ UNCHANGED <<now, plans>>

Passes == /\ now < MaxTime
          /\ now' = now + 1
          /\ UNCHANGED <<quote, poll, view, cache, daily, plans, risk, events, request>>

(* The evening of the first day: its refresh is still to come, or it is done. *)
GuidanceInit ==
    /\ now = SessionLength - 1
    /\ quote = None /\ poll = None /\ cache = None
    /\ events = 0 /\ request = None
    /\ \E listed \in BOOLEAN, f \in Features :
          /\ daily = [cutoff |-> IF listed THEN 1 ELSE 0, status |-> "UNKNOWN",
                      grade |-> IF listed THEN "ready" ELSE None]
          /\ plans = Generated(f, 1, listed, listed)
          /\ risk = IF listed THEN [level |-> "CLEAR", at |-> now, status |-> "FRESH"] ELSE None
          /\ view = [quality |-> "FAILED", listed |-> None, row |-> Rows(listed)]

GuidanceNext == \/ Ingest \/ PollFails \/ ApplyTick \/ PublishDaily \/ DailyFails
                \/ RiskRefresh \/ RiskFails
                \/ Capture \/ StockContext \/ ReadPosition \/ ReadPlan \/ HoldingContext \/ Health
                \/ Answered
                \/ Restart \/ Passes

Spec == GuidanceInit /\ [][GuidanceNext]_guidanceVars
------------------------------------------------------------------------------
(* What a reader sees together was judged together: a stock context that      *)
(* carries a price verdict, and no warning beside it, shows the very quote    *)
(* the verdict is about, still fresh when the answer is made, against a plan  *)
(* for this very day that has prices, whatever was ingested, published,       *)
(* refreshed or restarted between the reads it is made of.                    *)
JudgedTogether ==
    request # None /\ request.step = "stock" /\ request.guidance \in PriceVerdicts
        => /\ request.judged # None /\ request.plan.zone # None
           /\ request.guidance = Compare(request.plan.zone, request.judged.price)
           /\ request.blocking = {} =>
                 /\ request.shown = request.judged
                 /\ FreshAt(request.shown, request.at)
                 /\ request.plan.valid = Day(request.at)
==============================================================================
