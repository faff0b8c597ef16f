--------------------------- MODULE RealtimeQuotes ---------------------------
(* Realtime quotes: one thread polls the monitored symbols and, once a slot,   *)
(* the whole market; a slow market snapshot is fetched by a second thread and  *)
(* taken by a later poll; what was polled is judged twice, by the scheduler    *)
(* and by the gate of the service, and published with the worse verdict.       *)
EXTENDS Integers, TLC, Functions, FiniteSets, FiniteSetsExt

CONSTANTS Symbols,
          Monitored,     \* the symbol sets the candidates and accounts may make
          StaleAfter,    \* stale_after_seconds
          Interval,      \* full_market_interval_seconds
          MaxTime,       \* bound: the last instant
          MaxChanges,    \* bound: changes of the monitored symbols
          None

QuotesAssumption == StaleAfter \in Nat

VARIABLES now,
          priority,    \* priority_symbols and expected_symbols
          store,       \* [symbols -> quotes]: RealTimeStore._quotes
          lastSeen,    \* [symbols -> exchange times]: the timestamp tracker
          breaker,     \* "OPEN", "CLOSED"
          slot,        \* when the last slot of a full snapshot was taken
          refresh,     \* the second thread: None or when it called the provider
          pending,     \* its result not taken yet: None or [ok, quotes]
          snap,        \* the provider's last snapshot: None or [at, quotes]
          poll,        \* the polling thread: [pc, now, prio, tick]
          gate,        \* the gate: [signature, count, last]
          cached,      \* whether a snapshot was saved for display
          shown,       \* the published state: [quality, latest]
          changes

rtVars == <<now, priority, store, lastSeen, breaker, slot, refresh, pending, snap,
            poll, gate, cached, shown, changes>>
feed == <<refresh, pending, snap, slot>>
view == <<gate, cached, shown>>
outside == <<now, priority, changes>>

Empty == [s \in {} |-> None]
Quote(ts, rec) == [ts |-> ts, rec |-> rec, stale |-> FALSE]
Stale(q) == [q EXCEPT !.stale = TRUE]
Fresh(q, at) == ~ q.stale /\ q.ts <= at /\ at - q.ts <= StaleAfter
FreshOf(quotes, at) == {s \in DOMAIN quotes : Fresh(quotes[s], at)}

(* assess_quote_quality: the verdict over quotes, given the expected symbols. *)
Assess(quotes, expected, at) ==
    CASE DOMAIN quotes = {} -> "FAILED"
      [] DOMAIN quotes # {} /\ FreshOf(quotes, at) = {} -> "STALE"
      [] FreshOf(quotes, at) # {} ->
           IF expected \subseteq FreshOf(quotes, at) /\ DOMAIN quotes = FreshOf(quotes, at)
           THEN "GOOD" ELSE "DEGRADED"
Usable(verdict) == verdict \in {"GOOD", "DEGRADED"}
Order == [GOOD |-> 0, DEGRADED |-> 1, STALE |-> 2, FAILED |-> 3]
Worse(v, w) == IF Order[v] >= Order[w] THEN v ELSE w

(* Mutant: a quote older than the last one is accepted. *)
RejectedFuture(s, q, at) == q.ts > at

(* TimestampTracker.observe, quote by quote: one from the future or older     *)
(* than the symbol's last is marked stale, any other is remembered.           *)
Rejected(s, q, at) == q.ts > at \/ (s \in DOMAIN lastSeen /\ q.ts < lastSeen[s])
Checked(quotes, at) ==
    [s \in DOMAIN quotes |-> IF Rejected(s, quotes[s], at) THEN Stale(quotes[s]) ELSE quotes[s]]
Seen(quotes, at) ==
    [s \in DOMAIN lastSeen \cup {t \in DOMAIN quotes : ~ Rejected(t, quotes[t], at)} |->
       IF s \in DOMAIN quotes /\ ~ Rejected(s, quotes[s], at) THEN quotes[s].ts ELSE lastSeen[s]]
Judge(quotes, at) == Assess(Checked(quotes, at), priority, at)
Breaker(verdict) == IF Usable(verdict) THEN "CLOSED" ELSE "OPEN"
Kept(quotes, at) == Restrict(Checked(quotes, at), FreshOf(Checked(quotes, at), at))

Idle == [pc |-> "idle", now |-> 0, prio |-> None, tick |-> None]
Tick(updated, quality, only) == [updated |-> updated, quality |-> quality, only |-> only]
NotUpdated == Tick(FALSE, "FAILED", FALSE)
PriorityTick(only) == Tick(TRUE, poll.prio, only)
Finish(tick) == [poll EXCEPT !.pc = "publish", !.tick = tick]

(* What the network may answer at this instant: quotes of now or one earlier. *)
Answers(asked) == {[s \in asked |-> Quote(t, now)] : t \in {now} \cup ({now - 1} \cap Nat)}

(* Before the first poll the store holds what was saved by an earlier process, *)
(* which is never fresh.                                                       *)
RealtimeInit ==
    /\ now = 1 /\ priority \in Monitored
    /\ \E old \in {{}, Symbols} :
         /\ store = [s \in old |-> Stale(Quote(1, 1))]
         /\ cached = (old # {})
    /\ lastSeen = Empty /\ breaker = "CLOSED"
    /\ slot = IF priority = {} THEN None ELSE now
    /\ refresh = None /\ pending = None /\ snap = None
    /\ poll = Idle /\ gate = [signature |-> Empty, count |-> 0, last |-> Empty]
    /\ shown = [quality |-> "FAILED", latest |-> 0]
    /\ changes = 0

(* run_once: outside an open session nothing is asked.                        *)
Begin ==
    /\ poll.pc = "idle"
    /\ \E open \in BOOLEAN :
         poll' = [Idle EXCEPT !.now = now,
                              !.pc = CASE ~ open -> "publish"
                                       [] open /\ priority = {} -> "take"
                                       [] open /\ priority # {} -> "ask",
                              !.tick = IF open THEN None ELSE NotUpdated]
    /\ UNCHANGED <<store, lastSeen, breaker, feed, view, outside>>

(* get_priority_quotes: from the provider's snapshot of this slot if it has   *)
(* them all, else one by one, those that fail left out.                       *)
Reusable == snap # None /\ now - snap.at < Interval /\ priority \subseteq DOMAIN snap.quotes
PriorityAnswers ==
    UNION {Answers(asked) : asked \in SUBSET priority \ {{}}}
Newer(quotes) == {s \in DOMAIN quotes : s \notin DOMAIN store \/ quotes[s].rec >= store[s].rec}
Put(quotes) == [s \in DOMAIN store \cup DOMAIN quotes |->
                  IF s \in Newer(quotes) THEN quotes[s] ELSE store[s]]

Priority ==
    /\ poll.pc = "ask"
    /\ \E quotes \in IF Reusable THEN {Restrict(snap.quotes, priority)} ELSE PriorityAnswers :
         LET verdict == Judge(quotes, poll.now)
         IN  /\ lastSeen' = Seen(quotes, poll.now)
             /\ breaker' = Breaker(verdict)
             /\ store' = IF Usable(verdict) THEN Put(Kept(quotes, poll.now)) ELSE store
             /\ poll' = [poll EXCEPT !.pc = "take", !.prio = IF Usable(verdict) THEN verdict ELSE None]
    /\ UNCHANGED <<feed, view, outside>>

PriorityFails ==
    /\ poll.pc = "ask" /\ ~ Reusable
    /\ poll' = [poll EXCEPT !.pc = "take"]
    /\ UNCHANGED <<store, lastSeen, breaker, feed, view, outside>>

(* _process_full_snapshot: the usable part replaces everything stored.  Then  *)
(* the minute bars are asked for, and may fail.                               *)
Process(quotes, failed) ==
    LET verdict == Judge(quotes, poll.now)
    IN  /\ lastSeen' = Seen(quotes, poll.now)
        /\ store' = IF Usable(verdict) THEN Kept(quotes, poll.now) ELSE store
        /\ \E bars \in BOOLEAN :
             IF Usable(verdict) /\ ~ bars THEN failed
             ELSE /\ breaker' = Breaker(verdict)
                  /\ poll' = Finish(CASE Usable(verdict) -> Tick(TRUE, verdict, FALSE)
                                      [] ~ Usable(verdict) /\ poll.prio # None -> PriorityTick(FALSE)
                                      [] ~ Usable(verdict) /\ poll.prio = None -> NotUpdated)

(* _take_pending_full_result: what the second thread left, if anything.       *)
Unavailable == poll' = IF poll.prio # None THEN Finish(PriorityTick(FALSE))
                       ELSE [poll EXCEPT !.pc = "decide"]
Take ==
    /\ poll.pc = "take"
    /\ pending' = None
    /\ CASE pending = None -> poll' = [poll EXCEPT !.pc = "decide"]
                              /\ UNCHANGED <<store, lastSeen, breaker>>
         [] pending # None /\ ~ pending.ok -> Unavailable /\ UNCHANGED <<store, lastSeen, breaker>>
         [] pending # None /\ pending.ok -> Process(pending.quotes, breaker' = "CLOSED" /\ Unavailable)
    /\ UNCHANGED <<refresh, snap, slot, view, outside>>

(* A full snapshot is due once a slot, and the slot is taken before the call. *)
(* With the monitored quotes at hand the second thread makes it, one call at  *)
(* a time; else the polling thread makes it itself.                           *)
Due == priority = {} \/ slot = None \/ now - slot >= Interval
Decide ==
    /\ poll.pc = "decide"
    /\ IF ~ Due THEN /\ poll' = Finish(IF poll.prio # None THEN PriorityTick(TRUE) ELSE NotUpdated)
                     /\ UNCHANGED <<refresh, slot>>
       ELSE /\ slot' = now
            /\ IF priority # {} /\ poll.prio # None
               THEN /\ refresh' = IF refresh = None THEN now ELSE refresh
                    /\ poll' = Finish(PriorityTick(TRUE))
               ELSE poll' = [poll EXCEPT !.pc = "full"] /\ UNCHANGED refresh
    /\ UNCHANGED <<store, lastSeen, breaker, pending, snap, view, outside>>

(* get_market_snapshot: the last one again within the interval of its call.   *)
Cached(started) == snap # None /\ started - snap.at < Interval
Snapshots(started) == IF Cached(started) THEN {snap.quotes} ELSE Answers(Symbols)
Remember(started, quotes) ==
    snap' = IF Cached(started) THEN snap ELSE [at |-> started, quotes |-> quotes]

FullRaises(before) ==
    IF poll.prio # None THEN poll' = Finish(PriorityTick(FALSE)) /\ breaker' = before
    ELSE poll' = Finish(NotUpdated) /\ breaker' = "OPEN"

Full ==
    /\ poll.pc = "full"
    /\ \E quotes \in Snapshots(slot) :
         Remember(slot, quotes) /\ Process(quotes, FullRaises("CLOSED"))
    /\ UNCHANGED <<refresh, pending, slot, view, outside>>
FullFails ==
    /\ poll.pc = "full" /\ ~ Cached(slot)
    /\ FullRaises(breaker)
    /\ UNCHANGED <<store, lastSeen, feed, view, outside>>

Result(ok, quotes) == [ok |-> ok, quotes |-> quotes]
Refreshed ==
    /\ refresh # None
    /\ \E quotes \in Snapshots(refresh) : Remember(refresh, quotes) /\ pending' = Result(TRUE, quotes)
    /\ refresh' = None
    /\ UNCHANGED <<slot, store, lastSeen, breaker, poll, view, outside>>
RefreshFails ==
    /\ refresh # None /\ ~ Cached(refresh)
    /\ refresh' = None /\ pending' = Result(FALSE, Empty)
    /\ UNCHANGED <<slot, snap, store, lastSeen, breaker, poll, view, outside>>

(* LiveDataQualityGate.evaluate: its verdict and itself afterwards.           *)
Reset == [signature |-> Empty, count |-> 0, last |-> Empty]
Times(quotes) == [s \in DOMAIN quotes |-> quotes[s].ts]
Backwards(quotes) == \E s \in DOMAIN quotes \cap DOMAIN gate.last : quotes[s].ts < gate.last[s]
Accepted(quotes) ==
    [signature |-> Times(quotes),
     count |-> IF Times(quotes) # gate.signature /\ gate.count < 2 THEN gate.count + 1 ELSE gate.count,
     last |-> Times(quotes) @@ gate.last]
Schema(quotes) == \A s \in DOMAIN quotes : quotes[s].rec <= poll.now

Baseline(quotes) == Assess(quotes, priority, poll.now)
Gated(quotes) ==
    LET verdict == Baseline(quotes)
    IN  CASE breaker = "OPEN" -> <<"FAILED", Reset>>
          [] breaker # "OPEN" /\ ~ Usable(verdict) -> <<verdict, Reset>>
          [] breaker # "OPEN" /\ Usable(verdict) ->
               IF verdict # "GOOD" \/ ~ Schema(quotes) THEN <<"DEGRADED", Reset>>
               ELSE IF Backwards(quotes) THEN <<"STALE", Reset>>
               ELSE <<IF Accepted(quotes).count < 2 THEN "DEGRADED" ELSE "GOOD", Accepted(quotes)>>

(* _apply_tick, under the state lock: a poll without an update shows what was *)
(* saved, if anything was; else the store is saved and judged as it is now.   *)
Published == IF poll.tick.only THEN Restrict(store, priority \cap DOMAIN store) ELSE store
Latest == Max({0} \cup {store[s].ts : s \in DOMAIN store})
Publish ==
    /\ poll.pc = "publish"
    /\ poll' = Idle
    /\ IF poll.tick.updated
       THEN LET gated == Gated(Published)
            IN  /\ gate' = gated[2]
                /\ shown' = [quality |-> Worse(gated[1], poll.tick.quality), latest |-> Latest]
                /\ cached' \in {cached, cached \/ \E s \in DOMAIN store : ~ store[s].stale}
       ELSE /\ shown' = [shown EXCEPT !.quality = IF cached THEN "STALE" ELSE "FAILED"]
            /\ gate' = IF cached THEN gate ELSE Reset
            /\ UNCHANGED cached
    /\ UNCHANGED <<store, lastSeen, breaker, feed, outside>>

(* publish_official_daily, update_account_symbols.                            *)
Change ==
    /\ changes < MaxChanges /\ changes' = changes + 1
    /\ priority' \in Monitored \ {priority}
    /\ UNCHANGED <<now, store, lastSeen, breaker, feed, poll, view>>

Passes ==
    /\ now < MaxTime /\ now' = now + 1
    /\ UNCHANGED <<priority, changes, store, lastSeen, breaker, feed, poll, view>>

RealtimeNext ==
    \/ Begin \/ Priority \/ PriorityFails \/ Take \/ Decide \/ Full \/ FullFails \/ Publish
    \/ Refreshed \/ RefreshFails
    \/ Change \/ Passes

RealtimeSpec == RealtimeInit /\ [][RealtimeNext]_rtVars
------------------------------------------------------------------------------
(* health: good as published, and the newest quote not too old since.         *)
DataReady == shown.quality = "GOOD" /\ shown.latest \in (now - StaleAfter) .. now

(* validated_quote: what any thread is handed of a symbol.                    *)
Validated(s) == s \in DOMAIN store /\ Fresh(store[s], now)

(* A caller is handed the newest quote that was ever accepted of a symbol, or *)
(* none, though two threads fetch, the slower one's answer replaces the whole *)
(* store, and the provider answers from a snapshot it kept.                   *)
HandedForward ==
    [][\A s \in Symbols : Validated(s)' =>
         /\ store'[s].ts = lastSeen'[s]
         /\ s \in DOMAIN lastSeen => lastSeen'[s] >= lastSeen[s]]_rtVars

(* "Require two fresh, schema-valid, distinct snapshots before GOOD", and the  *)
(* handover: two in succession.  Right after a poll that brought nothing, one  *)
(* snapshot is not enough.                                                     *)
GoodEarned ==
    [][shown.quality \in {"STALE", "FAILED"} => shown'.quality # "GOOD"]_rtVars
=============================================================================
