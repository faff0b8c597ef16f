----------------------------- MODULE AccountDesk -----------------------------
(* The manual account: buys and broker files are previewed, confirmed by a     *)
(* token that is good once, appended to a hash-chained file and then to the    *)
(* ledger in memory; the cash the account began with is recorded beside the    *)
(* file.  After a confirmation the service is told which symbols are held.     *)
EXTENDS Naturals, Sequences, FiniteSets, Functions

CONSTANTS Symbols,
          Requests,      \* initial cash a start may ask for; 0 is none
          Files,         \* broker exports: [names -> rows of fills or positions]
          MaxPreviews,   \* bound: previews
          MaxDay,        \* bound: the last day
          MaxUpsets,     \* bound: failed writes and callbacks, ends of the process
          None

VARIABLES disk,        \* the ledger file: None or its rows
          torn,        \* "no"; its last line has no "end" yet; or a "line" cannot be read
          surplus,     \* a row was written although its append raised
          recorded,    \* the initialization file: None or the initial cash
          positions,   \* symbols of the saved position snapshot
          books,       \* the ledger in memory: a set of fills, None if not running
          baseline,    \* its initial cash
          unrecorded,  \* _pending_initialization_cash
          tokens,      \* previews that were not confirmed yet
          confirm,     \* the confirmation that holds the account lock
          inbox,       \* the file in the import inbox
          day, previews, mishaps,
          acked,       \* fills whose confirmation was answered
          telling,     \* requests between their confirmation and their answer
          taken,       \* holdings read for a notification under way
          sync,        \* holdings_sync_status
          monitored    \* the account symbols of the service

file == <<disk, torn, surplus>>
memory == <<books, baseline, unrecorded>>
world == <<inbox, day, previews>>
notice == <<telling, taken, sync, monitored>>
deskVars == <<file, recorded, positions, memory, tokens, confirm, world, mishaps, acked, notice>>

(* What the proofs assume of the exports: they have rows, which are lots (an   *)
(* export without a valid row records nothing and is left out).               *)
Sides == {"buy", "sell", "hold"}
Lots == [id : (DOMAIN Files \cup {"manual"}) \X Nat, side : Sides, sym : Symbols, day : Nat, stamp : Nat]
Confirmations == [rows : Seq(Lots), n : Nat, pc : {"append", "memory"}, began : BOOLEAN]
AccountAssumption ==
    /\ \A f \in DOMAIN Files : Files[f] \in Seq([side : Sides, sym : Symbols, day : Nat]) \ {<<>>}
    /\ None \notin Seq(Lots) \cup Confirmations

(* Fills have a lot each, which costs and brings one unit of cash.  Replay    *)
(* orders them by trade date and by when they were recorded.                  *)
Fill(id, row, stamp) == [id |-> id, side |-> row.side, sym |-> row.sym, day |-> row.day, stamp |-> stamp]
Earlier(e, f) == e.day < f.day \/ (e.day = f.day /\ e.stamp < f.stamp)
                 \/ (e.day = f.day /\ e.stamp = f.stamp /\ e.id[2] < f.id[2])
Count(fills, side) == Cardinality({e \in fills : e.side = side})
Of(fills, sym) == {e \in fills : e.sym = sym}
Total(fills, sym) == Count(Of(fills, sym), "buy") - Count(Of(fills, sym), "sell")
Cash(fills, cash) == cash + Count(fills, "sell") - Count(fills, "buy")
(* T+1: a lot can be sold from the day after it was bought.                   *)
Available(fills, sym, on) ==
    Count({e \in Of(fills, sym) : e.day < on}, "buy") - Count(Of(fills, sym), "sell")
Replays(fills, cash) ==
    \A e \in fills : LET before == {f \in fills : Earlier(f, e)}
                     IN  IF e.side = "buy" THEN Count(before, "buy") < cash + Count(before, "sell")
                         ELSE Count(Of(before, e.sym), "sell")
                              < Count({f \in Of(before, e.sym) : f.day < e.day}, "buy")

(* Mutant: a fill like another one counts as the same. *)
HasAlike(fills, e) == \E f \in fills : <<f.side, f.sym, f.day>> = <<e.side, e.sym, e.day>>

(* record_fill: a sale is checked before its id is looked up.                 *)
Has(fills, e) == \E f \in fills : f.id = e.id
Recordable(fills, cash, e) ==
    /\ e.side = "sell" => Available({f \in fills : f.day <= e.day}, e.sym, e.day) > 0
    /\ \/ Has(fills, e)
       \/ (\A f \in fills : f.day <= e.day) /\ Replays(fills \cup {e}, cash)
Recorded(fills, e) == IF Has(fills, e) THEN fills ELSE fills \cup {e}

(* The prospective ledger: the first fills of a confirmation, one by one.     *)
Prospect(rows, n) == books \cup {e \in Range(SubSeq(rows, 1, n)) : ~ Has(books, e)}

(* Mutant: what was possible when it was previewed is confirmed. *)
AllPreviewed(rows) == TRUE

AllRecordable(rows) ==
    \A n \in DOMAIN rows : Recordable(Prospect(rows, n - 1), baseline, rows[n])

Held(fills) == {s \in Symbols : Total(fills, s) > 0} \cup positions
Loads(rows, cash) ==
    \A n \in DOMAIN rows : /\ \A i \in 1 .. (n - 1) : rows[i].day <= rows[n].day
                           /\ Replays(Range(SubSeq(rows, 1, n)), cash)

DeskInit ==
    /\ disk = None /\ torn = "no" /\ surplus = FALSE /\ recorded = None /\ positions = {}
    /\ books = None /\ baseline = 0 /\ unrecorded = None
    /\ tokens = {} /\ confirm = None /\ inbox \in DOMAIN Files
    /\ day = 1 /\ previews = 0 /\ mishaps = 0 /\ acked = {}
    /\ telling = 0 /\ taken = {} /\ sync = "NOT_CONFIGURED" /\ monitored = {}

(* __init__ and run_workbench: which cash counts, what is recorded of it, and *)
(* the holdings as the symbols to begin with.                                 *)
Chosen(requested) == IF recorded # None THEN recorded ELSE requested
Accepts(requested) == IF recorded # None THEN requested \in {0, recorded}
                      ELSE disk # None => requested > 0
Rows == IF disk = None THEN <<>> ELSE disk

(* The file of the initial cash is replaced as a whole. *)
RecordCash(cash) == recorded' = cash

Start(requested) ==
    /\ books = None
    /\ Accepts(requested) /\ torn # "line" /\ Loads(Rows, Chosen(requested))
    /\ books' = Range(Rows)
    /\ baseline' = Chosen(requested)
    /\ IF requested > 0 /\ disk # None THEN RecordCash(Chosen(requested)) ELSE UNCHANGED recorded
    /\ unrecorded' = IF recorded = None /\ requested > 0 /\ disk = None THEN requested ELSE None
    /\ monitored' = Held(Range(Rows))
    /\ sync' = "READY"
    /\ UNCHANGED <<file, positions, tokens, confirm, world, mishaps, acked, telling, taken>>

(* preview_manual_buy, preview_account_import.                                *)
Free == books # None /\ confirm = None
PreviewBuy(s) ==
    /\ Free /\ previews < MaxPreviews
    /\ LET e == Fill(<<"manual", previews>>, [side |-> "buy", sym |-> s, day |-> day], previews)
       IN  /\ Recordable(books, baseline, e)
           /\ tokens' = tokens \cup {[file |-> None, rows |-> <<e>>]}
    /\ previews' = previews + 1
    /\ UNCHANGED <<file, recorded, positions, memory, confirm, inbox, day, mishaps, acked, notice>>

PreviewFile ==
    /\ Free /\ previews < MaxPreviews
    /\ tokens' = tokens \cup
         {[file |-> inbox, rows |-> [n \in DOMAIN Files[inbox] |->
                                      Fill(<<inbox, n>>, Files[inbox][n], previews)]]}
    /\ previews' = previews + 1
    /\ UNCHANGED <<file, recorded, positions, memory, confirm, inbox, day, mishaps, acked, notice>>

(* A confirmation takes its token, whatever comes of it.                      *)
Unchanged(t) == t.file \in {None, inbox}
IsPositions(t) == t.file # None /\ \E e \in Range(t.rows) : e.side = "hold"

Refuse(t) ==
    /\ Free /\ t \in tokens
    /\ ~ Unchanged(t) \/ (~ IsPositions(t) /\ ~ AllRecordable(t.rows))
    /\ tokens' = tokens \ {t}
    /\ UNCHANGED <<file, recorded, positions, memory, confirm, world, mishaps, acked, notice>>

(* Of a manual buy alone the initial cash is recorded first, once.            *)
Confirm(t) ==
    /\ Free /\ t \in tokens /\ Unchanged(t) /\ ~ IsPositions(t) /\ AllRecordable(t.rows)
    /\ tokens' = tokens \ {t}
    /\ confirm' = [rows |-> t.rows, n |-> 1, pc |-> "append", began |-> t.file = None /\ unrecorded # None]
    /\ IF confirm'.began THEN RecordCash(unrecorded) ELSE UNCHANGED recorded
    /\ UNCHANGED <<file, positions, memory, world, mishaps, acked, notice>>

(* It could not be recorded: nothing is confirmed. *)
CashFails(t) ==
    /\ Free /\ t \in tokens /\ t.file = None /\ unrecorded # None /\ AllRecordable(t.rows)
    /\ mishaps < MaxUpsets /\ mishaps' = mishaps + 1
    /\ tokens' = tokens \ {t}
    /\ UNCHANGED <<file, recorded, positions, memory, confirm, world, acked, notice>>

(* The rows in turn: append, and the ledger in memory; the last one answers.  *)
(* A line is appended whatever the last one ends with, and may join it.       *)
Row == confirm.rows[confirm.n]
Written == \E e \in Range(Rows) : e.id = Row.id
Joins(end) == IF torn = "end" THEN "line" ELSE end
Append1 ==
    /\ confirm # None /\ confirm.pc = "append"
    /\ IF Has(books, Row) THEN UNCHANGED <<disk, torn>>
       ELSE torn # "line" /\ ~ Written /\ disk' = Append(Rows, Row) /\ torn' = Joins("no")
    /\ confirm' = [confirm EXCEPT !.pc = "memory"]
    /\ UNCHANGED <<surplus, recorded, positions, memory, tokens, world, mishaps, acked, notice>>

Remember ==
    /\ confirm # None /\ confirm.pc = "memory"
    /\ books' = Recorded(books, Row)
    /\ IF confirm.n < Len(confirm.rows)
       THEN /\ confirm' = [confirm EXCEPT !.n = @ + 1, !.pc = "append"]
            /\ UNCHANGED <<unrecorded, acked, telling>>
       ELSE /\ confirm' = None
            /\ unrecorded' = IF confirm.began THEN None ELSE unrecorded
            /\ acked' = acked \cup {e.id : e \in Range(confirm.rows)}
            /\ telling' = telling + 1
    /\ UNCHANGED <<file, recorded, positions, baseline, tokens, world, mishaps, taken, sync, monitored>>

Withdrawn == IF confirm.began THEN None ELSE recorded

(* An append raises: the chain is broken or the row is there already, or the  *)
(* write failed before, within or after the line.                             *)
AppendFails ==
    /\ confirm # None /\ confirm.pc = "append" /\ ~ Has(books, Row)
    /\ confirm' = None
    /\ recorded' = Withdrawn
    /\ IF torn = "line" \/ Written THEN UNCHANGED <<file, mishaps>>
       ELSE /\ mishaps < MaxUpsets /\ mishaps' = mishaps + 1
            /\ \/ disk' = Rows /\ UNCHANGED <<torn, surplus>>
               \/ disk' = Rows /\ torn' = "line" /\ UNCHANGED surplus
               \/ /\ disk' = Append(Rows, Row) /\ surplus' = TRUE
                  /\ torn' \in {Joins("no"), Joins("end")}
    /\ UNCHANGED <<positions, memory, tokens, world, acked, notice>>

(* A position file replaces the snapshot as a whole.                          *)
ConfirmPositions(t) ==
    /\ Free /\ t \in tokens /\ Unchanged(t) /\ IsPositions(t)
    /\ tokens' = tokens \ {t}
    /\ positions' = {e.sym : e \in Range(t.rows)}
    /\ telling' = telling + 1
    /\ UNCHANGED <<file, recorded, memory, confirm, world, mishaps, acked, taken, sync, monitored>>

(* Mutant: the holdings are read without the lock. *)
MayTellUnordered == Free /\ telling > 0

(* _notify_holdings_changed: the holdings are read and handed to the callback *)
(* under a lock of their own, which one request holds at a time.              *)
MayTell == Free /\ telling > 0 /\ taken = {}
Tell ==
    /\ MayTell
    /\ telling' = telling - 1
    /\ taken' = taken \cup {Held(books)}
    /\ UNCHANGED <<file, recorded, positions, memory, tokens, confirm, world, mishaps, acked, sync, monitored>>

Told(symbols) ==
    /\ symbols \in taken
    /\ taken' = taken \ {symbols}
    /\ \/ monitored' = symbols /\ sync' = "SUCCESS" /\ UNCHANGED mishaps
       \/ /\ mishaps < MaxUpsets /\ mishaps' = mishaps + 1
          /\ sync' = "UPDATE_FAILED" /\ UNCHANGED monitored
    /\ UNCHANGED <<file, recorded, positions, memory, tokens, confirm, world, acked, telling>>

(* The process ends, maybe within the line it was writing.                    *)
Crash ==
    /\ books # None /\ mishaps < MaxUpsets /\ mishaps' = mishaps + 1
    /\ books' = None /\ baseline' = 0 /\ unrecorded' = None
    /\ tokens' = {} /\ confirm' = None /\ telling' = 0 /\ taken' = {}
    /\ sync' = "NOT_CONFIGURED" /\ monitored' = {}
    /\ \/ UNCHANGED <<disk, torn>>
       \/ /\ confirm # None /\ confirm.pc = "append" /\ ~ Has(books, Row) /\ ~ Written /\ torn # "line"
          /\ \/ disk' = Rows /\ torn' = "line"
             \/ disk' = Append(Rows, Row) /\ torn' = Joins("end")
    /\ UNCHANGED <<surplus, recorded, positions, world, acked>>

(* Outside the program: another export, the next day.                         *)
Export(f) == f # inbox /\ inbox' = f
             /\ UNCHANGED <<file, recorded, positions, memory, tokens, confirm, day, previews, mishaps, acked, notice>>
NextDay == day < MaxDay /\ day' = day + 1
           /\ UNCHANGED <<file, recorded, positions, memory, tokens, confirm, inbox, previews, mishaps, acked, notice>>

DeskNext ==
    \/ \E requested \in Requests : Start(requested)
    \/ \E s \in Symbols : PreviewBuy(s)
    \/ PreviewFile
    \/ \E t \in tokens : Refuse(t) \/ Confirm(t) \/ CashFails(t) \/ ConfirmPositions(t)
    \/ Append1 \/ Remember \/ AppendFails
    \/ Tell \/ \E symbols \in taken : Told(symbols)
    \/ Crash
    \/ \E f \in DOMAIN Files : Export(f)
    \/ NextDay

DeskSpec == DeskInit /\ [][DeskNext]_deskVars
------------------------------------------------------------------------------
(* A fill whose confirmation was answered is in the file, whatever ended or   *)
(* failed since, and in the ledger of every process.                          *)
AnsweredIsKept ==
    /\ \A id \in acked : \E e \in Range(Rows) : e.id = id
    /\ books # None => \A id \in acked : \E e \in books : e.id = id

(* As long as every line can be read and none was written in vain, the file   *)
(* can be replayed under the cash in force: two previews that were each       *)
(* possible do not become two fills that are not, and no start is refused.    *)
FileReplays ==
    books # None /\ torn # "line" /\ ~ surplus
      => Loads(Rows, baseline) /\ (confirm = None => books = Range(Rows))
==============================================================================
