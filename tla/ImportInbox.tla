----------------------------- MODULE ImportInbox ------------------------------
(* The inbox of broker exports.  A scan gives each file an id made from its    *)
(* name, content and time; a preview checks the file against the scan and then *)
(* reads it again; a confirmation checks it once more and records the fills,   *)
(* or saves the positions.  The broker's client writes its exports meanwhile.  *)
EXTENDS Naturals, Sequences, FiniteSets, FiniteSetsExt

CONSTANTS Names,           \* of the files
          Sheet,           \* content -> [columns, doubled: fields with two columns, rows]
          Blank, Unreadable, \* what a cell may hold besides a number, a symbol or a side
          None, Damaged,
          MaxWrites, MaxPreviews, MaxDay  \* bounds

VARIABLES folder,          \* name -> [content, at], the files that are there
          past,            \* name -> contents the file had
          returned,        \* some file was given a content it had had before
          writes, day, previews,
          entries,         \* _entries: what the last scan saw
          reading,         \* the entry a preview has checked and reads again
          tokens,          \* previews that were not confirmed yet
          ledger,          \* the recorded fills
          snapshot,        \* the saved positions: None, Damaged or what was saved
          view             \* the imported snapshot as holdings() last showed it

outside == <<folder, past, returned, writes, day>>
memory == <<entries, reading, tokens, previews>>
store == <<ledger, snapshot>>
inboxVars == <<outside, memory, store, view>>

Exported == DOMAIN Sheet
Rows(c) == Sheet[c].rows
Cell(row, field) == IF field \in DOMAIN row THEN row[field] ELSE Blank
IsNumber(x) == x \notin {Blank, Unreadable}
------------------------------------------------------------------------------
(* Which columns make positions, and which make fills. *)
PositionFields == {"name", "symbol", "total", "available", "frozen", "cost", "cash", "as_of"}
FillFields == {"name", "symbol", "quantity", "price", "side", "date"}
IsPositions(c) == {"symbol", "total", "cost"} \subseteq Sheet[c].columns
Recognised(c) ==
    /\ Rows(c) # <<>>
    /\ Sheet[c].doubled \cap PositionFields = {}
    /\ \/ IsPositions(c)
       \/ Sheet[c].doubled \cap FillFields = {} /\ {"symbol", "quantity", "price"} \subseteq Sheet[c].columns

(* A row of fills: no side is a buy, no date is today, a buy needs a name.  A  *)
(* count that is no number is not rejected with its row: it raises what no    *)
(* handler of the row catches.                                                *)
Side(row) == IF Cell(row, "side") = Blank THEN "buy" ELSE Cell(row, "side")
Named(row) == Side(row) \in {"buy", "sell"} /\ IsNumber(Cell(row, "symbol"))
FillRows(c) ==
    {n \in DOMAIN Rows(c) :
        LET row == Rows(c)[n]
        IN /\ Named(row) /\ Cell(row, "date") # Unreadable
           /\ \A f \in {"quantity", "price"} : IsNumber(Cell(row, f)) /\ Cell(row, f) # 0
           /\ Side(row) = "buy" => Cell(row, "name") # Blank}

(* The fills that rows of content c give under the digest of another one.     *)
FillOf(row, today) ==
    [side |-> Side(row), symbol |-> row.symbol, quantity |-> row.quantity,
     date |-> IF Cell(row, "date") = Blank THEN today ELSE row.date]
Fills(digest, c, today) ==
    {[id |-> <<digest, n>>, fill |-> FillOf(Rows(c)[n], today)] : n \in FillRows(c)}

(* A row of positions: the first row of a symbol counts, even a bad one; what  *)
(* is not given is all available.  A row whose cash or date cannot be read is *)
(* reported as rejected after its position was taken.                         *)
First(c, n) == \A m \in 1 .. n - 1 : Rows(c)[m].symbol # Rows(c)[n].symbol
Free(row) == IF Cell(row, "available") = Blank THEN row.total ELSE row.available
Consistent(row) == /\ Free(row) <= row.total
                   /\ Cell(row, "frozen") # Blank => Free(row) + row.frozen = row.total
PositionRows(c) == {n \in DOMAIN Rows(c) : /\ IsNumber(Cell(Rows(c)[n], "symbol")) /\ First(c, n)
                                           /\ Consistent(Rows(c)[n]) /\ IsNumber(Cell(Rows(c)[n], "cost"))}
CashValues(c) == {Cell(Rows(c)[n], "cash") : n \in PositionRows(c)} \ {Blank, Unreadable}
DateValues(c) == {Cell(Rows(c)[n], "as_of") : n \in {m \in PositionRows(c) : Cell(Rows(c)[m], "cash") # Unreadable}}
                 \ {Blank, Unreadable}
Saved(digest, c, today) ==
    [source |-> digest,
     positions |-> {[symbol |-> Rows(c)[n].symbol, total |-> Rows(c)[n].total] : n \in PositionRows(c)},
     cash |-> IF CashValues(c) = {} THEN None ELSE Max(CashValues(c)),
     as_of |-> IF DateValues(c) = {} THEN today ELSE Max(DateValues(c))]

Counts(row) == {Cell(row, f) : f \in {"quantity", "total"} \cap DOMAIN row}
               \cup ({Cell(row, f) : f \in {"available", "frozen"}} \ {Blank})
Raises(c) ==
    \E n \in DOMAIN Rows(c) :
        LET row == Rows(c)[n]
        IN /\ IF IsPositions(c) THEN IsNumber(Cell(row, "symbol")) /\ First(c, n) ELSE Named(row)
           /\ \E x \in Counts(row) : ~ IsNumber(x)
Previewable(c) ==
    /\ Recognised(c) /\ ~ Raises(c)
    /\ IsPositions(c) => /\ PositionRows(c) # {}
                         /\ Cardinality(CashValues(c)) <= 1 /\ Cardinality(DateValues(c)) <= 1
------------------------------------------------------------------------------
InboxInit ==
    /\ folder \in UNION {[N -> [content : Exported, at : {0}]] : N \in SUBSET Names}
    /\ past = [n \in Names |-> IF n \in DOMAIN folder THEN {folder[n].content} ELSE {}]
    /\ returned = FALSE /\ writes = 0 /\ day = 1 /\ previews = 0
    /\ entries = {} /\ reading = None /\ tokens = {}
    /\ ledger = {} /\ snapshot = None /\ view = None

(* The client writes an export, or it is moved away. *)
Write(n, c) ==
    /\ writes < MaxWrites /\ writes' = writes + 1
    /\ folder' = [m \in DOMAIN folder \cup {n} |-> IF m = n THEN [content |-> c, at |-> writes'] ELSE folder[m]]
    /\ past' = [past EXCEPT ![n] = @ \cup {c}]
    /\ returned' = (returned \/ c \in past[n])
    /\ UNCHANGED <<day, memory, store, view>>

Remove(n) == /\ n \in DOMAIN folder
             /\ folder' = [m \in DOMAIN folder \ {n} |-> folder[m]]
             /\ UNCHANGED <<past, returned, writes, day, memory, store, view>>

(* Every request holds the account lock; only the files change under it.      *)
Entry(n) == [name |-> n, content |-> folder[n].content, at |-> folder[n].at]
Scan == /\ reading = None
        /\ entries' = {Entry(n) : n \in DOMAIN folder}
        /\ UNCHANGED <<outside, reading, tokens, previews, store, view>>

Check(e) == /\ reading = None /\ previews < MaxPreviews /\ previews' = previews + 1
            /\ e \in entries /\ e.name \in DOMAIN folder /\ e = Entry(e.name)
            /\ reading' = e
            /\ UNCHANGED <<outside, entries, tokens, store, view>>

Read == /\ reading # None
        /\ reading' = None
        /\ tokens' = IF reading.name \in DOMAIN folder /\ Previewable(folder[reading.name].content)
                     THEN tokens \cup {[entry |-> reading, read |-> folder[reading.name].content, on |-> day]}
                     ELSE tokens
        /\ UNCHANGED <<outside, entries, previews, store, view>>

(* verify_unchanged: the id is of the last scan, and the file has the content *)
(* of that id.  (StillThere is a mutant: it does not read the file again.)    *)
StillThere(e) == e \in entries /\ e.name \in DOMAIN folder
Unchanged(e) == e \in entries /\ e.name \in DOMAIN folder /\ folder[e.name].content = e.content

(* The ledger takes a fill it has under the same id only if it is the same    *)
(* one, refuses what its replay refuses, and may fail after some of the rows. *)
New(t) == Fills(t.entry.content, t.read, t.on)
Conflict(t) == \E f \in ledger, g \in New(t) : f.id = g.id /\ f # g
(* The saved positions are replaced as a whole, or stay when it fails.        *)
Replaced(saved) == {snapshot, saved}
Confirm(t) ==
    /\ reading = None /\ t \in tokens /\ tokens' = tokens \ {t}
    /\ IF ~ Unchanged(t.entry) \/ (~ IsPositions(t.read) /\ Conflict(t)) THEN UNCHANGED store
       ELSE IF IsPositions(t.read)
       THEN snapshot' \in Replaced(Saved(t.entry.content, t.read, t.on)) /\ UNCHANGED ledger
       ELSE /\ \E n \in 0 .. Len(Rows(t.read)) : ledger' = ledger \cup {f \in New(t) : f.id[2] <= n}
            /\ UNCHANGED snapshot
    /\ UNCHANGED <<outside, entries, reading, previews, view>>

(* holdings() shows the saved positions, or fails as a whole: load gives what *)
(* was saved, digest and all, and nothing of what is damaged.                 *)
Loaded == IF snapshot = Damaged THEN None ELSE snapshot
Look == /\ reading = None
        /\ view' = Loaded
        /\ UNCHANGED <<outside, memory, store>>

Restart == /\ entries' = {} /\ reading' = None /\ tokens' = {}
           /\ UNCHANGED <<outside, previews, store, view>>

Spoil == /\ snapshot \notin {None, Damaged} /\ snapshot' = Damaged
         /\ UNCHANGED <<outside, memory, ledger, view>>

NextDay == day < MaxDay /\ day' = day + 1
           /\ UNCHANGED <<folder, past, returned, writes, memory, store, view>>

InboxNext == \/ \E n \in Names : Remove(n) \/ \E c \in Exported : Write(n, c)
             \/ Scan \/ Read \/ Look \/ Restart \/ Spoil \/ NextDay
             \/ \E e \in entries : Check(e)
             \/ \E t \in tokens : Confirm(t)

Spec == InboxInit /\ [][InboxNext]_inboxVars
------------------------------------------------------------------------------
(* Importing is idempotent and names its source: no fill id was ever recorded *)
(* with two meanings, and what was recorded under the digest of an export, or *)
(* is shown as positions from it, is what that export said, although the file *)
(* may be written between the two reads of a preview and before the           *)
(* confirmation.  It takes an export that never returns to an earlier content *)
(* meanwhile: then the rows of the content in between pass under its digest.  *)
ImportsAreTheirSource ==
    /\ \A f, g \in ledger : f.id = g.id => f = g
    /\ ~ returned =>
         /\ \A f \in ledger : \E d \in 1 .. day : f \in Fills(f.id[1], f.id[1], d)
         /\ \A s \in {snapshot, view} \ {None, Damaged} :
              IsPositions(s.source) /\ \E d \in 1 .. day : s = Saved(s.source, s.source, d)
==============================================================================
