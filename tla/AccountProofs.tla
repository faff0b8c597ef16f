---------------------------- MODULE AccountProofs ----------------------------
(* The account for any symbols, exports, initial cash and bounds: what was     *)
(* answered stays, the file replays, and every holding is assessed.            *)
(*                                                                             *)
(* A confirmation checks each fill against the books that are in memory, and   *)
(* then appends it to the file.  That the file replays is an induction along   *)
(* its rows which no single step shows: DeskInv has memory equal to what the   *)
(* file replays to, but for the row at work, and the rows still to come        *)
(* recordable one after the other.                                             *)
(*                                                                             *)
(* For the watch, WatchInv follows the holdings on their way: they are in the  *)
(* monitored symbols, or one who records is about to tell them; the thread     *)
(* asks for what is monitored, or is told to ask again; what it asked for is   *)
(* kept before it is shown.                                                    *)
EXTENDS AccountWatch, SequenceTheorems, FiniteSetTheorems, TLAPS

(* None is no sequence, no record and no set, and the exports have rows.      *)
Assumed == AccountAssumption /\ None \notin SUBSET Lots

(* What is on disk, in memory and in the previews has its type; a process     *)
(* that does not run has nothing in memory.                                   *)
Tokens == [file : {None} \cup DOMAIN Files, rows : Seq(Lots)]
DeskTypeOK ==
    /\ disk \in {None} \cup Seq(Lots)
    /\ books \in {None} \cup SUBSET Lots
    /\ books # None => IsFiniteSet(books)
    /\ tokens \subseteq Tokens
    /\ confirm \in {None} \cup Confirmations
    /\ inbox \in DOMAIN Files
    /\ day \in Nat /\ previews \in Nat
    /\ positions \subseteq Symbols /\ monitored \subseteq Symbols
    /\ telling \in Nat
    /\ \A held \in taken : held \subseteq Symbols
    /\ books = None => tokens = {} /\ confirm = None /\ telling = 0 /\ taken = {}

(* The rows of a preview have ids of their own.                               *)
Distinct(rws) == rws # <<>> /\ \A i, j \in DOMAIN rws : rws[i].id = rws[j].id => i = j
RowsDistinct ==
    /\ \A t \in tokens : Distinct(t.rows)
    /\ confirm # None => Distinct(confirm.rows) /\ confirm.n \in DOMAIN confirm.rows

(* What is in memory is in the file: also of the confirmation at work.        *)
Ids(fills) == {e.id : e \in fills}
MemoryIsFiled ==
    /\ books # None => Ids(books) \subseteq Ids(Range(Rows))
    /\ acked \subseteq Ids(Range(Rows))
    /\ books # None => acked \subseteq Ids(books)
    /\ confirm # None =>
         /\ \A k \in DOMAIN confirm.rows : k < confirm.n => confirm.rows[k].id \in Ids(books)
         /\ confirm.pc = "memory" => Row.id \in Ids(Range(Rows))

(* As long as the file can be read and no row was written in vain, it can be  *)
(* replayed, and memory has what it has, but for the row at work; the rows of *)
(* a confirmation can be recorded one after the other on what was there       *)
(* before the first of them.                                                  *)
Upon(before, rws, n) == before \cup {e \in Range(SubSeq(rws, 1, n)) : ~ Has(before, e)}
Sound == books # None /\ torn # "line" /\ ~ surplus
FileFollowed ==
    Sound =>
      /\ Loads(Rows, baseline)
      /\ Range(Rows) = IF confirm # None /\ confirm.pc = "memory" THEN Recorded(books, Row) ELSE books
      /\ confirm # None =>
           \E before \in SUBSET books :
              /\ books = Upon(before, confirm.rows, confirm.n - 1)
              /\ \A k \in DOMAIN confirm.rows :
                    Recordable(Upon(before, confirm.rows, k - 1), baseline, confirm.rows[k])

(* What answered confirmations hold is told, about to be told, or to be told. *)
HoldingsTold ==
    /\ \A h, g \in taken : h = g
    /\ books # None =>
         \A s \in AnsweredHoldings :
            \/ telling > 0
            \/ \E h \in taken : s \in h
            \/ taken = {} /\ (s \in monitored \/ sync = "UPDATE_FAILED")

(* The risk thread: what it asked for is what is monitored unless it is or    *)
(* will be woken, and what it publishes covers what it asked for.             *)
ThreadTypeOK ==
    /\ thread \in [pc : {"ask", "fetch", "publish", "wait"}, asked : SUBSET Symbols,
                   result : {None, "FRESH", "PARTIAL", "UPDATE_FAILED"}]
    /\ owed \in Nat
ThreadFollows ==
    books # None =>
      /\ thread.pc # "ask" /\ owed = 0 /\ ~ wake => thread.asked = monitored
      /\ thread.pc = "publish" /\ thread.result # "UPDATE_FAILED" => thread.asked \subseteq DOMAIN kept
      /\ thread.pc = "wait" /\ thread.asked # {} /\ shown.status # "UPDATE_FAILED"
           => thread.asked \subseteq DOMAIN shown.levels
------------------------------------------------------------------------------
(* The rows of the file are lots. *)
LEMMA RowsAreLots ==
  ASSUME Assumed, DeskTypeOK
  PROVE  Rows \in Seq(Lots) /\ Range(Rows) \subseteq Lots /\ IsFiniteSet(Range(Rows))
<1>1. Rows \in Seq(Lots)
  BY DEF DeskTypeOK, Rows
<1>2. Range(Rows) \subseteq Lots
  BY <1>1 DEF Range
<1>3. IsFiniteSet(Range(Rows))
  <2>1. IsFiniteSet(1 .. Len(Rows))
    BY <1>1, FS_Interval
  <2>2. Rows \in Surjection(1 .. Len(Rows), Range(Rows))
    BY <1>1 DEF Surjection, Range
  <2> QED
    BY <2>1, <2>2, FS_Surjection
<1> QED
  BY <1>1, <1>2, <1>3

(* What a manual buy and a file give are lots. *)
LEMMA PreviewedAreLots ==
  ASSUME Assumed, DeskTypeOK
  PROVE  /\ \A s \in Symbols :
              Fill(<<"manual", previews>>, [side |-> "buy", sym |-> s, day |-> day], previews) \in Lots
         /\ [n \in DOMAIN Files[inbox] |-> Fill(<<inbox, n>>, Files[inbox][n], previews)] \in Seq(Lots)
         /\ Files[inbox] # <<>>
<1>1. \A s \in Symbols :
        Fill(<<"manual", previews>>, [side |-> "buy", sym |-> s, day |-> day], previews) \in Lots
  BY DEF Fill, Lots, DeskTypeOK, Sides
<1> DEFINE rws == Files[inbox]
           lots == [n \in DOMAIN rws |-> Fill(<<inbox, n>>, rws[n], previews)]
           Cells == [side : Sides, sym : Symbols, day : Nat]
<1>2. rws \in Seq(Cells) /\ rws # <<>>
  BY DEF Assumed, AccountAssumption, DeskTypeOK
<1> HIDE DEF rws, Cells
<1>3. /\ DOMAIN rws = 1 .. Len(rws) /\ Len(rws) \in Nat
      /\ \A n \in DOMAIN rws : rws[n] \in Cells /\ n \in Nat
  BY <1>2
<1>4. \A n \in DOMAIN rws : Fill(<<inbox, n>>, rws[n], previews) \in Lots
  BY <1>3 DEF Fill, Lots, DeskTypeOK, Cells
<1>5. lots \in Seq(Lots)
  BY <1>3, <1>4
<1> QED
  BY <1>1, <1>2, <1>5 DEF rws

(* The row at work is a lot. *)
LEMMA RowIsLot ==
  ASSUME Assumed, DeskTypeOK, RowsDistinct, confirm # None
  PROVE  /\ confirm \in Confirmations /\ Row \in Lots
         /\ confirm.rows \in Seq(Lots) /\ confirm.n \in 1 .. Len(confirm.rows)
BY DEF DeskTypeOK, RowsDistinct, Confirmations, Row

(* What a process has in memory does not change but by Start, Remember, Crash *)
(* and what is on disk only by the two appends and an end within one.         *)
LEMMA DeskTypeStep ==
  ASSUME Assumed, DeskTypeOK, RowsDistinct, [DeskNext]_deskVars
  PROVE  DeskTypeOK'
<1> USE DEF file, memory, world, notice
<1>1. ASSUME NEW requested \in Requests, Start(requested)
      PROVE  DeskTypeOK'
  <2>1. Range(Rows) \subseteq Lots /\ IsFiniteSet(Range(Rows))
    BY RowsAreLots
  <2>2. Held(Range(Rows)) \subseteq Symbols
    BY DEF Held, DeskTypeOK
  <2>3. Range(Rows) # None
    BY <2>1 DEF Assumed
  <2> QED
    BY <1>1, <2>1, <2>2, <2>3 DEF Start, DeskTypeOK
<1>2. ASSUME NEW s \in Symbols, PreviewBuy(s)
      PROVE  DeskTypeOK'
  <2> DEFINE e == Fill(<<"manual", previews>>, [side |-> "buy", sym |-> s, day |-> day], previews)
  <2>1. e \in Lots
    BY PreviewedAreLots
  <2> HIDE DEF e
  <2>2. [file |-> None, rows |-> <<e>>] \in Tokens
    BY <2>1 DEF Tokens
  <2>3. tokens' = tokens \cup {[file |-> None, rows |-> <<e>>]}
    BY <1>2 DEF PreviewBuy, e
  <2> QED
    BY <1>2, <2>2, <2>3 DEF PreviewBuy, Free, DeskTypeOK
<1>3. ASSUME PreviewFile
      PROVE  DeskTypeOK'
  <2> DEFINE rws == [n \in DOMAIN Files[inbox] |-> Fill(<<inbox, n>>, Files[inbox][n], previews)]
  <2>1. rws \in Seq(Lots)
    BY PreviewedAreLots
  <2>2. tokens' = tokens \cup {[file |-> inbox, rows |-> rws]}
    BY <1>3 DEF PreviewFile
  <2> HIDE DEF rws
  <2>3. [file |-> inbox, rows |-> rws] \in Tokens
    BY <2>1 DEF Tokens, DeskTypeOK
  <2> QED
    BY <1>3, <2>2, <2>3 DEF PreviewFile, Free, DeskTypeOK
<1>4. ASSUME NEW t \in tokens, Refuse(t) \/ CashFails(t)
      PROVE  DeskTypeOK'
  BY <1>4 DEF Refuse, CashFails, Free, DeskTypeOK
<1>5. ASSUME NEW t \in tokens, Confirm(t)
      PROVE  DeskTypeOK'
  <2>1. PICK began \in BOOLEAN :
          confirm' = [rows |-> t.rows, n |-> 1, pc |-> "append", began |-> began]
    BY <1>5 DEF Confirm
  <2>2. confirm' \in Confirmations
    BY <2>1 DEF DeskTypeOK, Tokens, Confirmations
  <2> QED
    BY <1>5, <2>2 DEF Confirm, Free, DeskTypeOK
<1>6. ASSUME NEW t \in tokens, ConfirmPositions(t)
      PROVE  DeskTypeOK'
  <2>1. {e.sym : e \in Range(t.rows)} \subseteq Symbols
    <3>1. t.rows \in Seq(Lots)
      BY DEF DeskTypeOK, Tokens
    <3>2. \A e \in Range(t.rows) : e \in Lots
      BY <3>1 DEF Range
    <3> QED
      BY <3>2 DEF Lots
  <2> QED
    BY <1>6, <2>1 DEF ConfirmPositions, Free, DeskTypeOK
<1>7. ASSUME Append1
      PROVE  DeskTypeOK'
  <2>1. confirm \in Confirmations /\ Row \in Lots
    BY <1>7, RowIsLot DEF Append1
  <2>2. confirm' \in Confirmations
    BY <1>7, <2>1 DEF Append1, Confirmations
  <2>3. disk' \in {None} \cup Seq(Lots)
    BY <1>7, <2>1, RowsAreLots DEF Append1, DeskTypeOK
  <2>4. UNCHANGED <<books, tokens, inbox, day, previews, positions, monitored, telling, taken>>
    BY <1>7 DEF Append1
  <2>5. books # None
    BY <1>7 DEF Append1, DeskTypeOK
  <2> QED
    BY <2>2, <2>3, <2>4, <2>5 DEF DeskTypeOK
<1>8. ASSUME Remember
      PROVE  DeskTypeOK'
  <2>1. confirm \in Confirmations /\ Row \in Lots /\ confirm.n < Len(confirm.rows) => confirm.n + 1 \in Nat
    BY <1>8, RowIsLot DEF Remember
  <2>2. books # None /\ books \subseteq Lots /\ IsFiniteSet(books)
    BY <1>8 DEF Remember, DeskTypeOK
  <2>3. books' \subseteq Lots /\ IsFiniteSet(books')
    BY <1>8, <2>1, <2>2, FS_AddElement, RowIsLot DEF Remember, Recorded
  <2>4. books' # None
    BY <2>3 DEF Assumed
  <2>5. confirm' \in {None} \cup Confirmations
    <3>1. confirm \in Confirmations /\ confirm.n + 1 \in Nat
      BY <1>8, RowIsLot DEF Remember
    <3> QED
      BY <1>8, <3>1 DEF Remember, Confirmations
  <2>6. telling' \in Nat
    BY <1>8 DEF Remember, DeskTypeOK
  <2>7. UNCHANGED <<disk, tokens, inbox, day, previews, positions, monitored, taken>>
    BY <1>8 DEF Remember
  <2> QED
    BY <2>3, <2>4, <2>5, <2>6, <2>7 DEF DeskTypeOK
<1>9. ASSUME AppendFails
      PROVE  DeskTypeOK'
  <2>1. Row \in Lots /\ Rows \in Seq(Lots)
    BY <1>9, RowIsLot, RowsAreLots DEF AppendFails
  <2>2. disk' \in {None} \cup Seq(Lots)
    BY <1>9, <2>1 DEF AppendFails, DeskTypeOK
  <2>3. confirm' = None /\ UNCHANGED <<books, tokens, inbox, day, previews, positions, monitored, telling, taken>>
    BY <1>9 DEF AppendFails
  <2> QED
    BY <2>2, <2>3 DEF DeskTypeOK
<1>10. ASSUME Tell
       PROVE  DeskTypeOK'
  <2>1. Held(books) \subseteq Symbols
    BY DEF Held, DeskTypeOK
  <2>2. telling' \in Nat /\ taken' = {Held(books)}
    BY <1>10 DEF Tell, MayTell, DeskTypeOK
  <2> QED
    BY <1>10, <2>1, <2>2 DEF Tell, MayTell, Free, DeskTypeOK
<1>11. ASSUME NEW symbols \in taken, Told(symbols)
       PROVE  DeskTypeOK'
  BY <1>11 DEF Told, DeskTypeOK
<1>12. ASSUME Crash
       PROVE  DeskTypeOK'
  <2>1. CASE UNCHANGED <<disk, torn>>
    BY <1>12, <2>1 DEF Crash, DeskTypeOK
  <2>2. CASE confirm # None /\ (disk' = Rows \/ disk' = Append(Rows, Row))
    <3>1. disk' \in Seq(Lots)
      BY <2>2, RowIsLot, RowsAreLots
    <3> QED
      BY <1>12, <3>1 DEF Crash, DeskTypeOK
  <2> QED
    BY <1>12, <2>1, <2>2 DEF Crash
<1>13. ASSUME NEW f \in DOMAIN Files, Export(f)
       PROVE  DeskTypeOK'
  BY <1>13 DEF Export, DeskTypeOK
<1>14. ASSUME NextDay
       PROVE  DeskTypeOK'
  BY <1>14 DEF NextDay, DeskTypeOK
<1>15. CASE UNCHANGED deskVars
  BY <1>15 DEF deskVars, DeskTypeOK
<1> QED
  BY <1>1, <1>2, <1>3, <1>4, <1>5, <1>6, <1>7, <1>8, <1>9, <1>10, <1>11, <1>12, <1>13, <1>14, <1>15
     DEF DeskNext
(* The rows of a preview keep ids of their own. *)
LEMMA RowsDistinctStep ==
  ASSUME Assumed, DeskTypeOK, RowsDistinct, [DeskNext]_deskVars
  PROVE  RowsDistinct'
<1> USE DEF file, memory, world, notice
<1>1. ASSUME NEW requested \in Requests, Start(requested)
      PROVE  RowsDistinct'
  BY <1>1 DEF Start, RowsDistinct
<1>2. ASSUME NEW s \in Symbols, PreviewBuy(s)
      PROVE  RowsDistinct'
  <2> DEFINE e == Fill(<<"manual", previews>>, [side |-> "buy", sym |-> s, day |-> day], previews)
  <2>1. tokens' = tokens \cup {[file |-> None, rows |-> <<e>>]} /\ UNCHANGED confirm
    BY <1>2 DEF PreviewBuy
  <2> HIDE DEF e
  <2>2. Distinct(<<e>>)
    BY DEF Distinct
  <2> QED
    BY <2>1, <2>2 DEF RowsDistinct
<1>3. ASSUME PreviewFile
      PROVE  RowsDistinct'
  <2> DEFINE rws == [n \in DOMAIN Files[inbox] |-> Fill(<<inbox, n>>, Files[inbox][n], previews)]
  <2>1. tokens' = tokens \cup {[file |-> inbox, rows |-> rws]} /\ UNCHANGED confirm
    BY <1>3 DEF PreviewFile
  <2>2. Files[inbox] # <<>> /\ DOMAIN Files[inbox] = 1 .. Len(Files[inbox]) /\ Len(Files[inbox]) \in Nat
    BY DEF Assumed, AccountAssumption, DeskTypeOK
  <2>3. \A n \in DOMAIN rws : rws[n].id = <<inbox, n>>
    BY DEF Fill
  <2>4. rws # <<>>
    <3>1. 1 \in DOMAIN Files[inbox]
      BY <2>2 DEF Assumed, AccountAssumption
    <3>2. DOMAIN rws = DOMAIN Files[inbox]
      OBVIOUS
    <3> HIDE DEF rws
    <3>3. 1 \in DOMAIN rws
      BY <3>1, <3>2
    <3> QED
      BY <3>3
  <2> HIDE DEF rws
  <2>5. Distinct(rws)
    BY <2>3, <2>4 DEF Distinct
  <2> QED
    BY <2>1, <2>5 DEF RowsDistinct
<1>4. ASSUME NEW t \in tokens, Refuse(t) \/ CashFails(t) \/ ConfirmPositions(t)
      PROVE  RowsDistinct'
  BY <1>4 DEF Refuse, CashFails, ConfirmPositions, RowsDistinct
<1>5. ASSUME NEW t \in tokens, Confirm(t)
      PROVE  RowsDistinct'
  <2>1. confirm'.rows = t.rows /\ confirm'.n = 1 /\ tokens' \subseteq tokens
    BY <1>5 DEF Confirm
  <2>2. t.rows \in Seq(Lots) /\ Distinct(t.rows)
    BY DEF DeskTypeOK, Tokens, RowsDistinct
  <2>3. 1 \in DOMAIN t.rows
    BY <2>2 DEF Distinct
  <2> QED
    BY <2>1, <2>2, <2>3 DEF RowsDistinct
<1>6. ASSUME Append1
      PROVE  RowsDistinct'
  <2>1. confirm'.rows = confirm.rows /\ confirm'.n = confirm.n /\ tokens' = tokens
    BY <1>6, RowIsLot DEF Append1, Confirmations
  <2> QED
    BY <1>6, <2>1 DEF RowsDistinct, Append1
<1>7. ASSUME Remember
      PROVE  RowsDistinct'
  <2>1. CASE confirm.n < Len(confirm.rows)
    <3>1. confirm'.rows = confirm.rows /\ confirm'.n = confirm.n + 1 /\ tokens' = tokens
      BY <1>7, <2>1, RowIsLot DEF Remember, Confirmations
    <3>2. confirm.n + 1 \in DOMAIN confirm.rows
      BY <1>7, <2>1, RowIsLot DEF Remember
    <3> QED
      BY <1>7, <3>1, <3>2 DEF RowsDistinct, Remember
  <2>2. CASE ~ (confirm.n < Len(confirm.rows))
    BY <1>7, <2>2 DEF Remember, RowsDistinct
  <2> QED
    BY <2>1, <2>2
<1>8. ASSUME AppendFails \/ Tell \/ (\E symbols \in taken : Told(symbols)) \/ Crash
             \/ (\E f \in DOMAIN Files : Export(f)) \/ NextDay \/ UNCHANGED deskVars
      PROVE  RowsDistinct'
  BY <1>8 DEF AppendFails, Tell, Told, Crash, Export, NextDay, deskVars, RowsDistinct
<1> QED
  BY <1>1, <1>2, <1>3, <1>4, <1>5, <1>6, <1>7, <1>8 DEF DeskNext

(* A row that is appended is there, and the others are.                       *)
LEMMA AppendedRows ==
  ASSUME Assumed, DeskTypeOK, NEW e \in Lots
  PROVE  /\ Append(Rows, e) \in Seq(Lots) /\ Append(Rows, e) # None /\ Rows # None
         /\ Range(Append(Rows, e)) = Range(Rows) \cup {e}
<1>1. Rows \in Seq(Lots)
  BY RowsAreLots
<1>2. Append(Rows, e) \in Seq(Lots) /\ Append(Rows, e) # None /\ Rows # None
  BY <1>1 DEF Assumed, AccountAssumption
<1> DEFINE m == Len(Rows)
           more == Append(Rows, e)
<1>3. /\ m \in Nat /\ DOMAIN Rows = 1 .. m /\ DOMAIN more = 1 .. m + 1
      /\ \A n \in 1 .. m : more[n] = Rows[n]
      /\ more[m + 1] = e
  BY <1>1
<1> HIDE DEF m, more
<1>4. \A n \in 1 .. m + 1 : n \in 1 .. m \/ n = m + 1
  BY <1>3
<1>5. Range(more) \subseteq Range(Rows) \cup {e}
  BY <1>3, <1>4 DEF Range
<1>6. 1 .. m \subseteq 1 .. m + 1 /\ m + 1 \in 1 .. m + 1
  BY <1>3
<1>7. Range(Rows) \cup {e} \subseteq Range(more)
  BY <1>3, <1>6 DEF Range
<1> QED
  BY <1>2, <1>5, <1>7 DEF more

(* The file only grows: by the row at work, while it is being appended.       *)
LEMMA FileGrows ==
  ASSUME Assumed, DeskTypeOK, RowsDistinct, [DeskNext]_deskVars
  PROVE  \/ Rows' = Rows
         \/ /\ confirm # None /\ confirm.pc = "append" /\ ~ Has(books, Row)
            /\ Rows' = Append(Rows, Row)
<1> USE DEF file, memory, world, notice
<1>1. Rows # None
  BY RowsAreLots DEF Assumed, AccountAssumption
<1>2. confirm # None => Append(Rows, Row) # None
  BY RowIsLot, AppendedRows
<1>3. disk' \in {disk, Rows, Append(Rows, Row)}
      /\ (disk' # disk /\ disk' # Rows => confirm # None /\ confirm.pc = "append" /\ ~ Has(books, Row))
  <2>1. CASE Append1
    BY <2>1 DEF Append1
  <2>2. CASE AppendFails
    BY <2>2 DEF AppendFails
  <2>3. CASE Crash
    BY <2>3 DEF Crash
  <2>4. CASE \E requested \in Requests : Start(requested)
    BY <2>4 DEF Start
  <2>5. CASE \E s \in Symbols : PreviewBuy(s)
    BY <2>5 DEF PreviewBuy
  <2>6. CASE PreviewFile
    BY <2>6 DEF PreviewFile
  <2>7. CASE \E t \in tokens : Refuse(t) \/ Confirm(t) \/ CashFails(t) \/ ConfirmPositions(t)
    BY <2>7 DEF Refuse, Confirm, CashFails, ConfirmPositions
  <2>8. CASE Remember \/ Tell \/ (\E symbols \in taken : Told(symbols))
    BY <2>8 DEF Remember, Tell, Told
  <2>9. CASE (\E f \in DOMAIN Files : Export(f)) \/ NextDay \/ UNCHANGED deskVars
    BY <2>9 DEF Export, NextDay, deskVars
  <2> QED
    BY <2>1, <2>2, <2>3, <2>4, <2>5, <2>6, <2>7, <2>8, <2>9 DEF DeskNext
<1>4. CASE disk' = disk
  BY <1>4 DEF Rows
<1>5. CASE disk' = Rows
  BY <1>1, <1>5 DEF Rows
<1>6. CASE disk' = Append(Rows, Row) /\ disk' # disk /\ disk' # Rows
  BY <1>2, <1>3, <1>6 DEF Rows
<1> QED
  BY <1>3, <1>4, <1>5, <1>6

(* What the file has is not lost. *)
LEMMA FileKeeps ==
  ASSUME Assumed, DeskTypeOK, RowsDistinct, [DeskNext]_deskVars
  PROVE  Ids(Range(Rows)) \subseteq Ids(Range(Rows'))
<1>1. CASE Rows' = Rows
  BY <1>1
<1>2. CASE confirm # None /\ Rows' = Append(Rows, Row)
  <2>1. Range(Rows') = Range(Rows) \cup {Row}
    BY <1>2, RowIsLot, AppendedRows
  <2> QED
    BY <2>1 DEF Ids
<1> QED
  BY <1>1, <1>2, FileGrows

(* What was answered, is remembered or was appended stays in the file.        *)
LEMMA MemoryIsFiledStep ==
  ASSUME Assumed, DeskTypeOK, RowsDistinct, MemoryIsFiled, [DeskNext]_deskVars
  PROVE  MemoryIsFiled'
<1> USE DEF file, memory, world, notice
<1>1. Ids(Range(Rows)) \subseteq Ids(Range(Rows'))
  BY FileKeeps
<1>2. ASSUME NEW requested \in Requests, Start(requested)
      PROVE  MemoryIsFiled'
  <2>1. Rows' = Rows /\ books' = Range(Rows) /\ acked' = acked /\ confirm' = None
    BY <1>2 DEF Start, Rows, DeskTypeOK
  <2> QED
    BY <2>1 DEF MemoryIsFiled
<1>3. ASSUME NEW t \in tokens, Confirm(t)
      PROVE  MemoryIsFiled'
  <2>1. /\ confirm'.n = 1 /\ confirm'.pc = "append" /\ confirm'.rows = t.rows
        /\ UNCHANGED <<books, acked>>
    BY <1>3 DEF Confirm
  <2>2. \A k \in DOMAIN t.rows : ~ (k < 1)
    <3>1. t.rows \in Seq(Lots)
      BY DEF DeskTypeOK, Tokens
    <3> QED
      BY <3>1
  <2> QED
    BY <1>1, <2>1, <2>2 DEF MemoryIsFiled
<1>4. ASSUME Append1
      PROVE  MemoryIsFiled'
  <2>1. /\ confirm'.rows = confirm.rows /\ confirm'.n = confirm.n /\ UNCHANGED <<books, acked>>
        /\ Row' = Row /\ confirm # None /\ books # None
    BY <1>4, RowIsLot DEF Append1, Confirmations, Row, DeskTypeOK
  <2>2. Row.id \in Ids(Range(Rows'))
    <3>1. CASE Has(books, Row)
      BY <1>1, <2>1, <3>1 DEF Has, MemoryIsFiled, Ids
    <3>2. CASE ~ Has(books, Row)
      <4>1. Rows' = Append(Rows, Row)
        BY <1>4, <3>2, RowIsLot, AppendedRows DEF Append1, Rows
      <4>2. Row \in Range(Rows')
        BY <2>1, <4>1, RowIsLot, AppendedRows
      <4> QED
        BY <4>2 DEF Ids
    <3> QED
      BY <3>1, <3>2
  <2> QED
    BY <1>1, <2>1, <2>2 DEF MemoryIsFiled
<1>5. ASSUME Remember
      PROVE  MemoryIsFiled'
  <2>1. /\ confirm # None /\ books # None /\ Row \in Lots /\ confirm \in Confirmations
        /\ confirm.rows \in Seq(Lots) /\ confirm.n \in 1 .. Len(confirm.rows)
        /\ Row.id \in Ids(Range(Rows)) /\ Rows' = Rows
    BY <1>5, RowIsLot DEF Remember, DeskTypeOK, MemoryIsFiled, Rows
  <2>2. Ids(books') = Ids(books) \cup {Row.id}
    BY <1>5 DEF Remember, Recorded, Has, Ids
  <2>3. CASE confirm.n < Len(confirm.rows)
    <3>1. /\ confirm'.rows = confirm.rows /\ confirm'.n = confirm.n + 1 /\ confirm'.pc = "append"
          /\ acked' = acked
      BY <1>5, <2>1, <2>3 DEF Remember, Confirmations
    <3>2. \A k \in DOMAIN confirm.rows : k < confirm.n + 1 => k < confirm.n \/ confirm.rows[k] = Row
      BY <2>1 DEF Row
    <3>3. \A k \in DOMAIN confirm.rows : k < confirm.n + 1 => confirm.rows[k].id \in Ids(books')
      BY <2>1, <2>2, <3>2 DEF MemoryIsFiled
    <3> QED
      BY <2>1, <2>2, <3>1, <3>3 DEF MemoryIsFiled
  <2>4. CASE ~ (confirm.n < Len(confirm.rows))
    <3>1. confirm' = None /\ acked' = acked \cup {e.id : e \in Range(confirm.rows)}
      BY <1>5, <2>4 DEF Remember
    <3>2. \A k \in DOMAIN confirm.rows : k < confirm.n \/ confirm.rows[k] = Row
      BY <2>1, <2>4 DEF Row
    <3>3. \A k \in DOMAIN confirm.rows : confirm.rows[k].id \in Ids(books')
      BY <2>1, <2>2, <3>2 DEF MemoryIsFiled
    <3>4. {e.id : e \in Range(confirm.rows)} \subseteq Ids(books')
      BY <3>3 DEF Range
    <3> QED
      BY <2>1, <2>2, <3>1, <3>4 DEF MemoryIsFiled
  <2> QED
    BY <2>3, <2>4
<1>6. ASSUME AppendFails \/ Crash
      PROVE  MemoryIsFiled'
  <2>1. confirm' = None /\ books' \in {books, None} /\ acked' = acked
    BY <1>6 DEF AppendFails, Crash
  <2> QED
    BY <1>1, <2>1 DEF MemoryIsFiled
<1>7. ASSUME \/ \E s \in Symbols : PreviewBuy(s)
             \/ PreviewFile
             \/ \E t \in tokens : Refuse(t) \/ CashFails(t) \/ ConfirmPositions(t)
             \/ Tell \/ \E symbols \in taken : Told(symbols)
             \/ \E f \in DOMAIN Files : Export(f)
             \/ NextDay \/ UNCHANGED deskVars
      PROVE  MemoryIsFiled'
  <2>1. UNCHANGED <<disk, books, acked, confirm>>
    BY <1>7 DEF PreviewBuy, PreviewFile, Refuse, CashFails, ConfirmPositions, Tell, Told, Export,
                NextDay, deskVars
  <2> QED
    BY <2>1 DEF MemoryIsFiled, Rows, Row
<1> QED
  BY <1>2, <1>3, <1>4, <1>5, <1>6, <1>7 DEF DeskNext
------------------------------------------------------------------------------
(* The rows of a beginning. *)
LEMMA BeginningRows ==
  ASSUME NEW S, NEW rws \in Seq(S), NEW n \in 0 .. Len(rws)
  PROVE  Range(SubSeq(rws, 1, n)) = {rws[k] : k \in 1 .. n}
<1>1. /\ SubSeq(rws, 1, n) \in Seq(S) /\ Len(SubSeq(rws, 1, n)) = n
      /\ \A k \in 1 .. n : SubSeq(rws, 1, n)[k] = rws[k]
  BY SubSeqProperties
<1> DEFINE part == SubSeq(rws, 1, n)
<1>2. DOMAIN part = 1 .. n /\ \A k \in 1 .. n : part[k] = rws[k]
  BY <1>1
<1> HIDE DEF part
<1>3. Range(part) = {rws[k] : k \in 1 .. n}
  BY <1>2 DEF Range
<1> QED
  BY <1>3 DEF part

(* The first rows of a confirmation upon what was there: none changes         *)
(* nothing, and each next one is recorded upon those before it.               *)
LEMMA UponNone ==
  ASSUME NEW before, NEW rws \in Seq(Lots)
  PROVE  Upon(before, rws, 0) = before
<1>1. Range(SubSeq(rws, 1, 0)) = {rws[k] : k \in 1 .. 0}
  BY BeginningRows
<1> QED
  BY <1>1 DEF Upon

(* A row is recorded upon those before it. *)
LEMMA UponNext ==
  ASSUME NEW before, NEW rws \in Seq(Lots), Distinct(rws), NEW n \in 1 .. Len(rws)
  PROVE  Upon(before, rws, n) = Recorded(Upon(before, rws, n - 1), rws[n])
<1> DEFINE e == rws[n]
           F(m) == {rws[k] : k \in 1 .. m}
           early == F(n - 1)
           so == F(n)
<1>1. n - 1 \in 0 .. Len(rws) /\ n \in 0 .. Len(rws) /\ DOMAIN rws = 1 .. Len(rws)
      /\ 1 .. n = (1 .. n - 1) \cup {n} /\ n \notin 1 .. n - 1 /\ 1 .. n \subseteq DOMAIN rws
  OBVIOUS
<1>2. Range(SubSeq(rws, 1, n - 1)) = early /\ Range(SubSeq(rws, 1, n)) = so
  BY <1>1, BeginningRows
<1>3. so = early \cup {e}
  BY <1>1
<1>4. \A f \in early : f.id # e.id
  BY <1>1 DEF Distinct
<1> HIDE DEF e, early, so
<1>5. /\ Upon(before, rws, n - 1) = before \cup {f \in early : ~ Has(before, f)}
      /\ Upon(before, rws, n) = before \cup {f \in early \cup {e} : ~ Has(before, f)}
  BY <1>2, <1>3 DEF Upon
<1>6. Has(Upon(before, rws, n - 1), e) <=> Has(before, e)
  BY <1>4, <1>5 DEF Has
<1>7. Upon(before, rws, n) = Recorded(Upon(before, rws, n - 1), e)
  BY <1>5, <1>6 DEF Recorded
<1> QED
  BY <1>7 DEF e

(* A file that can be replayed can be replayed with a row that is none of the *)
(* earlier days and replays with the others.                                  *)
LEMMA LoadsAppended ==
  ASSUME NEW rws \in Seq(Lots), NEW cash, Loads(rws, cash), NEW e \in Lots,
         \A f \in Range(rws) : f.day <= e.day, Replays(Range(rws) \cup {e}, cash),
         Range(Append(rws, e)) = Range(rws) \cup {e}
  PROVE  Loads(Append(rws, e), cash)
<1> DEFINE more == Append(rws, e)
           m == Len(rws)
<1>1. /\ m \in Nat /\ DOMAIN rws = 1 .. m /\ more \in Seq(Lots) /\ Len(more) = m + 1
      /\ DOMAIN more = 1 .. m + 1
      /\ \A k \in 1 .. m : more[k] = rws[k]
      /\ more[m + 1] = e
  OBVIOUS
<1> SUFFICES ASSUME NEW n \in 1 .. m + 1
             PROVE  /\ \A i \in 1 .. (n - 1) : more[i].day <= more[n].day
                    /\ Replays(Range(SubSeq(more, 1, n)), cash)
  BY <1>1 DEF Loads
<1> HIDE DEF more, m
<1>2. Range(SubSeq(more, 1, n)) = {more[k] : k \in 1 .. n}
  BY <1>1, BeginningRows
<1>3. CASE n \in 1 .. m
  <2>1. Range(SubSeq(rws, 1, n)) = {rws[k] : k \in 1 .. n}
    BY <1>1, <1>3, BeginningRows DEF m
  <2>2. \A k \in 1 .. n : k \in 1 .. m
    BY <1>1, <1>3
  <2>3. Range(SubSeq(more, 1, n)) = Range(SubSeq(rws, 1, n))
    BY <1>1, <1>2, <2>1, <2>2
  <2>4. /\ \A i \in 1 .. (n - 1) : rws[i].day <= rws[n].day
        /\ Replays(Range(SubSeq(rws, 1, n)), cash)
    BY <1>1, <1>3 DEF Loads
  <2>5. \A i \in 1 .. (n - 1) : i \in 1 .. m
    BY <1>1, <1>3
  <2> QED
    BY <1>1, <1>3, <2>3, <2>4, <2>5
<1>4. CASE n = m + 1
  <2>1. Range(more) = {more[k] : k \in 1 .. n}
    BY <1>1, <1>4 DEF Range
  <2>2. Range(SubSeq(more, 1, n)) = Range(rws) \cup {e}
    BY <1>2, <2>1 DEF more
  <2>3. \A i \in 1 .. (n - 1) : more[i] \in Range(rws)
    BY <1>1, <1>4 DEF Range
  <2> QED
    BY <1>1, <1>4, <2>2, <2>3
<1> QED
  BY <1>1, <1>3, <1>4

(* The file stays one that can be replayed, and memory follows it.            *)
LEMMA FileFollowedStep ==
  ASSUME Assumed, DeskTypeOK, RowsDistinct, FileFollowed, [DeskNext]_deskVars
  PROVE  FileFollowed'
<1> USE DEF file, memory, world, notice
<1>1. ASSUME NEW requested \in Requests, Start(requested)
      PROVE  FileFollowed'
  <2>1. /\ Rows' = Rows /\ books' = Range(Rows) /\ confirm' = None
        /\ baseline' = Chosen(requested) /\ Loads(Rows, Chosen(requested))
    BY <1>1 DEF Start, Rows, DeskTypeOK
  <2> QED
    BY <2>1 DEF FileFollowed
<1>2. ASSUME NEW t \in tokens, Confirm(t)
      PROVE  FileFollowed'
  <2>1. SUFFICES ASSUME Sound'
                 PROVE  /\ Loads(Rows', baseline')
                        /\ Range(Rows') = books'
                        /\ \E before \in SUBSET books' :
                              /\ books' = Upon(before, confirm'.rows, confirm'.n - 1)
                              /\ \A k \in DOMAIN confirm'.rows :
                                    Recordable(Upon(before, confirm'.rows, k - 1), baseline', confirm'.rows[k])
                        /\ confirm'.pc # "memory"
    BY DEF FileFollowed
  <2>2. /\ UNCHANGED <<disk, torn, surplus, books, baseline>> /\ confirm = None
        /\ confirm'.rows = t.rows /\ confirm'.n = 1 /\ confirm'.pc = "append" /\ AllRecordable(t.rows)
    BY <1>2 DEF Confirm, Free
  <2>3. Loads(Rows, baseline) /\ Range(Rows) = books /\ Rows' = Rows
    BY <2>1, <2>2 DEF FileFollowed, Sound, Rows
  <2>4. books = Upon(books, t.rows, 0)
    BY UponNone DEF DeskTypeOK, Tokens
  <2>5. \A k \in DOMAIN t.rows : Recordable(Upon(books, t.rows, k - 1), baseline, t.rows[k])
    BY <2>2 DEF AllRecordable, Prospect, Upon
  <2> QED
    BY <2>2, <2>3, <2>4, <2>5
<1>3. ASSUME Append1
      PROVE  FileFollowed'
  <2>1. /\ UNCHANGED <<books, baseline, surplus>> /\ confirm # None /\ confirm.pc = "append"
        /\ confirm'.rows = confirm.rows /\ confirm'.n = confirm.n /\ confirm'.pc = "memory" /\ Row' = Row
        /\ books # None /\ Row \in Lots /\ confirm.n \in DOMAIN confirm.rows /\ Row = confirm.rows[confirm.n]
    BY <1>3, RowIsLot DEF Append1, Confirmations, Row, DeskTypeOK
  <2>0. confirm' # None
    <3>1. confirm' \in Confirmations
      BY <1>3, RowIsLot DEF Append1, Confirmations
    <3> QED
      BY <3>1 DEF Assumed, AccountAssumption
  <2>2. SUFFICES ASSUME Sound'
                 PROVE  /\ Loads(Rows', baseline)
                        /\ Range(Rows') = Recorded(books, Row)
                        /\ \E before \in SUBSET books :
                              /\ books = Upon(before, confirm.rows, confirm.n - 1)
                              /\ \A k \in DOMAIN confirm.rows :
                                    Recordable(Upon(before, confirm.rows, k - 1), baseline, confirm.rows[k])
    BY <2>0, <2>1 DEF FileFollowed
  <2>3. Sound
    BY <1>3, <2>1, <2>2 DEF Sound, Append1
  <2>4. PICK before \in SUBSET books :
           /\ books = Upon(before, confirm.rows, confirm.n - 1)
           /\ \A k \in DOMAIN confirm.rows :
                 Recordable(Upon(before, confirm.rows, k - 1), baseline, confirm.rows[k])
    BY <2>1, <2>3 DEF FileFollowed
  <2>5. Loads(Rows, baseline) /\ Range(Rows) = books
    BY <2>1, <2>3 DEF FileFollowed
  <2>6. Recordable(books, baseline, Row)
    BY <2>1, <2>4
  <2>7. CASE Has(books, Row)
    <3>1. Rows' = Rows
      BY <1>3, <2>7 DEF Append1, Rows
    <3> QED
      BY <2>4, <2>5, <2>7, <3>1 DEF Recorded
  <2>8. CASE ~ Has(books, Row)
    <3>1. Rows' = Append(Rows, Row)
      BY <1>3, <2>1, <2>8, AppendedRows DEF Append1, Rows
    <3>2. Range(Append(Rows, Row)) = Range(Rows) \cup {Row}
      BY <2>1, AppendedRows
    <3>3. (\A f \in books : f.day <= Row.day) /\ Replays(books \cup {Row}, baseline)
      BY <2>6, <2>8 DEF Recordable
    <3>4. Loads(Append(Rows, Row), baseline)
      BY <2>1, <2>5, <3>2, <3>3, RowsAreLots, LoadsAppended
    <3> QED
      BY <2>4, <2>5, <2>8, <3>1, <3>2, <3>4 DEF Recorded
  <2> QED
    BY <2>7, <2>8
<1>4. ASSUME Remember
      PROVE  FileFollowed'
  <2>1. /\ UNCHANGED <<disk, torn, surplus, baseline>> /\ Rows' = Rows /\ books # None
        /\ confirm # None /\ confirm.pc = "memory" /\ books' = Recorded(books, Row)
    BY <1>4 DEF Remember, Rows, DeskTypeOK
  <2>2. CASE torn # "line" /\ ~ surplus
    <3>1. /\ Sound /\ Loads(Rows, baseline) /\ Range(Rows) = books'
      BY <2>1, <2>2 DEF FileFollowed, Sound
    <3>2. CASE confirm.n < Len(confirm.rows)
      <4>1. /\ confirm'.rows = confirm.rows /\ confirm'.n = confirm.n + 1 /\ confirm'.pc = "append"
            /\ Row = confirm.rows[confirm.n] /\ confirm.n \in 1 .. Len(confirm.rows)
            /\ confirm.rows \in Seq(Lots) /\ Distinct(confirm.rows)
        BY <1>4, <2>1, <3>2, RowIsLot DEF Remember, Confirmations, Row, RowsDistinct
      <4>2. PICK before \in SUBSET books :
               /\ books = Upon(before, confirm.rows, confirm.n - 1)
               /\ \A k \in DOMAIN confirm.rows :
                     Recordable(Upon(before, confirm.rows, k - 1), baseline, confirm.rows[k])
        BY <2>1, <3>1 DEF FileFollowed
      <4>3. books' = Upon(before, confirm.rows, confirm.n)
        BY <2>1, <4>1, <4>2, UponNext
      <4>4. before \in SUBSET books'
        BY <2>1 DEF Recorded
      <4>5. confirm'.n - 1 = confirm.n
        BY <4>1
      <4>6. \E from \in SUBSET books' :
              /\ books' = Upon(from, confirm'.rows, confirm'.n - 1)
              /\ \A k \in DOMAIN confirm'.rows :
                    Recordable(Upon(from, confirm'.rows, k - 1), baseline', confirm'.rows[k])
        BY <2>1, <4>1, <4>2, <4>3, <4>4, <4>5
      <4> QED
        BY <2>1, <3>1, <4>1, <4>6 DEF FileFollowed
    <3>3. CASE ~ (confirm.n < Len(confirm.rows))
      <4>1. confirm' = None
        BY <1>4, <3>3 DEF Remember
      <4> QED
        BY <2>1, <3>1, <4>1 DEF FileFollowed
    <3> QED
      BY <3>2, <3>3
  <2> QED
    BY <2>1, <2>2 DEF FileFollowed, Sound
<1>5. ASSUME AppendFails
      PROVE  FileFollowed'
  <2>1. /\ UNCHANGED <<books, baseline>> /\ confirm' = None /\ confirm # None /\ confirm.pc = "append"
    BY <1>5 DEF AppendFails
  <2>2. SUFFICES ASSUME Sound'
                 PROVE  Loads(Rows', baseline) /\ Range(Rows') = books
    BY <2>1 DEF FileFollowed
  <2>3. torn' = torn /\ surplus' = surplus /\ disk' \in {disk, Rows}
    BY <1>5, <2>2 DEF AppendFails, Sound
  <2>4. Rows # None
    BY RowsAreLots DEF Assumed, AccountAssumption
  <2>5. Rows' = Rows
    BY <2>3, <2>4 DEF Rows
  <2> QED
    BY <2>1, <2>2, <2>3, <2>5 DEF FileFollowed, Sound
<1>6. ASSUME Crash
      PROVE  FileFollowed'
  BY <1>6 DEF Crash, FileFollowed, Sound
<1>7. ASSUME \/ \E s \in Symbols : PreviewBuy(s)
             \/ PreviewFile
             \/ \E t \in tokens : Refuse(t) \/ CashFails(t) \/ ConfirmPositions(t)
             \/ Tell \/ \E symbols \in taken : Told(symbols)
             \/ \E f \in DOMAIN Files : Export(f)
             \/ NextDay \/ UNCHANGED deskVars
      PROVE  FileFollowed'
  <2>1. UNCHANGED <<disk, torn, surplus, books, baseline, confirm>>
    BY <1>7 DEF PreviewBuy, PreviewFile, Refuse, CashFails, ConfirmPositions, Tell, Told, Export,
                NextDay, deskVars
  <2>2. Rows' = Rows /\ Row' = Row
    BY <2>1 DEF Rows, Row
  <2> QED
    BY <2>1, <2>2 DEF FileFollowed, Sound
<1> QED
  BY <1>1, <1>2, <1>3, <1>4, <1>5, <1>6, <1>7 DEF DeskNext
------------------------------------------------------------------------------
(* Everything the proofs say of the account. *)
DeskInv == DeskTypeOK /\ RowsDistinct /\ MemoryIsFiled /\ FileFollowed

(* It holds at the beginning. *)
LEMMA DeskBegins ==
  ASSUME Assumed, DeskInit
  PROVE  DeskInv
<1>1. DeskTypeOK
  BY DEF DeskInit, DeskTypeOK
<1>2. RowsDistinct
  BY DEF DeskInit, RowsDistinct
<1>3. MemoryIsFiled
  BY DEF DeskInit, MemoryIsFiled
<1>4. FileFollowed
  BY DEF DeskInit, FileFollowed, Sound
<1> QED
  BY <1>1, <1>2, <1>3, <1>4 DEF DeskInv

(* Every step of the account keeps it. *)
LEMMA DeskInvStep ==
  ASSUME Assumed, DeskInv, [DeskNext]_deskVars
  PROVE  DeskInv'
BY DeskTypeStep, RowsDistinctStep, MemoryIsFiledStep, FileFollowedStep DEF DeskInv

(* Whoever has the invariant has the two promises of the account. *)
LEMMA DeskPromises ==
  ASSUME DeskInv
  PROVE  AnsweredIsKept /\ FileReplays
<1>1. AnsweredIsKept
  BY DEF DeskInv, MemoryIsFiled, AnsweredIsKept, Ids
<1>2. FileReplays
  BY DEF DeskInv, FileFollowed, FileReplays, Sound
<1> QED
  BY <1>1, <1>2

(* Every reachable state of the account has types, rows with ids of their     *)
(* own, memory that follows the file, and a file that follows the checks made *)
(* at each confirmation.                                                      *)
THEOREM DeskAlways == ASSUME Assumed PROVE DeskSpec => []DeskInv
<1>1. DeskInit => DeskInv
  BY DeskBegins
<1>2. DeskInv /\ [DeskNext]_deskVars => DeskInv'
  BY DeskInvStep
<1> QED
  BY <1>1, <1>2, PTL DEF DeskSpec

(* AnsweredIsKept: a fill whose confirmation was answered is in the file for  *)
(* good, through failed writes, torn lines and ends of the process, and in    *)
(* the ledger of every process that runs.                                     *)
THEOREM AnsweredStays == ASSUME Assumed PROVE DeskSpec => []AnsweredIsKept
<1>1. DeskInv => AnsweredIsKept
  BY DeskPromises
<1> QED
  BY <1>1, DeskAlways, PTL

(* FileReplays: however previews and confirmations interleave, a file that    *)
(* can be read and has no row written in vain can be replayed under the cash  *)
(* in force, so that no later start is refused, and memory has what it has.   *)
THEOREM FileAlwaysReplays == ASSUME Assumed PROVE DeskSpec => []FileReplays
<1>1. DeskInv => FileReplays
  BY DeskPromises
<1> QED
  BY <1>1, DeskAlways, PTL
------------------------------------------------------------------------------
(* What is counted of a finite set of fills. *)
LEMMA CountsOrdered ==
  ASSUME NEW fills, IsFiniteSet(fills), NEW part \in SUBSET fills, NEW side
  PROVE  /\ Count(part, side) \in Nat /\ Count(fills, side) \in Nat
         /\ Count(part, side) <= Count(fills, side)
<1> DEFINE few == {e \in part : e.side = side}
           all == {e \in fills : e.side = side}
<1>1. few \in SUBSET all /\ all \in SUBSET fills
  OBVIOUS
<1>2. IsFiniteSet(all) /\ IsFiniteSet(few)
  BY <1>1, FS_Subset
<1>3. Cardinality(few) \in Nat /\ Cardinality(all) \in Nat
  BY <1>2, FS_CardinalityType
<1>4. Cardinality(few) <= Cardinality(all)
  BY <1>1, <1>2, FS_Subset
<1> QED
  BY <1>3, <1>4 DEF Count

(* If what some of the fills bought of a symbol exceeds what was sold of it,  *)
(* the symbol is held.                                                        *)
LEMMA BoughtIsHeld ==
  ASSUME NEW fills, IsFiniteSet(fills), NEW ids, NEW s,
         Count({e \in Of(fills, s) : e.id \in ids}, "buy") > Count(Of(fills, s), "sell")
  PROVE  Total(fills, s) > 0
<1> DEFINE mine == Of(fills, s)
           part == {e \in mine : e.id \in ids}
<1>1. IsFiniteSet(mine)
  <2>1. mine \in SUBSET fills
    BY DEF Of
  <2> QED
    BY <2>1, FS_Subset
<1>2. part \in SUBSET mine
  OBVIOUS
<1>3. Total(fills, s) = Count(mine, "buy") - Count(mine, "sell")
  BY DEF Total
<1>6. Count(part, "buy") > Count(mine, "sell")
  OBVIOUS
<1> HIDE DEF part, mine
<1>4. Count(part, "buy") \in Nat /\ Count(mine, "buy") \in Nat /\ Count(part, "buy") <= Count(mine, "buy")
  BY <1>1, <1>2, CountsOrdered
<1>5. Count(mine, "sell") \in Nat
  BY <1>1, CountsOrdered
<1> QED
  BY <1>3, <1>4, <1>5, <1>6

(* A row that is remembered before its confirmation is answered adds nothing  *)
(* to what answered confirmations hold.                                       *)
LEMMA RememberedNotAnswered ==
  ASSUME Assumed, DeskTypeOK, MemoryIsFiled, books # None, NEW e \in Lots,
         books' = Recorded(books, e), positions' = positions, acked' = acked
  PROVE  AnsweredHoldings' \subseteq AnsweredHoldings
<1>1. CASE Has(books, e)
  BY <1>1 DEF Recorded, AnsweredHoldings, Bought
<1>2. CASE ~ Has(books, e)
  <2>1. books' = books \cup {e} /\ e.id \notin acked
    BY <1>2 DEF Recorded, Has, MemoryIsFiled, Ids
  <2>2. SUFFICES ASSUME NEW s \in Symbols, Bought(s)' > Count(Of(books', s), "sell")
                 PROVE  Bought(s) > Count(Of(books, s), "sell")
    BY DEF AnsweredHoldings
  <2> DEFINE mine == Of(books, s)
             more == Of(books', s)
             part == {f \in mine : f.id \in acked}
  <2>3. {f \in more : f.id \in acked} = part
    BY <2>1 DEF Of
  <2>4. Bought(s)' = Count(part, "buy") /\ Bought(s) = Count(part, "buy")
    BY <2>3 DEF Bought
  <2>5. mine \in SUBSET more /\ IsFiniteSet(more) /\ IsFiniteSet(mine)
    <3>1. IsFiniteSet(books')
      BY <2>1, FS_AddElement DEF DeskTypeOK
    <3>2. mine \in SUBSET more /\ more \in SUBSET books' /\ mine \in SUBSET books'
      BY <2>1 DEF Of
    <3> QED
      BY <3>1, <3>2, FS_Subset
  <2>6. part \in SUBSET mine
    OBVIOUS
  <2> HIDE DEF mine, more, part
  <2>7. Count(mine, "sell") \in Nat /\ Count(more, "sell") \in Nat /\ Count(mine, "sell") <= Count(more, "sell")
    BY <2>5, CountsOrdered
  <2>8. Count(part, "buy") \in Nat
    BY <2>5, <2>6, CountsOrdered
  <2>9. Count(part, "buy") > Count(more, "sell")
    BY <2>2, <2>4 DEF more
  <2>10. Count(part, "buy") > Count(mine, "sell")
    BY <2>7, <2>8, <2>9
  <2> QED
    BY <2>4, <2>10 DEF mine
<1> QED
  BY <1>1, <1>2

(* What answered confirmations hold is told, about to be, or to be told.      *)
LEMMA HoldingsToldStep ==
  ASSUME Assumed, DeskInv, HoldingsTold, [DeskNext]_deskVars
  PROVE  HoldingsTold'
<1> USE DEF file, memory, world, notice
<1>0. DeskTypeOK /\ RowsDistinct /\ MemoryIsFiled
  BY DEF DeskInv
<1>1. ASSUME NEW requested \in Requests, Start(requested)
      PROVE  HoldingsTold'
  <2>3. books' # None /\ books' = Range(Rows) /\ monitored' = Held(Range(Rows)) /\ taken' = {} /\ positions' = positions
    BY <1>0, <1>1, RowsAreLots DEF Start, DeskTypeOK, Assumed
  <2>4. AnsweredHoldings' \subseteq Held(Range(Rows))'
    <3>1. IsFiniteSet(Range(Rows)) /\ Rows' = Rows
      BY <1>0, <1>1, RowsAreLots DEF Start, Rows
    <3>2. \A s \in Symbols : Bought(s)' > Count(Of(books', s), "sell") => Total(Range(Rows), s) > 0
      BY <2>3, <3>1, BoughtIsHeld DEF Bought
    <3> QED
      BY <2>3, <3>1, <3>2 DEF AnsweredHoldings, Held
  <2>5. Rows' = Rows /\ Held(Range(Rows))' = Held(Range(Rows))
    BY <1>1, <2>3 DEF Start, Rows, Held
  <2> QED
    BY <2>3, <2>4, <2>5 DEF HoldingsTold
<1>2. ASSUME Remember
      PROVE  HoldingsTold'
  <2>1. /\ books # None /\ Row \in Lots /\ books' = Recorded(books, Row)
        /\ UNCHANGED <<positions, taken, sync, monitored>>
    BY <1>0, <1>2, RowIsLot DEF Remember, DeskTypeOK
  <2>2. CASE confirm.n < Len(confirm.rows)
    <3>1. acked' = acked /\ telling' = telling
      BY <1>2, <2>2 DEF Remember
    <3>2. AnsweredHoldings' \subseteq AnsweredHoldings
      BY <1>0, <2>1, <3>1, RememberedNotAnswered
    <3> QED
      BY <2>1, <3>1, <3>2 DEF HoldingsTold
  <2>3. CASE ~ (confirm.n < Len(confirm.rows))
    <3>1. telling' = telling + 1 /\ telling' > 0
      BY <1>0, <1>2, <2>3 DEF Remember, DeskTypeOK
    <3> QED
      BY <2>1, <3>1 DEF HoldingsTold
  <2> QED
    BY <2>2, <2>3
<1>3. ASSUME NEW t \in tokens, ConfirmPositions(t)
      PROVE  HoldingsTold'
  <2>1. telling' > 0 /\ taken' = taken
    BY <1>0, <1>3 DEF ConfirmPositions, DeskTypeOK
  <2> QED
    BY <2>1 DEF HoldingsTold
<1>4. ASSUME Tell
      PROVE  HoldingsTold'
  <2>1. taken' = {Held(books)} /\ UNCHANGED <<books, positions, acked>> /\ books # None
    BY <1>4 DEF Tell, MayTell, Free
  <2>2. AnsweredHoldings' = AnsweredHoldings
    BY <2>1 DEF AnsweredHoldings, Bought
  <2>3. AnsweredHoldings \subseteq Held(books)
    BY <1>0, <2>1, BoughtIsHeld DEF AnsweredHoldings, Bought, Held, DeskTypeOK
  <2> QED
    BY <2>1, <2>2, <2>3 DEF HoldingsTold
<1>5. ASSUME NEW symbols \in taken, Told(symbols)
      PROVE  HoldingsTold'
  <2>1. taken = {symbols} /\ taken' = {}
    BY <1>5 DEF Told, HoldingsTold
  <2>2. UNCHANGED <<books, positions, acked, telling>> /\ (monitored' = symbols \/ sync' = "UPDATE_FAILED")
    BY <1>5 DEF Told
  <2>3. AnsweredHoldings' = AnsweredHoldings
    BY <2>2 DEF AnsweredHoldings, Bought
  <2> QED
    BY <2>1, <2>2, <2>3 DEF HoldingsTold
<1>6. ASSUME Crash
      PROVE  HoldingsTold'
  BY <1>6 DEF Crash, HoldingsTold
<1>7. ASSUME \/ \E s \in Symbols : PreviewBuy(s)
             \/ PreviewFile
             \/ \E t \in tokens : Refuse(t) \/ Confirm(t) \/ CashFails(t)
             \/ Append1 \/ AppendFails
             \/ \E f \in DOMAIN Files : Export(f)
             \/ NextDay \/ UNCHANGED deskVars
      PROVE  HoldingsTold'
  <2>1. UNCHANGED <<books, acked, positions, telling, taken, sync, monitored>>
    BY <1>7 DEF PreviewBuy, PreviewFile, Refuse, Confirm, CashFails, Append1, AppendFails, Export,
                NextDay, deskVars
  <2>2. AnsweredHoldings' = AnsweredHoldings
    BY <2>1 DEF AnsweredHoldings, Bought
  <2> QED
    BY <2>1, <2>2 DEF HoldingsTold
<1> QED
  BY <1>1, <1>2, <1>3, <1>4, <1>5, <1>6, <1>7 DEF DeskNext
------------------------------------------------------------------------------
(* Of the risk thread, a step leaves the account alone. *)
LEMMA RiskStepKinds ==
  ASSUME Risk!Request \/ Risk!RiskWork, UNCHANGED accountVars
  PROVE  UNCHANGED deskVars
<1>1. UNCHANGED <<monitored, mishaps>>
  BY DEF Risk!Request, Risk!RiskWork, Risk!Ask, Risk!Learn, Risk!Miss, Risk!Publish, Risk!Wake
<1> QED
  BY <1>1 DEF accountVars, deskVars, notice

(* Watched or not, the account takes its own steps. *)
LEMMA WatchIsDesk ==
  ASSUME [WatchNext]_watchVars
  PROVE  [DeskNext]_deskVars
<1>1. CASE \E requested \in Requests : Open(requested)
  BY <1>1 DEF Open, DeskNext
<1>2. CASE \E symbols \in taken : Handed(symbols)
  BY <1>2 DEF Handed, DeskNext
<1>3. CASE AtTheDesk \/ Crash
  BY <1>3 DEF AtTheDesk, DeskNext
<1>4. CASE (Risk!Request \/ Risk!RiskWork) /\ UNCHANGED accountVars
  BY <1>4, RiskStepKinds
<1>5. CASE UNCHANGED watchVars
  BY <1>5 DEF watchVars
<1> QED
  BY <1>1, <1>2, <1>3, <1>4, <1>5 DEF WatchNext

(* What the account does not tell the service leaves what is monitored.       *)
LEMMA DeskLeavesMonitored ==
  ASSUME DeskTypeOK, AtTheDesk
  PROVE  monitored' = monitored /\ (books' # None => books # None)
<1> USE DEF file, memory, world, notice
<1>1. CASE (\E s \in Symbols : PreviewBuy(s)) \/ PreviewFile
  BY <1>1 DEF PreviewBuy, PreviewFile
<1>2. CASE \E t \in tokens : Refuse(t) \/ Confirm(t) \/ CashFails(t) \/ ConfirmPositions(t)
  BY <1>2 DEF Refuse, Confirm, CashFails, ConfirmPositions
<1>3. CASE Append1 \/ AppendFails \/ Tell \/ (\E f \in DOMAIN Files : Export(f)) \/ NextDay
  BY <1>3 DEF Append1, AppendFails, Tell, Export, NextDay
<1>4. CASE Remember
  BY <1>4 DEF Remember, DeskTypeOK
<1> QED
  BY <1>1, <1>2, <1>3, <1>4 DEF AtTheDesk

(* _retain_adverse_evidence: nothing that was asked for is left out.          *)
LEMMA RetainedCovers ==
  ASSUME NEW old, NEW new
  PROVE  DOMAIN new \subseteq DOMAIN Risk!Retained(old, new)
BY DEF Risk!Retained

(* The thread asked for what is monitored, or is or will be woken; and what   *)
(* it publishes covers what it asked for.                                     *)
LEMMA ThreadStep ==
  ASSUME DeskTypeOK, DeskTypeOK', ThreadTypeOK, ThreadFollows, [WatchNext]_watchVars
  PROVE  ThreadTypeOK' /\ ThreadFollows'
<1> USE DEF threadVars
<1>1. ASSUME NEW requested \in Requests, Open(requested)
      PROVE  ThreadTypeOK' /\ ThreadFollows'
  <2>1. /\ thread' = [pc |-> "ask", asked |-> {}, result |-> None] /\ owed' = 0
    BY <1>1 DEF Open, Risk!Begin, Risk!Started
  <2> QED
    BY <2>1 DEF ThreadTypeOK, ThreadFollows
<1>2. ASSUME NEW symbols \in taken, Handed(symbols)
      PROVE  ThreadTypeOK' /\ ThreadFollows'
  <2>1. /\ UNCHANGED <<wake, thread, kept, shown, books>>
        /\ owed' = IF monitored' # monitored THEN owed + 1 ELSE owed
    BY <1>2 DEF Handed, Told, memory
  <2> QED
    BY <2>1 DEF ThreadTypeOK, ThreadFollows
<1>3. ASSUME AtTheDesk, UNCHANGED threadVars
      PROVE  ThreadTypeOK' /\ ThreadFollows'
  BY <1>3, DeskLeavesMonitored DEF ThreadTypeOK, ThreadFollows
<1>4. ASSUME Crash, UNCHANGED threadVars
      PROVE  ThreadTypeOK' /\ ThreadFollows'
  BY <1>4 DEF Crash, ThreadTypeOK, ThreadFollows
<1>5. ASSUME books # None, Risk!Request \/ Risk!RiskWork, UNCHANGED accountVars
      PROVE  ThreadTypeOK' /\ ThreadFollows'
  <2>0. books' = books
    BY <1>5 DEF accountVars, memory
  <2>1. CASE Risk!Request
    BY <2>0, <2>1 DEF Risk!Request, ThreadTypeOK, ThreadFollows
  <2>2. CASE Risk!Ask
    <3>1. /\ thread.pc = "ask" /\ UNCHANGED <<monitored, owed, wake, kept, shown>>
          /\ monitored \in SUBSET Symbols
      BY <2>2 DEF Risk!Ask, DeskTypeOK
    <3>2. PICK next \in {"wait", "fetch"} : thread' = [thread EXCEPT !.pc = next, !.asked = monitored]
      BY <2>2 DEF Risk!Ask
    <3>3. /\ thread'.pc = next /\ thread'.asked = monitored /\ (next = "wait" => monitored = {})
          /\ ThreadTypeOK'
      BY <2>2, <3>1, <3>2 DEF ThreadTypeOK, Risk!Ask
    <3> QED
      BY <3>1, <3>3 DEF ThreadFollows
  <2>3. ASSUME NEW companies \in SUBSET Symbols, NEW refused \in SUBSET Symbols,
               Risk!Learn(companies, refused)
        PROVE  ThreadTypeOK' /\ ThreadFollows'
    <3>1. /\ thread.pc = "fetch" /\ UNCHANGED <<monitored, owed, wake, shown>>
          /\ kept' = Risk!Retained(kept, Risk!Fetched(Risk!Answered(companies, refused)))
      BY <2>3 DEF Risk!Learn
    <3>2. PICK got \in {"FRESH", "PARTIAL"} : thread' = [thread EXCEPT !.pc = "publish", !.result = got]
      BY <2>3 DEF Risk!Learn
    <3>3. DOMAIN Risk!Fetched(Risk!Answered(companies, refused)) = thread.asked
      BY DEF Risk!Fetched
    <3>4. thread.asked \subseteq DOMAIN kept'
      BY <3>1, <3>3, RetainedCovers
    <3>5. ThreadTypeOK' /\ thread'.pc = "publish" /\ thread'.asked = thread.asked
      BY <3>1, <3>2 DEF ThreadTypeOK
    <3> QED
      BY <1>5, <2>0, <3>1, <3>4, <3>5 DEF ThreadFollows
  <2>4. CASE Risk!Miss
    <3>1. /\ thread.pc = "fetch" /\ UNCHANGED <<monitored, owed, wake, kept, shown>>
          /\ thread' = [thread EXCEPT !.pc = "publish", !.result = "UPDATE_FAILED"]
      BY <2>4 DEF Risk!Miss
    <3>2. /\ ThreadTypeOK' /\ thread'.pc = "publish" /\ thread'.asked = thread.asked
          /\ thread'.result = "UPDATE_FAILED"
      BY <3>1 DEF ThreadTypeOK
    <3> QED
      BY <1>5, <2>0, <3>1, <3>2 DEF ThreadFollows
  <2>5. CASE Risk!Publish
    <3>1. /\ thread.pc = "publish" /\ UNCHANGED <<monitored, owed, wake, kept>>
          /\ shown' = [levels |-> kept, status |-> thread.result]
          /\ thread' = [thread EXCEPT !.pc = "wait"]
      BY <2>5 DEF Risk!Publish
    <3>2. ThreadTypeOK' /\ thread'.pc = "wait" /\ thread'.asked = thread.asked
      BY <3>1 DEF ThreadTypeOK
    <3>3. shown'.levels = kept /\ shown'.status = thread.result
      BY <3>1
    <3> QED
      BY <1>5, <2>0, <3>1, <3>2, <3>3 DEF ThreadFollows
  <2>6. CASE Risk!Wake
    <3>1. UNCHANGED owed /\ thread' = [thread EXCEPT !.pc = "ask"]
      BY <2>6 DEF Risk!Wake
    <3>2. ThreadTypeOK' /\ thread'.pc = "ask"
      BY <3>1 DEF ThreadTypeOK
    <3> QED
      BY <3>2 DEF ThreadFollows
  <2> QED
    BY <1>5, <2>1, <2>2, <2>3, <2>4, <2>5, <2>6 DEF Risk!RiskWork
<1>6. CASE UNCHANGED watchVars
  BY <1>6 DEF watchVars, deskVars, memory, notice, ThreadTypeOK, ThreadFollows
<1> QED
  BY <1>1, <1>2, <1>3, <1>4, <1>5, <1>6 DEF WatchNext

(* Everything the proofs say of the account and the risk of what it holds.    *)
WatchInv == DeskInv /\ HoldingsTold /\ ThreadTypeOK /\ ThreadFollows

(* It holds at the beginning. *)
LEMMA WatchBegins ==
  ASSUME Assumed, WatchInit
  PROVE  WatchInv
<1>1. DeskInv
  BY DeskBegins DEF WatchInit
<1>2. HoldingsTold
  BY DEF WatchInit, DeskInit, HoldingsTold
<1>3. ThreadTypeOK /\ ThreadFollows
  BY DEF WatchInit, DeskInit, Risk!RiskInit, Risk!Started, ThreadTypeOK, ThreadFollows
<1> QED
  BY <1>1, <1>2, <1>3 DEF WatchInv

(* Every step of the account or the risk thread keeps it. *)
LEMMA WatchInvStep ==
  ASSUME Assumed, WatchInv, [WatchNext]_watchVars
  PROVE  WatchInv'
<1>1. DeskInv' /\ HoldingsTold'
  BY WatchIsDesk, DeskInvStep, HoldingsToldStep DEF WatchInv
<1>2. DeskTypeOK /\ DeskTypeOK'
  BY <1>1 DEF WatchInv, DeskInv
<1>3. ThreadTypeOK' /\ ThreadFollows'
  BY <1>2, ThreadStep DEF WatchInv
<1> QED
  BY <1>1, <1>3 DEF WatchInv

(* Where it holds, what answered confirmations hold is assessed. *)
LEMMA WatchPromises ==
  ASSUME WatchInv
  PROVE  HoldingsAssessed
<1> SUFFICES ASSUME Free, telling = 0, taken = {}, sync # "UPDATE_FAILED", Asleep
             PROVE  /\ AnsweredHoldings \subseteq thread.asked
                    /\ shown.status # "UPDATE_FAILED" => AnsweredHoldings \subseteq DOMAIN shown.levels
  BY DEF HoldingsAssessed
<1>1. AnsweredHoldings \subseteq monitored
  BY DEF WatchInv, HoldingsTold, Free
<1>2. thread.asked = monitored /\ thread.pc = "wait"
  BY DEF WatchInv, ThreadFollows, Free, Asleep
<1>3. thread.asked # {} /\ shown.status # "UPDATE_FAILED" => thread.asked \subseteq DOMAIN shown.levels
  BY <1>2 DEF WatchInv, ThreadFollows, Free
<1> QED
  BY <1>1, <1>2, <1>3

(* Every reachable state of the watched account: what answered confirmations  *)
(* hold is monitored, or somebody is on the way to tell, and the risk thread  *)
(* follows what is monitored.                                                 *)
THEOREM WatchAlways == ASSUME Assumed PROVE WatchSpec => []WatchInv
<1>1. WatchInit => WatchInv
  BY WatchBegins
<1>2. WatchInv /\ [WatchNext]_watchVars => WatchInv'
  BY WatchInvStep
<1> QED
  BY <1>1, <1>2, PTL DEF WatchSpec

(* HoldingsAssessed: for any symbols, exports and bounds, whatever answered   *)
(* confirmations hold was asked for by the risk thread and is in what it      *)
(* published, once nobody waits for a notification and the thread sleeps, and *)
(* unless a notification or the check was reported as failed.                 *)
THEOREM HoldingsAreAssessed == ASSUME Assumed PROVE WatchSpec => []HoldingsAssessed
<1>1. WatchInv => HoldingsAssessed
  BY WatchPromises
<1> QED
  BY <1>1, WatchAlways, PTL
==============================================================================
