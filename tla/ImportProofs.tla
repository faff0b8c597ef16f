---------------------------- MODULE ImportProofs -----------------------------
(* The inbox of broker exports for any file names, sheets and bounds: what is *)
(* recorded or shown under the digest of an export is what it said.           *)
(*                                                                            *)
(* A preview hashes a file and reads it a second time.  If the two differed,  *)
(* the file has moved on from the content that was hashed; a confirmation     *)
(* passes only if it has that content again, and then it has returned to an   *)
(* earlier content.  The invariant keeps this of every preview.               *)
EXTENDS ImportInbox, TLAPS

(* Whatever was seen of a file is among what it had. *)
Had(e) == e.name \in Names /\ e.content \in past[e.name]
SeenWasThere ==
    /\ DOMAIN past = Names
    /\ \A n \in DOMAIN folder : n \in Names /\ folder[n].content \in past[n]
    /\ \A e \in entries : Had(e)
    /\ reading # None => Had(reading)
    /\ \A t \in tokens : Had(t.entry)

(* A preview whose file has the content it was hashed with has read it, as    *)
(* long as no file returned to an earlier content.                            *)
Current(e) == e.name \in DOMAIN folder /\ folder[e.name].content = e.content
PreviewsHonest == ~ returned => \A t \in tokens : Current(t.entry) => t.read = t.entry.content

(* Previews are of days up to now.                                            *)
DaysKnown == day \in Nat \ {0} /\ \A t \in tokens : t.on \in 1 .. day

(* What is recorded and shown says what its source said.                      *)
LedgerOne == \A f, g \in ledger : f.id = g.id => f = g
FromSource(f, to) == \E d \in 1 .. to : f \in Fills(f.id[1], f.id[1], d)
LedgerSourced == ~ returned => \A f \in ledger : FromSource(f, day)
Positioned(s, to) ==
    s \notin {None, Damaged} => IsPositions(s.source) /\ \E d \in 1 .. to : s = Saved(s.source, s.source, d)
PositionsSourced == ~ returned => Positioned(snapshot, day) /\ Positioned(view, day)

InboxInv == /\ SeenWasThere /\ PreviewsHonest /\ DaysKnown
            /\ LedgerOne /\ LedgerSourced /\ PositionsSourced
------------------------------------------------------------------------------
(* A file that had a content and has another one now, or is gone, has it      *)
(* again only by returning to it.                                             *)
LEMMA NotAgain ==
  ASSUME SeenWasThere, [InboxNext]_inboxVars, NEW e, Had(e), ~ Current(e), ~ returned'
  PROVE  ~ Current(e)'
<1> USE DEF outside, memory, store
<1>1. ASSUME NEW n \in Names, NEW c \in Exported, Write(n, c)
      PROVE  ~ Current(e)'
  <2>1. c \notin past[n]
    BY <1>1 DEF Write
  <2>2. folder' = [m \in DOMAIN folder \cup {n} |->
                     IF m = n THEN [content |-> c, at |-> writes'] ELSE folder[m]]
    BY <1>1 DEF Write
  <2>3. CASE e.name = n
    <3>1. folder'[e.name].content = c
      BY <2>2, <2>3
    <3> QED
      BY <2>1, <2>3, <3>1 DEF Had, Current
  <2>4. CASE e.name # n
    <3>1. e.name \in DOMAIN folder' => e.name \in DOMAIN folder /\ folder'[e.name] = folder[e.name]
      BY <2>2, <2>4
    <3> QED
      BY <3>1 DEF Current
  <2> QED
    BY <2>3, <2>4
<1>2. ASSUME NEW n \in Names, Remove(n)
      PROVE  ~ Current(e)'
  <2>1. folder' = [m \in DOMAIN folder \ {n} |-> folder[m]]
    BY <1>2 DEF Remove
  <2>2. e.name \in DOMAIN folder' => e.name \in DOMAIN folder /\ folder'[e.name] = folder[e.name]
    BY <2>1
  <2> QED
    BY <2>2 DEF Current
<1>3. CASE UNCHANGED folder
  BY <1>3 DEF Current
<1>4. CASE Scan \/ Read \/ Look \/ Restart \/ Spoil \/ NextDay \/ UNCHANGED inboxVars
  BY <1>3, <1>4 DEF Scan, Read, Look, Restart, Spoil, NextDay, inboxVars
<1>5. CASE (\E x \in entries : Check(x)) \/ \E t \in tokens : Confirm(t)
  BY <1>3, <1>5 DEF Check, Confirm
<1> QED
  BY <1>1, <1>2, <1>4, <1>5 DEF InboxNext

(* What files had is not forgotten, and a return neither. *)
LEMMA PastGrows ==
  ASSUME SeenWasThere, [InboxNext]_inboxVars
  PROVE  /\ DOMAIN past' = Names
         /\ \A n \in Names : past[n] \subseteq past'[n]
         /\ \A n \in DOMAIN folder' : n \in Names /\ folder'[n].content \in past'[n]
         /\ returned => returned'
<1> USE DEF outside, memory, store
<1>1. ASSUME NEW n \in Names, NEW c \in Exported, Write(n, c)
      PROVE  /\ DOMAIN past' = Names
             /\ \A m \in Names : past[m] \subseteq past'[m]
             /\ \A m \in DOMAIN folder' : m \in Names /\ folder'[m].content \in past'[m]
             /\ returned => returned'
  <2>1. past' = [past EXCEPT ![n] = @ \cup {c}] /\ (returned => returned')
    BY <1>1 DEF Write
  <2>2. folder' = [m \in DOMAIN folder \cup {n} |->
                     IF m = n THEN [content |-> c, at |-> writes'] ELSE folder[m]]
    BY <1>1 DEF Write
  <2>3. /\ DOMAIN past' = Names /\ c \in past'[n]
        /\ \A m \in Names : past[m] \subseteq past'[m]
    BY <2>1 DEF SeenWasThere
  <2>4. /\ DOMAIN folder' = DOMAIN folder \cup {n} /\ folder'[n].content = c
        /\ \A m \in DOMAIN folder : m # n => folder'[m] = folder[m]
    BY <2>2
  <2> QED
    BY <2>1, <2>3, <2>4 DEF SeenWasThere
<1>2. ASSUME NEW n \in Names, Remove(n)
      PROVE  /\ DOMAIN past' = Names
             /\ \A m \in Names : past[m] \subseteq past'[m]
             /\ \A m \in DOMAIN folder' : m \in Names /\ folder'[m].content \in past'[m]
             /\ returned => returned'
  BY <1>2 DEF Remove, SeenWasThere
<1>3. CASE UNCHANGED <<folder, past, returned>>
  BY <1>3 DEF SeenWasThere
<1>4. CASE Scan \/ Read \/ Look \/ Restart \/ Spoil \/ NextDay \/ UNCHANGED inboxVars
  BY <1>3, <1>4 DEF Scan, Read, Look, Restart, Spoil, NextDay, inboxVars
<1>5. CASE (\E x \in entries : Check(x)) \/ \E t \in tokens : Confirm(t)
  BY <1>3, <1>5 DEF Check, Confirm
<1> QED
  BY <1>1, <1>2, <1>4, <1>5 DEF InboxNext

(* What was seen stays seen. *)
LEMMA StillHad ==
  ASSUME SeenWasThere, [InboxNext]_inboxVars, NEW e, Had(e)
  PROVE  Had(e)'
BY PastGrows DEF Had

(* Of a preview: what it saw was there, what it read is honest, and its day.  *)
LEMMA PreviewSteps ==
  ASSUME InboxInv, [InboxNext]_inboxVars
  PROVE  SeenWasThere' /\ PreviewsHonest' /\ DaysKnown'
<1> USE DEF outside, memory, store
<1>0. SeenWasThere /\ PreviewsHonest /\ DaysKnown
  BY DEF InboxInv
<1>1. /\ DOMAIN past' = Names
      /\ \A n \in DOMAIN folder' : n \in Names /\ folder'[n].content \in past'[n]
      /\ returned => returned'
  BY <1>0, PastGrows
<1>2. \A e : Had(e) => Had(e)'
  BY <1>0, StillHad
<1>3. ~ returned' => \A e : Had(e) /\ ~ Current(e) => ~ Current(e)'
  BY <1>0, NotAgain
<1>4. ASSUME tokens' \subseteq tokens, entries' \subseteq entries, reading' \in {None, reading},
             day' \in Nat, day <= day'
      PROVE  SeenWasThere' /\ PreviewsHonest' /\ DaysKnown'
  <2>1. SeenWasThere'
    BY <1>0, <1>1, <1>2, <1>4 DEF SeenWasThere
  <2>2. PreviewsHonest'
    BY <1>0, <1>1, <1>3, <1>4 DEF PreviewsHonest, SeenWasThere
  <2>3. DaysKnown'
    BY <1>0, <1>4 DEF DaysKnown
  <2> QED
    BY <2>1, <2>2, <2>3
<1>5. ASSUME NEW n \in Names, Remove(n) \/ \E c \in Exported : Write(n, c)
      PROVE  SeenWasThere' /\ PreviewsHonest' /\ DaysKnown'
  BY <1>0, <1>4, <1>5 DEF Remove, Write, DaysKnown
<1>6. ASSUME Look \/ Restart \/ Spoil \/ NextDay \/ (\E t \in tokens : Confirm(t)) \/ UNCHANGED inboxVars
      PROVE  SeenWasThere' /\ PreviewsHonest' /\ DaysKnown'
  BY <1>0, <1>4, <1>6 DEF Look, Restart, Spoil, NextDay, Confirm, inboxVars, DaysKnown
<1>7. ASSUME Scan
      PROVE  SeenWasThere' /\ PreviewsHonest' /\ DaysKnown'
  <2>1. /\ entries' = {Entry(n) : n \in DOMAIN folder}
        /\ UNCHANGED <<folder, past, returned, day, reading, tokens>>
    BY <1>7 DEF Scan
  <2>2. \A n \in DOMAIN folder : Had(Entry(n))
    BY <1>0 DEF SeenWasThere, Had, Entry
  <2>3. \A e \in entries' : Had(e)'
    BY <1>2, <2>1, <2>2
  <2>4. SeenWasThere'
    BY <1>0, <1>1, <1>2, <2>1, <2>3 DEF SeenWasThere
  <2> QED
    BY <1>0, <2>1, <2>4 DEF PreviewsHonest, DaysKnown, Current
<1>8. ASSUME NEW e \in entries, Check(e)
      PROVE  SeenWasThere' /\ PreviewsHonest' /\ DaysKnown'
  <2>1. reading' = e /\ UNCHANGED <<folder, past, returned, day, entries, tokens>>
    BY <1>8 DEF Check
  <2> QED
    BY <1>0, <2>1 DEF SeenWasThere, Had, PreviewsHonest, DaysKnown, Current
<1>9. ASSUME Read
      PROVE  SeenWasThere' /\ PreviewsHonest' /\ DaysKnown'
  <2> DEFINE t == [entry |-> reading, read |-> folder[reading.name].content, on |-> day]
  <2>1. /\ reading # None /\ reading' = None /\ UNCHANGED <<folder, past, returned, day, entries>>
        /\ tokens' \subseteq tokens \cup {t}
    BY <1>9 DEF Read
  <2>2. Had(t.entry) /\ (Current(t.entry) => t.read = t.entry.content) /\ t.on \in 1 .. day
    BY <1>0, <2>1 DEF SeenWasThere, Current, DaysKnown
  <2> HIDE DEF t
  <2> QED
    BY <1>0, <2>1, <2>2 DEF SeenWasThere, Had, PreviewsHonest, DaysKnown, Current
<1> QED
  BY <1>5, <1>6, <1>7, <1>8, <1>9 DEF InboxNext

(* The fills of a preview have ids of their own, named for the digest.        *)
LEMMA FillsNamed ==
  ASSUME NEW digest, NEW c, NEW today, NEW f \in Fills(digest, c, today)
  PROVE  /\ f.id[1] = digest
         /\ \A g \in Fills(digest, c, today) : f.id = g.id => f = g
BY DEF Fills

(* What a confirmation records and shows says what its source said.           *)
LEMMA RecordsSteps ==
  ASSUME InboxInv, [InboxNext]_inboxVars
  PROVE  LedgerOne' /\ LedgerSourced' /\ PositionsSourced'
<1> USE DEF outside, memory, store
<1>0. LedgerOne /\ LedgerSourced /\ PositionsSourced /\ DaysKnown /\ (returned => returned')
  BY PastGrows DEF InboxInv
<1>1. ASSUME day' \in Nat, day <= day'
      PROVE  /\ \A f : FromSource(f, day) => FromSource(f, day')
             /\ \A s : Positioned(s, day) => Positioned(s, day')
  <2>1. \A d \in 1 .. day : d \in 1 .. day'
    BY <1>0, <1>1 DEF DaysKnown
  <2> QED
    BY <2>1 DEF FromSource, Positioned
<1>2. ASSUME UNCHANGED ledger, day' \in Nat, day <= day', snapshot' \in {snapshot, Damaged},
             view' \in {view, snapshot, None}
      PROVE  LedgerOne' /\ LedgerSourced' /\ PositionsSourced'
  <2>1. LedgerOne'
    BY <1>0, <1>2 DEF LedgerOne
  <2>2. LedgerSourced'
    BY <1>0, <1>1, <1>2 DEF LedgerSourced
  <2>3. Positioned(Damaged, day') /\ Positioned(None, day')
    BY DEF Positioned
  <2>4. PositionsSourced'
    BY <1>0, <1>1, <1>2, <2>3 DEF PositionsSourced
  <2> QED
    BY <2>1, <2>2, <2>4
<1>3. ASSUME \/ \E n \in Names : Remove(n) \/ \E c \in Exported : Write(n, c)
             \/ Scan \/ Read \/ Look \/ Restart \/ Spoil \/ NextDay
             \/ \E e \in entries : Check(e)
             \/ UNCHANGED inboxVars
      PROVE  LedgerOne' /\ LedgerSourced' /\ PositionsSourced'
  <2>1. /\ UNCHANGED ledger /\ day' \in Nat /\ day <= day'
        /\ snapshot' \in {snapshot, Damaged} /\ view' \in {view, snapshot, None}
    <3>1. CASE NextDay
      BY <1>0, <3>1 DEF NextDay, DaysKnown
    <3>2. CASE Look \/ Spoil
      BY <1>0, <3>2 DEF Look, Loaded, Spoil, DaysKnown
    <3>3. CASE Scan \/ Read \/ Restart \/ UNCHANGED inboxVars
      BY <1>0, <3>3 DEF Scan, Read, Restart, inboxVars, DaysKnown
    <3>4. CASE \E n \in Names : Remove(n) \/ \E c \in Exported : Write(n, c)
      BY <1>0, <3>4 DEF Remove, Write, DaysKnown
    <3>5. CASE \E e \in entries : Check(e)
      BY <1>0, <3>5 DEF Check, DaysKnown
    <3> QED
      BY <1>3, <3>1, <3>2, <3>3, <3>4, <3>5
  <2> QED
    BY <1>2, <2>1
<1>4. ASSUME NEW t \in tokens, Confirm(t)
      PROVE  LedgerOne' /\ LedgerSourced' /\ PositionsSourced'
  <2>1. day' = day /\ view' = view /\ returned' = returned /\ day \in Nat
    BY <1>0, <1>4 DEF Confirm, DaysKnown
  <2>2. CASE UNCHANGED <<ledger, snapshot>>
    BY <1>2, <2>1, <2>2
  <2>3. CASE /\ Unchanged(t.entry) /\ IsPositions(t.read)
             /\ snapshot' \in Replaced(Saved(t.entry.content, t.read, t.on)) /\ UNCHANGED ledger
    <3>1. snapshot' \in {snapshot, Saved(t.entry.content, t.read, t.on)}
      BY <2>3 DEF Replaced
    <3>2. ~ returned => t.read = t.entry.content
      BY <2>3 DEF InboxInv, PreviewsHonest, Unchanged, Current
    <3>3. Saved(t.entry.content, t.read, t.on).source = t.entry.content
      BY DEF Saved
    <3>4. t.on \in 1 .. day
      BY <1>0 DEF DaysKnown
    <3>5. ~ returned => Positioned(Saved(t.entry.content, t.read, t.on), day)
      BY <2>3, <3>2, <3>3, <3>4 DEF Positioned
    <3>6. PositionsSourced'
      BY <1>0, <2>1, <3>1, <3>5 DEF PositionsSourced
    <3> QED
      BY <1>0, <2>1, <2>3, <3>6 DEF LedgerOne, LedgerSourced
  <2>4. CASE /\ Unchanged(t.entry) /\ ~ Conflict(t) /\ UNCHANGED snapshot
             /\ \E n \in 0 .. Len(Rows(t.read)) : ledger' = ledger \cup {f \in New(t) : f.id[2] <= n}
    <3>1. ledger' \subseteq ledger \cup New(t)
      BY <2>4
    <3>2. \A f, g \in New(t) : f.id = g.id => f = g
      BY FillsNamed DEF New
    <3>3. LedgerOne'
      BY <1>0, <2>4, <3>1, <3>2 DEF LedgerOne, Conflict
    <3>4. ~ returned => t.read = t.entry.content
      BY <2>4 DEF InboxInv, PreviewsHonest, Unchanged, Current
    <3>5. \A f \in New(t) : f.id[1] = t.entry.content
      BY FillsNamed DEF New
    <3>6. t.on \in 1 .. day
      BY <1>0 DEF DaysKnown
    <3>7. ~ returned => \A f \in New(t) : FromSource(f, day)
      BY <3>4, <3>5, <3>6 DEF FromSource, New
    <3>8. LedgerSourced'
      BY <1>0, <2>1, <3>1, <3>7 DEF LedgerSourced
    <3>9. PositionsSourced'
      BY <1>0, <2>1, <2>4 DEF PositionsSourced
    <3> QED
      BY <3>3, <3>8, <3>9
  <2> QED
    BY <1>4, <2>2, <2>3, <2>4 DEF Confirm
<1> QED
  BY <1>3, <1>4 DEF InboxNext

(* It holds at the beginning. *)
LEMMA InboxBegins ==
  ASSUME InboxInit
  PROVE  InboxInv
<1>1. PICK N \in SUBSET Names : folder \in [N -> [content : Exported, at : {0}]]
  BY DEF InboxInit
<1>2. past = [n \in Names |-> IF n \in DOMAIN folder THEN {folder[n].content} ELSE {}]
  BY DEF InboxInit
<1>3. DOMAIN past = Names /\ \A n \in DOMAIN folder : n \in Names /\ folder[n].content \in past[n]
  BY <1>1, <1>2
<1>4. /\ entries = {} /\ reading = None /\ tokens = {} /\ ledger = {} /\ snapshot = None /\ view = None
      /\ day = 1
  BY DEF InboxInit
<1> QED
  BY <1>3, <1>4 DEF InboxInv, SeenWasThere, PreviewsHonest, DaysKnown, LedgerOne, LedgerSourced,
                    PositionsSourced, Positioned

(* Every step of the inbox and of the broker's client keeps it. *)
LEMMA InboxStep ==
  ASSUME InboxInv, [InboxNext]_inboxVars
  PROVE  InboxInv'
BY PreviewSteps, RecordsSteps DEF InboxInv

(* Where it holds, records say what their source said. *)
LEMMA InboxPromises ==
  ASSUME InboxInv
  PROVE  ImportsAreTheirSource
BY DEF InboxInv, LedgerOne, LedgerSourced, FromSource, PositionsSourced, Positioned,
       ImportsAreTheirSource

(* Every reachable state of the inbox: previews are honest unless a file      *)
(* returned to an earlier content, and records say what their source said.    *)
THEOREM InboxAlways == Spec => []InboxInv
<1>1. InboxInit => InboxInv
  BY InboxBegins
<1>2. InboxInv /\ [InboxNext]_inboxVars => InboxInv'
  BY InboxStep
<1> QED
  BY <1>1, <1>2, PTL DEF Spec

(* ImportsAreTheirSource: no fill id has two meanings, and what is recorded   *)
(* or shown under the digest of an export is what it said, although the file  *)
(* may be written between the two reads of a preview and before the           *)
(* confirmation, unless a file returned to an earlier content meanwhile.      *)
THEOREM ImportsSayTheirSource == Spec => []ImportsAreTheirSource
<1>1. InboxInv => ImportsAreTheirSource
  BY InboxPromises
<1> QED
  BY <1>1, InboxAlways, PTL
==============================================================================
