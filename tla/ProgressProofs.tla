--------------------------- MODULE ProgressProofs ----------------------------
(* Proofs about the scenes of MCProgress, for every value of the constants:    *)
(* the rows that the backfill holds of a symbol (BackfillInv), and the requests *)
(* of a task that was cancelled (CancelInv).                                   *)
EXTENDS MCProgress, WellFoundedInduction, TLAPS

------------------------------------------------------------------------------
(* The historical backfill.                                                   *)

Artifacts == [key : Nat, version : SUBSET Nat, digest : SUBSET Nat]
SymbolRecords == [days : SUBSET Nat, gap : BOOLEAN]
Batches == [at : Nat, end : Nat, attempted : Nat, saving : BOOLEAN]

BackfillTypeOK ==
    /\ log \in Seq(Artifacts)
    /\ traded \in [Symbols -> SUBSET (Nat \ {0})]
    /\ today \in Nat \ {0} /\ posted \in BOOLEAN
    /\ checkpoint \in [Symbols -> {None} \union SymbolRecords]
    /\ batch \in {None} \union Batches

(* The rows of the last day can be had once they are posted.                  *)
Available(d) == d < today \/ (d = today /\ posted)

(* Of a symbol every row is held up to some day: hence edges alone are asked  *)
(* for, and before the first row there is none.                               *)
WholeIn(D, T) == \E m \in D : Available(m) /\ D = T \cap (1 .. m)
UpToDay(s) == Backfill!Known(s) => WholeIn(Backfill!Days(s), traded[s])

(* A batch is about days that began, and saves what it published.             *)
BatchFits == batch # None =>
    batch.end <= today /\ (batch.saving => batch.at \in Symbols /\ Backfill!Known(batch.at))

BackfillInv ==
    /\ BackfillTypeOK
    /\ \A s \in Symbols : UpToDay(s)
    /\ \A s \in Symbols : checkpoint[s] # None => checkpoint[s].days # {}
    /\ BatchFits

(* Every nonempty set of days has a first one.                                *)
LEMMA FirstDay ==
  ASSUME NEW S \in SUBSET Nat, S # {}
  PROVE  \E x \in S : \A y \in S : x <= y
<1>1. PICK x \in S : \A y \in S : ~ (<<y, x>> \in OpToRel(<, Nat))
  BY NatLessThanWellFounded, WFMin
<1>2. \A y \in S : ~ (y < x)
  BY <1>1 DEF OpToRel
<1> QED
  BY <1>2

(* And, if it is bounded, a last one.                                         *)
LEMMA LastDay ==
  ASSUME NEW S \in SUBSET Nat, S # {}, NEW n \in Nat, \A d \in S : d <= n
  PROVE  \E x \in S : \A y \in S : y <= x
<1> DEFINE T == {n - d : d \in S}
<1>1. T \in SUBSET Nat /\ T # {}
  <2>1. \A d \in S : n - d \in Nat
    OBVIOUS
  <2> QED
    BY <2>1
<1>2. PICK t \in T : \A y \in T : t <= y
  BY <1>1, FirstDay
<1>3. PICK x \in S : t = n - x
  OBVIOUS
<1>4. \A y \in S : n - x <= n - y
  BY <1>2, <1>3
<1> QED
  BY <1>4

(* The smaller of two numbers.                                                *)
LEMMA SmallerOfTwo ==
  ASSUME NEW a \in Int, NEW b \in Int
  PROVE  LET w == Backfill!Min({a, b}) IN w \in Int /\ w <= a /\ w <= b
<1>1. \E x \in {a, b} : \A y \in {a, b} : x <= y
  OBVIOUS
<1> QED
  BY <1>1 DEF Backfill!Min

(* The first and the last of a set of numbers that has them.                  *)
LEMMA LeastIs ==
  ASSUME NEW S \in SUBSET Nat, NEW m \in S, \A d \in S : m <= d
  PROVE  Backfill!Min(S) = m
<1>1. \A i \in S : (\A j \in S : i <= j) <=> i = m
  OBVIOUS
<1> QED
  BY <1>1 DEF Backfill!Min

LEMMA GreatestIs ==
  ASSUME NEW S \in SUBSET Nat, NEW m \in S, \A d \in S : d <= m
  PROVE  Backfill!Max(S) = m
<1>1. \A i \in S : (\A j \in S : i >= j) <=> i = m
  OBVIOUS
<1> QED
  BY <1>1 DEF Backfill!Max

(* A publication makes its artifact the active one of its key, and leaves     *)
(* every other key what it stands for.                                        *)
LEMMA PublishedActive ==
  ASSUME log \in Seq(Artifacts), NEW r \in Artifacts, log' = Append(log, r)
  PROVE  /\ log' \in Seq(Artifacts)
         /\ Backfill!Keyed(r.key)' # {} /\ Backfill!Active(r.key)' = r
         /\ \A k \in Nat \ {r.key} :
            /\ Backfill!Keyed(k)' = Backfill!Keyed(k)
            /\ Backfill!Keyed(k) # {} => Backfill!Active(k)' = Backfill!Active(k)
<1> DEFINE n == Len(log) + 1
<1>1. /\ log' \in Seq(Artifacts) /\ n \in Nat
      /\ DOMAIN log = 1 .. Len(log) /\ DOMAIN log' = 1 .. n
      /\ log'[n] = r /\ \A i \in DOMAIN log : log'[i] = log[i]
  OBVIOUS
<1>2. DOMAIN log' = DOMAIN log \union {n} /\ n \notin DOMAIN log /\ DOMAIN log \subseteq Nat
      /\ \A i \in DOMAIN log : i <= n
  BY <1>1
<1> HIDE DEF n
<1>3. Backfill!Keyed(r.key)' = Backfill!Keyed(r.key) \union {n}
  BY <1>1, <1>2 DEF Backfill!Keyed
<1>4. Backfill!Active(r.key)' = r
  <2>1. \A i \in Backfill!Keyed(r.key)' : i \in Nat /\ i <= n
    BY <1>1, <1>2, <1>3 DEF Backfill!Keyed
  <2>2. (CHOOSE i \in Backfill!Keyed(r.key)' : \A j \in Backfill!Keyed(r.key)' : j <= i) = n
    <3> DEFINE K == Backfill!Keyed(r.key)'
    <3>1. n \in K /\ \A i \in K : i \in Nat /\ i <= n
      BY <1>3, <2>1
    <3> HIDE DEF K
    <3>2. \A i \in K : (\A j \in K : j <= i) => i = n
      BY <3>1, <1>1
    <3> QED
      BY <3>1, <3>2 DEF K
  <2> QED
    BY <1>1, <2>2 DEF Backfill!Active
<1>5. ASSUME NEW k \in Nat \ {r.key}
      PROVE  /\ Backfill!Keyed(k)' = Backfill!Keyed(k)
             /\ Backfill!Keyed(k) # {} => Backfill!Active(k)' = Backfill!Active(k)
  <2>1. Backfill!Keyed(k)' = Backfill!Keyed(k)
    BY <1>1, <1>2, <1>5 DEF Backfill!Keyed
  <2>2. ASSUME Backfill!Keyed(k) # {}
        PROVE  Backfill!Active(k)' = Backfill!Active(k)
    <3>1. /\ Backfill!Keyed(k) \in SUBSET Nat /\ Len(log) \in Nat
          /\ \A i \in Backfill!Keyed(k) : i <= Len(log) /\ i \in DOMAIN log
      BY <1>1, <1>2 DEF Backfill!Keyed
    <3>2. \E i \in Backfill!Keyed(k) : \A j \in Backfill!Keyed(k) : j <= i
      BY <2>2, <3>1, LastDay
    <3>3. (CHOOSE i \in Backfill!Keyed(k) : \A j \in Backfill!Keyed(k) : j <= i)
              \in Backfill!Keyed(k)
      BY <3>2
    <3> QED
      BY <1>1, <2>1, <3>1, <3>3 DEF Backfill!Active
  <2> QED
    BY <2>1, <2>2
<1> QED
  BY <1>1, <1>3, <1>4, <1>5

(* What a symbol's record is reconciled to is of the active artifact, and     *)
(* there is a record if and only if there is one.                             *)
LEMMA ReconciledFits ==
  ASSUME BackfillInv, batch # None, Backfill!At \in Symbols
  PROVE  LET r == Backfill!Reconciled IN
         /\ r \in {None} \union SymbolRecords
         /\ r = None => ~ Backfill!Known(Backfill!At)
         /\ r # None => /\ Backfill!Known(Backfill!At) /\ r.days = Backfill!Days(Backfill!At)
                        /\ r.days # {}
<1> DEFINE s == Backfill!At
<1>1. /\ checkpoint[s] \in {None} \union SymbolRecords
      /\ checkpoint[s] # None => checkpoint[s].days # {}
  BY DEF BackfillInv, BackfillTypeOK
<1>2. Backfill!Known(s) => Backfill!Days(s) # {} /\ Backfill!Days(s) \in SUBSET Nat
  <2>1. UpToDay(s) /\ traded[s] \in SUBSET Nat
    BY DEF BackfillInv, BackfillTypeOK
  <2> QED
    BY <2>1 DEF UpToDay, WholeIn
<1>3. ~ Backfill!Known(s) => Backfill!Days(s) = {}
  BY DEF Backfill!Days
<1>4. Backfill!Known(s) =>
         /\ Backfill!SymbolRecord(Backfill!Days(s)) \in SymbolRecords
         /\ Backfill!SymbolRecord(Backfill!Days(s)).days = Backfill!Days(s)
         /\ Backfill!SymbolRecord(Backfill!Days(s)) # None
  <2>1. \A D \in SUBSET Nat : [days |-> D, gap |-> FALSE] \in SymbolRecords
    BY DEF SymbolRecords
  <2>2. None \notin SymbolRecords
    BY BackfillAssumption DEF SymbolRecords, Backfill!BackfillAssumption
  <2> QED
    BY <1>2, <2>1, <2>2 DEF Backfill!SymbolRecord
<1> HIDE DEF s
<1>5. Backfill!Reconciled =
        IF checkpoint[s] # None /\ checkpoint[s].days = Backfill!Days(s) THEN checkpoint[s]
        ELSE IF Backfill!Known(s) THEN Backfill!SymbolRecord(Backfill!Days(s)) ELSE None
  BY DEF Backfill!Reconciled, s
<1>6. CASE checkpoint[s] # None /\ checkpoint[s].days = Backfill!Days(s)
  <2>1. Backfill!Reconciled = checkpoint[s] /\ checkpoint[s] \in SymbolRecords
    BY <1>1, <1>5, <1>6
  <2>2. Backfill!Known(s) /\ checkpoint[s].days # {}
    BY <1>1, <1>3, <1>6
  <2> QED
    BY <1>6, <2>1, <2>2 DEF s
<1>7. CASE ~ (checkpoint[s] # None /\ checkpoint[s].days = Backfill!Days(s))
  BY <1>2, <1>4, <1>5, <1>7 DEF s
<1> QED
  BY <1>6, <1>7

(* The rows of a trade between two days that can be had.                      *)
RowsBetween(R, T, m, w) ==
    /\ R \in SUBSET Nat
    /\ \A d \in Nat : d \in R <=> d \in T /\ m < d /\ d <= w /\ (d < today \/ posted)

(* Rows that follow on a day up to which there are all are all up to the last *)
(* one of them.                                                               *)
LEMMA FollowOn ==
  ASSUME NEW T \in SUBSET (Nat \ {0}), NEW m \in Nat, NEW w \in Int, w <= today,
         today \in Nat, posted \in BOOLEAN,
         NEW R, RowsBetween(R, T, m, w), R # {}
  PROVE  WholeIn(R \union (T \cap (1 .. m)), T)
<1>1. \A d \in Nat : d \in R <=> d \in T /\ m < d /\ d <= w /\ (d < today \/ posted)
  BY DEF RowsBetween
<1>2. \A d \in R : d \in Nat /\ d <= today
  BY <1>1 DEF RowsBetween
<1>3. PICK n \in R : \A d \in R : d <= n
  BY <1>2, LastDay
<1>4. Available(n)
  BY <1>1, <1>2, <1>3 DEF Available
<1>5. \A d \in T : d <= n => d \in R \/ d \in 1 .. m
  <2>1. n \in Nat /\ n <= w /\ (n < today \/ posted)
    BY <1>1, <1>2, <1>3
  <2>2. SUFFICES ASSUME NEW d \in T, d <= n, d > m
                 PROVE  d \in R
    OBVIOUS
  <2> QED
    BY <1>1, <2>1, <2>2
<1>6. \A d \in T \cap (1 .. m) : d <= n
  BY <1>1, <1>2, <1>3
<1>7. R \union (T \cap (1 .. m)) \subseteq T \cap (1 .. n)
  BY <1>1, <1>2, <1>3, <1>6
<1>8. T \cap (1 .. n) \subseteq R \union (T \cap (1 .. m))
  BY <1>2, <1>3, <1>5
<1> QED
  BY <1>3, <1>4, <1>7, <1>8 DEF WholeIn

(* What a request brings and what was held are again every row up to a day.   *)
LEMMA MergedUpToDay ==
  ASSUME BackfillInv, batch # None, Backfill!At \in Symbols,
         NEW r, r = Backfill!Reconciled, NEW asked, asked = Backfill!Window(r),
         Backfill!Rows(asked) # {}
  PROVE  WholeIn(Backfill!Merged(r, asked), traded[Backfill!At])
<1> DEFINE s == Backfill!At
           T == traded[s]
           R == Backfill!Rows(asked)
<1>1. /\ T \in SUBSET (Nat \ {0}) /\ today \in Nat /\ posted \in BOOLEAN
      /\ batch.end \in Nat /\ batch.end <= today /\ Span \in Nat
  BY BackfillAssumption DEF BackfillInv, BackfillTypeOK, BatchFits, Batches,
     Backfill!BackfillAssumption
<1>2. R = {d \in asked \cap T : d < today \/ posted}
  BY DEF Backfill!Rows
<1>3. CASE r = None
  <2> DEFINE w == Backfill!Min({batch.end, 1 + Span - 1})
  <2>1. asked = 1 .. w
    BY <1>3 DEF Backfill!Window
  <2>2. w \in Int /\ w <= batch.end
    <3>1. batch.end \in Int /\ 1 + Span - 1 \in Int
      BY <1>1
    <3> QED
      BY <3>1, SmallerOfTwo
  <2>3. w <= today
    BY <1>1, <2>2
  <2>4. PICK z \in Nat : z = 0
    OBVIOUS
  <2> HIDE DEF w, T
  <2>5. WholeIn(R \union (T \cap (1 .. z)), T)
    <3>1. R \in SUBSET Nat /\ R # {}
      BY <1>1, <1>2
    <3>2. \A d \in Nat : d \in R <=> d \in T /\ z < d /\ d <= w /\ (d < today \/ posted)
      <4>1. \A d \in T : d \in asked <=> z < d /\ d <= w
        BY <1>1, <2>1, <2>2, <2>4
      <4> QED
        BY <1>2, <4>1
    <3>3. RowsBetween(R, T, z, w)
      BY <3>1, <3>2 DEF RowsBetween
    <3> HIDE DEF R
    <3> QED
      <4>1. /\ T \in SUBSET (Nat \ {0}) /\ z \in Nat /\ w \in Int /\ w <= today
            /\ today \in Nat /\ posted \in BOOLEAN
        BY <1>1, <2>2, <2>3, <2>4
      <4> QED
        BY <3>1, <3>3, <4>1, FollowOn
  <2>6. T \cap (1 .. z) = {} /\ Backfill!Merged(r, asked) = R \union (T \cap (1 .. z))
    BY <1>1, <1>3, <2>4 DEF Backfill!Merged, R
  <2> QED
    BY <2>5, <2>6 DEF T
<1>4. CASE r # None
  <2>1. PICK m \in r.days : r.days = T \cap (1 .. m)
    <3>1. r.days = Backfill!Days(s) /\ Backfill!Known(s)
      BY <1>4, ReconciledFits
    <3>2. UpToDay(s)
      BY DEF BackfillInv
    <3> QED
      BY <3>1, <3>2 DEF UpToDay, WholeIn
  <2>2. r.days \in SUBSET Nat /\ m \in Nat /\ \A d \in r.days : d <= m
    BY <1>1, <2>1
  <2>3. Backfill!Max(r.days) = m
    BY <2>2, GreatestIs
  <2>4. ~ (Backfill!Min(r.days) > 1 /\ ~ r.gap)
    <3>1. SUFFICES ASSUME Backfill!Min(r.days) > 1 /\ ~ r.gap
                   PROVE  FALSE
      OBVIOUS
    <3> DEFINE f == Backfill!Min(r.days)
               w == Backfill!Min({f - 1, 1 + Span - 1})
    <3>2. asked = 1 .. w
      BY <1>4, <3>1 DEF Backfill!Window
    <3>3. PICK x \in r.days : \A d \in r.days : x <= d
      BY <2>2, FirstDay
    <3>4. f = x
      BY <2>2, <3>3, LeastIs
    <3>5. x \in Nat /\ x <= m
      BY <2>2, <3>3
    <3>6. w <= x - 1 /\ w \in Int
      <4>1. f - 1 \in Int /\ 1 + Span - 1 \in Int
        BY <1>1, <3>4, <3>5
      <4>2. w \in Int /\ w <= f - 1
        BY <4>1, SmallerOfTwo
      <4> QED
        BY <3>4, <4>2
    <3> HIDE DEF w, f, T
    <3>7. \A d \in asked \cap T : d \in r.days /\ d < x
      BY <1>1, <2>1, <2>2, <3>2, <3>5, <3>6
    <3> QED
      BY <1>2, <2>2, <3>3, <3>5, <3>7
  <2> DEFINE w == Backfill!Min({batch.end, m + 1 + Span - 1})
  <2>5. asked = (m + 1) .. w
    BY <1>4, <2>3, <2>4 DEF Backfill!Window
  <2>6. w \in Int /\ w <= batch.end
    <3>1. batch.end \in Int /\ m + 1 + Span - 1 \in Int
      BY <1>1, <2>2
    <3> QED
      BY <3>1, SmallerOfTwo
  <2>7. w <= today
    BY <1>1, <2>6
  <2> HIDE DEF w, T
  <2>8. WholeIn(R \union (T \cap (1 .. m)), T)
    <3>1. R \in SUBSET Nat /\ R # {}
      BY <1>1, <1>2
    <3>2. \A d \in Nat : d \in R <=> d \in T /\ m < d /\ d <= w /\ (d < today \/ posted)
      <4>1. \A d \in T : d \in asked <=> m < d /\ d <= w
        BY <1>1, <2>2, <2>5, <2>6
      <4> QED
        BY <1>2, <4>1
    <3>3. RowsBetween(R, T, m, w)
      BY <3>1, <3>2 DEF RowsBetween
    <3> HIDE DEF R
    <3> QED
      <4>1. /\ T \in SUBSET (Nat \ {0}) /\ m \in Nat /\ w \in Int /\ w <= today
            /\ today \in Nat /\ posted \in BOOLEAN
        BY <1>1, <2>2, <2>6, <2>7
      <4> QED
        BY <3>1, <3>3, <4>1, FollowOn
  <2>9. Backfill!Merged(r, asked) = R \union r.days
    BY <1>4 DEF Backfill!Merged, R
  <2> QED
    BY <2>1, <2>8, <2>9 DEF T
<1> QED
  BY <1>3, <1>4

(* What a symbol holds stays whole as long as its artifact and its trade stay *)
(* and what can be had is not taken back.                                     *)
LEMMA StaysWhole ==
  ASSUME NEW s \in Symbols, UpToDay(s), traded[s] \in SUBSET Nat, traded' = traded,
         Backfill!Keyed(s)' = Backfill!Keyed(s),
         Backfill!Keyed(s) # {} => Backfill!Active(s)' = Backfill!Active(s),
         \A m \in Nat : Available(m) => Available(m)'
  PROVE  /\ UpToDay(s)'
         /\ Backfill!Known(s)' = Backfill!Known(s)
         /\ Backfill!Known(s) => Backfill!Days(s)' = Backfill!Days(s)
<1>1. Backfill!Known(s)' = Backfill!Known(s)
  BY DEF Backfill!Known
<1>2. Backfill!Known(s) => Backfill!Days(s)' = Backfill!Days(s)
  BY <1>1 DEF Backfill!Days, Backfill!Known
<1>3. Backfill!Known(s) => \A m \in Backfill!Days(s) :
         Backfill!Days(s) = traded[s] \cap (1 .. m) => m \in Nat
  OBVIOUS
<1> QED
  BY <1>1, <1>2, <1>3 DEF UpToDay, WholeIn

(* Where the log stays, everything that is known of it does.                  *)
LEMMA LogStays ==
  ASSUME BackfillInv, log' = log, traded' = traded, \A m \in Nat : Available(m) => Available(m)'
  PROVE  /\ \A s \in Symbols : UpToDay(s)'
         /\ \A s : Backfill!Known(s)' = Backfill!Known(s)
<1>1. \A k : Backfill!Keyed(k)' = Backfill!Keyed(k) /\ Backfill!Active(k)' = Backfill!Active(k)
  BY DEF Backfill!Keyed, Backfill!Active
<1>2. \A s \in Symbols : UpToDay(s) /\ traded[s] \in SUBSET Nat
  BY DEF BackfillInv, BackfillTypeOK
<1> QED
  BY <1>1, <1>2, StaysWhole DEF Backfill!Known

(* A publication of one key leaves what all others hold.                      *)
LEMMA OthersStay ==
  ASSUME BackfillInv, NEW r \in Artifacts, log' = Append(log, r), traded' = traded,
         today' = today, posted' = posted, NEW s \in Symbols, s # r.key
  PROVE  UpToDay(s)'
<1>1. UpToDay(s) /\ log \in Seq(Artifacts) /\ traded[s] \in SUBSET Nat
  BY DEF BackfillInv, BackfillTypeOK
<1>2. s \in Nat \ {r.key}
  BY BackfillAssumption DEF Backfill!BackfillAssumption
<1>3. \A m \in Nat : Available(m) => Available(m)'
  BY DEF Available
<1> QED
  BY <1>1, <1>2, <1>3, PublishedActive, StaysWhole

(* A batch goes on.                                                           *)
LEMMA BatchGoesOn ==
  ASSUME batch \in Batches, NEW tried \in Nat, Backfill!Onward(tried)
  PROVE  batch' \in Batches /\ batch'.end = batch.end /\ ~ batch'.saving
<1>1. batch.at + 1 \in Nat /\ batch.attempted + tried \in Nat
  BY DEF Batches
<1>2. batch' = [[[batch EXCEPT !.at = batch.at + 1] EXCEPT !.attempted = batch.attempted + tried]
                  EXCEPT !.saving = FALSE]
  BY DEF Backfill!Onward, Batches
<1> QED
  BY <1>1, <1>2 DEF Batches

(* What a visit or a failure records of the symbol it is at.                  *)
LEMMA RecordFits ==
  ASSUME BackfillInv, batch # None, Backfill!At \in Symbols,
         NEW r, r \in {None} \union SymbolRecords, r # None => r.days # {},
         checkpoint' = [checkpoint EXCEPT ![Backfill!At] = r]
  PROVE  /\ checkpoint' \in [Symbols -> {None} \union SymbolRecords]
         /\ \A s \in Symbols : checkpoint'[s] # None => checkpoint'[s].days # {}
<1>1. /\ checkpoint \in [Symbols -> {None} \union SymbolRecords]
      /\ \A s \in Symbols : checkpoint[s] # None => checkpoint[s].days # {}
  BY DEF BackfillInv, BackfillTypeOK
<1> QED
  BY <1>1

(* The begin of a batch publishes the list of instruments under its own key.  *)
LEMMA StartKeeps ==
  ASSUME BackfillInv, Backfill!Start
  PROVE  BackfillInv'
<1>1. BackfillTypeOK /\ today \in Nat
  BY DEF BackfillInv, BackfillTypeOK
<1>2. /\ batch' = [at |-> 1, end |-> today, attempted |-> 0, saving |-> FALSE]
      /\ batch' \in Batches /\ batch'.end <= today /\ ~ batch'.saving
      /\ UNCHANGED <<traded, today, posted, checkpoint>>
  BY <1>1 DEF Backfill!Start, Batches
<1>3. BatchFits'
  BY <1>2 DEF BatchFits
<1>4. CASE log' = log
  <2>1. \A s \in Symbols : UpToDay(s)'
    <3>1. \A m \in Nat : Available(m) => Available(m)'
      BY <1>2 DEF Available
    <3> QED
      BY <1>2, <1>4, <3>1, LogStays
  <2> QED
    BY <1>1, <1>2, <1>3, <1>4, <2>1 DEF BackfillInv, BackfillTypeOK
<1>5. CASE Backfill!Publish(Backfill!Listing, {today}, {today})
  <2> DEFINE r == [key |-> 0, version |-> {today}, digest |-> {today}]
  <2>1. r \in Artifacts /\ r.key = 0
    BY <1>1 DEF Artifacts
  <2>2. log' = Append(log, r)
    BY <1>5 DEF Backfill!Publish, Backfill!Listing
  <2> HIDE DEF r
  <2>3. log' \in Seq(Artifacts)
    BY <1>1, <2>1, <2>2, PublishedActive DEF BackfillTypeOK
  <2>4. \A s \in Symbols : s # r.key
    BY <2>1, BackfillAssumption DEF Backfill!BackfillAssumption
  <2>5. \A s \in Symbols : UpToDay(s)'
    BY <1>2, <2>1, <2>2, <2>4, OthersStay
  <2> QED
    BY <1>1, <1>2, <1>3, <2>3, <2>5 DEF BackfillInv, BackfillTypeOK
<1> QED
  BY <1>4, <1>5 DEF Backfill!Start

(* Rows that were had are published with those held before.                   *)
LEMMA PublishingKeeps ==
  ASSUME BackfillInv, batch # None, Backfill!At \in Symbols,
         NEW r, r = Backfill!Reconciled, NEW asked, asked = Backfill!Window(r),
         Backfill!Rows(asked) # {}, Backfill!PublishRows(r, asked),
         UNCHANGED <<traded, today, posted>>
  PROVE  BackfillInv'
<1>0. PICK at \in Symbols : at = Backfill!At
  OBVIOUS
<1> DEFINE M == Backfill!Merged(r, asked)
           a == [key |-> at, version |-> M, digest |-> M]
<1>1. /\ BackfillTypeOK /\ batch \in Batches /\ traded[at] \in SUBSET (Nat \ {0})
      /\ \A s \in Symbols : s \in Nat
  BY BackfillAssumption DEF BackfillInv, BackfillTypeOK, Backfill!BackfillAssumption
<1>2. WholeIn(M, traded[at])
  BY <1>0, MergedUpToDay
<1>3. a \in Artifacts /\ a.key = at /\ a.digest = M
  <2>1. M \in SUBSET Nat /\ at \in Nat
    BY <1>1, <1>2 DEF WholeIn
  <2> HIDE DEF M
  <2> QED
    BY <2>1 DEF Artifacts
<1>4. log' = Append(log, a)
  BY <1>0 DEF Backfill!PublishRows, Backfill!Publish
<1>5. /\ r \in {None} \union SymbolRecords /\ (r # None => r.days # {})
      /\ checkpoint' = [checkpoint EXCEPT ![at] = r]
  BY <1>0, ReconciledFits DEF Backfill!PublishRows, Backfill!Reconcile
<1>6. /\ checkpoint' \in [Symbols -> {None} \union SymbolRecords]
      /\ \A s \in Symbols : checkpoint'[s] # None => checkpoint'[s].days # {}
  BY <1>0, <1>5, RecordFits
<1>7. batch' \in Batches /\ batch'.end = batch.end /\ batch'.at = at
  BY <1>0, <1>1 DEF Backfill!PublishRows, Batches, Backfill!At
<1> HIDE DEF a, M
<1>8. log' \in Seq(Artifacts) /\ Backfill!Keyed(at)' # {} /\ Backfill!Active(at)' = a
  BY <1>1, <1>3, <1>4, PublishedActive DEF BackfillTypeOK
<1>9. Backfill!Known(at)' /\ Backfill!Days(at)' = M
  BY <1>3, <1>8 DEF Backfill!Known, Backfill!Days
<1>10. UpToDay(at)'
  BY <1>2, <1>9 DEF UpToDay, WholeIn, Available
<1>11. \A s \in Symbols : UpToDay(s)'
  BY <1>3, <1>4, <1>10, OthersStay
<1>12. BatchFits'
  <2>1. batch.end <= today /\ today' = today
    BY DEF BackfillInv, BatchFits
  <2> QED
    BY <1>7, <1>9, <2>1 DEF BatchFits
<1> QED
  BY <1>1, <1>6, <1>7, <1>8, <1>11, <1>12 DEF BackfillInv, BackfillTypeOK

(* A visit that publishes nothing, and a request that fails: the record of    *)
(* the symbol is reconciled, and the batch goes on or ends.                   *)
LEMMA VisitKeeps ==
  ASSUME BackfillInv, batch # None, Backfill!At \in Symbols,
         NEW r, r = Backfill!Reconciled, NEW asked,
         Backfill!Skip(r) \/ Backfill!Full(r) \/ Backfill!Fail(r) \/ Backfill!Empty(r, asked),
         UNCHANGED <<traded, today, posted>>
  PROVE  BackfillInv'
<1>1. BackfillTypeOK /\ batch \in Batches /\ batch.end <= today /\ log' = log
  BY DEF BackfillInv, BackfillTypeOK, BatchFits, Backfill!Skip, Backfill!Full, Backfill!Fail,
         Backfill!Empty
<1>2. r \in {None} \union SymbolRecords /\ (r # None => r.days # {})
  BY ReconciledFits
<1>3. batch' = None \/ (batch' \in Batches /\ batch'.end = batch.end /\ ~ batch'.saving)
  <2>1. batch' = None \/ Backfill!Onward(0) \/ Backfill!Onward(1)
    BY DEF Backfill!Skip, Backfill!Full, Backfill!Fail, Backfill!Empty
  <2>2. 0 \in Nat /\ 1 \in Nat
    OBVIOUS
  <2> QED
    BY <1>1, <2>1, <2>2, BatchGoesOn
<1>4. PICK q : /\ q \in {None} \union SymbolRecords /\ (q # None => q.days # {})
               /\ checkpoint' = [checkpoint EXCEPT ![Backfill!At] = q]
  <2>1. CASE Backfill!Skip(r) \/ Backfill!Full(r) \/ Backfill!Fail(r)
    BY <1>2, <2>1 DEF Backfill!Skip, Backfill!Full, Backfill!Fail, Backfill!Reconcile
  <2>2. CASE Backfill!Empty(r, asked)
    <3>1. CASE Backfill!Leading(r, asked)
      <4>1. r \in SymbolRecords /\ r.days # {}
        BY <1>2, <3>1 DEF Backfill!Leading
      <4>2. [r EXCEPT !.gap = TRUE] \in SymbolRecords /\ [r EXCEPT !.gap = TRUE].days # {}
        BY <4>1 DEF SymbolRecords
      <4> QED
        BY <2>2, <3>1, <4>2 DEF Backfill!Empty
    <3>2. CASE ~ Backfill!Leading(r, asked)
      BY <1>2, <2>2, <3>2 DEF Backfill!Empty
    <3> QED
      BY <3>1, <3>2
  <2> QED
    BY <2>1, <2>2
<1>5. /\ checkpoint' \in [Symbols -> {None} \union SymbolRecords]
      /\ \A s \in Symbols : checkpoint'[s] # None => checkpoint'[s].days # {}
  BY <1>4, RecordFits
<1>6. \A s \in Symbols : UpToDay(s)'
  <2>1. \A m \in Nat : Available(m) => Available(m)'
    BY DEF Available
  <2> QED
    BY <1>1, <2>1, LogStays
<1>7. BatchFits'
  BY <1>1, <1>3 DEF BatchFits
<1> QED
  BY <1>1, <1>3, <1>5, <1>6, <1>7 DEF BackfillInv, BackfillTypeOK

(* What was published is recorded.                                            *)
LEMMA SaveKeeps ==
  ASSUME BackfillInv, Backfill!Save
  PROVE  BackfillInv'
<1>1. /\ batch # None /\ batch.saving /\ Backfill!Onward(1) /\ log' = log
      /\ UNCHANGED <<traded, today, posted>>
  BY DEF Backfill!Save
<1>2. /\ BackfillTypeOK /\ batch \in Batches /\ batch.end <= today
      /\ Backfill!At \in Symbols /\ Backfill!Known(Backfill!At)
  BY <1>1 DEF BackfillInv, BackfillTypeOK, BatchFits, Backfill!At
<1>3. batch' \in Batches /\ batch'.end = batch.end /\ ~ batch'.saving
  <2>1. 1 \in Nat
    OBVIOUS
  <2> QED
    BY <1>1, <1>2, <2>1, BatchGoesOn
<1> DEFINE r == [days |-> Backfill!Days(Backfill!At),
                 gap |-> checkpoint[Backfill!At] # None /\ checkpoint[Backfill!At].gap]
<1>4. r \in SymbolRecords /\ r.days # {}
  <2>1. UpToDay(Backfill!At) /\ traded[Backfill!At] \in SUBSET Nat
    BY <1>2 DEF BackfillInv, BackfillTypeOK
  <2>2. Backfill!Days(Backfill!At) \in SUBSET Nat /\ Backfill!Days(Backfill!At) # {}
    BY <1>2, <2>1 DEF UpToDay, WholeIn
  <2>3. (checkpoint[Backfill!At] # None /\ checkpoint[Backfill!At].gap) \in BOOLEAN
    BY DEF Backfill!At
  <2> QED
    BY <2>2, <2>3 DEF SymbolRecords
<1>5. checkpoint' = [checkpoint EXCEPT ![Backfill!At] = r]
  BY DEF Backfill!Save
<1> HIDE DEF r
<1>6. /\ checkpoint' \in [Symbols -> {None} \union SymbolRecords]
      /\ \A s \in Symbols : checkpoint'[s] # None => checkpoint'[s].days # {}
  BY <1>1, <1>2, <1>4, <1>5, RecordFits
<1>7. \A s \in Symbols : UpToDay(s)'
  <2>1. \A m \in Nat : Available(m) => Available(m)'
    BY <1>1 DEF Available
  <2> QED
    BY <1>1, <2>1, LogStays
<1>8. BatchFits'
  BY <1>1, <1>2, <1>3 DEF BatchFits
<1> QED
  BY <1>1, <1>2, <1>3, <1>6, <1>7, <1>8 DEF BackfillInv, BackfillTypeOK

(* Ends of a batch, the loss of the checkpoint, the passing of days.          *)
LEMMA OthersKeep ==
  ASSUME BackfillInv,
         \/ Backfill!Done \/ Backfill!Abort \/ Backfill!Lose \/ Backfill!Post \/ Backfill!NextDay
         \/ UNCHANGED backfillVars
  PROVE  BackfillInv'
<1>1. BackfillTypeOK
  BY DEF BackfillInv
<1>2. /\ log' = log /\ traded' = traded
      /\ \/ today' = today /\ posted' = posted
         \/ today' = today /\ ~ posted /\ posted' = TRUE
         \/ posted /\ today' = today + 1 /\ posted' = FALSE
      /\ checkpoint' = checkpoint \/ checkpoint' = [s \in Symbols |-> None]
      /\ batch' = batch \/ batch' = None
  BY DEF Backfill!Done, Backfill!Abort, Backfill!Lose, Backfill!Post, Backfill!NextDay, backfillVars
<1>3. today' \in Nat \ {0} /\ today <= today' /\ posted' \in BOOLEAN
  <2>1. today \in Nat /\ today # 0 /\ posted \in BOOLEAN
    BY <1>1 DEF BackfillTypeOK
  <2>2. today' = today \/ today' = today + 1
    BY <1>2
  <2>3. posted' \in BOOLEAN
    BY <1>2, <2>1
  <2>4. today' \in Nat \ {0} /\ today <= today'
    BY <2>1, <2>2
  <2> QED
    BY <2>3, <2>4
<1>4. \A s \in Symbols : UpToDay(s)'
  <2>1. \A m \in Nat : Available(m) => Available(m)'
    <3>1. SUFFICES ASSUME NEW m \in Nat, Available(m)
                   PROVE  Available(m)'
      OBVIOUS
    <3>0. today \in Nat /\ posted \in BOOLEAN
      BY <1>1 DEF BackfillTypeOK
    <3>2. CASE today' = today
      <4>1. today' # today + 1
        BY <3>0, <3>2
      <4>2. posted' = posted \/ posted' = TRUE
        BY <1>2, <4>1
      <4> QED
        BY <3>1, <3>2, <4>2 DEF Available
    <3>3. CASE today' = today + 1
      <4>1. today \in Nat
        BY <3>0
      <4>2. CASE m = today
        BY <3>3, <4>1, <4>2 DEF Available
      <4>3. CASE m < today
        BY <3>1, <3>3, <4>1, <4>3 DEF Available
      <4> QED
        BY <3>1, <4>2, <4>3 DEF Available
    <3> QED
      BY <1>2, <3>2, <3>3
  <2> QED
    BY <1>2, <2>1, LogStays
<1>5. /\ checkpoint' \in [Symbols -> {None} \union SymbolRecords]
      /\ \A s \in Symbols : checkpoint'[s] # None => checkpoint'[s].days # {}
  BY <1>1, <1>2 DEF BackfillInv, BackfillTypeOK
<1>6. BatchFits'
  <2>1. BatchFits /\ \A s : Backfill!Known(s)' = Backfill!Known(s)
    <3>1. \A k : Backfill!Keyed(k)' = Backfill!Keyed(k)
      BY <1>2 DEF Backfill!Keyed
    <3> QED
      BY <3>1 DEF BackfillInv, Backfill!Known
  <2>2. SUFFICES ASSUME batch' # None, batch' = batch
                 PROVE  BatchFits'
    BY <1>2 DEF BatchFits
  <2>3. batch \in Batches /\ today \in Nat
    BY <1>1, <2>2 DEF BackfillTypeOK
  <2>4. batch.end <= today'
    BY <1>3, <2>1, <2>2, <2>3 DEF BatchFits, Batches
  <2> QED
    BY <2>1, <2>2, <2>4 DEF BatchFits, Backfill!Known, Backfill!Keyed
<1> QED
  BY <1>1, <1>2, <1>3, <1>4, <1>5, <1>6 DEF BackfillInv, BackfillTypeOK

(* Every step of the backfill keeps whole what is held.                       *)
LEMMA BackfillStep ==
  ASSUME BackfillInv, Backfill!BackfillNext
  PROVE  BackfillInv'
<1>1. CASE Backfill!Start
  BY <1>1, StartKeeps
<1>2. CASE Backfill!Visit
  <2>1. /\ batch # None /\ Backfill!At \in Symbols /\ UNCHANGED <<traded, today, posted>>
        /\ \E r \in {Backfill!Reconciled} : \E asked \in {Backfill!Window(r)} :
             \/ Backfill!Skip(r) \/ Backfill!Full(r)
             \/ Backfill!Rows(asked) = {} /\ Backfill!Empty(r, asked)
             \/ Backfill!Rows(asked) # {} /\ Backfill!PublishRows(r, asked)
    BY <1>2 DEF Backfill!Visit
  <2>2. PICK r, asked : /\ r = Backfill!Reconciled /\ asked = Backfill!Window(r)
                        /\ \/ Backfill!Skip(r) \/ Backfill!Full(r)
                           \/ Backfill!Rows(asked) = {} /\ Backfill!Empty(r, asked)
                           \/ Backfill!Rows(asked) # {} /\ Backfill!PublishRows(r, asked)
    BY <2>1
  <2>3. CASE Backfill!Skip(r) \/ Backfill!Full(r) \/ Backfill!Empty(r, asked)
    BY <2>1, <2>2, <2>3, VisitKeeps
  <2>4. CASE Backfill!Rows(asked) # {} /\ Backfill!PublishRows(r, asked)
    BY <2>1, <2>2, <2>4, PublishingKeeps
  <2> QED
    BY <2>2, <2>3, <2>4
<1>3. CASE Backfill!Refuse
  <2>1. /\ batch # None /\ Backfill!At \in Symbols /\ UNCHANGED <<traded, today, posted>>
        /\ \E r \in {Backfill!Reconciled} : Backfill!Fail(r)
    BY <1>3 DEF Backfill!Refuse
  <2>2. PICK r : r = Backfill!Reconciled /\ Backfill!Fail(r)
    BY <2>1
  <2> QED
    BY <2>1, <2>2, VisitKeeps
<1>4. CASE Backfill!Save
  BY <1>4, SaveKeeps
<1>5. CASE Backfill!Done \/ Backfill!Abort \/ Backfill!Lose \/ Backfill!Post \/ Backfill!NextDay
  BY <1>5, OthersKeep
<1> QED
  BY <1>1, <1>2, <1>3, <1>4, <1>5 DEF Backfill!BackfillNext, Backfill!Work

(* At first nothing is held.                                                  *)
LEMMA BackfillStart ==
  ASSUME Backfill!BackfillInit
  PROVE  BackfillInv
<1>1. log = <<>> /\ traded \in [Symbols -> SUBSET (Nat \ {0})]
  BY BackfillAssumption DEF Backfill!BackfillInit, Backfill!LogInit, Backfill!BackfillAssumption
<1>2. \A s : ~ Backfill!Known(s)
  BY <1>1 DEF Backfill!Known, Backfill!Keyed
<1>3. BackfillTypeOK
  <2>1. << >> \in Seq(Artifacts) /\ 1 \in Nat \ {0}
    OBVIOUS
  <2> QED
    BY <1>1, <2>1 DEF Backfill!BackfillInit, BackfillTypeOK
<1> QED
  BY <1>2, <1>3 DEF Backfill!BackfillInit, BackfillInv, UpToDay, BatchFits

(* In every reachable state what the backfill holds of a symbol is whole up   *)
(* to some day.                                                               *)
THEOREM BackfillAlways == Spec => []BackfillInv
<1>1. Init => BackfillInv
  BY BackfillStart DEF Init
<1>2. BackfillInv /\ [Next]_vars => BackfillInv'
  BY BackfillStep, OthersKeep DEF Next, InBackfill, InAgent, vars
<1> QED
  BY <1>1, <1>2, PTL DEF Spec

(* NoHole: between the first and the last day held of a symbol no row is      *)
(* missing (_missing_ranges asks for edges alone).                            *)
THEOREM HistoryHasNoHole == Spec => []NoHole
<1>1. ASSUME BackfillInv, NEW s \in Symbols, Backfill!Known(s)
      PROVE  LET D == Backfill!Days(s) IN
             D = traded[s] \cap (Backfill!Min(D) .. Backfill!Max(D))
  <2> DEFINE D == Backfill!Days(s)
             T == traded[s]
  <2>1. T \in SUBSET (Nat \ {0})
    BY <1>1 DEF BackfillInv, BackfillTypeOK
  <2>2. PICK m \in D : D = T \cap (1 .. m)
    BY <1>1 DEF BackfillInv, UpToDay, WholeIn
  <2>3. D \in SUBSET Nat /\ m \in Nat /\ \A d \in D : d <= m
    BY <2>1, <2>2
  <2>4. Backfill!Max(D) = m
    BY <2>3, GreatestIs
  <2>5. PICK x \in D : \A d \in D : x <= d
    BY <2>3, FirstDay
  <2>6. Backfill!Min(D) = x
    BY <2>3, <2>5, LeastIs
  <2>7. x \in Nat \ {0}
    BY <2>1, <2>2
  <2> HIDE DEF D, T
  <2>8. D = T \cap (x .. m)
    <3>1. \A d \in D : d \in x .. m
      BY <2>3, <2>5, <2>7
    <3>2. \A d \in x .. m : d \in 1 .. m
      BY <2>3, <2>7
    <3> QED
      BY <2>2, <3>1, <3>2
  <2> QED
    BY <2>4, <2>6, <2>8 DEF D, T
<1>2. BackfillInv => NoHole
  BY <1>1 DEF NoHole, Backfill!NoHole
<1> QED
  BY <1>2, BackfillAlways, PTL

------------------------------------------------------------------------------
(* The agent.                                                                 *)

Fields == {"pc", "status", "stop", "cost", "requests", "late", "day", "charge", "verified"}

(* After a request that went out late, a task is on its way to the end: the   *)
(* next time its loop looks, it is stopped.                                   *)
Winding(a) == /\ task[a].late = 1 /\ task[a].stop
              /\ task[a].pc \in {"request", "answer", "loop", "close"}

CancelInv ==
    /\ DOMAIN task = crew
    /\ \A a \in crew : DOMAIN task[a] = Fields
    /\ \A a \in crew : task[a].late = 0 \/ Winding(a)

(* A step that changes one task keeps the others.                             *)
LEMMA OneTask ==
  ASSUME CancelInv, NEW a \in crew, NEW t, task' = [task EXCEPT ![a] = t], crew' = crew,
         DOMAIN t = Fields,
         \/ t.late = 0
         \/ t.late = 1 /\ t.stop /\ t.pc \in {"request", "answer", "loop", "close"}
  PROVE  CancelInv'
BY DEF CancelInv, Winding

(* A task that is set back, started or cancelled.                             *)
LEMMA CallsKeep ==
  ASSUME CancelInv, NEW a \in crew,
         Agent!Start(a) \/ Agent!Cancel(a) \/ Agent!Finally(a) \/ Agent!Crash(a)
  PROVE  CancelInv'
<1>1. CASE Agent!Finally(a) \/ Agent!Crash(a)
  <2>1. task' = [task EXCEPT ![a] = Agent!NoTask] /\ crew' = crew
    BY <1>1 DEF Agent!Finally, Agent!Crash, Agent!Rest
  <2>2. DOMAIN Agent!NoTask = Fields /\ Agent!NoTask.late = 0
    BY DEF Agent!NoTask, Fields
  <2> QED
    BY <2>1, <2>2, OneTask
<1>2. CASE Agent!Start(a)
  <2> DEFINE t == [Agent!NoTask EXCEPT !.pc = "queued", !.status = "QUEUED", !.verified = probe[a]]
  <2>1. task' = [task EXCEPT ![a] = t] /\ crew' = crew
    BY <1>2 DEF Agent!Start
  <2>2. DOMAIN t = Fields /\ t.late = 0
    BY DEF Agent!NoTask, Fields
  <2> HIDE DEF t
  <2> QED
    BY <2>1, <2>2, OneTask
<1>3. CASE Agent!Cancel(a)
  <2> DEFINE t == [task[a] EXCEPT !.status = "CANCELLING", !.stop = TRUE]
  <2>1. task' = [task EXCEPT ![a] = t] /\ crew' = crew
    BY <1>3 DEF Agent!Cancel
  <2>2. DOMAIN t = Fields /\ t.late = task[a].late /\ t.pc = task[a].pc /\ t.stop
    BY DEF CancelInv, Fields
  <2>3. task[a].late = 0 \/ Winding(a)
    BY DEF CancelInv
  <2>4. t.late = 0 \/ (t.late = 1 /\ t.pc \in {"request", "answer", "loop", "close"})
    BY <2>2, <2>3 DEF Winding
  <2> HIDE DEF t
  <2> QED
    BY <2>1, <2>2, <2>4, OneTask
<1> QED
  BY <1>1, <1>2, <1>3

(* The coroutine goes on elsewhere, or ends.                                 *)
GoesTo(a, pc) ==
    \E t : /\ task' = [task EXCEPT ![a] = t]
           /\ DOMAIN t = Fields /\ t.pc = pc
           /\ t.late = task[a].late /\ t.stop = task[a].stop

LEMMA TaskGoesOn ==
  ASSUME CancelInv, NEW a \in crew, crew' = crew, NEW pc, GoesTo(a, pc),
         task[a].late = 0 \/ pc \in {"request", "answer", "loop", "close"}
  PROVE  CancelInv'
<1>1. PICK t : /\ task' = [task EXCEPT ![a] = t]
               /\ DOMAIN t = Fields /\ t.pc = pc
               /\ t.late = task[a].late /\ t.stop = task[a].stop
  BY DEF GoesTo
<1>2. task[a].late = 0 \/ Winding(a)
  BY DEF CancelInv
<1>3. CASE task[a].late = 0
  BY <1>1, <1>3, OneTask
<1>4. CASE task[a].late = 1 /\ task[a].stop /\ pc \in {"request", "answer", "loop", "close"}
  BY <1>1, <1>4, OneTask
<1> QED
  BY <1>2, <1>3, <1>4 DEF Winding

(* Three ways to go on.                                                       *)
LEMMA WaysOn ==
  ASSUME NEW a, DOMAIN task[a] = Fields
  PROVE  /\ \A pc : Agent!Goes(a, pc) => GoesTo(a, pc)
         /\ Agent!Ends(a) => GoesTo(a, "close")
         /\ \A pc, status :
               task' = [task EXCEPT ![a].pc = pc, ![a].status = status] => GoesTo(a, pc)
         /\ \A pc, status, charge, cost :
               task' = [task EXCEPT ![a].cost = cost, ![a].charge = charge, ![a].pc = pc,
                                    ![a].status = status] => GoesTo(a, pc)
         /\ \A pc, status, charge :
               task' = [task EXCEPT ![a].pc = pc, ![a].status = status, ![a].charge = charge]
                 => GoesTo(a, pc)
<1>1. ASSUME NEW pc, Agent!Goes(a, pc)
      PROVE  GoesTo(a, pc)
  <2> DEFINE t == [task[a] EXCEPT !.pc = pc]
  <2>1. task' = [task EXCEPT ![a] = t]
    BY <1>1 DEF Agent!Goes
  <2>2. DOMAIN t = Fields /\ t.pc = pc /\ t.late = task[a].late /\ t.stop = task[a].stop
    BY DEF Fields
  <2> HIDE DEF t
  <2> QED
    BY <2>1, <2>2 DEF GoesTo
<1>2. ASSUME NEW pc, NEW status, task' = [task EXCEPT ![a].pc = pc, ![a].status = status]
      PROVE  GoesTo(a, pc)
  <2> DEFINE t == [task[a] EXCEPT !.pc = pc, !.status = status]
  <2>1. task' = [task EXCEPT ![a] = t]
    BY <1>2
  <2>2. DOMAIN t = Fields /\ t.pc = pc /\ t.late = task[a].late /\ t.stop = task[a].stop
    BY DEF Fields
  <2> HIDE DEF t
  <2> QED
    BY <2>1, <2>2 DEF GoesTo
<1>3. ASSUME NEW pc, NEW status, NEW charge, NEW cost,
             task' = [task EXCEPT ![a].cost = cost, ![a].charge = charge, ![a].pc = pc,
                                  ![a].status = status]
      PROVE  GoesTo(a, pc)
  <2> DEFINE t == [task[a] EXCEPT !.cost = cost, !.charge = charge, !.pc = pc, !.status = status]
  <2>1. task' = [task EXCEPT ![a] = t]
    BY <1>3
  <2>2. DOMAIN t = Fields /\ t.pc = pc /\ t.late = task[a].late /\ t.stop = task[a].stop
    BY DEF Fields
  <2> HIDE DEF t
  <2> QED
    BY <2>1, <2>2 DEF GoesTo
<1>4. ASSUME NEW pc, NEW status, NEW charge,
             task' = [task EXCEPT ![a].pc = pc, ![a].status = status, ![a].charge = charge]
      PROVE  GoesTo(a, pc)
  <2> DEFINE t == [task[a] EXCEPT !.pc = pc, !.status = status, !.charge = charge]
  <2>1. task' = [task EXCEPT ![a] = t]
    BY <1>4
  <2>2. DOMAIN t = Fields /\ t.pc = pc /\ t.late = task[a].late /\ t.stop = task[a].stop
    BY DEF Fields
  <2> HIDE DEF t
  <2> QED
    BY <2>1, <2>2 DEF GoesTo
<1>5. Agent!Ends(a) => GoesTo(a, "close")
  BY <1>2 DEF Agent!Ends
<1> QED
  BY <1>1, <1>2, <1>3, <1>4, <1>5

(* A request that is sent may be a late one; no second one follows it.        *)
LEMMA ReserveKeeps ==
  ASSUME CancelInv, NEW a \in crew, Agent!Reserve(a)
  PROVE  CancelInv'
<1>1. task[a].pc = "send" /\ crew' = crew /\ task[a].late = 0 /\ DOMAIN task[a] = Fields
  BY DEF Agent!Reserve, CancelInv, Winding
<1>2. CASE Agent!Ends(a)
  <2> DEFINE t == [task[a] EXCEPT !.pc = "close", !.status = "FINAL"]
  <2>1. task' = [task EXCEPT ![a] = t]
    BY <1>2 DEF Agent!Ends
  <2>2. DOMAIN t = Fields /\ t.late = 0
    BY <1>1 DEF Fields
  <2> HIDE DEF t
  <2> QED
    BY <1>1, <2>1, <2>2, OneTask
<1>3. ASSUME NEW c, task' = [task EXCEPT ![a].pc = "request", ![a].day = day, ![a].charge = c,
                            ![a].cost = @ + Price, ![a].requests = @ + 1,
                            ![a].late = IF task[a].stop THEN @ + 1 ELSE @]
      PROVE  CancelInv'
  <2> DEFINE t == [task[a] EXCEPT !.pc = "request", !.day = day, !.charge = c,
                                  !.cost = @ + Price, !.requests = @ + 1,
                                  !.late = IF task[a].stop THEN @ + 1 ELSE @]
  <2>1. task' = [task EXCEPT ![a] = t]
    BY <1>3
  <2>2. /\ DOMAIN t = Fields /\ t.pc = "request" /\ t.stop = task[a].stop
        /\ t.late = IF task[a].stop THEN 0 + 1 ELSE 0
    BY <1>1 DEF Fields
  <2> HIDE DEF t
  <2>3. CASE task[a].stop
    <3>1. t.late = 1 /\ t.stop
      BY <2>2, <2>3
    <3> QED
      BY <1>1, <2>1, <2>2, <3>1, OneTask
  <2>4. CASE ~ task[a].stop
    BY <1>1, <2>1, <2>2, <2>4, OneTask
  <2> QED
    BY <2>3, <2>4
<1> QED
  BY <1>2, <1>3 DEF Agent!Reserve

(* Every step of the agent keeps that a late request is the last.             *)
LEMMA CancelStep ==
  ASSUME CancelInv, Agent!Next
  PROVE  CancelInv'
<1>1. CASE task' = task /\ crew' = crew
  BY <1>1 DEF CancelInv, Winding
<1>2. ASSUME NEW a \in crew, Agent!Work(a)
      PROVE  CancelInv'
  <2>1. DOMAIN task[a] = Fields /\ (task[a].late = 0 \/ Winding(a))
    BY DEF CancelInv
  <2>2. CASE Agent!Preflight(a)
    <3>1. task[a].late = 0 /\ crew' = crew
      BY <2>1, <2>2 DEF Agent!Preflight, Agent!Rest, Winding
    <3>2. \/ Agent!Ends(a)
          \/ task' = [task EXCEPT ![a].pc = "web", ![a].status = "RUNNING"]
          \/ task' = [task EXCEPT ![a].pc = "loop", ![a].status = "RUNNING"]
      BY <2>2 DEF Agent!Preflight
    <3>3. \E pc : GoesTo(a, pc)
      BY <2>1, <3>2, WaysOn
    <3> QED
      BY <3>1, <3>3, TaskGoesOn
  <2>3. CASE Agent!Loop(a)
    <3>1. crew' = crew /\ (Winding(a) => task[a].stop)
      BY <2>3 DEF Agent!Loop, Agent!Rest, Winding
    <3>2. \/ Agent!Ends(a)
          \/ task[a].late = 0 /\ Agent!Goes(a, "send")
      BY <2>1, <2>3, <3>1 DEF Agent!Loop
    <3>3. GoesTo(a, "close") \/ (task[a].late = 0 /\ GoesTo(a, "send"))
      BY <2>1, <3>2, WaysOn
    <3> QED
      BY <3>1, <3>3, TaskGoesOn
  <2>4. CASE Agent!Reserve(a)
    BY <2>4, ReserveKeeps
  <2>5. CASE Agent!Reply(a)
    <3>1. crew' = crew
      BY <2>5 DEF Agent!Reply, Agent!Rest
    <3>2. PICK usage : task' = [task EXCEPT
                ![a].cost = IF usage = None THEN @ ELSE @ - Price + usage,
                ![a].charge = 0,
                ![a].pc = IF usage # None /\ usage > Price THEN "close" ELSE "answer",
                ![a].status = IF usage # None /\ usage > Price THEN "FINAL" ELSE @]
      BY <2>5 DEF Agent!Reply
    <3>3. \E pc \in {"close", "answer"} : \E status, charge, cost :
            task' = [task EXCEPT ![a].cost = cost, ![a].charge = charge, ![a].pc = pc,
                                 ![a].status = status]
      BY <3>2
    <3>4. GoesTo(a, "close") \/ GoesTo(a, "answer")
      BY <2>1, <3>3, WaysOn
    <3> QED
      BY <3>1, <3>4, TaskGoesOn
  <2>6. CASE Agent!Answer(a)
    <3>1. crew' = crew /\ (Agent!Ends(a) \/ Agent!Goes(a, "loop"))
      BY <2>6 DEF Agent!Answer, Agent!Rest
    <3>2. GoesTo(a, "close") \/ GoesTo(a, "loop")
      BY <2>1, <3>1, WaysOn
    <3> QED
      BY <3>1, <3>2, TaskGoesOn
  <2>7. CASE Agent!Interrupted(a)
    <3>1. /\ crew' = crew
          /\ task' = [task EXCEPT ![a].pc = "close", ![a].status = "FINAL", ![a].charge = 0]
      BY <2>7 DEF Agent!Interrupted, Agent!Rest
    <3>2. GoesTo(a, "close")
      BY <2>1, <3>1, WaysOn
    <3> QED
      BY <3>1, <3>2, TaskGoesOn
  <2>8. CASE Agent!Finally(a)
    BY <2>8, CallsKeep
  <2> QED
    BY <1>2, <2>2, <2>3, <2>4, <2>5, <2>6, <2>7, <2>8 DEF Agent!Work
<1>3. ASSUME NEW a \in crew, Agent!Start(a) \/ Agent!Cancel(a) \/ Agent!Crash(a)
      PROVE  CancelInv'
  BY <1>3, CallsKeep
<1>4. ASSUME NEW a \in crew,
             \/ Agent!CredentialChanged(a) \/ Agent!ProbeBegin(a) \/ Agent!ProbeEnd(a)
             \/ \E c \in Agent!Configs : Agent!Configure(a, c)
      PROVE  task' = task /\ crew' = crew
  BY <1>4 DEF Agent!CredentialChanged, Agent!ProbeBegin, Agent!ProbeEnd, Agent!Configure
<1>5. Agent!NextDay => task' = task /\ crew' = crew
  BY DEF Agent!NextDay
<1> QED
  BY <1>1, <1>2, <1>3, <1>4, <1>5 DEF Agent!Next

(* In every reachable state a task that sent a late request winds up.         *)
THEOREM CancelAlways == Spec => []CancelInv
<1>1. Init => CancelInv
  BY DEF Init, Agent!Init, Agent!NoTask, CancelInv, Fields
<1>2. CancelInv /\ [Next]_vars => CancelInv'
  BY CancelStep DEF Next, InBackfill, InAgent, vars, agentVars, CancelInv, Winding
<1> QED
  BY <1>1, <1>2, PTL DEF Spec

(* CancelBinds: a task sends at most the one request it was about to send     *)
(* when it was cancelled (the loop looks for the cancellation before each).   *)
THEOREM CancelledStays == Spec => []CancelBinds
<1>1. CancelInv => CancelBinds
  BY DEF CancelInv, Winding, CancelBinds, Agent!CancelBinds
<1> QED
  BY <1>1, CancelAlways, PTL
==============================================================================
