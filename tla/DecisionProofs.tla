--------------------------- MODULE DecisionProofs ---------------------------
(* Proofs about the scenes of MCDecision, for every value of the constants:    *)
(* the confirmations that change the champion (EvolutionInv), the guidance a   *)
(* reader is shown (GuidanceInv), the historical screen (ScreenInv), and the   *)
(* daily publication (PublicationInv).                                         *)
(*                                                                             *)
(* PublicationInv says where the replacement of the two files stands           *)
(* (Bundled), that what is called completed was in place (Founded), that a     *)
(* change of the holdings is told, or waits to be (Notified), and that the     *)
(* plans of a completed latest session cover the holdings, also while a bundle *)
(* is half written or a run is about to end (Covering).                        *)
EXTENDS MCDecision, FiniteSetTheorems, TLAPS

-----------------------------------------------------------------------------
(* The evolution of the champion.                                          *)

(* What the registry and the confirmations under way are made of.          *)
Champions == Models \union {Evolution!First}
Actions == {"promotion", "rollback"}
Evaluations == [Reports -> {None}
          \union [candidate : Models, status : {"AWAITING_MANUAL_APPROVAL", "BLOCKED"}]]
Changes == [action : Actions, subject : Evolution!Subjects,
            previous : Champions, champion : Champions]
Bodies == [champion : Champions, reports : Evaluations, audit : Seq(Changes)]

EvolutionTypeOK ==
    /\ champion \in Champions /\ reports \in Evaluations /\ audit \in Seq(Changes)
    /\ file \in Bodies
    /\ issued \in Nat
    /\ DOMAIN tokens = Evolution!Subjects
    /\ DOMAIN handler = Handlers
    /\ spent \in Seq([token : Nat, subject : Evolution!Subjects, action : Actions])

(* A handler whose token is spent and whose change is not yet recorded.    *)
Committing(h) == \E step \in {"spent", "read", "set"} : Evolution!At(h, step)

(* What a handler carries to its next step.                                *)
Carried(h) ==
    /\ Evolution!At(h, "taken") =>
          /\ handler[h].token \in Nat /\ handler[h].subject \in Evolution!Subjects
          /\ handler[h].action \in Actions
    /\ Committing(h) =>
          /\ handler[h].subject \in Evolution!Subjects /\ handler[h].action \in Actions
          /\ Evolution!Eligible(handler[h].action, handler[h].subject)
    /\ (Evolution!At(h, "read") \/ Evolution!At(h, "set")) => handler[h].previous \in Champions
    /\ Evolution!At(h, "encoded") =>
          handler[h].body \in Bodies /\ Len(handler[h].body.audit) <= Len(spent)

(* The registry's tokens were issued, each for one subject, and are later  *)
(* than all that were spent on that subject.                               *)
TokensFresh ==
    \A s \in Evolution!Subjects : tokens[s] # None =>
        /\ tokens[s] \in Nat /\ tokens[s] <= issued
        /\ \A i \in DOMAIN spent : /\ spent[i].token # tokens[s]
                                   /\ spent[i].subject = s => spent[i].token < tokens[s]
        /\ \A t \in Evolution!Subjects : tokens[t] = tokens[s] => t = s

SpentOnce ==
    /\ \A i \in DOMAIN spent : spent[i].token <= issued
    /\ \A i, j \in DOMAIN spent : i < j /\ spent[i].subject = spent[j].subject
          => spent[i].token < spent[j].token
    /\ \A i, j \in DOMAIN spent : spent[i].token = spent[j].token => i = j

(* Every recorded change, and every one that will be, has a spent token.   *)
Accounted ==
    /\ IsFiniteSet({h \in Handlers : Committing(h)})
    /\ Len(audit) + Cardinality({h \in Handlers : Committing(h)}) <= Len(spent)
    /\ Len(file.audit) <= Len(spent)

EvolutionInv ==
    /\ EvolutionTypeOK
    /\ \A h \in Handlers : Carried(h)
    /\ TokensFresh /\ SpentOnce /\ Accounted

(* Not a number: what stands for no token is none.                         *)
LEMMA NoneIsNone == None \notin Nat
BY PublicationAssumption DEF Publication!ConstantsAssumption

(* Every step keeps the types of the variables.                            *)
LEMMA TypesKept ==
  ASSUME EvolutionTypeOK, \A h \in Handlers : Carried(h), Evolution!EvolutionNext
  PROVE  EvolutionTypeOK'
<1>1. CASE Evolution!Evaluate
  <2>1. PICK r \in Reports, m \in Models, passes \in BOOLEAN :
             reports' = [reports EXCEPT ![r] =
                           [candidate |-> m,
                            status |-> IF passes THEN "AWAITING_MANUAL_APPROVAL" ELSE "BLOCKED"]]
    BY <1>1 DEF Evolution!Evaluate
  <2>2. reports' \in Evaluations
    BY <2>1 DEF EvolutionTypeOK, Evaluations
  <2> QED
    BY <1>1, <2>2 DEF EvolutionTypeOK, Evolution!Evaluate, Bodies, Evolution!Body
<1>2. ASSUME NEW a \in Actions, NEW s \in Evolution!Subjects, Evolution!Preview(a, s)
      PROVE  EvolutionTypeOK'
  BY <1>2 DEF EvolutionTypeOK, Evolution!Preview
<1>3. ASSUME NEW a \in Actions, NEW s \in Evolution!Subjects, NEW h \in Handlers,
             NEW t \in 1 .. issued, Evolution!Confirm(h, t, a, s)
      PROVE  EvolutionTypeOK'
  BY <1>3 DEF EvolutionTypeOK, Evolution!Confirm
<1>4. ASSUME NEW h \in Handlers, Evolution!Consume(h)
      PROVE  EvolutionTypeOK'
  <2>1. CASE spent' = spent
    BY <1>4, <2>1 DEF EvolutionTypeOK, Evolution!Consume
  <2>2. CASE spent' = Append(spent, [token |-> handler[h].token, subject |-> handler[h].subject,
                                     action |-> handler[h].action])
    <3>1. spent' \in Seq([token : Nat, subject : Evolution!Subjects, action : Actions])
      BY <1>4, <2>2 DEF EvolutionTypeOK, Evolution!Consume, Carried
    <3> QED
      BY <1>4, <3>1 DEF EvolutionTypeOK, Evolution!Consume
  <2> QED
    BY <1>4, <2>1, <2>2 DEF Evolution!Consume
<1>5. ASSUME NEW h \in Handlers, \/ Evolution!ReadChampion(h) \/ Evolution!Encode(h)
                                 \/ Evolution!Replace(h) \/ Evolution!PersistFails(h)
      PROVE  EvolutionTypeOK'
  BY <1>5 DEF EvolutionTypeOK, Evolution!ReadChampion, Evolution!Encode, Evolution!Replace,
     Evolution!PersistFails, Carried
<1>6. ASSUME NEW h \in Handlers, Evolution!SetChampion(h)
      PROVE  EvolutionTypeOK'
  <2>1. Evolution!Successor(h) \in Champions
    <3>1. Committing(h) /\ Carried(h)
      BY <1>6 DEF Evolution!SetChampion, Committing
    <3>2. CASE handler[h].action = "promotion"
      BY <3>1, <3>2 DEF Evolution!Successor, EvolutionTypeOK, Carried, Evolution!Eligible,
         Evolution!Awaiting, Evaluations, Champions
    <3>3. CASE handler[h].action = "rollback"
      <4>1. handler[h].subject \in 1 .. Len(audit)
        BY <3>1, <3>3 DEF Carried, Evolution!Eligible, Evolution!Records
      <4>2. audit[handler[h].subject] \in Changes
        BY <4>1 DEF EvolutionTypeOK
      <4> QED
        BY <3>3, <4>2 DEF Evolution!Successor, Changes
    <3> QED
      BY <3>1, <3>2, <3>3 DEF Carried, Actions
  <2> QED
    BY <1>6, <2>1 DEF EvolutionTypeOK, Evolution!SetChampion
<1>7. ASSUME NEW h \in Handlers, Evolution!AppendRecord(h)
      PROVE  EvolutionTypeOK'
  BY <1>7 DEF EvolutionTypeOK, Evolution!AppendRecord, Carried, Committing, Changes
<1>8. CASE Evolution!Restart
  BY <1>8 DEF EvolutionTypeOK, Evolution!Restart, Bodies
<1> QED
  BY <1>1, <1>2, <1>3, <1>4, <1>5, <1>6, <1>7, <1>8 DEF Evolution!EvolutionNext, Actions

(* Nothing spent is ever forgotten.                                        *)
LEMMA SpentGrows ==
  ASSUME EvolutionTypeOK, \A h \in Handlers : Carried(h), Evolution!EvolutionNext
  PROVE  Len(spent) <= Len(spent')
<1>1. CASE UNCHANGED spent
  BY <1>1 DEF EvolutionTypeOK
<1>2. CASE \E h \in Handlers : Evolution!Consume(h)
  BY <1>2 DEF EvolutionTypeOK, Evolution!Consume, Carried
<1> QED
  BY <1>1, <1>2 DEF Evolution!EvolutionNext, Evolution!Evaluate, Evolution!Preview,
     Evolution!Confirm, Evolution!ReadChampion, Evolution!SetChampion, Evolution!AppendRecord,
     Evolution!Encode, Evolution!Replace, Evolution!PersistFails, Evolution!Restart

(* Who may be eligible stays so, as long as the process runs.              *)
LEMMA EligibleStays ==
  ASSUME EvolutionTypeOK, \A h
            \in Handlers : Carried(h), Evolution!EvolutionNext, ~ Evolution!Restart,
         NEW a \in Actions, NEW s \in Evolution!Subjects, Evolution!Eligible(a, s)
  PROVE  Evolution!Eligible(a, s)'
<1>1. CASE UNCHANGED <<reports, audit>>
  BY <1>1 DEF Evolution!Eligible, Evolution!Awaiting, Evolution!Records
<1>2. CASE Evolution!Evaluate
  BY <1>2 DEF EvolutionTypeOK, Evaluations, Evolution!Evaluate, Evolution!Eligible,
     Evolution!Awaiting, Evolution!Records
<1>3. ASSUME NEW h \in Handlers, Evolution!AppendRecord(h)
      PROVE  Evolution!Eligible(a, s)'
  BY <1>3 DEF EvolutionTypeOK, Evolution!AppendRecord, Evolution!Eligible,
     Evolution!Awaiting, Evolution!Records
<1> QED
  BY <1>1, <1>2, <1>3 DEF Evolution!EvolutionNext, Evolution!Preview, Evolution!Confirm,
     Evolution!Consume, Evolution!ReadChampion, Evolution!SetChampion, Evolution!Encode,
     Evolution!Replace, Evolution!PersistFails

(* What a handler carries stays true while others act.                     *)
LEMMA CarriedOn ==
  ASSUME EvolutionTypeOK, \A h
            \in Handlers : Carried(h), Accounted, Evolution!EvolutionNext, NEW g \in Handlers
  PROVE  Carried(g)'
<1>0. Len(spent) <= Len(spent') /\ Len(spent) \in Nat /\ Len(spent') \in Nat /\ EvolutionTypeOK'
  BY SpentGrows, TypesKept DEF EvolutionTypeOK
<1>1. CASE Evolution!Restart
  BY <1>1 DEF Carried, Committing, Evolution!At, Evolution!Restart
<1>2. CASE ~ Evolution!Restart /\ handler'[g] = handler[g]
  <2>1. \A step : Evolution!At(g, step)' <=> Evolution!At(g, step)
    BY <1>2 DEF Evolution!At
  <2>2. Committing(g)' => Evolution!Eligible(handler[g].action, handler[g].subject)'
    BY <1>2, <2>1, EligibleStays DEF Committing, Carried
  <2>3. Evolution!At(g, "encoded") => Len(handler[g].body.audit) \in Nat
    BY DEF Carried, Bodies
  <2> QED
    BY <1>0, <1>2, <2>1, <2>2, <2>3 DEF Carried, Committing
<1>3. CASE ~ Evolution!Restart /\ handler'[g] # handler[g]
  <2>1. ASSUME NEW t \in 1 .. issued, NEW a \in Actions, NEW s \in Evolution!Subjects,
               Evolution!Confirm(g, t, a, s)
        PROVE  Carried(g)'
    BY <2>1 DEF EvolutionTypeOK, Evolution!Confirm, Carried, Committing, Evolution!At
  <2>2. CASE Evolution!Consume(g)
    BY <2>2 DEF EvolutionTypeOK, Evolution!Consume, Carried, Committing, Evolution!At,
       Evolution!Eligible, Evolution!Awaiting, Evolution!Records
  <2>3. CASE Evolution!ReadChampion(g)
    BY <2>3 DEF EvolutionTypeOK, Evolution!ReadChampion, Carried, Committing, Evolution!At,
       Evolution!Eligible, Evolution!Awaiting, Evolution!Records
  <2>4. CASE Evolution!SetChampion(g)
    BY <2>4 DEF EvolutionTypeOK, Evolution!SetChampion, Carried, Committing, Evolution!At,
       Evolution!Eligible, Evolution!Awaiting, Evolution!Records
  <2>5. CASE Evolution!AppendRecord(g)
    BY <2>5 DEF EvolutionTypeOK, Evolution!AppendRecord, Carried, Committing, Evolution!At
  <2>6. CASE Evolution!Encode(g)
    <3>1. handler'[g] = [step |-> "encoded",
                         body |-> [champion |-> champion, reports |-> reports, audit |-> audit]]
      BY <2>6 DEF EvolutionTypeOK, Evolution!Encode, Evolution!Body
    <3>2. Len(audit) <= Len(spent) /\ spent' = spent
      <4>1. Cardinality({h \in Handlers : Committing(h)}) \in Nat
        BY FS_CardinalityType DEF Accounted
      <4>2. Len(audit) \in Nat
        BY DEF EvolutionTypeOK
      <4> QED
        BY <4>1, <4>2, <1>0, <2>6 DEF Accounted, Evolution!Encode
    <3>3. handler'[g].body \in Bodies'
      BY <3>1 DEF EvolutionTypeOK, Bodies, Evaluations, Changes, Evolution!Subjects
    <3> QED
      BY <3>1, <3>2, <3>3 DEF Carried, Committing, Evolution!At
  <2>7. CASE Evolution!Replace(g) \/ Evolution!PersistFails(g)
    BY <2>7 DEF EvolutionTypeOK, Evolution!Replace, Evolution!PersistFails, Carried, Committing,
       Evolution!At
  <2>8. ASSUME NEW h \in Handlers, h # g,
               \/ \E t \in 1 .. issued, a \in Actions, s
                         \in Evolution!Subjects : Evolution!Confirm(h, t, a, s)
               \/ Evolution!Consume(h) \/ Evolution!ReadChampion(h) \/ Evolution!SetChampion(h)
               \/ Evolution!AppendRecord(h) \/ Evolution!Encode(h) \/ Evolution!Replace(h)
               \/ Evolution!PersistFails(h)
        PROVE  handler'[g] = handler[g]
    BY <2>8 DEF EvolutionTypeOK, Evolution!Confirm, Evolution!Consume, Evolution!ReadChampion,
       Evolution!SetChampion, Evolution!AppendRecord, Evolution!Encode, Evolution!Replace,
       Evolution!PersistFails
  <2> QED
    BY <1>3, <2>1, <2>2, <2>3, <2>4, <2>5, <2>6, <2>7, <2>8 DEF Evolution!EvolutionNext, Actions,
       Evolution!Evaluate, Evolution!Preview
<1> QED
  BY <1>1, <1>2, <1>3

(* A token that is about to be spent is later than those spent before it.  *)
LEMMA SpentInOrder ==
  ASSUME EvolutionInv, Evolution!EvolutionNext
  PROVE  TokensFresh' /\ SpentOnce'
<1>0. None \notin Nat
  BY NoneIsNone
<1>a. \A i \in DOMAIN spent : spent[i].token \in Nat /\ spent[i].token <= issued
  <2> DEFINE Token == [token : Nat, subject : Evolution!Subjects, action : Actions]
  <2>1. spent \in Seq(Token)
    BY DEF EvolutionInv, EvolutionTypeOK
  <2>2. \A i \in DOMAIN spent : spent[i] \in Token
    <3> HIDE DEF Token
    <3> QED
      BY <2>1
  <2> QED
    BY <2>2 DEF EvolutionInv, SpentOnce
<1>1. CASE UNCHANGED <<tokens, issued, spent>>
  BY <1>1 DEF EvolutionInv, TokensFresh, SpentOnce
<1>2. CASE Evolution!Restart
  BY <1>2 DEF EvolutionInv, TokensFresh, SpentOnce, Evolution!Restart
<1>3. ASSUME NEW a \in Actions, NEW s \in Evolution!Subjects, Evolution!Preview(a, s)
      PROVE  TokensFresh' /\ SpentOnce'
  <2>1. issued' = issued + 1 /\ issued \in Nat /\ spent' = spent
        /\ tokens' = [tokens EXCEPT ![s] = issued'] /\ DOMAIN tokens = Evolution!Subjects
    BY <1>3 DEF Evolution!Preview, EvolutionInv, EvolutionTypeOK
  <2>3. SpentOnce'
    BY <2>1, <1>a DEF EvolutionInv, SpentOnce
  <2>4. \A t \in Evolution!Subjects : tokens[t] # None => tokens[t] \in Nat /\ tokens[t] <= issued
    BY DEF EvolutionInv, TokensFresh
  <2>5. TokensFresh'
    BY <2>1, <1>a, <2>4, <1>0 DEF EvolutionInv, TokensFresh
  <2> QED
    BY <2>3, <2>5
<1>4. ASSUME NEW h \in Handlers, Evolution!Consume(h)
      PROVE  TokensFresh' /\ SpentOnce'
  <2>1. CASE spent' = spent
    BY <1>4, <2>1 DEF EvolutionInv, EvolutionTypeOK, TokensFresh, SpentOnce, Evolution!Consume
  <2>2. CASE spent' # spent
    <3> DEFINE s == handler[h].subject
    <3> DEFINE t == handler[h].token
    <3>1. /\ tokens[s] = t /\ t \in Nat /\ s \in Evolution!Subjects
          /\ tokens' = [tokens EXCEPT ![s] = None]
          /\ spent' = Append(spent, [token |-> t, subject |-> s, action |-> handler[h].action])
          /\ issued' = issued /\ DOMAIN tokens = Evolution!Subjects
      BY <1>4, <2>2 DEF EvolutionInv, EvolutionTypeOK, Evolution!Consume, Carried, Evolution!Spends
    <3>2. /\ t <= issued
          /\ \A i \in DOMAIN spent : spent[i].token # t
          /\ \A i \in DOMAIN spent : spent[i].subject = s => spent[i].token < t
      BY <3>1, <1>0 DEF EvolutionInv, TokensFresh
    <3>3. /\ DOMAIN spent = 1 .. Len(spent) /\ Len(spent) \in Nat
          /\ DOMAIN spent' = 1 .. Len(spent) + 1
          /\ \A i \in DOMAIN spent : spent'[i] = spent[i]
          /\ spent'[Len(spent) + 1].token = t /\ spent'[Len(spent) + 1].subject = s
      BY <3>1 DEF EvolutionInv, EvolutionTypeOK
    <3> HIDE DEF s, t
    <3>4. SpentOnce'
      <4>1. \A i \in DOMAIN spent' : i \in DOMAIN spent \/ i = Len(spent) + 1
        BY <3>3
      <4>2. \A i \in DOMAIN spent : i < Len(spent) + 1
        BY <3>3
      <4>3. \A i \in DOMAIN spent' : spent'[i].token <= issued'
        BY <3>1, <3>2, <3>3, <4>1, <1>a
      <4>4. ASSUME NEW i \in DOMAIN spent', NEW j \in DOMAIN spent', i < j,
                   spent'[i].subject = spent'[j].subject
            PROVE  spent'[i].token < spent'[j].token
        <5>1. i \in DOMAIN spent
          BY <3>3, <4>4
        <5>2. CASE j \in DOMAIN spent
          BY <3>3, <4>4, <5>1, <5>2 DEF EvolutionInv, SpentOnce
        <5>3. CASE j = Len(spent) + 1
          <6>1. spent'[j].token = t /\ spent'[j].subject = s
            BY <3>3, <5>3
          <6>2. spent'[i] = spent[i]
            BY <3>3, <5>1
          <6>3. spent[i].subject = s
            BY <4>4, <6>1, <6>2
          <6> QED
            BY <3>2, <5>1, <6>1, <6>2, <6>3
        <5> QED
          BY <4>1, <5>2, <5>3
      <4>5. ASSUME NEW i \in DOMAIN spent', NEW j
                \in DOMAIN spent', spent'[i].token = spent'[j].token
            PROVE  i = j
        <5>1. CASE i \in DOMAIN spent /\ j \in DOMAIN spent
          BY <3>3, <4>5, <5>1 DEF EvolutionInv, SpentOnce
        <5>2. CASE i = Len(spent) + 1 \/ j = Len(spent) + 1
          <6>1. \A k \in DOMAIN spent : spent'[k].token # t
            BY <3>2, <3>3
          <6>2. \A k \in DOMAIN spent' : spent'[k].token = t => k = Len(spent) + 1
            BY <4>1, <6>1
          <6>3. spent'[i].token = t \/ spent'[j].token = t
            BY <3>3, <5>2
          <6> QED
            BY <4>5, <6>2, <6>3
        <5> QED
          BY <4>1, <5>1, <5>2
      <4> QED
        BY <4>3, <4>4, <4>5 DEF SpentOnce
    <3>5. TokensFresh'
      BY <3>1, <3>2, <3>3, <1>0 DEF EvolutionInv, TokensFresh
    <3> QED
      BY <3>4, <3>5
  <2> QED
    BY <2>1, <2>2
<1> QED
  BY <1>1, <1>2, <1>3, <1>4 DEF Evolution!EvolutionNext, Actions, Evolution!Evaluate,
     Evolution!Confirm, Evolution!ReadChampion, Evolution!SetChampion, Evolution!AppendRecord,
     Evolution!Encode, Evolution!Replace, Evolution!PersistFails

(* A handler enters the set of those that will record a change with the    *)
(* token it spends, and leaves it with the record.                         *)
LEMMA AccountedFor ==
  ASSUME EvolutionInv, Evolution!EvolutionNext
  PROVE  Accounted'
<1> DEFINE Due == {h \in Handlers : Committing(h)}
<1>0. /\ IsFiniteSet(Due) /\ Cardinality(Due) \in Nat
      /\ Len(audit) \in Nat /\ Len(audit') \in Nat /\ Len(file.audit) \in Nat
      /\ Len(spent) \in Nat /\ Len(spent') \in Nat /\ Len(spent) <= Len(spent')
  BY TypesKept, SpentGrows, FS_CardinalityType DEF EvolutionInv, Accounted, EvolutionTypeOK, Bodies
<1>1. ASSUME UNCHANGED audit, Due' \subseteq Due
      PROVE  /\ IsFiniteSet(Due')
             /\ Len(audit') + Cardinality(Due') <= Len(spent')
  <2>1. IsFiniteSet(Due') /\ Cardinality(Due') \in Nat /\ Cardinality(Due') <= Cardinality(Due)
    BY <1>0, <1>1, FS_Subset, FS_CardinalityType
  <2> QED
    BY <1>0, <1>1, <2>1 DEF EvolutionInv, Accounted
<1>2. CASE Evolution!Restart
  <2>1. Due' = {}
    BY <1>2 DEF Evolution!Restart, Committing, Evolution!At
  <2>2. IsFiniteSet(Due') /\ Cardinality(Due') = 0
    BY <2>1, FS_EmptySet
  <2>3. /\ Len(audit') = Len(file.audit) /\ file' = file /\ spent' = spent
        /\ Len(file.audit) <= Len(spent)
    BY <1>2 DEF Accounted, EvolutionInv, Evolution!Restart
  <2>4. Len(audit') + Cardinality(Due') <= Len(spent')
    BY <1>0, <2>2, <2>3
  <2> QED
    BY <2>2, <2>3, <2>4 DEF Accounted
<1>3. ASSUME NEW h \in Handlers, Evolution!Consume(h)
      PROVE  Accounted'
  <2>1. \A g \in Handlers : g # h => (Committing(g)' <=> Committing(g))
    BY <1>3 DEF Evolution!Consume, Committing, Evolution!At, EvolutionInv, EvolutionTypeOK
  <2>2. CASE ~ Committing(h)'
    <3>1. Due' \subseteq Due
      BY <2>1, <2>2
    <3> QED
      BY <1>0, <1>1, <1>3, <3>1 DEF Accounted, EvolutionInv, Evolution!Consume
  <2>3. CASE Committing(h)'
    <3>1. Len(spent') = Len(spent) + 1
      BY <1>3, <2>3 DEF Evolution!Consume, Committing, Evolution!At, EvolutionInv, EvolutionTypeOK
    <3>2. Due' \subseteq Due \union {h}
      BY <2>1
    <3>3. IsFiniteSet(Due') /\ Cardinality(Due') \in Nat
              /\ Cardinality(Due') <= Cardinality(Due) + 1
      <4>1. IsFiniteSet(Due \union {h}) /\ Cardinality(Due \union {h}) <= Cardinality(Due) + 1
        <5>1. /\ IsFiniteSet(Due \union {h})
              /\ \/ Cardinality(Due \union {h}) = Cardinality(Due)
                 \/ Cardinality(Due \union {h}) = Cardinality(Due) + 1
          BY <1>0, FS_AddElement
        <5> QED
          BY <1>0, <5>1
      <4>2. Cardinality(Due \union {h}) \in Nat
        BY <4>1, FS_CardinalityType
      <4>3. IsFiniteSet(Due') /\ Cardinality(Due') <= Cardinality(Due \union {h})
        BY <3>2, <4>1, FS_Subset
      <4>4. Cardinality(Due') \in Nat
        BY <4>3, FS_CardinalityType
      <4> QED
        BY <4>1, <4>2, <4>3, <4>4, <1>0
    <3> QED
      BY <1>0, <1>3, <3>1, <3>3 DEF Accounted, EvolutionInv, Evolution!Consume
  <2> QED
    BY <2>2, <2>3
<1>4. ASSUME NEW h \in Handlers, Evolution!AppendRecord(h)
      PROVE  Accounted'
  <2>1. Due' = Due \ {h} /\ h \in Due
    BY <1>4 DEF Evolution!AppendRecord, Committing, Evolution!At, EvolutionInv, EvolutionTypeOK
  <2> HIDE DEF Due
  <2>2. IsFiniteSet(Due') /\ Cardinality(Due') = Cardinality(Due) - 1
    BY <1>0, <2>1, FS_RemoveElement
  <2>3. Len(audit') = Len(audit) + 1
    BY <1>4 DEF Evolution!AppendRecord, EvolutionInv, EvolutionTypeOK
  <2> QED
    <3>1. Len(audit) + Cardinality(Due) <= Len(spent) /\ Len(file.audit) <= Len(spent)
      BY DEF Accounted, EvolutionInv, Due
    <3>2. UNCHANGED <<file, spent>> /\ Len(audit) \in Nat
      BY <1>4 DEF Evolution!AppendRecord, EvolutionInv, EvolutionTypeOK
    <3> QED
      BY <1>0, <2>2, <2>3, <3>1, <3>2 DEF Accounted, Due
<1>5. ASSUME UNCHANGED <<audit, spent>>
      PROVE  Due' \subseteq Due
  <2>1. SUFFICES ASSUME NEW g \in Handlers, Committing(g)'
                 PROVE  Committing(g)
    OBVIOUS
  <2>2. CASE handler'[g] = handler[g]
    BY <2>1, <2>2 DEF Committing, Evolution!At
  <2>3. ASSUME NEW h \in Handlers, Evolution!ReadChampion(h) \/ Evolution!SetChampion(h)
        PROVE  Committing(g)
    BY <2>1, <2>3 DEF Committing, Evolution!At, EvolutionInv, EvolutionTypeOK,
       Evolution!ReadChampion, Evolution!SetChampion
  <2>4. ASSUME NEW h \in Handlers, \/ Evolution!AppendRecord(h) \/ Evolution!Encode(h)
                                   \/ Evolution!Replace(h) \/ Evolution!PersistFails(h)
        PROVE  Committing(g)
    BY <1>5, <2>1, <2>4 DEF Committing, Evolution!At, EvolutionInv, EvolutionTypeOK,
       Evolution!AppendRecord, Evolution!Encode, Evolution!Replace, Evolution!PersistFails
  <2>5. ASSUME NEW h \in Handlers, NEW a \in Actions, NEW s \in Evolution!Subjects,
               NEW t \in 1 .. issued, Evolution!Confirm(h, t, a, s)
        PROVE  Committing(g)
    BY <2>1, <2>5 DEF Committing, Evolution!At, EvolutionInv, EvolutionTypeOK, Evolution!Confirm
  <2>6. ASSUME NEW h \in Handlers, Evolution!Consume(h)
        PROVE  Committing(g)
    BY <1>5, <2>1, <2>6 DEF Committing, Evolution!At, EvolutionInv, EvolutionTypeOK,
       Evolution!Consume
  <2>7. CASE Evolution!Restart
    BY <2>1, <2>7 DEF Committing, Evolution!At, Evolution!Restart
  <2> QED
    BY <2>2, <2>3, <2>4, <2>5, <2>6, <2>7 DEF Evolution!EvolutionNext, Actions, Evolution!Evaluate,
       Evolution!Preview
<1>6. Len(audit) <= Len(spent)
  BY <1>0 DEF EvolutionInv, Accounted
<1>7. CASE Evolution!Evaluate \/ \E h \in Handlers : Evolution!Replace(h)
  <2>1. Due' \subseteq Due /\ UNCHANGED <<audit, spent>>
    BY <1>5, <1>7 DEF Evolution!Evaluate, Evolution!Replace
  <2>2. Len(file'.audit) <= Len(spent')
    BY <1>6, <1>7, <2>1 DEF Evolution!Evaluate, Evolution!Replace, Evolution!Body, EvolutionInv,
       Carried
  <2> QED
    BY <1>1, <2>1, <2>2 DEF Accounted
<1>8. CASE \/ \E a \in Actions, s \in Evolution!Subjects :
                \/ Evolution!Preview(a, s)
                \/ \E h \in Handlers, t \in 1 .. issued : Evolution!Confirm(h, t, a, s)
           \/ \E h \in Handlers : \/ Evolution!ReadChampion(h) \/ Evolution!SetChampion(h)
                                   \/ Evolution!Encode(h) \/ Evolution!PersistFails(h)
  <2>1. UNCHANGED <<audit, spent, file>>
    BY <1>8 DEF Evolution!Preview, Evolution!Confirm, Evolution!ReadChampion, Evolution!SetChampion,
       Evolution!Encode, Evolution!PersistFails
  <2>2. Due' \subseteq Due
    BY <1>5, <2>1
  <2> QED
    BY <1>1, <2>1, <2>2 DEF Accounted, EvolutionInv
<1> QED
  BY <1>2, <1>3, <1>4, <1>7, <1>8 DEF Evolution!EvolutionNext, Actions

(* Every step keeps the invariant,                                         *)
LEMMA EvolutionStep == EvolutionInv /\ Evolution!EvolutionNext => EvolutionInv'
BY TypesKept, CarriedOn, SpentInOrder, AccountedFor DEF EvolutionInv

(* and so do the steps of the other scenes.                                *)
LEMMA EvolutionStutter == EvolutionInv /\ UNCHANGED evolutionVars => EvolutionInv'
<1> SUFFICES ASSUME EvolutionInv, UNCHANGED evolutionVars
             PROVE  EvolutionInv'
  OBVIOUS
<1> USE DEF EvolutionInv, evolutionVars
<1>1. EvolutionTypeOK'
  BY DEF EvolutionTypeOK, Bodies, Evaluations, Changes
<1>2. \A h \in Handlers : Carried(h)'
  BY DEF Carried, Committing, Evolution!At, Evolution!Eligible, Evolution!Awaiting,
     Evolution!Records
<1>3. TokensFresh' /\ SpentOnce'
  BY DEF TokensFresh, SpentOnce
<1>4. Accounted'
  BY DEF Accounted, Committing, Evolution!At
<1> QED
  BY <1>1, <1>2, <1>3, <1>4

(* The invariant holds at the start.                                       *)
LEMMA EvolutionStart == Evolution!EvolutionInit => EvolutionInv
<1> SUFFICES ASSUME Evolution!EvolutionInit
             PROVE  EvolutionInv
  OBVIOUS
<1>1. EvolutionTypeOK
  BY DEF Evolution!EvolutionInit, EvolutionTypeOK, Champions, Bodies, Evaluations, Evolution!Body
<1>2. \A h \in Handlers : ~ Committing(h) /\ Carried(h)
  BY DEF Evolution!EvolutionInit, Carried, Committing, Evolution!At
<1>3. Cardinality({h \in Handlers : Committing(h)}) = 0
          /\ IsFiniteSet({h \in Handlers : Committing(h)})
  <2>1. {h \in Handlers : Committing(h)} = {}
    BY <1>2
  <2> QED
    BY <2>1, FS_EmptySet
<1>4. TokensFresh /\ SpentOnce
  BY DEF Evolution!EvolutionInit, TokensFresh, SpentOnce
<1>5. Accounted
  BY <1>3 DEF Evolution!EvolutionInit, Accounted, Evolution!Body
<1> QED
  BY <1>1, <1>2, <1>4, <1>5 DEF EvolutionInv

(* In every reachable state tokens, records and handlers fit together.     *)
THEOREM EvolutionAlways == Spec => []EvolutionInv
<1>1. Init => EvolutionInv
  BY EvolutionStart DEF Init
<1>2. EvolutionInv /\ [Next]_vars => EvolutionInv'
  BY EvolutionStep, EvolutionStutter DEF Next, InPublication, vars, guidanceVars, evolutionVars
<1> QED
  BY <1>1, <1>2, PTL DEF Spec

(* ConfirmedOnce: a champion is changed once per confirmation.             *)
THEOREM ChangedOnce == Spec => []ConfirmedOnce
<1>1. EvolutionInv => ConfirmedOnce
  <2>1. SUFFICES ASSUME EvolutionInv
                 PROVE  Evolution!ConfirmedOnce
    BY DEF ConfirmedOnce
  <2>2. Len(audit) <= Len(spent)
    <3>1. Cardinality({h \in Handlers : Committing(h)}) \in Nat
      BY <2>1, FS_CardinalityType DEF EvolutionInv, Accounted
    <3> QED
      BY <2>1, <3>1 DEF EvolutionInv, Accounted, EvolutionTypeOK
  <2> QED
    BY <2>1, <2>2 DEF Evolution!ConfirmedOnce, EvolutionInv, SpentOnce, Carried, Committing
<1> QED
  BY <1>1, EvolutionAlways, PTL

-----------------------------------------------------------------------------
(* The guidance.                                                           *)

Quotes == [at : Nat, price : Prices, stale : BOOLEAN]

(* A row that was made of a quote was published with it.                   *)
RowListed ==
    view.row # None /\ view.row.at # None =>
        /\ view.listed \in Quotes
        /\ view.row.at = view.listed.at /\ view.row.price = view.listed.price

(* A verdict that was captured is about a fresh quote, whose time and price *)
(* are those that were listed.                                             *)
CapturedTogether ==
    request # None /\ request.step = "captured" /\ request.guidance \in Guidance!PriceVerdicts =>
        /\ request.judged \in Quotes /\ request.judged # None /\ ~ request.judged.stale
        /\ request.listed \in Quotes
        /\ request.judged.at = request.listed.at /\ request.judged.price = request.listed.price
        /\ request.plan # None /\ request.plan.zone # None
        /\ request.guidance = Guidance!Compare(request.plan.zone, request.judged.price)

GuidanceInv ==
    /\ now \in Nat
    /\ quote \in {None} \union Quotes /\ cache \in {None} \union Quotes
    /\ poll # None /\ poll.updated => quote \in Quotes
    /\ view = [quality |-> view.quality, listed |-> view.listed, row |-> view.row]
    /\ RowListed /\ CapturedTogether
    /\ Guidance!JudgedTogether

(* What is published of a quote is its row and itself.                     *)
LEMMA PublishedTogether ==
  ASSUME NEW q \in Quotes, NEW quality, view' = Guidance!Published(q, quality)
  PROVE  /\ view' = [quality |-> view'.quality, listed |-> view'.listed, row |-> view'.row]
         /\ RowListed'
BY DEF Guidance!Published, Guidance!Overlay, RowListed

(* A quote marked stale is a quote.                                        *)
LEMMA StaleIsQuote == \A q \in Quotes : Guidance!Stale(q) \in Quotes
BY DEF Guidance!Stale, Quotes

(* Quotes, their cache and the published rows.                             *)
LEMMA ListedTogether ==
  ASSUME GuidanceInv, Guidance!GuidanceNext
  PROVE  /\ now' \in Nat
         /\ quote' \in {None} \union Quotes /\ cache' \in {None} \union Quotes
         /\ poll' # None /\ poll'.updated => quote' \in Quotes
         /\ view' = [quality |-> view'.quality, listed |-> view'.listed, row |-> view'.row]
         /\ RowListed'
<1> USE DEF GuidanceInv
<1>1. CASE Guidance!Ingest
  <2>1. PICK p \in Prices : quote' = [at |-> now, price |-> p, stale |-> FALSE]
    BY <1>1 DEF Guidance!Ingest
  <2>2. quote' \in Quotes
    BY <2>1 DEF Quotes
  <2> QED
    BY <1>1, <2>2 DEF Guidance!Ingest, RowListed
<1>2. CASE Guidance!PollFails
  BY <1>2 DEF Guidance!PollFails, RowListed
<1>3. CASE Guidance!ApplyTick
  <2>1. CASE poll.updated
    <3>1. quote \in Quotes /\ view' = Guidance!Published(quote, Guidance!Graded(poll.good))
      BY <1>3, <2>1 DEF Guidance!ApplyTick
    <3> QED
      BY <1>3, <2>1, <3>1, PublishedTogether DEF Guidance!ApplyTick, Guidance!Saved
  <2>2. CASE ~ poll.updated /\ cache # None
    <3>1. Guidance!Stale(cache) \in Quotes
              /\ view' = Guidance!Published(Guidance!Stale(cache), "STALE")
      BY <1>3, <2>2, StaleIsQuote DEF Guidance!ApplyTick
    <3> QED
      BY <1>3, <2>2, <3>1, PublishedTogether DEF Guidance!ApplyTick
  <2>3. CASE ~ poll.updated /\ cache = None
    BY <1>3, <2>3 DEF Guidance!ApplyTick, RowListed
  <2> QED
    BY <2>1, <2>2, <2>3
<1>4. CASE Guidance!PublishDaily \/ Guidance!DailyFails
  <2>1. /\ UNCHANGED <<now, quote, poll, cache>>
        /\ \E listed \in BOOLEAN : view' = [view EXCEPT !.row = Guidance!Rows(listed)]
    BY <1>4 DEF Guidance!PublishDaily, Guidance!DailyFails
  <2> QED
    BY <2>1 DEF Guidance!Rows, Guidance!Bare, RowListed
<1>5. CASE Guidance!Restart
  <2>1. /\ UNCHANGED now /\ quote' = cache' /\ poll' = None
        /\ cache' = None \/ (cache # None /\ cache' = Guidance!Stale(cache))
    BY <1>5 DEF Guidance!Restart, Guidance!Loaded
  <2>2. cache' \in {None} \union Quotes
    BY <2>1, StaleIsQuote
  <2>3. CASE cache' # None
    BY <1>5, <2>1, <2>2, <2>3, PublishedTogether DEF Guidance!Restart
  <2>4. CASE cache' = None
    BY <1>5, <2>1, <2>2, <2>4 DEF Guidance!Restart, Guidance!Rows, Guidance!Bare, RowListed
  <2> QED
    BY <2>3, <2>4
<1>6. CASE Guidance!Passes
  BY <1>6 DEF Guidance!Passes, RowListed
<1>7. CASE UNCHANGED <<now, quote, poll, view, cache>>
  BY <1>7 DEF RowListed
<1> QED
  BY <1>1, <1>2, <1>3, <1>4, <1>5, <1>6, <1>7
     DEF Guidance!GuidanceNext, Guidance!RiskRefresh, Guidance!RiskFails, Guidance!Capture,
     Guidance!StockContext, Guidance!ReadPosition, Guidance!ReadPlan, Guidance!HoldingContext,
     Guidance!Health, Guidance!Answered

(* The request, from its snapshot to what it shows.                        *)
LEMMA RequestsTogether ==
  ASSUME GuidanceInv, Guidance!GuidanceNext
  PROVE  CapturedTogether' /\ Guidance!JudgedTogether'
<1> USE DEF GuidanceInv
<1>1. CASE Guidance!Capture
  <2>1. /\ request'.step = "captured" /\ request'.plan = plans["DAILY_CANDIDATE"]
        /\ request'.guidance = IF view.row = None THEN "NO_RELIABLE_GUIDANCE"
                                                  ELSE Guidance!Guidance(view.row)
        /\ request'.judged = IF view.row = None THEN None ELSE Guidance!RowQuote(view.row)
        /\ request'.listed = view.listed
    BY <1>1 DEF Guidance!Capture
  <2> SUFFICES ASSUME request'.guidance \in Guidance!PriceVerdicts
               PROVE  CapturedTogether'
    BY <2>1 DEF CapturedTogether, Guidance!JudgedTogether
  <2>2. view.row # None /\ Guidance!Assessed = "CLEAR"
        /\ request'.guidance = Guidance!Judge(plans["DAILY_CANDIDATE"], Guidance!RowQuote(view.row))
    BY <2>1 DEF Guidance!PriceVerdicts, Guidance!Guidance
  <2> DEFINE q == Guidance!RowQuote(view.row)
  <2>3. /\ plans["DAILY_CANDIDATE"] # None /\ plans["DAILY_CANDIDATE"].zone # None /\ q # None
            /\ Guidance!FreshAt(q, now)
        /\ request'.guidance = Guidance!Compare(plans["DAILY_CANDIDATE"].zone, q.price)
    BY <2>2 DEF Guidance!PriceVerdicts, Guidance!Judge, Guidance!Reliable
  <2>4. q = quote /\ quote \in Quotes /\ quote.at = view.row.at /\ quote.price = view.row.price
    BY <2>3 DEF Guidance!RowQuote, Guidance!Matches
  <2>5. view.row.at # None
    BY <2>4, NoneIsNone DEF Quotes
  <2>6. ~ q.stale
    BY <2>3 DEF Guidance!FreshAt
  <2> HIDE DEF q
  <2>7. q = Guidance!RowQuote(view.row)
    BY DEF q
  <2> QED
    BY <2>1, <2>2, <2>3, <2>4, <2>5, <2>6, <2>7 DEF RowListed, CapturedTogether
<1>2. CASE Guidance!StockContext
  <2>1. /\ request # None /\ request.step = "captured"
        /\ request'.step = "stock" /\ request'.at = now /\ request'.guidance = request.guidance
        /\ request'.judged = request.judged /\ request'.plan = request.plan
        /\ request'.shown = Guidance!ShownQuote(request)
        /\ request'.blocking = Guidance!Blocking(request)
    BY <1>2 DEF Guidance!StockContext
  <2> SUFFICES ASSUME request.guidance \in Guidance!PriceVerdicts
               PROVE  Guidance!JudgedTogether'
    BY <2>1 DEF CapturedTogether, Guidance!JudgedTogether
  <2>2. CapturedTogether
    OBVIOUS
  <2>3. ASSUME Guidance!Blocking(request) = {}
        PROVE  /\ Guidance!ShownQuote(request) = request.judged
               /\ Guidance!FreshAt(request.judged, now)
               /\ request.plan.valid = Guidance!Day(now)
    <3>1. Guidance!ShownQuote(request) # None
      BY <2>3 DEF Guidance!Blocking
    <3>2. request.plan # None => request.plan.valid = Guidance!Day(now)
      BY <2>3 DEF Guidance!Blocking
    <3>3. Guidance!ShownQuote(request) = request.listed /\ Guidance!FreshAt(request.listed, now)
      BY <3>1 DEF Guidance!ShownQuote
    <3>4. request.listed = request.judged
      <4>1. ~ request.listed.stale
        BY <3>3 DEF Guidance!FreshAt
      <4> QED
        BY <2>1, <2>2, <4>1 DEF CapturedTogether, Quotes
    <3> QED
      BY <2>1, <2>2, <3>2, <3>3, <3>4 DEF CapturedTogether
  <2> QED
    BY <2>1, <2>2, <2>3 DEF CapturedTogether, Guidance!JudgedTogether
<1>3. CASE \/ Guidance!ReadPosition \/ Guidance!ReadPlan \/ Guidance!HoldingContext
           \/ Guidance!Health \/ Guidance!Answered \/ Guidance!Restart
  <2>1. request' = None \/ request'.step \in {"position", "plan", "holding", "health"}
    BY <1>3 DEF Guidance!ReadPosition, Guidance!ReadPlan, Guidance!HoldingContext,
       Guidance!Health, Guidance!Answered, Guidance!Restart
  <2> QED
    BY <2>1 DEF CapturedTogether, Guidance!JudgedTogether
<1>4. CASE UNCHANGED request
  BY <1>4 DEF CapturedTogether, Guidance!JudgedTogether
<1> QED
  BY <1>1, <1>2, <1>3, <1>4
     DEF Guidance!GuidanceNext, Guidance!Ingest, Guidance!PollFails, Guidance!ApplyTick,
     Guidance!PublishDaily, Guidance!DailyFails, Guidance!RiskRefresh, Guidance!RiskFails,
     Guidance!Passes

(* The invariant holds at the start.                                       *)
LEMMA GuidanceStart == Guidance!GuidanceInit => GuidanceInv
<1> SUFFICES ASSUME Guidance!GuidanceInit
             PROVE  GuidanceInv
  OBVIOUS
<1>1. now \in Nat
  BY GuidanceAssumption DEF Guidance!GuidanceAssumption, Guidance!GuidanceInit
<1>2. quote = None /\ poll = None /\ cache = None /\ request = None
  BY DEF Guidance!GuidanceInit
<1>3. PICK listed \in BOOLEAN :
         view = [quality |-> "FAILED", listed |-> None, row |-> Guidance!Rows(listed)]
  BY DEF Guidance!GuidanceInit
<1> QED
  BY <1>1, <1>2, <1>3 DEF GuidanceInv, RowListed, CapturedTogether, Guidance!JudgedTogether,
     Guidance!Rows, Guidance!Bare

(* In every reachable state row, snapshot and answer are about one quote.  *)
THEOREM GuidanceAlways == Spec => []GuidanceInv
<1>1. Init => GuidanceInv
  BY GuidanceStart DEF Init
<1>2. GuidanceInv /\ Guidance!GuidanceNext => GuidanceInv'
  BY ListedTogether, RequestsTogether DEF GuidanceInv
<1>3. GuidanceInv /\ UNCHANGED guidanceVars => GuidanceInv'
  BY DEF GuidanceInv, guidanceVars, RowListed, CapturedTogether, Guidance!JudgedTogether
<1>4. GuidanceInv /\ [Next]_vars => GuidanceInv'
  BY <1>2, <1>3 DEF Next, InPublication, vars
<1> QED
  BY <1>1, <1>4, PTL DEF Spec

(* JudgedTogether: a verdict is shown beside the very quote it is about,   *)
(* and a plan for this very day.                                           *)
THEOREM ShownIsJudged == Spec => []JudgedTogether
<1>1. GuidanceInv => JudgedTogether
  BY DEF GuidanceInv, JudgedTogether
<1> QED
  BY <1>1, GuidanceAlways, PTL

-----------------------------------------------------------------------------
(* The historical screen.                                                  *)

(* The screen counts as the library does.                                  *)
LEMMA SameCount ==
  /\ \A S : Screening!Cardinality(S) = Cardinality(S)
  /\ \A S : Screening!IsFiniteSet(S) <=> IsFiniteSet(S)
BY DEF Screening!Cardinality, Cardinality, Screening!IsFiniteSet, IsFiniteSet

(* Every session has a rank of its own among finitely many.                *)
LEMMA RanksDiffer ==
  ASSUME NEW D \in SUBSET Nat, IsFiniteSet(D)
  PROVE  /\ Cardinality(D) \in Nat
         /\ \A d \in D : Screening!Rank(D, d) \in 0 .. Cardinality(D) - 1
         /\ \A d, e \in D : d < e => Screening!Rank(D, d) < Screening!Rank(D, e)
<1> DEFINE Below(d) == {e \in D : e < d}
<1>1. \A d \in D : Screening!Rank(D, d) = Cardinality(Below(d))
  BY SameCount DEF Screening!Rank
<1>2. \A d \in D : IsFiniteSet(Below(d)) /\ Cardinality(Below(d)) \in Nat
  <2>1. \A d \in D : Below(d) \in SUBSET D
    OBVIOUS
  <2> HIDE DEF Below
  <2> QED
    BY <2>1, FS_Subset, FS_CardinalityType
<1>3. ASSUME NEW S, IsFiniteSet(S), NEW T \in SUBSET S, T # S
      PROVE  Cardinality(T) < Cardinality(S)
  <2>1. Cardinality(T) <= Cardinality(S) /\ Cardinality(T) # Cardinality(S) /\ IsFiniteSet(T)
    BY <1>3, FS_Subset
  <2> QED
    BY <1>3, <2>1, FS_CardinalityType
<1>4. \A d \in D : Cardinality(Below(d)) < Cardinality(D)
  BY <1>3
<1>5. \A d, e \in D : d < e => Cardinality(Below(d)) < Cardinality(Below(e))
  <2> SUFFICES ASSUME NEW d \in D, NEW e \in D, d < e
               PROVE  Cardinality(Below(d)) < Cardinality(Below(e))
    OBVIOUS
  <2>1. Below(d) \in SUBSET Below(e) /\ d \in Below(e) /\ d \notin Below(d)
    <3>1. d \in Nat /\ e \in Nat /\ \A x \in D : x \in Nat
      OBVIOUS
    <3>2. d \in Below(e) /\ d \notin Below(d)
      BY <3>1
    <3>3. \A x \in Below(d) : x \in Below(e)
      BY <3>1
    <3> QED
      BY <3>2, <3>3
  <2> QED
    BY <1>2, <1>3, <2>1
<1>6. Cardinality(D) \in Nat
  BY FS_CardinalityType
<1> HIDE DEF Below
<1> QED
  BY <1>1, <1>2, <1>4, <1>5, <1>6

(* And every rank is some session's.                                       *)
LEMMA RanksTaken ==
  ASSUME NEW D \in SUBSET Nat, IsFiniteSet(D)
  PROVE  \A k \in 0 .. Cardinality(D) - 1 : \E d \in D : Screening!Rank(D, d) = k
<1> DEFINE n == Cardinality(D)
<1> DEFINE f == [d \in D |-> Screening!Rank(D, d)]
<1>1. n \in Nat /\ IsFiniteSet(0 .. n - 1) /\ Cardinality(0 .. n - 1) = n
  <2>1. n \in Nat
    BY FS_CardinalityType
  <2> HIDE DEF n
  <2> QED
    BY <2>1, FS_Interval
<1>2. f \in [D -> 0 .. n - 1]
  BY RanksDiffer
<1>3. \A d, e \in D : f[d] = f[e] => d = e
  <2>1. \A d, e \in D : Screening!Rank(D, d) \in Int /\ (d < e
            => Screening!Rank(D, d) < Screening!Rank(D, e))
    BY RanksDiffer
  <2> QED
    BY <2>1
<1> HIDE DEF f
<1>4. f \in Injection(D, 0 .. n - 1)
  BY <1>2, <1>3 DEF Injection, IsInjective
<1>5. f \in Surjection(D, 0 .. n - 1)
  <2> DEFINE T == 0 .. n - 1
  <2>1. f \in Injection(D, T) /\ IsFiniteSet(T) /\ Cardinality(D) = Cardinality(T)
    BY <1>1, <1>4
  <2> HIDE DEF T, n
  <2>2. f \in Surjection(D, T)
    BY <2>1, FS_Injection
  <2> QED
    BY <2>2 DEF T
<1> QED
  BY <1>5 DEF Surjection, f

(* What is read of the symbols, all of them or some.                       *)
Histories == {U \in SUBSET Nat : IsFiniteSet(U)}
Covered(read) == DOMAIN read \subseteq Symbols /\ \A s \in DOMAIN read : read[s] \in Histories

(* The sessions a screen cuts its windows from, in their order.            *)
Ordered(dates) ==
    /\ Len(dates) \in Nat /\ DOMAIN dates = 1 .. Len(dates)
    /\ \A i \in DOMAIN dates : dates[i] \in Nat
    /\ \A i, j \in DOMAIN dates : i < j => dates[i] < dates[j]

(* The dates of a screen are.                                            *)
LEMMA DatesOrdered ==
  ASSUME NEW read, Covered(read), DOMAIN read = Symbols
  PROVE  Ordered(Screening!Dates(read))
<1> DEFINE F == [s \in Symbols |-> Screening!FeatureDates(read[s])]
<1> DEFINE T == {F[s] : s \in Symbols}
<1> DEFINE D == UNION T
<1>1. D = UNION {Screening!FeatureDates(read[s]) : s \in Symbols}
  OBVIOUS
<1>2. \A s \in Symbols : F[s] \in Histories
  <2> SUFFICES ASSUME NEW s \in Symbols
               PROVE  F[s] \in Histories
    OBVIOUS
  <2>1. read[s] \in SUBSET Nat /\ IsFiniteSet(read[s])
    BY DEF Covered, Histories
  <2>2. F[s] \in SUBSET read[s]
    BY DEF Screening!FeatureDates
  <2> HIDE DEF F
  <2> QED
    BY <2>1, <2>2, FS_Subset DEF Histories
<1>3. IsFiniteSet(D) /\ D \in SUBSET Nat
  <2>1. IsFiniteSet(Symbols)
    BY ScreenAssumption, SameCount DEF Screening!ScreenAssumption
  <2>2. F \in Surjection(Symbols, T)
    BY DEF Surjection
  <2>3. \A S \in T : S \in SUBSET Nat /\ IsFiniteSet(S)
    BY <1>2 DEF Histories
  <2> HIDE DEF F, T
  <2>4. IsFiniteSet(T)
    BY <2>1, <2>2, FS_Surjection
  <2> QED
    BY <2>3, <2>4, FS_UNION
<1> HIDE DEF D
<1> DEFINE n == Cardinality(D)
<1> DEFINE f == [i \in 1 .. n |-> CHOOSE d \in D : Screening!Rank(D, d) = i - 1]
<1>4. n \in Nat
  BY <1>3, FS_CardinalityType
<1>5. Screening!Dates(read) = f
  BY <1>1, SameCount DEF Screening!Dates
<1>6. \A i \in 1 .. n : f[i] \in D /\ Screening!Rank(D, f[i]) = i - 1
  <2> SUFFICES ASSUME NEW i \in 1 .. n
               PROVE  f[i] \in D /\ Screening!Rank(D, f[i]) = i - 1
    OBVIOUS
  <2>1. i - 1 \in 0 .. n - 1
    BY <1>4
  <2>2. \E d \in D : Screening!Rank(D, d) = i - 1
    BY <1>3, <2>1, RanksTaken
  <2> QED
    BY <2>2
<1>7. f \in Seq(Nat) /\ Len(f) = n /\ DOMAIN f = 1 .. n
  <2>1. \A i \in 1 .. n : f[i] \in Nat
    BY <1>3, <1>6
  <2>2. f = [i \in 1 .. n |-> f[i]]
    OBVIOUS
  <2> HIDE DEF f, n
  <2> QED
    BY <1>4, <2>1, <2>2
<1>8. \A i, j \in 1 .. n : i < j => f[i] < f[j]
  <2> SUFFICES ASSUME NEW i \in 1 .. n, NEW j \in 1 .. n, i < j, ~ f[i] < f[j]
               PROVE  FALSE
    OBVIOUS
  <2>1. /\ f[i] \in D /\ f[j] \in D /\ i \in Int /\ j \in Int
        /\ Screening!Rank(D, f[i]) = i - 1 /\ Screening!Rank(D, f[j]) = j - 1
    BY <1>6
  <2> HIDE DEF f
  <2>2. f[j] = f[i] \/ f[j] < f[i]
    <3>1. f[i] \in Nat /\ f[j] \in Nat
      BY <1>3, <2>1
    <3> QED
      BY <3>1
  <2>3. f[j] < f[i] => Screening!Rank(D, f[j]) < Screening!Rank(D, f[i])
    BY <1>3, <2>1, RanksDiffer
  <2> QED
    BY <2>1, <2>2, <2>3
<1> HIDE DEF f, n
<1> QED
  BY <1>3, <1>4, <1>5, <1>6, <1>7, <1>8 DEF Ordered

StartOf(i) == (i - 1) * TestSessions

(* What is cut from where a window starts is there, and the windows' tests *)
(* lie apart.                                                              *)
LEMMA WindowsFit ==
  ASSUME NEW dates, Ordered(dates)
  PROVE  /\ \A i \in 1 .. Screening!FoldCount(dates) :
               StartOf(i) \in Nat /\ StartOf(i) + Screening!Span <= Len(dates)
         /\ \A i, j \in 1 .. Screening!FoldCount(dates) :
               i < j => StartOf(i) + TestSessions <= StartOf(j)
<1> DEFINE L == Len(dates)
<1>1. TestSessions \in Nat \ {0} /\ Screening!Span \in Nat /\ L \in Nat
  BY ScreenAssumption DEF Screening!ScreenAssumption, Screening!Span, Ordered
<1>2. \A x \in Nat : x \div TestSessions \in Nat /\ (x \div TestSessions) * TestSessions <= x
  BY <1>1
<1>3. \A a, b \in Nat : /\ a * TestSessions \in Nat
                        /\ a <= b => a * TestSessions <= b * TestSessions
                        /\ a < b => a * TestSessions + TestSessions <= b * TestSessions
  BY <1>1
<1> SUFFICES ASSUME NEW i \in 1 .. Screening!FoldCount(dates), NEW j
          \in 1 .. Screening!FoldCount(dates)
             PROVE  /\ StartOf(i) \in Nat /\ StartOf(i) + Screening!Span <= Len(dates)
                    /\ i < j => StartOf(i) + TestSessions <= StartOf(j)
  OBVIOUS
<1> DEFINE q == (L - Screening!Span) \div TestSessions
<1>4. Screening!FoldCount(dates) = IF L < Screening!Span THEN 0 ELSE q + 1
  BY DEF Screening!FoldCount
<1>5. L - Screening!Span \in Nat
  BY <1>1, <1>4
<1>6. q \in Nat /\ q * TestSessions <= L - Screening!Span
  BY <1>2, <1>5
<1> HIDE DEF q
<1>7. i - 1 \in Nat /\ j - 1 \in Nat /\ i - 1 <= q /\ (i < j => i - 1 < j - 1)
  BY <1>1, <1>4, <1>5, <1>6
<1>8. StartOf(i) \in Nat /\ StartOf(i) <= q * TestSessions
  BY <1>3, <1>6, <1>7 DEF StartOf
<1>9. i < j => StartOf(i) + TestSessions <= StartOf(j)
  BY <1>3, <1>7 DEF StartOf
<1>10. q * TestSessions \in Nat
  BY <1>3, <1>6
<1> QED
  BY <1>1, <1>6, <1>8, <1>9, <1>10

(* The sessions of a window before its test.                               *)
Before == TrainSessions + ValidationSessions + EmbargoSessions

(* How many sessions the parts of a window have.                           *)
LEMMA WindowParts ==
  /\ TrainSessions \in Nat /\ EmbargoSessions \in Nat /\ TestSessions \in Nat \ {0}
  /\ Before \in Nat /\ TrainSessions + EmbargoSessions <= Before
  /\ Screening!Span \in Nat /\ Screening!Span = Before + TestSessions
BY ScreenAssumption DEF Screening!ScreenAssumption, Screening!Span, Before

(* Where among the dates the sessions of training and test are.            *)
LEMMA FoldCut ==
  ASSUME NEW dates, NEW i, StartOf(i) \in Nat
  PROVE  /\ \A t \in Screening!Fold(dates, i).train :
               \E m \in Nat : StartOf(i) < m /\ m <= StartOf(i) + TrainSessions /\ t = dates[m]
         /\ \A d \in Screening!Fold(dates, i).test :
               \E k \in Nat : /\ StartOf(i) + Before < k /\ k <= StartOf(i) + Screening!Span
                              /\ d = dates[k]
<1> DEFINE s == StartOf(i)
<1> DEFINE n == Screening!Span - TestSessions
<1>1. /\ Screening!Fold(dates, i).train = {dates[k] : k \in s + 0 + 1 .. s + 0 + TrainSessions}
      /\ Screening!Fold(dates, i).test = {dates[k] : k \in s + n + 1 .. s + n + TestSessions}
  BY DEF Screening!Fold, StartOf
<1>2. s \in Nat /\ n = Before
  BY WindowParts
<1> HIDE DEF s, n
<1>3. \A m \in s + 0 + 1 .. s + 0 + TrainSessions : m \in Nat /\ s < m /\ m <= s + TrainSessions
  BY <1>2, WindowParts
<1>4. \A k \in s + n + 1 .. s + n + TestSessions :
         k \in Nat /\ s + Before < k /\ k <= s + Screening!Span
  BY <1>2, WindowParts
<1> QED
  BY <1>1, <1>3, <1>4 DEF s

(* A row that was labelled is of a symbol's own sessions.                  *)
LEMMA RowsOwn ==
  ASSUME NEW read, Covered(read), DOMAIN read = Symbols, NEW r \in Screening!Merged(read)
  PROVE  r.date \in Nat /\ r.maturity \in Nat /\ r.symbol \in Symbols
<1>0. PICK s \in Symbols : \E l \in Screening!Labels(read[s]) :
         r = [symbol |-> s, date |-> l.date, maturity |-> l.maturity]
  BY DEF Screening!Merged
<1>1. PICK l \in Screening!Labels(read[s]) :
         r = [symbol |-> s, date |-> l.date, maturity |-> l.maturity]
  BY <1>0
<1>2. read[s] \in SUBSET Nat
  BY DEF Covered, Histories
<1>3. l.date \in read[s] /\ l.maturity \in read[s]
  BY DEF Screening!Labels
<1> QED
  BY <1>1, <1>2, <1>3

(* What fitted a window is known by the end of its training; what a score  *)
(* saw lies before its session, which is one of the test.                  *)
LEMMA EvidenceKnown ==
  ASSUME NEW read, Covered(read), DOMAIN read = Symbols, NEW c, NEW fold,
         \A t \in fold.train : t \in Nat
  PROVE  /\ \A e \in Screening!Evidence(read, c, fold).fitted : e \in Nat
            /\ \E t \in fold.train : e <= t
         /\ \A r \in Screening!Evidence(read, c, fold).scored :
               r.date \in fold.test /\ \A e \in r.saw : e < r.date
<1> DEFINE train == Screening!Training(Screening!Merged(read), fold.train)
<1>1. Screening!Evidence(read, c, fold).fitted =
         UNION {Screening!Reads(read, c, r) \cup {r.date, r.maturity} : r \in train}
  BY DEF Screening!Evidence
<1>2. Screening!Evidence(read, c, fold).scored =
         Screening!Scored(read, c, Screening!Within(Screening!Merged(read), fold.test))
  BY DEF Screening!Evidence
<1>3. \A r \in Screening!Merged(read) : \A e \in Screening!Reads(read, c, r) : e \in Nat
          /\ e < r.date
  <2> SUFFICES ASSUME NEW r \in Screening!Merged(read), NEW e \in Screening!Reads(read, c, r)
               PROVE  e \in Nat /\ e < r.date
    OBVIOUS
  <2>1. read[r.symbol] \in SUBSET Nat
    BY RowsOwn DEF Covered, Histories
  <2> QED
    BY <2>1 DEF Screening!Reads, Screening!FeatureReads
<1>4. \A r \in train : /\ r \in Screening!Merged(read) /\ r.date \in fold.train
                       /\ \E t \in fold.train : r.maturity <= t
  BY DEF Screening!Training, Screening!MatureOnly, Screening!Within
<1> HIDE DEF train
<1>5. ASSUME NEW e \in Screening!Evidence(read, c, fold).fitted
      PROVE  e \in Nat /\ \E t \in fold.train : e <= t
  <2>1. PICK r \in train : e \in Screening!Reads(read, c, r) \cup {r.date, r.maturity}
    BY <1>1
  <2>2. r.date \in Nat /\ r.maturity \in Nat /\ r.date \in fold.train
    BY <1>4, RowsOwn
  <2>3. CASE e = r.maturity
    BY <1>4, <2>2, <2>3
  <2>4. CASE e = r.date \/ e \in Screening!Reads(read, c, r)
    <3>1. e \in Nat /\ e <= r.date
      BY <1>3, <1>4, <2>2, <2>4
    <3> QED
      BY <2>2, <3>1
  <2> QED
    BY <2>1, <2>3, <2>4
<1>6. ASSUME NEW r \in Screening!Evidence(read, c, fold).scored
      PROVE  r.date \in fold.test /\ \A e \in r.saw : e < r.date
  <2>1. PICK w \in Screening!Within(Screening!Merged(read), fold.test) :
            r = [symbol |-> w.symbol, date |-> w.date, saw |-> Screening!Reads(read, c, w)]
    BY <1>2 DEF Screening!Scored
  <2>2. w \in Screening!Merged(read) /\ w.date \in fold.test
    BY DEF Screening!Within
  <2> QED
    BY <1>3, <2>1, <2>2
<1> QED
  BY <1>5, <1>6

(* The windows of a trial are cut from the dates, each with its evidence.  *)
LEMMA TrialWindows ==
  ASSUME NEW read, NEW c, NEW i \in DOMAIN Screening!Trial(read, c)
  PROVE  /\ i \in 1 .. Screening!FoldCount(Screening!Dates(read))
         /\ Screening!Trial(read, c)[i] =
               Screening!Evidence(read, c, Screening!Fold(Screening!Dates(read), i))
<1> DEFINE dates == Screening!Dates(read)
<1> DEFINE windows == [k \in 1 .. Screening!FoldCount(dates) |->
                          Screening!Evidence(read, c, Screening!Fold(dates, k))]
<1>1. Screening!Trial(read, c) = windows \/ Screening!Trial(read, c) = << >>
  BY DEF Screening!Trial
<1> HIDE DEF dates
<1>2. \A k \in DOMAIN << >> : FALSE
  OBVIOUS
<1> QED
  BY <1>1, <1>2 DEF dates

(* No close that fitted a window lies within an embargo of its test.       *)
LEMMA EmbargoKept ==
  ASSUME NEW dates, Ordered(dates), NEW i \in 1 .. Screening!FoldCount(dates),
         NEW t \in Screening!Fold(dates, i).train, NEW d \in Screening!Fold(dates, i).test,
         NEW e \in Nat, e <= t
  PROVE  Cardinality({j \in DOMAIN dates : e < dates[j] /\ dates[j] < d}) >= EmbargoSessions
<1> DEFINE X == {j \in DOMAIN dates : e < dates[j] /\ dates[j] < d}
<1> DEFINE s == StartOf(i)
<1> DEFINE a == s + TrainSessions + 1
<1> DEFINE b == s + TrainSessions + EmbargoSessions
<1>1. s \in Nat /\ s + Screening!Span <= Len(dates)
  BY WindowsFit
<1>2. PICK m \in Nat : s < m /\ m <= s + TrainSessions /\ t = dates[m]
  BY <1>1, FoldCut
<1>3. PICK k \in Nat : s + Before < k /\ k <= s + Screening!Span /\ d = dates[k]
  BY <1>1, FoldCut
<1>4. /\ Len(dates) \in Nat /\ DOMAIN dates = 1 .. Len(dates)
      /\ \A j \in DOMAIN dates : dates[j] \in Nat
      /\ \A j, l \in DOMAIN dates : j < l => dates[j] < dates[l]
  BY DEF Ordered
<1> HIDE DEF s
<1>5. a \in Nat /\ b \in Nat /\ b - a + 1 = EmbargoSessions
  <2>1. s \in Nat /\ TrainSessions \in Nat /\ EmbargoSessions \in Nat
    BY <1>1, WindowParts
  <2> QED
    BY <2>1
<1>6. m \in 1 .. Len(dates) /\ m < a
  BY <1>1, <1>2, <1>4, WindowParts
<1>7. k \in 1 .. Len(dates) /\ b < k
  BY <1>1, <1>3, <1>4, WindowParts
<1> HIDE DEF a, b
<1>8. \A j \in a .. b : j \in 1 .. Len(dates) /\ m < j /\ j < k
  BY <1>4, <1>5, <1>6, <1>7
<1>9. \A j \in a .. b : j \in X
  <2> SUFFICES ASSUME NEW j \in a .. b
               PROVE  j \in X
    OBVIOUS
  <2>1. dates[m] < dates[j] /\ dates[j] < dates[k] /\ dates[j] \in Nat /\ dates[m] \in Nat
    BY <1>4, <1>6, <1>7, <1>8
  <2> QED
    BY <1>2, <1>3, <1>4, <1>8, <2>1
<1>10. IsFiniteSet(X) /\ Cardinality(X) \in Nat
  <2>1. X \in SUBSET (1 .. Len(dates)) /\ IsFiniteSet(1 .. Len(dates))
    BY <1>4, FS_Interval
  <2> HIDE DEF X
  <2> QED
    BY <2>1, FS_Subset, FS_CardinalityType
<1>11. Cardinality(a .. b) = EmbargoSessions
  <2>1. a \in Int /\ b \in Int
    BY <1>5
  <2>2. Cardinality(a .. b) = IF a > b THEN 0 ELSE b - a + 1
    BY <2>1, FS_Interval
  <2>3. a > b => EmbargoSessions = 0
    BY <1>5, WindowParts
  <2> QED
    BY <1>5, <2>2, <2>3
<1>12. Cardinality(a .. b) <= Cardinality(X)
  <2> HIDE DEF X
  <2>1. a .. b \in SUBSET X
    BY <1>9
  <2> QED
    BY <1>10, <2>1, FS_Subset
<1> QED
  BY <1>10, <1>11, <1>12, WindowParts

(* No session is tested in two windows.                                    *)
LEMMA TestedOnce ==
  ASSUME NEW dates, Ordered(dates), NEW i \in 1 .. Screening!FoldCount(dates),
         NEW j \in 1 .. Screening!FoldCount(dates), i # j
  PROVE  Screening!Fold(dates, i).test \cap Screening!Fold(dates, j).test = {}
<1>1. ASSUME NEW v \in 1 .. Screening!FoldCount(dates), NEW w \in 1 .. Screening!FoldCount(dates),
             v < w, NEW d \in Screening!Fold(dates, v).test, d \in Screening!Fold(dates, w).test
      PROVE  FALSE
  <2>1. /\ StartOf(v) \in Nat /\ StartOf(v) + Screening!Span <= Len(dates)
        /\ StartOf(w) \in Nat /\ StartOf(w) + Screening!Span <= Len(dates)
        /\ StartOf(v) + TestSessions <= StartOf(w)
    BY <1>1, WindowsFit
  <2>2. PICK k \in Nat : /\ StartOf(v) + Before < k /\ k <= StartOf(v) + Screening!Span
                         /\ d = dates[k]
    BY <2>1, FoldCut
  <2>3. PICK l \in Nat : /\ StartOf(w) + Before < l /\ l <= StartOf(w) + Screening!Span
                         /\ d = dates[l]
    BY <1>1, <2>1, FoldCut
  <2>4. k < l
    <3>1. StartOf(v) + Screening!Span <= StartOf(w) + Before /\ Screening!Span \in Nat
              /\ Before \in Nat
      BY <2>1, WindowParts
    <3> QED
      BY <2>1, <2>2, <2>3, <3>1
  <2>5. k \in 1 .. Len(dates) /\ l \in 1 .. Len(dates)
    BY <2>1, <2>2, <2>3, WindowParts DEF Ordered
  <2>6. dates[k] < dates[l] /\ dates[k] \in Nat /\ dates[l] \in Nat
    BY <2>4, <2>5 DEF Ordered
  <2> QED
    BY <2>2, <2>3, <2>6
<1>2. i < j \/ j < i
  OBVIOUS
<1> QED
  BY <1>1, <1>2

(* What the worker has read so far is a history of each symbol read.       *)
ScreenInv ==
    /\ active \in [Symbols -> Nat]
    /\ worker.step = "reading" =>
          Covered(worker.read) /\ worker = [step |-> "reading", read |-> worker.read]
    /\ Screening!OutOfSample

(* Who leaves the worker alone leaves its evidence alone.                  *)
LEMMA SampleUntouched ==
  ASSUME worker' = worker, Screening!OutOfSample
  PROVE  Screening!OutOfSample'
BY DEF Screening!OutOfSample

(* Whatever was read, the evidence taken of it is out of sample.           *)
LEMMA ScreenedOutOfSample ==
  ASSUME ScreenInv, Screening!Screen
  PROVE  Screening!OutOfSample'
<1> DEFINE read == worker.read
<1> DEFINE dates == Screening!Dates(read)
<1>1. Covered(read) /\ DOMAIN read = Symbols
  BY DEF ScreenInv, Screening!Screen
<1>2. CASE worker' = Screening!Blocked
  BY <1>2 DEF Screening!Blocked, Screening!OutOfSample
<1>3. CASE worker' = [step |-> "screened", dates |-> dates,
                      trials |-> [c \in {"momentum-5", "momentum-20"} |-> Screening!Trial(read, c)]]
  <2>1. SUFFICES ASSUME NEW c \in {"momentum-5", "momentum-20"}
        PROVE  Screening!Unseen(worker'.trials[c], worker'.dates)
    BY <1>3 DEF Screening!OutOfSample
  <2> DEFINE windows == Screening!Trial(read, c)
  <2>2. worker'.trials[c] = windows /\ worker'.dates = dates
    BY <1>3
  <2>3. Ordered(dates)
    BY <1>1, DatesOrdered
  <2> HIDE DEF read, dates
  <2>4. ASSUME NEW i \in DOMAIN windows
        PROVE  /\ i \in 1 .. Screening!FoldCount(dates)
               /\ \A e \in windows[i].fitted :
                     e \in Nat /\ \E t \in Screening!Fold(dates, i).train : e <= t
               /\ \A r \in windows[i].scored :
                     r.date \in Screening!Fold(dates, i).test /\ \A e \in r.saw : e < r.date
    <3>1. /\ i \in 1 .. Screening!FoldCount(dates)
          /\ windows[i] = Screening!Evidence(read, c, Screening!Fold(dates, i))
      BY TrialWindows DEF dates
    <3>2. \A t \in Screening!Fold(dates, i).train : t \in Nat
      <4> SUFFICES ASSUME NEW t \in Screening!Fold(dates, i).train
                   PROVE  t \in Nat
        OBVIOUS
      <4>1. StartOf(i) \in Nat /\ StartOf(i) + Screening!Span <= Len(dates)
        BY <2>3, <3>1, WindowsFit
      <4>2. PICK m \in Nat : /\ StartOf(i) < m /\ m <= StartOf(i) + TrainSessions
                             /\ t = dates[m]
        BY <4>1, FoldCut
      <4>3. m \in 1 .. Len(dates)
        BY <2>3, <4>1, <4>2, WindowParts DEF Ordered
      <4> QED
        BY <2>3, <4>2, <4>3 DEF Ordered
    <3> HIDE DEF windows
    <3> QED
      BY <1>1, <3>1, <3>2, EvidenceKnown
  <2>5. ASSUME NEW i \in DOMAIN windows, NEW e \in windows[i].fitted, NEW r \in windows[i].scored
        PROVE  Cardinality({j \in DOMAIN dates : e < dates[j] /\ dates[j] < r.date})
                  >= EmbargoSessions
    <3> HIDE DEF windows
    <3>1. PICK t \in Screening!Fold(dates, i).train : e <= t
      BY <2>4
    <3>2. i \in 1 .. Screening!FoldCount(dates) /\ e \in Nat
              /\ r.date \in Screening!Fold(dates, i).test
      BY <2>4
    <3> QED
      BY <2>3, <3>1, <3>2, EmbargoKept
  <2>6. ASSUME NEW i \in DOMAIN windows, NEW j \in DOMAIN windows, i # j
        PROVE  {r.date : r \in windows[i].scored} \cap {r.date : r \in windows[j].scored} = {}
    <3> HIDE DEF windows
    <3>1. Screening!Fold(dates, i).test \cap Screening!Fold(dates, j).test = {}
      BY <2>3, <2>4, <2>6, TestedOnce
    <3>2. /\ {r.date : r \in windows[i].scored} \subseteq Screening!Fold(dates, i).test
          /\ {r.date : r \in windows[j].scored} \subseteq Screening!Fold(dates, j).test
      BY <2>4
    <3> QED
      BY <3>1, <3>2
  <2> HIDE DEF windows
  <2> QED
    BY SameCount, <2>2, <2>4, <2>5, <2>6 DEF Screening!Unseen
<1> QED
  BY <1>2, <1>3 DEF Screening!Screen

(* Every step keeps the invariant.                                         *)
LEMMA ScreenStep ==
  ASSUME ScreenInv, Screening!ScreenNext
  PROVE  ScreenInv'
<1> USE DEF ScreenInv
<1>1. ASSUME NEW s \in Symbols, Screening!Publish(s)
      PROVE  ScreenInv'
  <2>1. PICK end \in Reaches : active' = [active EXCEPT ![s] = end]
    BY <1>1 DEF Screening!Publish
  <2>2. end \in Nat
    BY ScreenAssumption DEF Screening!ScreenAssumption
  <2>3. active' \in [Symbols -> Nat] /\ worker' = worker
    BY <1>1, <2>1, <2>2 DEF Screening!Publish
  <2> QED
    BY <2>3, SampleUntouched
<1>2. ASSUME NEW s \in Symbols, Screening!Checkpoint(s) \/ Screening!Damage(s)
      PROVE  ScreenInv'
  BY <1>2, SampleUntouched DEF Screening!Checkpoint, Screening!Damage
<1>3. ASSUME NEW s \in Symbols, Screening!Read(s)
      PROVE  ScreenInv'
  <2>1. active' = active /\ worker.step = "reading" /\ s \notin DOMAIN worker.read
    BY <1>3 DEF Screening!Read
  <2>2. CASE worker' = Screening!Blocked
    BY <2>1, <2>2 DEF Screening!Blocked, Screening!OutOfSample
  <2> DEFINE U == Screening!Usable(s, active[s])
  <2> DEFINE R == [t \in DOMAIN worker.read \cup {s} |-> IF t = s THEN U ELSE worker.read[t]]
  <2>3. CASE worker' = [worker EXCEPT !.read = R]
    <3>1. U \in Histories
      <4>1. active[s] \in Nat
        OBVIOUS
      <4>2. U \in SUBSET (1 .. active[s])
        BY DEF Screening!Usable
      <4> QED
        BY <4>1, <4>2, FS_Interval, FS_Subset DEF Histories
    <3> HIDE DEF U
    <3>2. Covered(R)
      BY <2>1, <3>1 DEF Covered
    <3> HIDE DEF R
    <3>3. worker' = [step |-> "reading", read |-> R]
      BY <2>1, <2>3
    <3> QED
      BY <2>1, <3>2, <3>3 DEF Screening!OutOfSample
  <2> QED
    BY <1>3, <2>2, <2>3 DEF Screening!Read
<1>4. CASE Screening!Begin
  BY <1>4 DEF Screening!Begin, Screening!OutOfSample
<1>5. CASE Screening!Compare
  <2>1. /\ active' = active
        /\ worker' = Screening!Blocked \/ worker' = [step |-> "reading", read |-> [s \in {} |-> {}]]
    BY <1>5 DEF Screening!Compare
  <2> QED
    BY <2>1 DEF Screening!Blocked, Screening!OutOfSample, Covered
<1>6. CASE Screening!Screen
  <2>1. active' = active /\ (worker' = Screening!Blocked \/ worker'.step = "screened")
    BY <1>6 DEF Screening!Screen
  <2> QED
    BY <1>6, <2>1, ScreenedOutOfSample DEF Screening!Blocked
<1> QED
  BY <1>1, <1>2, <1>3, <1>4, <1>5, <1>6 DEF Screening!ScreenNext

(* In every reachable state a screen has read whole histories only, and    *)
(* what it made of them is out of sample.                                  *)
THEOREM ScreenAlways == Spec => []ScreenInv
<1>1. Init => ScreenInv
  <2>1. Screening!ScreenInit => active \in [Symbols -> Nat] /\ worker = [step |-> "idle"]
    BY ScreenAssumption DEF Screening!ScreenAssumption, Screening!ScreenInit
  <2> QED
    BY <2>1 DEF Init, ScreenInv, Screening!OutOfSample
<1>2. ScreenInv /\ UNCHANGED screenVars => ScreenInv'
  BY SampleUntouched DEF ScreenInv, screenVars
<1>3. ScreenInv /\ [Next]_vars => ScreenInv'
  BY <1>2, ScreenStep DEF Next, InPublication, vars
<1> QED
  BY <1>1, <1>3, PTL DEF Spec

(* OutOfSample: no close that fitted a window lies after its training or   *)
(* within an embargo of its test, no score saw its own session's close,    *)
(* and no session is tested twice.                                         *)
THEOREM EvidenceOutOfSample == Spec => []OutOfSample
<1>1. ScreenInv => OutOfSample
  BY DEF ScreenInv, OutOfSample
<1> QED
  BY <1>1, ScreenAlways, PTL

------------------------------------------------------------------------------
(* The daily publication.                                                  *)

(* None is not taken for a session.                                        *)
LEMMA NoneIsNoSession == None \notin Nat
BY PublicationAssumption DEF Publication!ConstantsAssumption

Sessions == {None} \union Nat
(* The records of the job, the thread and the notification.                *)
Jobs == [status : {"NOT_RUN", "RUNNING", "PENDING", "SUCCESS", "FAILED", "RETRY_EXHAUSTED",
                   "BLOCKED"},
         completed : SUBSET Nat, pending : Sessions, attempts : Nat, backoff : BOOLEAN,
         blocked : Sessions,
         error : {None} \union Publication!Errors]
Runners == [pc : {"off", "initial", "idle", "read", "fetch", "commit", "signals", "guidance",
                  "unlink", "finish", "failed", "denied"},
            target : Sessions, stale : BOOLEAN, holdings : SUBSET Stocks, recovering : BOOLEAN]
Notices == [pc : {"idle", "update", "clock", "request"}, symbols : SUBSET Stocks, target : Sessions]

PublicationTypeOK ==
    /\ latest \in Nat /\ closed \in BOOLEAN /\ calendar \in BOOLEAN /\ up \in BOOLEAN
              /\ stop \in BOOLEAN
    /\ account \in SUBSET Stocks /\ symbols \in SUBSET Stocks
    /\ signals \in Publication!Bundles /\ guidance \in Publication!Bundles
              /\ journal \in {None} \union Publication!Bundles
    /\ job \in Jobs /\ ckpt \in {None} \union Jobs
    /\ live \in [signals : Publication!Bundles, guidance : Publication!Bundles]
    /\ runner \in Runners /\ note \in Notices /\ notes \in Nat
    /\ published \in SUBSET Publication!Bundles

(* No session but a past one is worked on, asked for or recorded.          *)
NotAhead(j) == /\ \A d \in j.completed : d <= latest
               /\ j.pending # None => j.pending <= latest
InRange ==
    /\ NotAhead(job) /\ (ckpt # None => NotAhead(ckpt))
    /\ runner.pc \notin {"off", "initial", "idle"}
              => runner.target \in Nat /\ runner.target <= latest
    /\ note.pc = "request" => note.target \in Nat /\ note.target <= latest

(* Where the replacement of the two files stands.                          *)
Underway == runner.pc \in {"signals", "guidance", "unlink"}
Bundled ==
    /\ journal = None => signals = guidance
    /\ up /\ journal = None => live.signals = signals /\ live.guidance = guidance
    /\ live.signals = live.guidance
    /\ ~ up => runner.pc = "off"
    /\ Underway => journal # None
    /\ runner.pc = "guidance" => signals = journal
    /\ runner.pc = "unlink" => signals = journal /\ guidance = journal
    /\ runner.pc \in {"fetch", "commit", "finish"} => journal = None
    /\ runner.recovering => Underway \/ runner.pc \in {"failed", "denied"}

(* What is called completed was in place.                                  *)
InPlace(d) == \E b \in published : b.day = d
Founded ==
    /\ \A d \in job.completed : InPlace(d)
    /\ ckpt # None => \A d \in ckpt.completed : InPlace(d)
    /\ runner.pc = "unlink" => journal \in published
    /\ Underway /\ ~ runner.recovering =>
          journal.day = runner.target /\ journal.holdings = runner.holdings
    /\ runner.pc = "finish" => InPlace(runner.target) /\ guidance.holdings = runner.holdings

(* The holdings a refresh works with are those of the account, or a        *)
(* notification will say so.                                               *)
Notified ==
    /\ ~ up => notes = 0
    /\ note.pc # "idle" => notes > 0
    /\ up => \/ notes > (IF note.pc = "idle" THEN 0 ELSE 1)
             \/ account = IF note.pc = "update" THEN note.symbols ELSE symbols

(* The plans cover the holdings where the latest session is completed, or  *)
(* about to be, unless a request of it is on its way.                      *)
Requesting == note.pc = "clock" \/ (note.pc = "request" /\ note.target = latest)
Heard == up /\ calendar /\ job.error # "CHECKPOINT_REJECTED"
Covering ==
    /\ job.error = "CHECKPOINT_REJECTED" => runner.pc = "off"
    /\ ckpt # None => ckpt.error # "CHECKPOINT_REJECTED"
    /\ Underway /\ ~ runner.recovering => symbols = runner.holdings
    /\ Heard /\ ~ Requesting /\ runner.pc = "finish" /\ ~ runner.stale /\ runner.target = latest =>
          symbols = runner.holdings
    /\ Heard /\ ~ Requesting /\ latest \in job.completed =>
          /\ symbols \subseteq guidance.holdings
          /\ journal # None => symbols \subseteq journal.holdings

PublicationInv ==
    PublicationTypeOK /\ InRange /\ Bundled /\ Founded /\ Notified /\ Covering

(* Nor for a bundle: a journal that is there is told from none.            *)
LEMMA NoneIsNoBundle == None \notin Publication!Bundles
BY PublicationAssumption DEF Publication!ConstantsAssumption

(* What the steps of the job make of its record.                           *)
LEMMA JobSteps ==
  ASSUME NEW j \in Jobs, NEW d \in Nat
  PROVE  /\ Publication!Begun(j, d) \in Jobs
         /\ Publication!Begun(j, d).completed = j.completed
         /\ Publication!Begun(j, d).pending = d
         /\ Publication!Begun(j, d).error = j.error
<1>1. PICK b \in BOOLEAN : b = (j.backoff /\ d = j.pending)
  OBVIOUS
<1>2. PICK n \in Nat : n = (IF d = j.pending THEN j.attempts ELSE 0) + 1
  BY DEF Jobs, Publication!Errors
<1>3. Publication!Begun(j, d) = [j EXCEPT !.pending = d, !.backoff = b, !.status = "RUNNING",
                                          !.attempts = n]
  BY <1>1, <1>2 DEF Publication!Begun, Jobs, Publication!Errors
<1> QED
  BY <1>3 DEF Jobs, Publication!Errors, Sessions

(* Only a run that nobody made stale adds its session to the completed.    *)
LEMMA JobSucceeds ==
  ASSUME NEW j \in Jobs, NEW d \in Nat, NEW stale, stale \in BOOLEAN
  PROVE  /\ Publication!Succeeded(j, d, stale) \in Jobs
         /\ Publication!Succeeded(j, d, stale).completed \subseteq j.completed \union {d}
         /\ stale => Publication!Succeeded(j, d, stale).completed = j.completed
         /\ Publication!Succeeded(j, d, stale).pending \in {None, j.pending}
         /\ Publication!Succeeded(j, d, stale).error = None
<1>1. CASE stale
  BY <1>1 DEF Jobs, Publication!Errors, Sessions, Publication!Succeeded
<1>2. CASE ~ stale
  BY <1>2 DEF Jobs, Publication!Errors, Sessions, Publication!Succeeded
<1> QED
  BY <1>1, <1>2

(* A request takes its session off the completed, and so does a pause.     *)
LEMMA JobRequests ==
  ASSUME NEW j \in Jobs, NEW d \in Nat
  PROVE  /\ Publication!Requested(j, d) \in Jobs
         /\ Publication!Requested(j, d).completed = j.completed \ {d}
         /\ Publication!Requested(j, d).pending = d
         /\ Publication!Requested(j, d).error = j.error
         /\ Publication!Unsaved(j, d) \in Jobs
         /\ Publication!Unsaved(j, d).completed = j.completed \ {d}
         /\ Publication!Unsaved(j, d).pending = d
         /\ Publication!Unsaved(j, d).error = "CHECKPOINT_WRITE_FAILED"
BY DEF Jobs, Publication!Errors, Sessions, Publication!Requested, Publication!Unsaved,
   Publication!Paused

(* A run that failed or was denied completes nothing.                      *)
LEMMA JobFails ==
  ASSUME NEW j \in Jobs, NEW d \in Nat, NEW stale
  PROVE  /\ Publication!FailedRun(j, stale) \in Jobs
         /\ Publication!FailedRun(j, stale).completed = j.completed
         /\ Publication!FailedRun(j, stale).pending = j.pending
         /\ Publication!FailedRun(j, stale).error = "UPDATE_FAILED"
         /\ Publication!DeniedRun(j, d) \in Jobs
         /\ Publication!DeniedRun(j, d).completed = j.completed
         /\ Publication!DeniedRun(j, d).pending = j.pending
         /\ Publication!DeniedRun(j, d).error = "PERMISSION_DENIED"
BY DEF Jobs, Publication!Errors, Sessions, Publication!FailedRun, Publication!DeniedRun

(* A checkpoint that is restored, if it is there, or rejected.             *)
LEMMA JobRestored ==
  ASSUME NEW c \in Jobs, c # None, NEW held \in SUBSET Stocks,
         NEW sig \in Publication!Bundles, NEW gui \in Publication!Bundles
  PROVE  /\ Publication!Restored(c, sig, gui, held) \in Jobs
         /\ Publication!Restored(c, sig, gui, held).pending = c.pending
         /\ Publication!Restored(c, sig, gui, held).error = c.error
         /\ Publication!Restored(c, sig, gui, held).completed \subseteq c.completed
         /\ \A d \in Publication!Restored(c, sig, gui, held).completed : held \subseteq gui.holdings
BY DEF Publication!Restored, Publication!Valid, Jobs, Publication!Errors

(* A rejected checkpoint keeps what it says.                               *)
LEMMA JobRejected ==
  ASSUME NEW j \in Jobs
  PROVE  /\ Publication!Rejected(j) \in Jobs
         /\ Publication!Rejected(j).pending = j.pending
         /\ Publication!Rejected(j).completed = j.completed
         /\ Publication!Rejected(j).error = "CHECKPOINT_REJECTED"
BY DEF Publication!Rejected, Jobs, Publication!Errors

(* Without a checkpoint nothing is completed.                              *)
LEMMA JobFresh ==
  /\ Publication!FreshJob \in Jobs
  /\ Publication!FreshJob.pending = None /\ Publication!FreshJob.completed = {}
BY DEF Publication!FreshJob, Jobs, Publication!Errors, Sessions

(* What startup makes of the checkpoint.                                   *)
LEMMA JobStarts ==
  ASSUME PublicationTypeOK, Publication!Start
  PROVE  /\ job' \in Jobs
         /\ \/ job'.completed = {} /\ job'.pending = None
            \/ ckpt # None /\ job'.completed \subseteq ckpt.completed /\ job'.pending = ckpt.pending
         /\ \A d \in job'.completed : account \subseteq guidance'.holdings
         /\ runner'.pc = "off" \/ job'.error = None \/ (ckpt # None /\ job'.error = ckpt.error)
<1> DEFINE j == Publication!Restored(ckpt, signals', guidance', account)
<1>1. \/ job' = j
      \/ job' = Publication!Rejected(j) /\ ckpt # None /\ runner'.pc = "off"
  BY DEF Publication!Start, Publication!NoRunner
<1>2. signals' \in Publication!Bundles /\ guidance' \in Publication!Bundles
          /\ account \in SUBSET Stocks
  BY DEF PublicationTypeOK, Publication!Start, Publication!RecoveredFile
<1>3. CASE ckpt = None
  <2>1. j = Publication!FreshJob
    BY <1>3 DEF Publication!Restored
  <2>2. Publication!FreshJob.error = None
    BY DEF Publication!FreshJob
  <2> HIDE DEF j
  <2> QED
    BY <1>1, <1>3, <2>1, <2>2, JobFresh
<1>4. CASE ckpt # None
  <2>1. ckpt \in Jobs
    BY <1>4 DEF PublicationTypeOK
  <2>2. /\ j \in Jobs /\ j.pending = ckpt.pending /\ j.error = ckpt.error
            /\ j.completed \subseteq ckpt.completed
        /\ \A d \in j.completed : account \subseteq guidance'.holdings
    BY <1>2, <1>4, <2>1, JobRestored
  <2> HIDE DEF j
  <2>3. /\ Publication!Rejected(j) \in Jobs /\ Publication!Rejected(j).pending = j.pending
        /\ Publication!Rejected(j).completed = j.completed
    BY <2>2, JobRejected
  <2> QED
    BY <1>1, <1>4, <2>2, <2>3
<1> QED
  BY <1>3, <1>4

(* Every step keeps the types of the variables.                            *)
LEMMA PublicationTyped ==
  ASSUME PublicationTypeOK, InRange, Notified, Bundled, Publication!Next
  PROVE  PublicationTypeOK'
<1> USE DEF PublicationTypeOK
<1>1. CASE Publication!Morning \/ Publication!CalendarEnds \/ Publication!Stop
  BY <1>1 DEF Publication!Morning, Publication!CalendarEnds, Publication!Stop, Publication!files,
     Publication!counters, Publication!notifier, Publication!clock
<1>15. CASE Publication!Close
  BY <1>15 DEF Publication!Close, Publication!files, Publication!counters, Publication!notifier
<1>2. CASE Publication!BackoffOver
  <2>1. \A j \in Jobs : [j EXCEPT !.backoff = FALSE] \in Jobs
    BY DEF Jobs
  <2> QED
    BY <1>2, <2>1 DEF Publication!BackoffOver, Publication!files, Publication!counters,
       Publication!notifier, Publication!clock
<1>3. CASE Publication!CalendarFailure
  <2>1. \A e \in {"CALENDAR_UNAVAILABLE", "CHECKPOINT_WRITE_FAILED"} :
           [job EXCEPT !.status = "BLOCKED", !.error = e] \in Jobs
    BY DEF Jobs, Publication!Errors
  <2>2. runner' \in Runners
    BY <1>3 DEF Publication!CalendarFailure, Publication!Goto, Runners
  <2> QED
    BY <1>3, <2>1, <2>2 DEF Publication!CalendarFailure, Publication!SavedOr, Publication!files,
       Publication!counters, Publication!notifier, Publication!clock
<1>4. CASE Publication!Begin
  <2>1. Publication!Target \in Nat
    BY <1>4 DEF Publication!Begin, Publication!Target, Jobs, Sessions
  <2>2. runner' \in Runners
    BY <1>4, <2>1 DEF Publication!Begin, Publication!Goto, Publication!NoRunner, Runners, Sessions
  <2>3. job' \in Jobs /\ ckpt' \in {None} \union Jobs
    <3>1. Publication!Begun(job, Publication!Target) \in Jobs
      BY <2>1, JobSteps
    <3>2. Publication!Unsaved(Publication!Begun(job, Publication!Target), Publication!Target)
              \in Jobs
      BY <2>1, <3>1, JobRequests
    <3> QED
      BY <1>4, <3>1, <3>2 DEF Publication!Begin
  <2> QED
    BY <1>4, <2>2, <2>3 DEF Publication!Begin, Publication!files,
       Publication!counters, Publication!notifier, Publication!clock
<1>5. CASE Publication!InitialSkipped \/ Publication!Recover \/ Publication!ReadHoldings
  <2>1. runner' \in Runners
    BY <1>5 DEF Publication!InitialSkipped, Publication!Recover, Publication!ReadHoldings,
       Publication!Goto, Runners
  <2> QED
    BY <1>5, <2>1 DEF Publication!InitialSkipped, Publication!Recover, Publication!ReadHoldings,
       Publication!files, Publication!counters, Publication!notifier, Publication!clock
<1>6. CASE Publication!Fetch \/ Publication!ReplaceSignals \/ Publication!ReplaceGuidance
  <2>1. runner' \in Runners
    BY <1>6 DEF Publication!Fetch, Publication!ReplaceSignals, Publication!ReplaceGuidance,
       Publication!Goto, Runners
  <2>2. signals' \in Publication!Bundles /\ guidance' \in Publication!Bundles
            /\ published' \in SUBSET Publication!Bundles
    BY <1>6 DEF Publication!Fetch, Publication!ReplaceSignals, Publication!ReplaceGuidance,
       Publication!Persisted, Bundled, Underway, Publication!files
  <2> QED
    BY <1>6, <2>1, <2>2 DEF Publication!Fetch, Publication!ReplaceSignals,
       Publication!ReplaceGuidance, Publication!files, Publication!counters, Publication!notifier,
       Publication!clock
<1>7. CASE Publication!Commit \/ Publication!UnlinkJournal
  <2>1. runner' \in Runners
    BY <1>7 DEF Publication!Commit, Publication!UnlinkJournal, Publication!Goto, Runners
  <2>2. journal' \in {None} \union Publication!Bundles
            /\ live' \in [signals : Publication!Bundles, guidance : Publication!Bundles]
    BY <1>7 DEF Publication!Commit, Publication!UnlinkJournal, Publication!Loaded,
       Publication!Bundles, Runners, InRange
  <2> QED
    BY <1>7, <2>1, <2>2 DEF Publication!Commit, Publication!UnlinkJournal,
       Publication!files, Publication!counters, Publication!notifier, Publication!clock
<1>8. CASE Publication!RunEnds
  <2>1. runner.target \in Nat /\ runner.stale \in BOOLEAN
    BY <1>8 DEF Publication!RunEnds, InRange, Runners
  <2>2. Publication!Outcome \in Jobs
            /\ Publication!Unsaved(Publication!Outcome, runner.target) \in Jobs
    BY <1>8, <2>1, JobSucceeds, JobFails, JobRequests DEF Publication!RunEnds, Publication!Outcome
  <2>3. runner' \in Runners
    BY <1>8 DEF Publication!RunEnds, Publication!NoRunner, Runners, Sessions
  <2> QED
    BY <1>8, <2>2, <2>3 DEF Publication!RunEnds, Publication!SavedOr,
       Publication!files, Publication!counters, Publication!notifier, Publication!clock
<1>9. CASE Publication!NoteRead \/ Publication!NoteUpdate \/ Publication!NoteClock
  <2>1. note' \in Notices /\ notes' \in Nat
    <3>1. Publication!NoteEnds /\ note.pc # "idle" => note' \in Notices /\ notes' \in Nat
      BY DEF Publication!NoteEnds, Publication!NoNote, Notices, Sessions, Notified
    <3>2. CASE Publication!NoteRead
      BY <3>2 DEF Publication!NoteRead, Publication!NoNote, Notices, Sessions
    <3>3. CASE Publication!NoteUpdate
      BY <3>1, <3>3 DEF Publication!NoteUpdate, Notices
    <3>4. CASE Publication!NoteClock
      BY <3>1, <3>4 DEF Publication!NoteClock, Notices, Sessions
    <3> QED
      BY <1>9, <3>2, <3>3, <3>4
  <2>2. symbols' \in SUBSET Stocks
    BY <1>9 DEF Publication!NoteRead, Publication!NoteUpdate, Publication!NoteClock, Notices
  <2> QED
    BY <1>9, <2>1, <2>2 DEF Publication!NoteRead, Publication!NoteUpdate, Publication!NoteClock,
       Publication!files, Publication!counters, Publication!clock
<1>10. CASE Publication!NoteRequest
  <2>1. note' \in Notices /\ notes' \in Nat
    BY <1>10 DEF Publication!NoteRequest, Notices, Sessions, Publication!NoNote,
       Publication!NoteEnds, Notified
  <2>2. job' \in Jobs /\ ckpt' \in {None} \union Jobs /\ runner' \in Runners
    <3>1. Publication!Requested(job, note.target) \in Jobs
      BY <1>10, JobRequests DEF Publication!NoteRequest, InRange
    <3>2. [runner EXCEPT !.stale = TRUE] \in Runners
      BY DEF Runners
    <3> QED
      BY <1>10, <3>1, <3>2 DEF Publication!NoteRequest, Publication!RequestAt, Publication!SavedOr
  <2> QED
    BY <1>10, <2>1, <2>2 DEF Publication!NoteRequest, Publication!files, Publication!counters,
       Publication!clock
<1>11. CASE Publication!Review
  <2> DEFINE lifted == [job EXCEPT !.blocked = None, !.status = "PENDING", !.error = None]
  <2>1. lifted \in Jobs
    BY DEF Jobs, Sessions
  <2> HIDE DEF lifted
  <2>2. /\ IF calendar THEN Publication!RequestAt(lifted, latest)
                       ELSE job' = lifted /\ UNCHANGED <<ckpt, runner>>
        /\ UNCHANGED <<latest, closed, calendar, account, signals, guidance, journal, up, stop,
                       symbols, live, note, notes, published>>
    BY <1>11 DEF Publication!Review, lifted, Publication!files, Publication!clock,
       Publication!notifier
  <2>3. job' \in Jobs /\ ckpt' \in {None} \union Jobs /\ runner' \in Runners
    <3>1. Publication!Requested(lifted, latest) \in Jobs
      BY <2>1, JobRequests
    <3>2. [runner EXCEPT !.stale = TRUE] \in Runners
      BY DEF Runners
    <3> QED
      BY <2>1, <2>2, <3>1, <3>2 DEF Publication!RequestAt, Publication!SavedOr
  <2> QED
    BY <2>2, <2>3
<1>12. ASSUME NEW held \in SUBSET Stocks, Publication!AccountChanges(held)
       PROVE  PublicationTypeOK'
  BY <1>12 DEF Publication!AccountChanges, Publication!files, Publication!clock
<1>13. CASE Publication!Ends
  BY <1>13, JobFresh DEF Publication!Ends, Publication!files, Publication!clock,
     Publication!NoRunner, Publication!NoNote, Publication!Empty, Runners, Notices,
     Publication!Bundles, Sessions
<1>14. CASE Publication!Start
  <2>1. signals' \in Publication!Bundles /\ guidance' \in Publication!Bundles /\ journal' = None
    BY <1>14 DEF Publication!Start, Publication!RecoveredFile
  <2>2. job' \in Jobs
    BY <1>14, JobStarts
  <2>3. runner' \in Runners
    <3>1. Publication!NoRunner \in Runners
              /\ [Publication!NoRunner EXCEPT !.pc = "initial"] \in Runners
      BY DEF Publication!NoRunner, Runners, Sessions
    <3> QED
      BY <1>14, <3>1 DEF Publication!Start
  <2>4. live' \in [signals : Publication!Bundles, guidance : Publication!Bundles]
            /\ published' \in SUBSET Publication!Bundles
    BY <1>14, <2>1 DEF Publication!Start, Publication!Loaded
  <2> QED
    BY <1>14, <2>1, <2>2, <2>3, <2>4 DEF Publication!Start, Publication!counters,
       Publication!notifier
<1> QED
  BY <1>1, <1>2, <1>3, <1>4, <1>5, <1>6, <1>7, <1>8, <1>9, <1>10, <1>11, <1>12, <1>13, <1>14, <1>15
     DEF Publication!Next, Publication!Run, Publication!Notify

(* What a step makes of the sessions the job and its checkpoint name.      *)
LEMMA JobAfter ==
  ASSUME PublicationTypeOK, InRange, Publication!Next
  PROVE  /\ \A d \in job'.completed :
               \/ d \in job.completed
               \/ Publication!RunEnds /\ runner.pc = "finish" /\ ~ runner.stale /\ d = runner.target
               \/ Publication!Start /\ ckpt # None /\ d \in ckpt.completed
         /\ \/ job'.pending \in {None, job.pending, latest}
            \/ job'.pending \in {runner.target, note.target} /\ job'.pending \in Nat
                      /\ job'.pending <= latest
            \/ Publication!Start /\ ckpt # None /\ job'.pending = ckpt.pending
         /\ \/ ckpt' = ckpt \/ ckpt' = job'
            \/ ckpt # None /\ ckpt'.completed = ckpt.completed /\ ckpt'.pending = ckpt.pending
<1> USE DEF PublicationTypeOK
<1>1. CASE UNCHANGED <<job, ckpt>>
  BY <1>1
<1>2. CASE Publication!BackoffOver
  BY <1>2 DEF Publication!BackoffOver, Jobs
<1>3. CASE Publication!CalendarFailure
  BY <1>3 DEF Publication!CalendarFailure, Publication!SavedOr, Jobs
<1>4. CASE Publication!Begin
  <2> DEFINE d == Publication!Target
  <2>1. d \in {latest, job.pending} /\ d \in Nat
    BY <1>4 DEF Publication!Begin, Publication!Target, Jobs, Sessions
  <2> DEFINE j == Publication!Begun(job, d)
  <2>2. \/ job' = j /\ ckpt' = j
        \/ job' = Publication!Unsaved(j, d) /\ ckpt' = ckpt
    BY <1>4 DEF Publication!Begin
  <2> HIDE DEF d
  <2>3. j \in Jobs /\ j.completed = job.completed /\ j.pending = d
    BY <2>1, JobSteps
  <2> HIDE DEF j
  <2>4. Publication!Unsaved(j, d).completed = j.completed \ {d}
            /\ Publication!Unsaved(j, d).pending = d
    BY <2>1, <2>3, JobRequests
  <2> QED
    BY <2>1, <2>2, <2>3, <2>4
<1>5. CASE Publication!RunEnds
  <2> DEFINE d == runner.target
  <2> DEFINE j == Publication!Outcome
  <2>1. d \in Nat /\ d <= latest /\ runner.stale \in BOOLEAN
    BY <1>5 DEF Publication!RunEnds, InRange, Runners
  <2>2. \/ job' = j /\ ckpt' = j
        \/ job' = Publication!Unsaved(j, d) /\ ckpt' = ckpt
    BY <1>5 DEF Publication!RunEnds, Publication!SavedOr
  <2>3. /\ j \in Jobs /\ j.pending \in {None, job.pending}
        /\ j.completed \subseteq job.completed
              \union (IF runner.pc = "finish" /\ ~ runner.stale THEN {d} ELSE {})
    <3>1. CASE runner.pc = "finish"
      <4>1. Publication!Outcome = Publication!Succeeded(job, d, runner.stale)
        BY <3>1 DEF Publication!Outcome
      <4>2. d \in Nat /\ runner.stale \in BOOLEAN /\ job \in Jobs
        BY <2>1
      <4> HIDE DEF d
      <4>3. /\ Publication!Succeeded(job, d, runner.stale) \in Jobs
            /\ Publication!Succeeded(job, d, runner.stale).completed \subseteq job.completed
                      \union {d}
            /\ runner.stale => Publication!Succeeded(job, d, runner.stale).completed = job.completed
            /\ Publication!Succeeded(job, d, runner.stale).pending \in {None, job.pending}
        BY <4>2, JobSucceeds
      <4> QED
        BY <3>1, <4>1, <4>3
    <3>2. CASE runner.pc = "failed"
      BY <2>1, <3>2, JobFails DEF Publication!Outcome
    <3>3. CASE runner.pc = "denied"
      BY <2>1, <3>3, JobFails DEF Publication!Outcome
    <3> QED
      BY <1>5, <3>1, <3>2, <3>3 DEF Publication!RunEnds
  <2>8. d \in Nat /\ j \in Jobs
    BY <2>1, <2>3
  <2> HIDE DEF d, j
  <2>4. Publication!Unsaved(j, d).completed = j.completed \ {d}
            /\ Publication!Unsaved(j, d).pending = d
    <3>1. \A k \in Jobs : \A e \in Nat :
             /\ Publication!Unsaved(k, e).completed = k.completed \ {e}
             /\ Publication!Unsaved(k, e).pending = e
      BY JobRequests
    <3> QED
      BY <2>8, <3>1
  <2>7. d = runner.target
    BY DEF d
  <2>5. CASE job' = j /\ ckpt' = j
    BY <1>5, <2>3, <2>5, <2>7
  <2>6. CASE job' = Publication!Unsaved(j, d) /\ ckpt' = ckpt
    BY <1>5, <2>1, <2>3, <2>4, <2>6, <2>7
  <2> QED
    BY <2>2, <2>5, <2>6
<1>6. CASE Publication!NoteRequest
  <2> DEFINE d == note.target
  <2> DEFINE j == Publication!Requested(job, d)
  <2>1. d \in Nat /\ d <= latest
    BY <1>6 DEF Publication!NoteRequest, InRange
  <2>2. UNCHANGED <<job, ckpt>> \/ (job' = j /\ (ckpt' = job' \/ ckpt' = ckpt))
    BY <1>6 DEF Publication!NoteRequest, Publication!RequestAt, Publication!SavedOr
  <2>4. d = note.target
    OBVIOUS
  <2> HIDE DEF d
  <2>3. j.completed = job.completed \ {d} /\ j.pending = d
    BY <2>1, JobRequests
  <2> HIDE DEF j
  <2> QED
    BY <2>1, <2>2, <2>3, <2>4
<1>7. CASE Publication!Review
  <2> DEFINE lifted == [job EXCEPT !.blocked = None, !.status = "PENDING", !.error = None]
  <2> DEFINE j == Publication!Requested(lifted, latest)
  <2>1. lifted \in Jobs /\ lifted.completed = job.completed /\ lifted.pending = job.pending
    BY DEF Jobs, Sessions
  <2>2. (job' = lifted /\ ckpt' = ckpt) \/ (job' = j /\ (ckpt' = job' \/ ckpt' = ckpt))
    BY <1>7 DEF Publication!Review, Publication!RequestAt, Publication!SavedOr
  <2> HIDE DEF lifted
  <2>3. j.completed = lifted.completed \ {latest} /\ j.pending = latest
    BY <2>1, JobRequests
  <2> HIDE DEF j
  <2> QED
    BY <2>1, <2>2, <2>3
<1>8. CASE Publication!Ends
  BY <1>8 DEF Publication!Ends, Publication!FreshJob
<1>9. CASE Publication!Start
  BY <1>9, JobStarts DEF Publication!Start
<1> QED
  BY <1>1, <1>2, <1>3, <1>4, <1>5, <1>6, <1>7, <1>8, <1>9 DEF Publication!Next, Publication!Run,
     Publication!Notify, Publication!Morning, Publication!Close, Publication!CalendarEnds,
     Publication!InitialSkipped, Publication!Recover, Publication!ReadHoldings, Publication!Fetch,
     Publication!Commit, Publication!ReplaceSignals, Publication!ReplaceGuidance,
     Publication!UnlinkJournal, Publication!NoteRead, Publication!NoteUpdate, Publication!NoteClock,
     Publication!AccountChanges, Publication!Stop

(* No step works on a session to come.                                     *)
LEMMA StaysInRange ==
  ASSUME PublicationTypeOK, InRange, Publication!Next
  PROVE  InRange'
<1>1. latest \in Nat /\ latest' \in Nat /\ latest <= latest'
  BY DEF PublicationTypeOK, Publication!Next, Publication!Run, Publication!Notify,
     Publication!Morning, Publication!Close, Publication!CalendarEnds, Publication!BackoffOver,
     Publication!CalendarFailure, Publication!Begin, Publication!InitialSkipped,
     Publication!Recover, Publication!ReadHoldings, Publication!Fetch, Publication!Commit,
     Publication!ReplaceSignals, Publication!ReplaceGuidance, Publication!UnlinkJournal,
     Publication!RunEnds, Publication!NoteRead, Publication!NoteUpdate, Publication!NoteClock,
     Publication!NoteRequest, Publication!Review, Publication!AccountChanges, Publication!Stop,
     Publication!Ends, Publication!Start, Publication!clock
<1>2. \A d \in Nat : d <= latest => d <= latest'
  BY <1>1
<1>3. NotAhead(job)'
  <2>1. \A d \in job'.completed : d \in Nat /\ d <= latest
    BY JobAfter DEF InRange, NotAhead, PublicationTypeOK, Jobs, Publication!RunEnds
  <2>2. job'.pending # None => job'.pending \in Nat /\ job'.pending <= latest
    BY JobAfter, <1>1 DEF InRange, NotAhead, PublicationTypeOK, Jobs, Sessions
  <2> QED
    BY <1>2, <2>1, <2>2 DEF NotAhead
<1>4. (ckpt # None => NotAhead(ckpt))'
  <2>1. CASE ckpt' = job'
    BY <1>3, <2>1 DEF NotAhead
  <2>2. CASE ckpt # None /\ ckpt'.completed = ckpt.completed /\ ckpt'.pending = ckpt.pending
    BY <1>2, <2>2 DEF InRange, NotAhead, PublicationTypeOK, Jobs, Sessions
  <2>3. CASE ckpt' = None /\ ckpt = None
    BY <2>3
  <2> QED
    BY <2>1, <2>2, <2>3, JobAfter
<1>5. (runner.pc \notin {"off", "initial", "idle"}
          => runner.target \in Nat /\ runner.target <= latest)'
  <2>1. CASE Publication!Begin
    <3>1. Publication!Target \in Nat /\ Publication!Target <= latest
      BY <2>1 DEF Publication!Begin, Publication!Target, InRange, NotAhead, PublicationTypeOK, Jobs,
         Sessions
    <3>2. runner'.pc \in {"off", "initial", "idle"} \/ runner'.target = Publication!Target
      BY <2>1 DEF Publication!Begin, Publication!NoRunner, Publication!Goto, PublicationTypeOK,
         Runners
    <3> QED
      BY <1>2, <3>1, <3>2
  <2>2. CASE runner'.target = runner.target
             /\ (runner.pc \in {"off", "initial", "idle"}
                       => runner'.pc \in {"off", "initial", "idle"})
    BY <1>2, <2>2 DEF InRange
  <2>3. CASE runner'.pc \in {"off", "initial", "idle"}
    BY <2>3
  <2>4. CASE UNCHANGED runner
    BY <2>2, <2>4
  <2>5. CASE \/ Publication!InitialSkipped \/ Publication!Recover \/ Publication!ReadHoldings
             \/ Publication!Fetch \/ Publication!Commit
    BY <2>2, <2>5 DEF Publication!InitialSkipped, Publication!Recover, Publication!ReadHoldings,
       Publication!Fetch, Publication!Commit, Publication!Goto, PublicationTypeOK, Runners
  <2>6. CASE \/ Publication!ReplaceSignals \/ Publication!ReplaceGuidance
            \/ Publication!UnlinkJournal
             \/ Publication!NoteRequest \/ Publication!Review \/ Publication!CalendarFailure
    BY <2>2, <2>4, <2>6 DEF Publication!ReplaceSignals, Publication!ReplaceGuidance,
       Publication!UnlinkJournal, Publication!NoteRequest, Publication!Review,
       Publication!RequestAt, Publication!CalendarFailure, Publication!Goto, PublicationTypeOK,
       Runners
  <2>7. CASE Publication!RunEnds \/ Publication!Ends \/ Publication!Start
    BY <2>3, <2>7 DEF Publication!RunEnds, Publication!Ends, Publication!Start, Publication!NoRunner
  <2> QED
    BY <2>1, <2>4, <2>5, <2>6, <2>7 DEF Publication!Next, Publication!Run, Publication!Notify,
       Publication!Morning, Publication!Close, Publication!CalendarEnds, Publication!BackoffOver,
       Publication!NoteRead, Publication!NoteUpdate, Publication!NoteClock,
       Publication!AccountChanges, Publication!Stop
<1>6. (note.pc = "request" => note.target \in Nat /\ note.target <= latest)'
  <2>1. CASE UNCHANGED note
    BY <1>2, <2>1 DEF InRange
  <2>2. CASE note'.pc # "request"
    BY <2>2
  <2>3. CASE Publication!NoteClock
    <3>1. note' = [note EXCEPT !.pc = "request", !.target = latest] \/ note' = Publication!NoNote
      BY <2>3 DEF Publication!NoteClock, Publication!NoteEnds
    <3>2. latest' = latest /\ note \in Notices
      BY <2>3 DEF Publication!NoteClock, Publication!clock, PublicationTypeOK
    <3>3. note'.pc = "request" => note'.target = latest
      <4>1. CASE note' = Publication!NoNote
        BY <4>1 DEF Publication!NoNote
      <4>2. CASE note' = [note EXCEPT !.pc = "request", !.target = latest]
        BY <3>2, <4>2 DEF Notices
      <4> QED
        BY <3>1, <4>1, <4>2
    <3> QED
      BY <1>1, <3>2, <3>3
  <2>4. CASE \/ Publication!NoteRead \/ Publication!NoteUpdate \/ Publication!NoteRequest
             \/ Publication!Ends
    <3>1. \/ note' = Publication!NoNote \/ note' = [note EXCEPT !.pc = "clock"]
          \/ note' = [Publication!NoNote EXCEPT !.pc = "update", !.symbols = account]
      BY <2>4 DEF Publication!NoteRead, Publication!NoteUpdate, Publication!NoteRequest,
         Publication!Ends, Publication!NoteEnds
    <3>2. note \in Notices
      BY DEF PublicationTypeOK
    <3>3. note'.pc # "request"
      <4>1. CASE note' = Publication!NoNote
        BY <4>1 DEF Publication!NoNote
      <4>2. CASE note' = [note EXCEPT !.pc = "clock"]
        BY <3>2, <4>2 DEF Notices
      <4>3. CASE note' = [Publication!NoNote EXCEPT !.pc = "update", !.symbols = account]
        BY <4>3 DEF Publication!NoNote
      <4> QED
        BY <3>1, <4>1, <4>2, <4>3
    <3> QED
      BY <2>2, <3>3
  <2> QED
    BY <2>1, <2>3, <2>4 DEF Publication!Next, Publication!Run, Publication!Notify,
       Publication!Morning, Publication!Close, Publication!CalendarEnds, Publication!BackoffOver,
       Publication!CalendarFailure, Publication!Begin, Publication!InitialSkipped,
       Publication!Recover, Publication!ReadHoldings, Publication!Fetch, Publication!Commit,
       Publication!ReplaceSignals, Publication!ReplaceGuidance, Publication!UnlinkJournal,
       Publication!RunEnds, Publication!Review, Publication!AccountChanges, Publication!Stop,
       Publication!Start, Publication!notifier
<1> QED
  BY <1>3, <1>4, <1>5, <1>6 DEF InRange

(* The two files go through the journal, and the view in memory follows.   *)
LEMMA StaysBundled ==
  ASSUME PublicationTypeOK, InRange, Bundled, Publication!Next
  PROVE  Bundled'
<1> USE DEF Bundled, Underway
<1>1. CASE \/ Publication!Morning \/ Publication!Close \/ Publication!CalendarEnds
           \/ Publication!BackoffOver \/ Publication!Notify \/ Publication!Review
           \/ (\E held \in SUBSET Stocks : Publication!AccountChanges(held)) \/ Publication!Stop
  <2>1. /\ UNCHANGED <<signals, guidance, journal, live, up>>
        /\ runner' = runner \/ runner' = [runner EXCEPT !.stale = TRUE]
    BY <1>1 DEF Publication!Morning, Publication!Close, Publication!CalendarEnds,
       Publication!BackoffOver, Publication!Notify, Publication!NoteRead, Publication!NoteUpdate,
       Publication!NoteClock, Publication!NoteRequest, Publication!Review, Publication!RequestAt,
       Publication!AccountChanges, Publication!Stop, Publication!files
  <2>2. runner'.pc = runner.pc /\ runner'.recovering = runner.recovering
    BY <2>1 DEF PublicationTypeOK, Runners
  <2> QED
    BY <2>1, <2>2
<1>2. CASE Publication!CalendarFailure \/ Publication!Begin \/ Publication!InitialSkipped
          \/ Publication!RunEnds
  <2>1. /\ UNCHANGED <<signals, guidance, journal, live, up>>
        /\ runner'.pc \in {"idle", "read"} /\ (~ up => FALSE)
    BY <1>2 DEF Publication!CalendarFailure, Publication!Begin, Publication!InitialSkipped,
       Publication!RunEnds, Publication!Goto, Publication!NoRunner, Publication!files,
       PublicationTypeOK, Runners
  <2>2. ~ runner'.recovering
    BY <1>2 DEF Publication!CalendarFailure, Publication!Begin, Publication!InitialSkipped,
       Publication!RunEnds, Publication!Goto, Publication!NoRunner, PublicationTypeOK, Runners
  <2> QED
    BY <2>1, <2>2
<1>3. CASE Publication!Recover \/ Publication!ReadHoldings
  <2>1. UNCHANGED <<signals, guidance, journal, live, up>> /\ up
    BY <1>3 DEF Publication!Recover, Publication!ReadHoldings, Publication!files
  <2>2. /\ \/ runner'.pc = "signals" /\ journal # None
           \/ runner'.pc = "fetch" /\ journal = None /\ runner'.recovering = runner.recovering
        /\ runner.pc = "read"
    BY <1>3 DEF Publication!Recover, Publication!ReadHoldings, PublicationTypeOK, Runners
  <2> QED
    BY <2>1, <2>2
<1>4. CASE Publication!Fetch
  <2>1. signals' = signals
    BY <1>4 DEF Publication!Fetch, Publication!Persisted
  <2>2. /\ UNCHANGED <<guidance, journal, live, up>> /\ runner.pc = "fetch"
        /\ runner'.pc \in {"commit", "failed", "denied"} /\ runner'.recovering = runner.recovering
    BY <1>4 DEF Publication!Fetch, Publication!Goto, PublicationTypeOK, Runners
  <2> QED
    BY <2>1, <2>2
<1>5. CASE Publication!Commit
  <2>1. UNCHANGED <<signals, guidance, live, up>> /\ runner.pc = "commit"
            /\ runner'.recovering = runner.recovering
    BY <1>5 DEF Publication!Commit, Publication!Goto, PublicationTypeOK, Runners
  <2>2. \/ runner'.pc = "failed" /\ journal' = journal
        \/ /\ runner'.pc = "signals"
           /\ journal' = [day |-> runner.target, holdings |-> runner.holdings]
    BY <1>5 DEF Publication!Commit, Publication!Goto, PublicationTypeOK, Runners
  <2>3. [day |-> runner.target, holdings |-> runner.holdings] # None
    <3>1. [day |-> runner.target, holdings |-> runner.holdings] \in Publication!Bundles
      BY <1>5 DEF Publication!Commit, PublicationTypeOK, InRange, Runners, Publication!Bundles
    <3> QED
      BY <3>1, NoneIsNoBundle
  <2> QED
    BY <2>1, <2>2, <2>3
<1>6. CASE Publication!ReplaceSignals
  <2>1. /\ UNCHANGED <<guidance, journal, live, up>> /\ runner.pc = "signals"
        /\ runner'.recovering = runner.recovering
        /\ \/ runner'.pc = "guidance" /\ signals' = journal
           \/ runner'.pc \in {"failed", "denied"} /\ signals' = signals
    BY <1>6 DEF Publication!ReplaceSignals, Publication!Goto, PublicationTypeOK, Runners
  <2> QED
    BY <2>1
<1>7. CASE Publication!ReplaceGuidance
  <2>1. /\ UNCHANGED <<signals, journal, live, up>> /\ runner.pc = "guidance"
        /\ runner'.recovering = runner.recovering
        /\ \/ runner'.pc = "unlink" /\ guidance' = journal
           \/ runner'.pc \in {"failed", "denied"} /\ guidance' = guidance
    BY <1>7 DEF Publication!ReplaceGuidance, Publication!Goto, PublicationTypeOK, Runners
  <2> QED
    BY <2>1
<1>8. CASE Publication!UnlinkJournal
  <2>1. /\ UNCHANGED <<signals, guidance, up>> /\ runner.pc = "unlink"
        /\ \/ /\ runner'.pc \in {"read", "finish"} /\ ~ runner'.recovering
              /\ journal' = None /\ live' = [signals |-> signals, guidance |-> guidance]
           \/ /\ runner'.pc \in {"failed", "denied"} /\ runner'.recovering = runner.recovering
              /\ UNCHANGED <<journal, live>>
    BY <1>8 DEF Publication!UnlinkJournal, Publication!Goto, Publication!Loaded, PublicationTypeOK,
       Runners
  <2> QED
    BY <2>1
<1>9. CASE Publication!Ends
  BY <1>9 DEF Publication!Ends, Publication!NoRunner, Publication!files
<1>10. CASE Publication!Start
  <2>1. /\ signals' = guidance' /\ journal' = None /\ up'
        /\ live' = [signals |-> signals', guidance |-> guidance']
    BY <1>10 DEF Publication!Start, Publication!RecoveredFile, Publication!Loaded
  <2>2. runner'.pc \in {"initial", "off"} /\ ~ runner'.recovering
    BY <1>10 DEF Publication!Start, Publication!NoRunner
  <2> QED
    BY <2>1, <2>2
<1> QED
  BY <1>1, <1>2, <1>3, <1>4, <1>5, <1>6, <1>7, <1>8, <1>9, <1>10 DEF Publication!Next,
     Publication!Run

(* What is called completed was in place, and bundles once in place are    *)
(* remembered.                                                             *)
LEMMA StaysFounded ==
  ASSUME PublicationTypeOK, InRange, Bundled, Founded, Publication!Next
  PROVE  Founded'
<1>1. CASE Publication!ReplaceGuidance \/ Publication!Start
  <2>1. published \subseteq published'
    BY <1>1 DEF Publication!ReplaceGuidance, Publication!Start
  <2>2. \A d : InPlace(d) => InPlace(d)'
    BY <2>1 DEF InPlace
  <2>3. CASE Publication!ReplaceGuidance
    <3>1. UNCHANGED <<job, ckpt, journal>> /\ runner.pc = "guidance"
      BY <2>3 DEF Publication!ReplaceGuidance
    <3>2. runner'.target = runner.target /\ runner'.holdings = runner.holdings
          /\ runner'.recovering = runner.recovering
      BY <2>3 DEF Publication!ReplaceGuidance, Publication!Goto, PublicationTypeOK, Runners
    <3>3. \/ runner'.pc = "unlink" /\ journal \in published'
          \/ runner'.pc \in {"failed", "denied"}
      BY <2>3 DEF Publication!ReplaceGuidance, Publication!Goto, PublicationTypeOK, Runners
    <3> QED
      BY <2>2, <3>1, <3>2, <3>3 DEF Founded, Underway
  <2>4. CASE Publication!Start
    <3>1. runner'.pc \in {"initial", "off"}
      BY <2>4 DEF Publication!Start, Publication!NoRunner
    <3>2. ckpt' = ckpt /\ \A d \in job'.completed : ckpt # None /\ d \in ckpt.completed
      BY <2>4, JobStarts DEF Publication!Start
    <3> QED
      BY <2>2, <3>1, <3>2 DEF Founded, Underway
  <2> QED
    BY <1>1, <2>3, <2>4
<1>2. CASE ~ (Publication!ReplaceGuidance \/ Publication!Start)
  <2>1. published' = published
    BY <1>2 DEF Publication!Next, Publication!Run, Publication!Notify, Publication!Morning,
       Publication!Close, Publication!CalendarEnds, Publication!BackoffOver,
       Publication!CalendarFailure, Publication!Begin, Publication!InitialSkipped,
       Publication!Recover, Publication!ReadHoldings, Publication!Fetch, Publication!Commit,
       Publication!ReplaceSignals, Publication!UnlinkJournal, Publication!RunEnds,
       Publication!NoteRead, Publication!NoteUpdate, Publication!NoteClock, Publication!NoteRequest,
       Publication!Review, Publication!AccountChanges, Publication!Stop, Publication!Ends
  <2>2. \A d : InPlace(d)' <=> InPlace(d)
    BY <2>1 DEF InPlace
  <2>3. \A d \in job'.completed : InPlace(d)'
    BY <1>2, <2>2, JobAfter DEF Founded
  <2>4. ckpt' # None => \A d \in ckpt'.completed : InPlace(d)'
    BY <2>2, <2>3, JobAfter DEF Founded
  <2>5. /\ (runner.pc = "unlink" => journal \in published)'
        /\ (Underway /\ ~ runner.recovering =>
               journal.day = runner.target /\ journal.holdings = runner.holdings)'
        /\ (runner.pc = "finish" => InPlace(runner.target) /\ guidance.holdings = runner.holdings)'
    <3>1. CASE /\ UNCHANGED <<journal, guidance>>
               /\ \/ runner' = runner \/ runner' = [runner EXCEPT !.stale = TRUE]
      <4>1. /\ runner'.pc = runner.pc /\ runner'.target = runner.target
            /\ runner'.holdings = runner.holdings /\ runner'.recovering = runner.recovering
        BY <3>1 DEF PublicationTypeOK, Runners
      <4> QED
        BY <3>1, <4>1, <2>1, <2>2 DEF Founded, Underway
    <3>2. CASE runner'.pc \notin {"signals", "guidance", "unlink", "finish"}
      BY <3>2 DEF Underway
    <3>3. CASE Publication!Recover
      <4>1. runner'.pc = "signals" /\ runner'.recovering
        BY <3>3 DEF Publication!Recover, PublicationTypeOK, Runners
      <4> QED
        BY <4>1 DEF Underway
    <3>4. CASE Publication!Commit
      <4>1. \/ runner'.pc = "failed"
            \/ /\ runner'.pc = "signals"
                      /\ journal' = [day |-> runner.target, holdings |-> runner.holdings]
               /\ runner'.target = runner.target /\ runner'.holdings = runner.holdings
        BY <3>4 DEF Publication!Commit, Publication!Goto, PublicationTypeOK, Runners
      <4> QED
        BY <4>1 DEF Underway
    <3>5. CASE Publication!ReplaceSignals
      <4>1. runner.pc = "signals" /\ journal' = journal /\ runner'.target = runner.target
            /\ runner'.holdings = runner.holdings /\ runner'.recovering = runner.recovering
            /\ runner'.pc \in {"guidance", "failed", "denied"}
        BY <3>5 DEF Publication!ReplaceSignals, Publication!Goto, PublicationTypeOK, Runners
      <4> QED
        BY <4>1 DEF Founded, Underway
    <3>6. CASE Publication!UnlinkJournal
      <4>1. /\ runner.pc = "unlink" /\ guidance' = guidance /\ runner'.target = runner.target
            /\ runner'.holdings = runner.holdings
            /\ \/ runner'.pc \in {"read", "failed", "denied"}
               \/ runner'.pc = "finish" /\ ~ runner.recovering
        BY <3>6 DEF Publication!UnlinkJournal, Publication!Goto, PublicationTypeOK, Runners
      <4>2. runner'.pc = "finish" => guidance = journal /\ journal \in published
                                     /\ journal.day = runner.target
                                               /\ journal.holdings = runner.holdings
        BY <4>1 DEF Founded, Underway, Bundled
      <4> QED
        BY <4>1, <4>2, <2>1 DEF InPlace, Underway
    <3>7. CASE \/ Publication!CalendarFailure \/ Publication!Begin \/ Publication!InitialSkipped
               \/ Publication!ReadHoldings \/ Publication!Fetch \/ Publication!RunEnds
                         \/ Publication!Ends
      <4>1. CASE Publication!Begin
        BY <3>2, <4>1 DEF Publication!Begin, Publication!Goto, Publication!NoRunner,
           PublicationTypeOK, Runners
      <4>2. CASE Publication!CalendarFailure \/ Publication!InitialSkipped
                \/ Publication!ReadHoldings
        BY <3>2, <4>2 DEF Publication!CalendarFailure, Publication!InitialSkipped,
           Publication!ReadHoldings, Publication!Goto, PublicationTypeOK, Runners
      <4>3. CASE Publication!Fetch
        BY <3>2, <4>3 DEF Publication!Fetch, Publication!Goto, PublicationTypeOK, Runners
      <4>4. CASE Publication!RunEnds \/ Publication!Ends
        BY <3>2, <4>4 DEF Publication!RunEnds, Publication!Ends, Publication!NoRunner
      <4> QED
        BY <3>7, <4>1, <4>2, <4>3, <4>4
    <3>8. CASE \/ Publication!Morning \/ Publication!Close \/ Publication!CalendarEnds
               \/ Publication!BackoffOver \/ Publication!Notify \/ Publication!Review
               \/ (\E held \in SUBSET Stocks : Publication!AccountChanges(held)) \/ Publication!Stop
      BY <3>1, <3>8 DEF Publication!Morning, Publication!Close, Publication!CalendarEnds,
         Publication!BackoffOver, Publication!Notify, Publication!NoteRead, Publication!NoteUpdate,
         Publication!NoteClock, Publication!NoteRequest, Publication!Review, Publication!RequestAt,
         Publication!AccountChanges, Publication!Stop, Publication!files
    <3> QED
      BY <1>2, <3>3, <3>4, <3>5, <3>6, <3>7, <3>8 DEF Publication!Next, Publication!Run
  <2> QED
    BY <2>3, <2>4, <2>5 DEF Founded
<1> QED
  BY <1>1, <1>2

(* A change of the account waits, is being told, or has been told.         *)
LEMMA StaysNotified ==
  ASSUME PublicationTypeOK, Notified, Publication!Next
  PROVE  Notified'
<1> USE DEF Notified
<1>0. notes \in Nat /\ note \in Notices
  BY DEF PublicationTypeOK
<1>1. CASE Publication!NoteRead
  <2>1. /\ note.pc = "idle" /\ note'.pc = "update" /\ note'.symbols = account /\ notes > 0
        /\ UNCHANGED <<notes, account, up, symbols>>
    BY <1>1 DEF Publication!NoteRead, Publication!NoNote
  <2> QED
    BY <1>0, <2>1
<1>2. CASE Publication!NoteUpdate
  <2>1. /\ note.pc = "update" /\ symbols' = note.symbols /\ UNCHANGED <<account, up>>
        /\ \/ note'.pc = "clock" /\ notes' = notes
           \/ note'.pc = "idle" /\ notes' = notes - 1
    BY <1>0, <1>2 DEF Publication!NoteUpdate, Publication!NoteEnds, Publication!NoNote, Notices
  <2> QED
    BY <1>0, <2>1
<1>3. CASE Publication!NoteClock \/ Publication!NoteRequest
  <2>1. /\ note.pc \in {"clock", "request"} /\ UNCHANGED <<account, up, symbols>>
        /\ \/ note'.pc = "request" /\ notes' = notes
           \/ note'.pc = "idle" /\ notes' = notes - 1
    <3>1. CASE Publication!NoteClock
      <4>1. note.pc = "clock" /\ UNCHANGED <<account, up, symbols>>
        BY <3>1 DEF Publication!NoteClock
      <4>2. CASE calendar
        BY <1>0, <3>1, <4>1, <4>2 DEF Publication!NoteClock, Notices
      <4>3. CASE ~ calendar
        BY <3>1, <4>1, <4>3 DEF Publication!NoteClock, Publication!NoteEnds, Publication!NoNote
      <4> QED
        BY <4>2, <4>3
    <3>2. CASE Publication!NoteRequest
      BY <1>0, <3>2 DEF Publication!NoteRequest, Publication!NoteEnds, Publication!NoNote
    <3> QED
      BY <1>3, <3>1, <3>2
  <2> QED
    BY <1>0, <2>1
<1>4. ASSUME NEW held \in SUBSET Stocks, Publication!AccountChanges(held)
      PROVE  Notified'
  BY <1>0, <1>4 DEF Publication!AccountChanges
<1>5. CASE Publication!Ends
  BY <1>5 DEF Publication!Ends, Publication!NoNote
<1>6. CASE Publication!Start
  <2>1. /\ ~ up /\ up' = TRUE /\ symbols' = account /\ account' = account /\ note' = note
            /\ notes' = notes
    BY <1>6 DEF Publication!Start, Publication!notifier
  <2> QED
    BY <1>0, <2>1
<1>7. CASE UNCHANGED <<note, notes, account, symbols, up>>
  BY <1>7
<1> QED
  BY <1>1, <1>2, <1>3, <1>4, <1>5, <1>6, <1>7 DEF Publication!Next, Publication!Run,
     Publication!Notify, Publication!Morning, Publication!Close, Publication!CalendarEnds,
     Publication!BackoffOver, Publication!CalendarFailure, Publication!Begin,
     Publication!InitialSkipped, Publication!Recover, Publication!ReadHoldings, Publication!Fetch,
     Publication!Commit, Publication!ReplaceSignals, Publication!ReplaceGuidance,
     Publication!UnlinkJournal, Publication!RunEnds, Publication!Review, Publication!Stop,
     Publication!notifier

(* What a record of the job says is wrong with it.                         *)
LEMMA ErrorsKept ==
  ASSUME PublicationTypeOK, InRange, Covering, Publication!Next, up' = up
  PROVE  /\ job'.error = "CHECKPOINT_REJECTED" <=> job.error = "CHECKPOINT_REJECTED"
         /\ ckpt' # None => ckpt'.error # "CHECKPOINT_REJECTED"
         /\ job.error = "CHECKPOINT_REJECTED" => runner'.pc = "off"
<1>0. /\ job \in Jobs /\ runner \in Runners /\ ckpt \in {None} \union Jobs
      /\ job.error = "CHECKPOINT_REJECTED" => runner.pc = "off"
      /\ ckpt # None => ckpt.error # "CHECKPOINT_REJECTED"
  BY DEF PublicationTypeOK, Covering
<1>1. CASE UNCHANGED <<job, ckpt>> /\ (runner' = runner \/ runner.pc # "off")
  BY <1>0, <1>1
<1>2. CASE Publication!BackoffOver
  BY <1>0, <1>2 DEF Publication!BackoffOver, Jobs
<1>3. CASE Publication!CalendarFailure
  BY <1>0, <1>3 DEF Publication!CalendarFailure, Publication!SavedOr, Jobs
<1>4. CASE Publication!Begin
  <2> DEFINE d == Publication!Target
  <2> DEFINE j == Publication!Begun(job, d)
  <2>1. d \in Nat /\ runner.pc # "off"
    BY <1>0, <1>4 DEF Publication!Begin, Publication!Target, PublicationTypeOK, Jobs, Sessions
  <2>2. \/ job' = j /\ ckpt' = j
        \/ job' = Publication!Unsaved(j, d) /\ ckpt' = ckpt
    BY <1>4 DEF Publication!Begin
  <2> HIDE DEF d
  <2>3. j \in Jobs /\ j.error = job.error
    BY <1>0, <2>1, JobSteps
  <2> HIDE DEF j
  <2>4. Publication!Unsaved(j, d).error = "CHECKPOINT_WRITE_FAILED"
    BY <2>1, <2>3, JobRequests
  <2> QED
    BY <1>0, <2>1, <2>2, <2>3, <2>4
<1>5. CASE Publication!RunEnds
  <2> DEFINE d == runner.target
  <2> DEFINE j == Publication!Outcome
  <2>1. d \in Nat /\ runner.pc # "off" /\ runner.stale \in BOOLEAN
    BY <1>0, <1>5 DEF Publication!RunEnds, InRange, Runners
  <2>2. \/ job' = j /\ ckpt' = j
        \/ job' = Publication!Unsaved(j, d) /\ ckpt' = ckpt
    BY <1>5 DEF Publication!RunEnds, Publication!SavedOr
  <2>3. j \in Jobs /\ j.error # "CHECKPOINT_REJECTED"
    <3>1. /\ Publication!Succeeded(job, d, runner.stale) \in Jobs
          /\ Publication!Succeeded(job, d, runner.stale).error = None
      BY <1>0, <2>1, JobSucceeds
    <3>2. /\ Publication!FailedRun(job, runner.stale) \in Jobs
          /\ Publication!FailedRun(job, runner.stale).error = "UPDATE_FAILED"
          /\ Publication!DeniedRun(job, d) \in Jobs
          /\ Publication!DeniedRun(job, d).error = "PERMISSION_DENIED"
      BY <1>0, <2>1, JobFails
    <3>3. None # "CHECKPOINT_REJECTED"
      BY PublicationAssumption DEF Publication!ConstantsAssumption, Publication!Errors
    <3> QED
      BY <3>1, <3>2, <3>3 DEF Publication!Outcome
  <2> HIDE DEF d, j
  <2>4. Publication!Unsaved(j, d).error = "CHECKPOINT_WRITE_FAILED"
    BY <2>1, <2>3, JobRequests
  <2> QED
    BY <1>0, <2>1, <2>2, <2>3, <2>4
<1>6. CASE Publication!NoteRequest
  <2> DEFINE j == Publication!Requested(job, note.target)
  <2>1. \/ UNCHANGED <<job, ckpt, runner>>
        \/ /\ job.error # "CHECKPOINT_REJECTED"
           /\ job' = j /\ (ckpt' = j \/ ckpt' = ckpt)
    BY <1>6 DEF Publication!NoteRequest, Publication!RequestAt, Publication!SavedOr
  <2>2. j.error = job.error
    BY <1>0, <1>6, JobRequests DEF Publication!NoteRequest, InRange
  <2> HIDE DEF j
  <2> QED
    BY <1>0, <2>1, <2>2
<1>7. CASE Publication!Review
  <2> DEFINE lifted == [job EXCEPT !.blocked = None, !.status = "PENDING", !.error = None]
  <2> DEFINE j == Publication!Requested(lifted, latest)
  <2>1. lifted \in Jobs /\ lifted.error = None /\ latest \in Nat
    BY <1>0 DEF Jobs, Sessions, PublicationTypeOK
  <2>2. /\ job.error # "CHECKPOINT_REJECTED"
        /\ \/ job' = lifted /\ ckpt' = ckpt
           \/ job' = j /\ (ckpt' = j \/ ckpt' = ckpt)
    BY <1>7 DEF Publication!Review, Publication!RequestAt, Publication!SavedOr
  <2> HIDE DEF lifted
  <2>3. j.error = None
    BY <2>1, JobRequests
  <2> HIDE DEF j
  <2>4. None # "CHECKPOINT_REJECTED"
    BY PublicationAssumption DEF Publication!ConstantsAssumption, Publication!Errors
  <2> QED
    BY <1>0, <2>1, <2>2, <2>3, <2>4
<1> QED
  BY <1>1, <1>2, <1>3, <1>4, <1>5, <1>6, <1>7 DEF Publication!Next, Publication!Run,
     Publication!Notify, Publication!Morning, Publication!Close, Publication!CalendarEnds,
     Publication!InitialSkipped, Publication!Recover, Publication!ReadHoldings, Publication!Fetch,
     Publication!Commit, Publication!ReplaceSignals, Publication!ReplaceGuidance,
     Publication!UnlinkJournal, Publication!NoteRead, Publication!NoteUpdate, Publication!NoteClock,
     Publication!AccountChanges, Publication!Stop, Publication!Start, Publication!Ends

(* A step that leaves files, holdings and request alone keeps the plans    *)
(* covering.                                                               *)
LEMMA CoveringUntouched ==
  ASSUME PublicationTypeOK, InRange, Covering, Publication!Next,
         UNCHANGED <<up, latest, symbols, guidance, journal>>,
         job'.completed \subseteq job.completed,
         Heard' /\ ~ Requesting' => Heard /\ ~ Requesting,
         \/ runner'.pc \notin {"signals", "guidance", "unlink", "finish"}
         \/ runner'.recovering /\ runner'.pc # "finish"
         \/ /\ runner'.pc = runner.pc \/ (Underway /\ Underway')
            /\ runner'.target = runner.target /\ runner'.holdings = runner.holdings
            /\ runner'.recovering = runner.recovering /\ (~ runner'.stale => ~ runner.stale)
  PROVE  Covering'
<1>1. /\ (job.error = "CHECKPOINT_REJECTED" => runner.pc = "off")'
      /\ (ckpt # None => ckpt.error # "CHECKPOINT_REJECTED")'
  BY ErrorsKept
<1>2. (Underway /\ ~ runner.recovering => symbols = runner.holdings)'
  BY DEF Underway, Covering
<1>3. (Heard /\ ~ Requesting /\ runner.pc = "finish" /\ ~ runner.stale /\ runner.target = latest =>
          symbols = runner.holdings)'
  BY DEF Covering, Underway
<1>4. (Heard /\ ~ Requesting /\ latest \in job.completed =>
          /\ symbols \subseteq guidance.holdings
          /\ journal # None => symbols \subseteq journal.holdings)'
  BY DEF Covering
<1> QED
  BY <1>1, <1>2, <1>3, <1>4 DEF Covering

(* A completed latest session covers the holdings, whatever comes between. *)
LEMMA StaysCovering ==
  ASSUME PublicationTypeOK, InRange, Bundled, Founded, Covering, Publication!Next
  PROVE  Covering'
<1>1. runner \in Runners /\ note \in Notices /\ job \in Jobs /\ latest \in Nat
  BY DEF PublicationTypeOK
<1>2. up' = up => (job'.error = "CHECKPOINT_REJECTED" <=> job.error = "CHECKPOINT_REJECTED")
  BY ErrorsKept
<1>3. up' = up /\ (runner.pc # "finish" \/ runner' = runner)
          => job'.completed \subseteq job.completed
  <2>1. (Publication!RunEnds => runner'.pc = "idle") /\ (Publication!Start => up' # up)
    BY DEF Publication!RunEnds, Publication!Start, Publication!NoRunner
  <2> QED
    BY <2>1, JobAfter
<1>4. CASE Publication!Morning \/ Publication!BackoffOver \/ Publication!NoteRead
          \/ Publication!Stop
  <2>1. /\ UNCHANGED <<latest, calendar, symbols, guidance, journal, up, runner>>
        /\ \/ note'.pc \notin {"clock", "request"} /\ note.pc \notin {"clock", "request"}
           \/ note' = note
    BY <1>4 DEF Publication!Morning, Publication!BackoffOver, Publication!NoteRead,
       Publication!Stop, Publication!files, Publication!clock, Publication!notifier,
       Publication!NoNote
  <2> QED
    BY <1>2, <1>3, <2>1, CoveringUntouched DEF Heard, Requesting
<1>5. ASSUME NEW held \in SUBSET Stocks, Publication!AccountChanges(held)
      PROVE  Covering'
  <2>1. UNCHANGED <<latest, calendar, symbols, guidance, journal, up, runner, note>>
    BY <1>5 DEF Publication!AccountChanges, Publication!files, Publication!clock
  <2> QED
    BY <1>2, <1>3, <2>1, CoveringUntouched DEF Heard, Requesting
<1>6. CASE Publication!NoteClock
  <2>1. /\ UNCHANGED <<latest, calendar, symbols, guidance, journal, up, runner>>
            /\ note.pc = "clock"
        /\ calendar => note'.pc = "request" /\ note'.target = latest
    BY <1>1, <1>6 DEF Publication!NoteClock, Publication!files, Publication!clock, Notices
  <2> QED
    BY <1>2, <1>3, <2>1, CoveringUntouched DEF Heard, Requesting
<1>7. CASE Publication!CalendarFailure \/ Publication!Begin \/ Publication!InitialSkipped
  <2>1. /\ UNCHANGED <<latest, calendar, symbols, guidance, journal, up, note>>
        /\ runner.pc \in {"initial", "idle"} /\ runner'.pc \in {"idle", "read"}
    BY <1>1, <1>7 DEF Publication!CalendarFailure, Publication!Begin, Publication!InitialSkipped,
       Publication!Goto, Publication!NoRunner, Publication!files, Publication!clock,
       Publication!notifier, Runners
  <2> QED
    BY <1>2, <1>3, <2>1, CoveringUntouched DEF Heard, Requesting
<1>8. CASE Publication!Recover \/ Publication!ReadHoldings
  <2>1. /\ UNCHANGED <<latest, calendar, symbols, guidance, journal, up, note>>
        /\ runner.pc = "read"
        /\ \/ runner'.pc = "signals" /\ runner'.recovering
           \/ runner'.pc = "fetch"
    BY <1>1, <1>8 DEF Publication!Recover, Publication!ReadHoldings, Publication!files,
       Publication!clock, Publication!notifier, Runners
  <2> QED
    BY <1>2, <1>3, <2>1, CoveringUntouched DEF Heard, Requesting
<1>9. CASE Publication!Fetch \/ Publication!ReplaceSignals
  <2>1. /\ UNCHANGED <<latest, calendar, symbols, guidance, journal, up, note>>
        /\ runner.pc \in {"fetch", "signals"}
        /\ \/ runner'.pc \in {"commit", "failed", "denied"}
           \/ /\ runner.pc = "signals" /\ runner'.pc = "guidance"
              /\ UNCHANGED <<runner.target, runner.holdings, runner.recovering, runner.stale>>
    BY <1>1, <1>9 DEF Publication!Fetch, Publication!ReplaceSignals, Publication!Goto,
       Publication!clock, Publication!notifier, Runners
  <2> QED
    BY <1>2, <1>3, <2>1, CoveringUntouched DEF Heard, Requesting, Underway
<1>10. CASE Publication!Close
  <2>1. /\ UNCHANGED <<calendar, symbols, guidance, journal, up, runner, note, job, ckpt>>
        /\ latest' = latest + 1
    BY <1>10 DEF Publication!Close, Publication!files, Publication!notifier
  <2>2. latest' \notin job.completed
    <3>1. \A d \in job.completed : d \in Nat /\ d <= latest
      BY <1>1 DEF InRange, NotAhead, Jobs
    <3> QED
      BY <1>1, <2>1, <3>1
  <2>3. runner.pc = "finish" => runner.target # latest'
    BY <1>1, <2>1 DEF InRange
  <2> QED
    BY <2>1, <2>2, <2>3 DEF Covering, Heard, Underway
<1>11. CASE Publication!CalendarEnds
  <2>1. /\ UNCHANGED <<symbols, guidance, journal, up, runner, job, ckpt>> /\ ~ calendar'
    BY <1>11 DEF Publication!CalendarEnds, Publication!files
  <2> QED
    BY <2>1 DEF Covering, Heard, Underway
<1>12. CASE Publication!Commit
  <2>1. /\ UNCHANGED <<latest, calendar, symbols, guidance, up, note, job, ckpt>>
        /\ \/ runner'.pc = "failed" /\ journal' = journal
           \/ /\ runner'.pc = "signals" /\ runner'.holdings = runner.holdings
              /\ symbols = runner.holdings
              /\ journal' = [day |-> runner.target, holdings |-> runner.holdings]
    BY <1>1, <1>12 DEF Publication!Commit, Publication!Goto, Publication!clock,
       Publication!notifier, Runners
  <2>2. runner.pc # "off"
    BY <1>12 DEF Publication!Commit
  <2> QED
    BY <2>1, <2>2 DEF Covering, Heard, Requesting, Underway
<1>13. CASE Publication!ReplaceGuidance
  <2>1. /\ UNCHANGED <<latest, calendar, symbols, journal, up, note, job, ckpt>>
        /\ runner.pc = "guidance" /\ runner'.holdings = runner.holdings
        /\ runner'.recovering = runner.recovering
        /\ \/ runner'.pc = "unlink" /\ guidance' = journal
           \/ runner'.pc \in {"failed", "denied"} /\ guidance' = guidance
    BY <1>1, <1>13 DEF Publication!ReplaceGuidance, Publication!Goto, Publication!clock,
       Publication!notifier, Runners
  <2>2. journal # None
    BY <2>1 DEF Bundled, Underway
  <2> QED
    BY <2>1, <2>2 DEF Covering, Heard, Requesting, Underway
<1>14. CASE Publication!UnlinkJournal
  <2>1. /\ UNCHANGED <<latest, calendar, symbols, guidance, up, note, job, ckpt>>
        /\ runner.pc = "unlink" /\ runner'.holdings = runner.holdings
        /\ \/ runner'.pc = "read" /\ journal' = None
           \/ runner'.pc = "finish" /\ ~ runner.recovering /\ journal' = None
           \/ runner'.pc \in {"failed", "denied"} /\ journal' = journal
    BY <1>1, <1>14 DEF Publication!UnlinkJournal, Publication!Goto, Publication!clock,
       Publication!notifier, Runners
  <2> QED
    BY <2>1 DEF Covering, Heard, Requesting, Underway
<1>15. CASE Publication!RunEnds
  <2>1. /\ UNCHANGED <<latest, calendar, symbols, guidance, journal, up, note>>
        /\ runner.pc \in {"finish", "failed", "denied"} /\ runner'.pc = "idle"
    BY <1>15 DEF Publication!RunEnds, Publication!NoRunner, Publication!files, Publication!clock,
       Publication!notifier
  <2>2. job.error # "CHECKPOINT_REJECTED"
    BY <2>1 DEF Covering
  <2>3. Heard' /\ ~ Requesting' => Heard /\ ~ Requesting
    BY <2>1, <2>2 DEF Heard, Requesting
  <2>4. CASE job'.completed \subseteq job.completed
    BY <1>2, <2>1, <2>3, <2>4, CoveringUntouched
  <2>5. CASE runner.pc = "finish" /\ ~ runner.stale
    <3>1. \A d \in job'.completed : d \in job.completed \/ d = runner.target
      BY <2>1, JobAfter DEF Publication!Start, Publication!NoRunner
    <3>2. journal = None /\ guidance.holdings = runner.holdings
      BY <2>5 DEF Bundled, Founded
    <3>3. Heard /\ ~ Requesting /\ runner.target = latest => symbols = runner.holdings
      BY <2>5 DEF Covering
    <3>4. (Heard /\ ~ Requesting /\ latest \in job.completed
              => symbols \subseteq guidance.holdings)'
      BY <2>1, <2>3, <3>1, <3>2, <3>3 DEF Covering
    <3>5. (ckpt # None => ckpt.error # "CHECKPOINT_REJECTED")' /\ job'.error # "CHECKPOINT_REJECTED"
      BY <2>1, <2>2, ErrorsKept
    <3> QED
      BY <2>1, <3>2, <3>4, <3>5 DEF Covering, Underway
  <2> QED
    BY <2>1, <2>4, <2>5, JobAfter DEF Publication!Start, Publication!NoRunner
<1>16. CASE Publication!NoteUpdate
  <2>1. /\ UNCHANGED <<latest, calendar, guidance, journal, up, runner, job, ckpt>>
        /\ ~ Underway /\ note.pc = "update"
        /\ note'.pc = "clock" \/ symbols' = symbols
    BY <1>1, <1>16 DEF Publication!NoteUpdate, Publication!Locked, Publication!files,
       Publication!clock, Notices, Underway
  <2> QED
    BY <2>1 DEF Covering, Heard, Requesting, Underway
<1>17. CASE Publication!NoteRequest
  <2>1. /\ UNCHANGED <<latest, calendar, symbols, guidance, journal, up>>
        /\ note.pc = "request" /\ note'.pc = "idle"
        /\ note.target \in Nat
    BY <1>17 DEF Publication!NoteRequest, Publication!NoteEnds, Publication!NoNote, InRange,
       Publication!files, Publication!clock
  <2>2. CASE job.error = "CHECKPOINT_REJECTED"
    <3>1. UNCHANGED <<job, ckpt, runner>>
      BY <1>17, <2>2 DEF Publication!NoteRequest
    <3> QED
      BY <2>1, <2>2, <3>1 DEF Covering, Heard, Underway
  <2>3. CASE job.error # "CHECKPOINT_REJECTED"
    <3>1. /\ runner'.pc = runner.pc /\ runner'.target = runner.target /\ runner'.stale
          /\ runner'.holdings = runner.holdings /\ runner'.recovering = runner.recovering
      BY <1>1, <1>17, <2>3 DEF Publication!NoteRequest, Publication!RequestAt, Runners
    <3>2. job'.completed = job.completed \ {note.target}
      <4>1. job' = Publication!Requested(job, note.target)
        BY <1>17, <2>3 DEF Publication!NoteRequest, Publication!RequestAt, Publication!SavedOr
      <4> QED
        BY <1>1, <2>1, <4>1, JobRequests
    <3>3. (Heard /\ ~ Requesting /\ latest \in job.completed =>
              /\ symbols \subseteq guidance.holdings
              /\ journal # None => symbols \subseteq journal.holdings)'
      BY <1>2, <2>1, <2>3, <3>2 DEF Covering, Heard, Requesting
    <3>4. /\ (job.error = "CHECKPOINT_REJECTED" => runner.pc = "off")'
          /\ (ckpt # None => ckpt.error # "CHECKPOINT_REJECTED")'
      BY <2>1, ErrorsKept
    <3> QED
      BY <2>1, <3>1, <3>3, <3>4 DEF Covering, Underway
  <2> QED
    BY <2>2, <2>3
<1>18. CASE Publication!Review
  <2>1. /\ UNCHANGED <<latest, calendar, symbols, guidance, journal, up, note>>
        /\ job.error # "CHECKPOINT_REJECTED" /\ runner.pc \in {"initial", "idle"}
        /\ runner'.pc = runner.pc
    BY <1>1, <1>18 DEF Publication!Review, Publication!RequestAt, Publication!files,
       Publication!clock, Publication!notifier, Runners
  <2> QED
    BY <1>2, <1>3, <2>1, CoveringUntouched DEF Heard, Requesting
<1>19. CASE Publication!Ends
  <2>1. /\ ~ up' /\ runner'.pc = "off" /\ job'.completed = {} /\ ckpt' = ckpt
    BY <1>19 DEF Publication!Ends, Publication!NoRunner, Publication!FreshJob
  <2> QED
    BY <2>1 DEF Covering, Heard, Underway
<1>20. CASE Publication!Start
  <2>1. /\ symbols' = account /\ journal' = None /\ ckpt' = ckpt
            /\ runner'.pc \in {"off", "initial"}
    BY <1>20 DEF Publication!Start, Publication!NoRunner
  <2>2. \A d \in job'.completed : account \subseteq guidance'.holdings
    BY <1>20, JobStarts
  <2>3. job'.error = "CHECKPOINT_REJECTED" => runner'.pc = "off"
    <3>1. None # "CHECKPOINT_REJECTED"
      BY PublicationAssumption DEF Publication!ConstantsAssumption, Publication!Errors
    <3> QED
      BY <1>20, <3>1, JobStarts DEF Covering
  <2> QED
    BY <2>1, <2>2, <2>3 DEF Covering, Underway
<1> QED
  BY <1>4, <1>5, <1>6, <1>7, <1>8, <1>9, <1>10, <1>11, <1>12, <1>13, <1>14, <1>15, <1>16, <1>17,
     <1>18, <1>19, <1>20 DEF Publication!Next, Publication!Run, Publication!Notify

(* Every step keeps the invariant,                                         *)
LEMMA PublicationStep == PublicationInv /\ Publication!Next => PublicationInv'
BY PublicationTyped, StaysInRange, StaysBundled, StaysFounded, StaysNotified, StaysCovering
   DEF PublicationInv

(* and so do the steps of the other scenes.                                *)
LEMMA PublicationStutter == PublicationInv /\ UNCHANGED publicationVars => PublicationInv'
BY DEF PublicationInv, publicationVars, PublicationTypeOK, InRange, NotAhead, Bundled, Underway,
   Founded, InPlace, Notified, Covering, Heard, Requesting

(* The invariant holds at the start.                                       *)
LEMMA PublicationStart == Publication!Init => PublicationInv
<1> SUFFICES ASSUME Publication!Init
             PROVE  PublicationInv
  OBVIOUS
<1>1. /\ latest = 1 /\ closed \in BOOLEAN /\ calendar = TRUE /\ up = TRUE /\ stop = FALSE
      /\ account = {} /\ symbols = {} /\ published = {} /\ notes = 0
      /\ signals = Publication!Empty /\ guidance = Publication!Empty /\ journal = None
                /\ ckpt = None
      /\ job = Publication!FreshJob /\ note = Publication!NoNote
      /\ live = [signals |-> Publication!Empty, guidance |-> Publication!Empty]
      /\ runner = [Publication!NoRunner EXCEPT !.pc = "initial"]
  BY DEF Publication!Init
<1>2. runner \in Runners /\ runner.pc = "initial" /\ ~ runner.recovering
  BY <1>1 DEF Publication!NoRunner, Runners, Sessions
<1>3. note \in Notices /\ note.pc = "idle"
  BY <1>1 DEF Publication!NoNote, Notices, Sessions
<1>4. Publication!Empty \in Publication!Bundles
  BY DEF Publication!Empty, Publication!Bundles
<1>5. job \in Jobs /\ job.completed = {} /\ job.pending = None /\ job.error # "CHECKPOINT_REJECTED"
  <2>1. None # "CHECKPOINT_REJECTED" /\ Publication!FreshJob.error = None
    BY PublicationAssumption
       DEF Publication!ConstantsAssumption, Publication!Errors, Publication!FreshJob
  <2> QED
    BY <1>1, <2>1, JobFresh
<1>6. PublicationTypeOK
  BY <1>1, <1>2, <1>3, <1>4, <1>5 DEF PublicationTypeOK
<1>7. InRange /\ Founded
  BY <1>1, <1>2, <1>3, <1>5 DEF InRange, NotAhead, Founded, Underway
<1>8. Bundled /\ Notified
  BY <1>1, <1>2, <1>3 DEF Bundled, Underway, Notified
<1>9. Covering
  BY <1>1, <1>2, <1>5 DEF Covering, Underway
<1> QED
  BY <1>6, <1>7, <1>8, <1>9 DEF PublicationInv

(* In every reachable state job, files, journal and notifications fit      *)
(* together.                                                               *)
THEOREM PublicationAlways == Spec => []PublicationInv
<1>1. Init => PublicationInv
  BY PublicationStart DEF Init
<1>2. PublicationInv /\ [Next]_vars => PublicationInv'
  BY PublicationStep, PublicationStutter DEF Next, InPublication, vars, publicationVars
<1> QED
  BY <1>1, <1>2, PTL DEF Spec

(* NoFabricatedSuccess: what the checkpoint calls completed had both files *)
(* of one bundle in place (_persist, _apply, recover).                     *)
THEOREM SuccessIsFounded == Spec => []NoFabricatedSuccess
<1>1. PublicationInv => NoFabricatedSuccess
  BY DEF PublicationInv, Founded, InPlace, NoFabricatedSuccess, Publication!NoFabricatedSuccess
<1> QED
  BY <1>1, PublicationAlways, PTL

(* OneBundle: without a journal, both files are of one bundle, and the     *)
(* view in memory always is (publish_daily_bundle, startup recovery).      *)
THEOREM BundleStaysOne == Spec => []OneBundle
<1>1. PublicationInv => OneBundle
  BY DEF PublicationInv, Bundled, OneBundle, Publication!OneBundle
<1> QED
  BY <1>1, PublicationAlways, PTL

(* CompletedCovers: while no notification is under way, the plans of a     *)
(* completed latest session cover the account (request_refresh,            *)
(* completed_daily_bundle_is_valid).                                       *)
THEOREM CompletedStaysCovering == Spec => []CompletedCovers
<1>1. PublicationInv => CompletedCovers
  <2> SUFFICES ASSUME PublicationInv, up, calendar, job.error # "CHECKPOINT_REJECTED", notes = 0,
                      latest \in job.completed
               PROVE  account \subseteq guidance.holdings
    BY DEF CompletedCovers, Publication!CompletedCovers
  <2>1. note.pc = "idle" /\ account = symbols
    BY DEF PublicationInv, Notified
  <2> QED
    BY <2>1 DEF PublicationInv, Covering, Heard, Requesting
<1> QED
  BY <1>1, PublicationAlways, PTL

============================================================================
