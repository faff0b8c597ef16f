--------------------------- MODULE ResearchProofs ----------------------------
(* Theorems about the research jobs, for any numbers of days, fingerprints,    *)
(* worker processes and faults: a success is believed only from the worker    *)
(* that was launched for the job, and a job that ended is not launched again. *)
(*                                                                            *)
(* The first needs little history: the invariant says that a status that      *)
(* claims success names evidence, and that whatever ended says how.  The      *)
(* second does: a job that the checkpoint has as ended must be in the table,  *)
(* and ended there, all the time that the workbench is up.                    *)
EXTENDS ResearchLifecycle, WellFoundedInduction, FiniteSetTheorems, TLAPS

Codes == {"none", "ok", "bad"}
Jobs == [id : Ids, nth : Nat, print : Nat, terminal : BOOLEAN, completed : BOOLEAN,
         code : Codes, digest : Nat]
Processes == [id : Ids, pc : {"work", "status", "exit", "exited"}, code : Codes]
Statuses == [ok : BOOLEAN, digest : Nat]

(* A table of jobs: one of each id, in some order; one that ended says how.   *)
SaysHow(j) == j.terminal \/ j.completed => j.code # "none"
Table(js) ==
    /\ js \in SUBSET Jobs
    /\ \A i, j \in js : i.id = j.id => i = j
    /\ \E b \in Nat : \A j \in js : j.nth <= b
    /\ \A j \in js : SaysHow(j)

ProcessesKnown ==
    /\ procs \in Seq(Processes) /\ children \subseteq DOMAIN procs
    /\ \A k \in DOMAIN procs : procs[k].pc \in {"exit", "exited"} => procs[k].code # "none"

(* A status that claims success names evidence: no run has the number 0.      *)
FilesKnown ==
    /\ status \in [Ids -> Statuses] /\ evidence \in [Ids -> Nat]
    /\ \A id \in Ids : status[id].ok => status[id].digest # 0

ResearchInv ==
    /\ day \in Days /\ print \in Prints
    /\ ctx # None => ctx.print \in Prints
    /\ ProcessesKnown
    /\ FilesKnown
    /\ Table(jobs)
    /\ checkpoint # None => Table(checkpoint)

------------------------------------------------------------------------------
(* The greatest of the numbers of a table.                                    *)

(* A nonempty set of numbers that is bounded has a greatest one.              *)
LEMMA GreatestIs ==
  ASSUME NEW S \in SUBSET Nat, S # {}, NEW n \in Nat, \A d \in S : d <= n
  PROVE  Max(S) \in S /\ \A y \in S : y <= Max(S)
<1> DEFINE T == {n - d : d \in S}
<1>1. T \in SUBSET Nat /\ T # {}
  <2>1. \A d \in S : n - d \in Nat
    OBVIOUS
  <2> QED
    BY <2>1
<1>2. PICK t \in T : \A y \in T : ~ (<<y, t>> \in OpToRel(<, Nat))
  BY <1>1, NatLessThanWellFounded, WFMin
<1>3. \A y \in T : ~ (y < t)
  BY <1>1, <1>2 DEF OpToRel
<1>4. PICK x \in S : t = n - x
  OBVIOUS
<1>5. \A y \in S : ~ (n - y < n - x)
  BY <1>3, <1>4
<1>6. \A y \in S : x >= y
  <2> SUFFICES ASSUME NEW y \in S PROVE x >= y
    OBVIOUS
  <2>1. x \in Nat /\ y \in Nat
    OBVIOUS
  <2>2. ~ (n - y < n - x)
    BY <1>5
  <2> QED
    BY <2>1, <2>2
<1>7. Max(S) \in S /\ \A y \in S : Max(S) >= y
  BY <1>6 DEF Max
<1>8. Max(S) \in Nat
  BY <1>7
<1> QED
  BY <1>7, <1>8

(* The last number of a table.                                                *)
LEMMA LastNumber ==
  ASSUME NEW js, Table(js)
  PROVE  /\ Max({0} \union {j.nth : j \in js}) \in Nat
         /\ \A j \in js : j.nth <= Max({0} \union {i.nth : i \in js})
<1> DEFINE S == {0} \union {j.nth : j \in js}
<1>1. PICK b \in Nat : \A j \in js : j.nth <= b
  BY DEF Table
<1>2. \A j \in js : j.nth \in Nat
  BY DEF Table, Jobs
<1>3. S \in SUBSET Nat /\ 0 \in S /\ \A d \in S : d <= b
  BY <1>1, <1>2
<1>4. \A j \in js : j.nth \in S
  OBVIOUS
<1> HIDE DEF S
<1>5. Max(S) \in S /\ \A y \in S : y <= Max(S)
  BY <1>3, GreatestIs
<1>6. Max(S) \in Nat /\ \A j \in js : j.nth <= Max(S)
  BY <1>3, <1>4, <1>5
<1> QED
  BY <1>6 DEF S

------------------------------------------------------------------------------
(* Pruning, and the jobs a tick adds.                                         *)

(* A part of a table is a table.                                              *)
LEMMA PartOfTable ==
  ASSUME NEW js, Table(js), NEW some \in SUBSET js
  PROVE  Table(some)
<1>1. /\ js \in SUBSET Jobs
      /\ \A i, j \in js : i.id = j.id => i = j
      /\ \A j \in js : SaysHow(j)
  BY DEF Table
<1>2. PICK b \in Nat : \A j \in js : j.nth <= b
  BY DEF Table
<1>3. some \in SUBSET Jobs
  BY <1>1
<1>4. \A i, j \in some : i.id = j.id => i = j
  BY <1>1
<1>5. \A j \in some : j.nth <= b /\ SaysHow(j)
  BY <1>1, <1>2
<1> HIDE DEF SaysHow
<1> QED
  BY <1>3, <1>4, <1>5 DEF Table

LEMMA PruneIsPart ==
  ASSUME NEW js, NEW kids
  PROVE  Prune(js, kids) \in SUBSET js
BY DEF Prune

(* The table is never full when all cycles together are no more than it       *)
(* retains; then nothing is pruned.                                           *)
AllRetained == IsFiniteSet(Ids) /\ Cardinality(Ids) <= Retained

LEMMA NothingIsPruned ==
  ASSUME AllRetained, NEW js, Table(js), NEW kids
  PROVE  Prune(js, kids) = js
<1> DEFINE old == Removable(js, kids)
<1>1. old \in SUBSET js
  BY DEF Removable
<1>2. js \in SUBSET Jobs /\ \A i, j \in js : i.id = j.id => i = j
  BY DEF Table
<1>3. \A j \in js : j.id \in Ids /\ j.nth \in Nat
  BY <1>2 DEF Jobs
<1>4. IsFiniteSet(old) /\ Cardinality(old) <= Cardinality(Ids)
  <2> DEFINE f == [j \in old |-> j.id]
  <2>1. f \in [old -> Ids]
    BY <1>1, <1>3
  <2>2. \A i, j \in old : f[i] = f[j] => i = j
    BY <1>1, <1>2
  <2> HIDE DEF f, old
  <2>3. f \in Injection(old, Ids)
    BY <2>1, <2>2 DEF Injection, IsInjective
  <2> QED
    BY <2>3, FS_Injection DEF AllRetained
<1>5. Retained \in Nat /\ Cardinality(Ids) \in Nat /\ Cardinality(Ids) <= Retained
  BY BoundsAssumption, FS_CardinalityType DEF AllRetained
<1>6. \A j \in old : Cardinality({m \in old : m.nth > j.nth}) < Retained
  <2> SUFFICES ASSUME NEW j \in old
               PROVE  Cardinality({m \in old : m.nth > j.nth}) < Retained
    OBVIOUS
  <2> DEFINE later == {m \in old : m.nth > j.nth}
  <2>1. later \in SUBSET old /\ j \notin later
    BY <1>1, <1>3
  <2> HIDE DEF later, old
  <2>2. Cardinality(later) <= Cardinality(old) /\ Cardinality(later) # Cardinality(old)
    BY <2>1, <1>4, FS_Subset
  <2>3. Cardinality(later) \in Nat /\ Cardinality(old) \in Nat
    BY <2>1, <1>4, FS_Subset, FS_CardinalityType
  <2>4. Cardinality(later) < Retained
    BY <2>2, <2>3, <1>4, <1>5
  <2> QED
    BY <2>4 DEF later
<1> QED
  BY <1>6 DEF Prune

(* The cycles of a context are four different ids.                            *)
LEMMA CyclesAreIds ==
  ASSUME day \in Days, NEW c, c.print \in Prints
  PROVE  /\ \A n \in 1..4 : Cycles(c)[n] \in Ids
         /\ \A m, n \in 1..4 : Cycles(c)[m] = Cycles(c)[n] => m = n
<1> DEFINE a1 == Cycle("history", 0, day)
           a2 == Cycle("screen", c.print, 0)
           a3 == Cycle("predict", c.print, day)
           a4 == Cycle("settle", c.print, day)
<1>1. Cycles(c) = <<a1, a2, a3, a4>>
  BY DEF Cycles
<1>2. /\ a1.cmd = "history" /\ a2.cmd = "screen" /\ a3.cmd = "predict" /\ a4.cmd = "settle"
      /\ a1 \in Ids /\ a2 \in Ids /\ a3 \in Ids /\ a4 \in Ids
  BY DEF Cycle, Ids
<1> HIDE DEF a1, a2, a3, a4
<1>3. /\ Cycles(c)[1] = a1 /\ Cycles(c)[2] = a2 /\ Cycles(c)[3] = a3 /\ Cycles(c)[4] = a4
  BY <1>1
<1>4. \A n \in 1..4 : n = 1 \/ n = 2 \/ n = 3 \/ n = 4
  OBVIOUS
<1> QED
  BY <1>2, <1>3, <1>4

(* Registration: a table again; whatever is a success was there before, and   *)
(* nothing that ended is lost while all cycles are retained.                  *)
LEMMA AddedIsTable ==
  ASSUME ResearchInv, NEW c, c.print \in Prints
  PROVE  /\ Table(Added(c))
         /\ \A j \in Added(c) : j.completed => j \in jobs
         /\ AllRetained => jobs \subseteq Added(c)
<1>1. CASE Mismatch(c)
  BY <1>1 DEF Added, ResearchInv
<1>2. CASE ~ Mismatch(c)
  <2> DEFINE new == {n \in Entitled(c) : ~ Registered(Cycles(c)[n])}
             last == Max({0} \union {j.nth : j \in jobs})
             Nth(n) == last + Cardinality({m \in new : m <= n})
             Job(n) == NewJob(Cycles(c)[n], Nth(n), c.print)
             more == {Job(n) : n \in new}
             all == jobs \union more
  <2>1. Added(c) = Prune(all, children)
    BY <1>2 DEF Added
  <2>2. Table(jobs) /\ day \in Days
    BY DEF ResearchInv
  <2>3. last \in Nat /\ \A j \in jobs : j.nth <= last
    BY <2>2, LastNumber
  <2>4. new \in SUBSET (1..4)
    BY DEF Entitled
  <2>5. \A n \in new : Cycles(c)[n] \in Ids /\ ~ Registered(Cycles(c)[n])
    BY <2>2, <2>4, CyclesAreIds
  <2>6. \A m, n \in new : Cycles(c)[m] = Cycles(c)[n] => m = n
    BY <2>2, <2>4, CyclesAreIds
  <2>7. c.print \in Nat
    BY BoundsAssumption DEF Prints
  <2> HIDE DEF new, last
  <2>8. \A n \in new : Nth(n) \in Nat /\ Nth(n) <= last + 4
    <3> SUFFICES ASSUME NEW n \in new
                 PROVE  Nth(n) \in Nat /\ Nth(n) <= last + 4
      OBVIOUS
    <3>1. IsFiniteSet(1..4) /\ Cardinality(1..4) = 4
      <4>1. IsFiniteSet(1..4) /\ Cardinality(1..4) = IF 1 > 4 THEN 0 ELSE 4 - 1 + 1
        BY FS_Interval, 1 \in Int, 4 \in Int
      <4> QED
        BY <4>1
    <3>2. {m \in new : m <= n} \in SUBSET (1..4)
      BY <2>4
    <3>3. /\ IsFiniteSet({m \in new : m <= n})
          /\ Cardinality({m \in new : m <= n}) <= 4
      BY <3>1, <3>2, FS_Subset
    <3>4. Cardinality({m \in new : m <= n}) \in Nat
      BY <3>3, FS_CardinalityType
    <3> QED
      BY <3>3, <3>4, <2>3
  <2> HIDE DEF Nth
  <2>9. \A n \in new :
           /\ Job(n) \in Jobs /\ Job(n).id = Cycles(c)[n] /\ Job(n).nth <= last + 4
           /\ ~ Job(n).completed /\ ~ Job(n).terminal
    BY <2>5, <2>7, <2>8 DEF NewJob, Jobs, Codes
  <2> HIDE DEF Job
  <2>10. Table(all)
    <3>1. all \in SUBSET Jobs
      BY <2>2, <2>9 DEF Table
    <3>2. \A i, j \in all : i.id = j.id => i = j
      <4> SUFFICES ASSUME NEW i \in all, NEW j \in all, i.id = j.id
                   PROVE  i = j
        OBVIOUS
      <4>1. CASE i \in jobs /\ j \in jobs
        BY <4>1, <2>2 DEF Table
      <4>2. CASE i \in jobs /\ j \in more
        BY <4>2, <2>5, <2>9 DEF Registered
      <4>3. CASE i \in more /\ j \in jobs
        BY <4>3, <2>5, <2>9 DEF Registered
      <4>4. CASE i \in more /\ j \in more
        BY <4>4, <2>6, <2>9
      <4> QED
        BY <4>1, <4>2, <4>3, <4>4
    <3>3. \A j \in all : j.nth <= last + 4 /\ SaysHow(j)
      <4>1. \A j \in jobs : j.nth \in Nat /\ SaysHow(j)
        BY <2>2 DEF Table, Jobs
      <4>2. \A j \in jobs : j.nth <= last + 4
        BY <4>1, <2>3
      <4>3. \A j \in more : j.nth <= last + 4 /\ SaysHow(j)
        BY <2>9 DEF SaysHow
      <4> QED
        BY <4>1, <4>2, <4>3
    <3>4. last + 4 \in Nat
      BY <2>3
    <3> QED
      BY <3>1, <3>2, <3>3, <3>4 DEF Table
  <2>11. \A j \in all : j.completed => j \in jobs
    BY <2>9
  <2>12. jobs \subseteq all
    OBVIOUS
  <2> HIDE DEF all
  <2>13. Prune(all, children) \in SUBSET all
    BY PruneIsPart
  <2>14. Table(Added(c))
    BY <2>1, <2>10, <2>13, PartOfTable
  <2>15. AllRetained => Added(c) = all
    BY <2>1, <2>10, NothingIsPruned
  <2> QED
    BY <2>1, <2>11, <2>12, <2>13, <2>14, <2>15
<1> QED
  BY <1>1, <1>2

------------------------------------------------------------------------------
(* Collection.                                                                *)

(* A worker of this supervisor that ended well left the evidence of a job.    *)
Own(j) ==
    /\ evidence[j.id] = j.digest
    /\ \E k \in children : procs[k].id = j.id /\ procs[k].pc = "exited" /\ procs[k].code = "ok"

(* A collected job is the same job; if it ended it stays ended, and if it is  *)
(* a success now its worker ended well and the evidence is its.               *)
LEMMA CollectedIsJob ==
  ASSUME ResearchInv, NEW j \in Jobs, SaysHow(j)
  PROVE  LET new == Collected(j, children)
         IN  /\ new \in Jobs /\ new.id = j.id /\ new.nth = j.nth /\ SaysHow(new)
             /\ j.terminal => new.terminal
             /\ new.completed => new = j \/ Own(new)
<1>1. CASE ~ \E k \in Ended(children) : procs[k].id = j.id
  BY <1>1 DEF Collected
<1>2. CASE \E k \in Ended(children) : procs[k].id = j.id
  <2> DEFINE k == CHOOSE n \in Ended(children) : procs[n].id = j.id
             ok == procs[k].code = "ok" /\ Verified(j.id, status[j.id].digest)
             digest == IF status[j.id].digest # 0 THEN status[j.id].digest ELSE j.digest
             new == [j EXCEPT !.terminal = TRUE, !.completed = ok, !.code = procs[k].code,
                              !.digest = digest]
  <2>1. Collected(j, children) = new
    BY <1>2 DEF Collected
  <2>2. k \in Ended(children) /\ procs[k].id = j.id
    BY <1>2
  <2> HIDE DEF k
  <2>3. k \in children /\ k \in DOMAIN procs /\ procs[k].pc = "exited" /\ procs \in Seq(Processes)
    BY <2>2 DEF Ended, Running, ResearchInv, ProcessesKnown
  <2>4. procs[k] \in Processes /\ procs[k].code # "none"
    BY <2>3 DEF ResearchInv, ProcessesKnown
  <2>5. procs[k].code \in Codes
    BY <2>4 DEF Processes
  <2>6. j.id \in Ids /\ j.digest \in Nat
    BY DEF Jobs
  <2>7. status[j.id] \in Statuses /\ (status[j.id].ok => status[j.id].digest # 0)
    BY <2>6 DEF ResearchInv, FilesKnown
  <2>8. digest \in Nat
    BY <2>6, <2>7 DEF Statuses
  <2>9. ok \in BOOLEAN
    OBVIOUS
  <2>10. ok => procs[k].code = "ok" /\ evidence[j.id] = digest
    BY <2>7 DEF Verified
  <2> HIDE DEF ok, digest
  <2>11. new \in Jobs
    BY <2>5, <2>8, <2>9 DEF Jobs
  <2>12. /\ new.id = j.id /\ new.nth = j.nth /\ new.terminal /\ new.completed = ok
         /\ new.code = procs[k].code /\ new.digest = digest
    BY DEF Jobs
  <2> HIDE DEF new
  <2>13. SaysHow(new)
    BY <2>4, <2>12 DEF SaysHow
  <2>14. new.completed => Own(new)
    BY <2>2, <2>3, <2>10, <2>12 DEF Own
  <2> QED
    BY <2>1, <2>11, <2>12, <2>13, <2>14
<1> QED
  BY <1>1, <1>2

(* Collecting turns a table into a table: what ended stays ended, and what is *)
(* a success now was one before or its own worker has ended well.             *)
LEMMA CollectIsTable ==
  ASSUME ResearchInv, NEW js, Table(js)
  PROVE  /\ Table(Collect(js))
         /\ \A j \in Collect(js) : j.completed => j \in js \/ Own(j)
         /\ AllRetained => \A j \in js : j.terminal =>
                              \E k \in Collect(js) : k.id = j.id /\ k.terminal
<1> DEFINE New(j) == Collected(j, children)
           all == {New(j) : j \in js}
<1>1. Collect(js) = Prune(all, children \ Ended(children))
  BY DEF Collect
<1>2. js \in SUBSET Jobs /\ (\A i, j \in js : i.id = j.id => i = j) /\ \A j \in js : SaysHow(j)
  BY DEF Table
<1>3. PICK b \in Nat : \A j \in js : j.nth <= b
  BY DEF Table
<1>4. \A j \in js :
         /\ New(j) \in Jobs /\ New(j).id = j.id /\ New(j).nth = j.nth /\ SaysHow(New(j))
         /\ j.terminal => New(j).terminal
         /\ New(j).completed => New(j) = j \/ Own(New(j))
  BY <1>2, CollectedIsJob
<1> HIDE DEF New
<1>5. Table(all)
  <2>1. all \in SUBSET Jobs
    BY <1>4
  <2>2. \A i, j \in all : i.id = j.id => i = j
    BY <1>2, <1>4
  <2>3. \A j \in all : j.nth <= b /\ SaysHow(j)
    BY <1>3, <1>4
  <2> HIDE DEF all, SaysHow
  <2> QED
    BY <2>1, <2>2, <2>3 DEF Table
<1>6. \A j \in all : j.completed => j \in js \/ Own(j)
  BY <1>4
<1>7. \A j \in js : j.terminal => \E k \in all : k.id = j.id /\ k.terminal
  <2> SUFFICES ASSUME NEW j \in js, j.terminal
               PROVE  \E k \in all : k.id = j.id /\ k.terminal
    OBVIOUS
  <2> WITNESS New(j) \in all
  <2> QED
    BY <1>4
<1> HIDE DEF all
<1>8. Collect(js) \in SUBSET all
  BY <1>1, PruneIsPart
<1>9. Table(Collect(js))
  BY <1>5, <1>8, PartOfTable
<1>10. AllRetained => Collect(js) = all
  BY <1>1, <1>5, NothingIsPruned
<1> QED
  BY <1>6, <1>7, <1>8, <1>9, <1>10

(* The jobs whose launch fails end, and the rest of the table is as it was.   *)
LEMMA FailedIsTable ==
  ASSUME NEW js, Table(js), NEW lost \in SUBSET js, \A j \in lost : ~ j.completed,
         NEW after, after = Failed(js, lost)
  PROVE  /\ Table(after)
         /\ \A j \in after : j.completed => j \in js
         /\ \A j \in js : j.terminal => \E k \in after : k.id = j.id /\ k.terminal
<1> DEFINE Lost(j) == [j EXCEPT !.terminal = TRUE, !.code = "bad"]
<1>1. js \in SUBSET Jobs /\ (\A i, j \in js : i.id = j.id => i = j) /\ \A j \in js : SaysHow(j)
  BY DEF Table
<1>2. PICK b \in Nat : \A j \in js : j.nth <= b
  BY DEF Table
<1>3. \A j \in Jobs :
         /\ Lost(j) \in Jobs /\ Lost(j).id = j.id /\ Lost(j).nth = j.nth
         /\ Lost(j).terminal /\ Lost(j).code = "bad" /\ Lost(j).completed = j.completed
  <2> SUFFICES ASSUME NEW j \in Jobs
               PROVE  /\ Lost(j) \in Jobs /\ Lost(j).id = j.id /\ Lost(j).nth = j.nth
                      /\ Lost(j).terminal /\ Lost(j).code = "bad"
                      /\ Lost(j).completed = j.completed
    OBVIOUS
  <2>1. Lost(j) \in Jobs
    BY DEF Jobs, Codes
  <2>2. /\ Lost(j).id = j.id /\ Lost(j).nth = j.nth
        /\ Lost(j).terminal /\ Lost(j).code = "bad" /\ Lost(j).completed = j.completed
    BY DEF Jobs
  <2> QED
    BY <2>1, <2>2
<1>4. after = (js \ lost) \union {Lost(j) : j \in lost}
  BY DEF Failed
<1> HIDE DEF Lost
<1>5. Table(after)
  <2>1. after \in SUBSET Jobs
    BY <1>1, <1>3, <1>4
  <2>2. \A i, j \in after : i.id = j.id => i = j
    <3>1. \A i \in after : \E j \in js : i.id = j.id /\ i = IF j \in lost THEN Lost(j) ELSE j
      <4> SUFFICES ASSUME NEW i \in after
                   PROVE  \E j \in js : i.id = j.id /\ i = IF j \in lost THEN Lost(j) ELSE j
        OBVIOUS
      <4>1. CASE i \in js \ lost
        BY <4>1
      <4>2. CASE \E j \in lost : i = Lost(j)
        BY <4>2, <1>1, <1>3
      <4> QED
        BY <4>1, <4>2, <1>4
    <3> SUFFICES ASSUME NEW i \in after, NEW j \in after, i.id = j.id
                 PROVE  i = j
      OBVIOUS
    <3>2. PICK a \in js : i.id = a.id /\ i = IF a \in lost THEN Lost(a) ELSE a
      BY <3>1
    <3>3. PICK b1 \in js : j.id = b1.id /\ j = IF b1 \in lost THEN Lost(b1) ELSE b1
      BY <3>1
    <3>4. a = b1
      BY <1>1, <3>2, <3>3
    <3> QED
      BY <3>2, <3>3, <3>4
  <2>3. \A j \in after : j.nth <= b /\ SaysHow(j)
    <3>1. \A j \in lost : Lost(j).nth <= b /\ SaysHow(Lost(j))
      BY <1>1, <1>2, <1>3 DEF SaysHow
    <3> QED
      BY <1>1, <1>2, <1>4, <3>1
  <2> HIDE DEF SaysHow
  <2> QED
    BY <2>1, <2>2, <2>3 DEF Table
<1>6. \A j \in after : j.completed => j \in js
  BY <1>1, <1>3, <1>4
<1>7. \A j \in js : j.terminal => \E k \in after : k.id = j.id /\ k.terminal
  BY <1>1, <1>3, <1>4
<1> QED
  BY <1>5, <1>6, <1>7

------------------------------------------------------------------------------
(* Restart.                                                                   *)

(* Jobs come back as they were saved, what had ended as ended, and successes  *)
(* only with their evidence.                                                  *)
LEMMA RestoredIsTable ==
  ASSUME ResearchInv, NEW js, Table(js), NEW all, all = {Restored(j) : j \in js}
  PROVE  /\ Table(all)
         /\ \A j \in all : j.completed => evidence[j.id] = j.digest
         /\ \A j \in js : j.terminal => \E k \in all : k.id = j.id /\ k.terminal
<1>1. js \in SUBSET Jobs /\ (\A i, j \in js : i.id = j.id => i = j) /\ \A j \in js : SaysHow(j)
  BY DEF Table
<1>2. PICK b \in Nat : \A j \in js : j.nth <= b
  BY DEF Table
<1>3. \A j \in js :
         /\ Restored(j) \in Jobs /\ Restored(j).id = j.id /\ Restored(j).nth = j.nth
         /\ SaysHow(Restored(j))
         /\ j.terminal => Restored(j).terminal
         /\ Restored(j).completed => evidence[j.id] = Restored(j).digest
  <2> SUFFICES ASSUME NEW j \in js
               PROVE  /\ Restored(j) \in Jobs /\ Restored(j).id = j.id /\ Restored(j).nth = j.nth
                      /\ SaysHow(Restored(j))
                      /\ j.terminal => Restored(j).terminal
                      /\ Restored(j).completed => evidence[j.id] = Restored(j).digest
    OBVIOUS
  <2> DEFINE lost == j.completed /\ ~ (j.digest # 0 /\ Verified(j.id, j.digest))
             a == [j EXCEPT !.completed = FALSE, !.terminal = TRUE]
             c == [j EXCEPT !.terminal = j.completed \/ j.code # "none"]
  <2>1. j \in Jobs /\ SaysHow(j)
    BY <1>1
  <2>2. CASE lost
    <3>1. Restored(j) = a
      BY <2>2 DEF Restored
    <3>2. a \in Jobs
      BY <2>1 DEF Jobs
    <3>3. a.id = j.id /\ a.nth = j.nth /\ a.terminal /\ ~ a.completed /\ a.code = j.code
      BY <2>1 DEF Jobs
    <3> HIDE DEF a
    <3>4. j.code # "none"
      BY <2>1, <2>2 DEF SaysHow
    <3> QED
      BY <3>1, <3>2, <3>3, <3>4 DEF SaysHow
  <2>3. CASE ~ lost
    <3>1. Restored(j) = c
      BY <2>3 DEF Restored
    <3>2. (j.completed \/ j.code # "none") \in BOOLEAN
      OBVIOUS
    <3>3. c \in Jobs
      BY <2>1, <3>2 DEF Jobs
    <3>4. /\ c.id = j.id /\ c.nth = j.nth /\ c.terminal = (j.completed \/ j.code # "none")
          /\ c.completed = j.completed /\ c.code = j.code /\ c.digest = j.digest
      BY <2>1 DEF Jobs
    <3> HIDE DEF c
    <3>5. j.completed => evidence[j.id] = j.digest
      BY <2>3 DEF Verified
    <3>6. j.terminal \in BOOLEAN /\ j.completed \in BOOLEAN
      BY <2>1 DEF Jobs
    <3>7. SaysHow(c) /\ (j.terminal => c.terminal)
      BY <2>1, <3>4, <3>6 DEF SaysHow
    <3> QED
      BY <3>1, <3>3, <3>4, <3>5, <3>7
  <2> QED
    BY <2>2, <2>3
<1>4. Table(all)
  <2>1. all \in SUBSET Jobs
    BY <1>3
  <2>2. \A i, j \in all : i.id = j.id => i = j
    BY <1>1, <1>3
  <2>3. \A j \in all : j.nth <= b /\ SaysHow(j)
    BY <1>2, <1>3
  <2> HIDE DEF SaysHow
  <2> QED
    BY <2>1, <2>2, <2>3 DEF Table
<1>5. \A j \in all : j.completed => evidence[j.id] = j.digest
  BY <1>3
<1>6. \A j \in js : j.terminal => \E k \in all : k.id = j.id /\ k.terminal
  BY <1>3
<1> QED
  BY <1>4, <1>5, <1>6

------------------------------------------------------------------------------
(* A tick.                                                                    *)

(* What is launched is a job of the table that has not ended.                 *)
Process(j) == [id |-> j.id, pc |-> "work", code |-> "none"]
Launches(js) == {Process(j) : j \in {i \in js : ~ i.terminal}}

LEMMA LaunchedIs ==
  ASSUME NEW js, NEW kids, NEW c
  PROVE  Launched(js, kids, c) \in Seq(Launches(js))
<1> DEFINE possible == Launchable(js, kids, c)
           first == {j \in possible : \A k \in possible : j.nth <= k.nth}
           j1 == CHOOSE j \in first : TRUE
<1>1. CASE first = {}
  <2>1. <<>> \in Seq(Launches(js))
    OBVIOUS
  <2> QED
    BY <1>1, <2>1 DEF Launched
<1>2. CASE first # {}
  <2>1. j1 \in first
    BY <1>2
  <2>2. Launched(js, kids, c) = <<Process(j1)>>
    BY <1>2 DEF Launched, Process
  <2> HIDE DEF j1
  <2>3. j1 \in js /\ ~ j1.terminal
    BY <2>1 DEF Launchable
  <2>4. Process(j1) \in Launches(js)
    BY <2>3 DEF Launches
  <2> QED
    BY <2>2, <2>4
<1> QED
  BY <1>1, <1>2

(* A tick: the jobs stay a table; a new success is an own worker's; what is   *)
(* launched had not ended; the checkpoint is as it was or a table whose ended *)
(* jobs are ended in the table.                                               *)
TickedWell ==
    /\ Table(jobs')
    /\ \A j \in jobs' : j.completed => j \in jobs \/ Own(j)
    /\ AllRetained => \A j \in jobs : j.terminal => \E k \in jobs' : k.id = j.id /\ k.terminal
    /\ \/ checkpoint' = checkpoint
       \/ /\ Table(checkpoint')
          /\ \A j \in checkpoint' : j.terminal => \E k \in jobs' : k.id = j.id /\ k.terminal
    /\ \E start \in Seq(Launches(jobs')) :
          /\ procs' = procs \o start
          /\ children' \subseteq children \union (Len(procs) + 1)..(Len(procs) + Len(start))

LEMMA TickIsWell ==
  ASSUME ResearchInv, TickDone
  PROVE  TickedWell
<1> DEFINE added == Added(ctx)
<1>1. PICK js \in {Collect(Added(ctx))}, kids \in {children \ Ended(children)} :
         \E lost \in FailedLaunches(js, kids), saved \in {TRUE, Ended(children) = {}} :
         \E after \in {Failed(js, lost)} :
         \E start \in {Launched(after, kids, "network") \o Launched(after, kids, "cpu")} :
            /\ faults' = faults + Cardinality(lost) + (IF saved THEN 0 ELSE 1)
            /\ faults' <= MaxFaults
            /\ Len(procs) + Len(start) <= MaxProc
            /\ jobs' = after
            /\ procs' = procs \o start
            /\ children' = kids \union (Len(procs) + 1)..(Len(procs) + Len(start))
            /\ checkpoint' = IF saved /\ Ended(children) # {} THEN js ELSE checkpoint
  BY Zenon DEF TickDone
<1>12. PICK lost \in FailedLaunches(js, kids), saved \in {TRUE, Ended(children) = {}} :
         \E after \in {Failed(js, lost)} :
         \E start \in {Launched(after, kids, "network") \o Launched(after, kids, "cpu")} :
            /\ jobs' = after
            /\ procs' = procs \o start
            /\ children' = kids \union (Len(procs) + 1)..(Len(procs) + Len(start))
            /\ checkpoint' = IF saved /\ Ended(children) # {} THEN js ELSE checkpoint
  BY <1>1
<1>13. PICK after, start :
            /\ after = Failed(js, lost)
            /\ start = Launched(after, kids, "network") \o Launched(after, kids, "cpu")
            /\ jobs' = after
            /\ procs' = procs \o start
            /\ children' = kids \union (Len(procs) + 1)..(Len(procs) + Len(start))
            /\ checkpoint' = IF saved /\ Ended(children) # {} THEN js ELSE checkpoint
  BY <1>12
<1>14. js = Collect(added) /\ kids \subseteq children
  OBVIOUS
<1>2. ctx # None /\ ctx.print \in Prints
  BY DEF TickDone, ResearchInv
<1>3. /\ Table(added)
      /\ \A j \in added : j.completed => j \in jobs
      /\ AllRetained => jobs \subseteq added
  BY <1>2, AddedIsTable
<1> HIDE DEF added
<1>4. /\ Table(js)
      /\ \A j \in js : j.completed => j \in added \/ Own(j)
      /\ AllRetained => \A j \in added : j.terminal => \E k \in js : k.id = j.id /\ k.terminal
  BY <1>3, <1>14, CollectIsTable
<1>5. lost \in SUBSET js /\ \A j \in lost : ~ j.completed
  BY DEF FailedLaunches, Launchable
<1>6. /\ Table(after)
      /\ \A j \in after : j.completed => j \in js
      /\ \A j \in js : j.terminal => \E k \in after : k.id = j.id /\ k.terminal
  BY <1>13, <1>4, <1>5, FailedIsTable
<1>7. start \in Seq(Launches(after))
  <2> DEFINE a == Launched(after, kids, "network")
             b == Launched(after, kids, "cpu")
  <2>1. a \in Seq(Launches(after)) /\ b \in Seq(Launches(after))
    BY LaunchedIs
  <2>2. start = a \o b
    BY <1>13
  <2> HIDE DEF a, b
  <2> QED
    BY <2>1, <2>2
<1>8. \A j \in after : j.completed => j \in jobs \/ Own(j)
  BY <1>3, <1>4, <1>6
<1>9. AllRetained => \A j \in jobs : j.terminal => \E k \in after : k.id = j.id /\ k.terminal
  <2> SUFFICES ASSUME AllRetained, NEW j \in jobs, j.terminal
               PROVE  \E k \in after : k.id = j.id /\ k.terminal
    OBVIOUS
  <2>1. j \in added
    BY <1>3
  <2>2. PICK i \in js : i.id = j.id /\ i.terminal
    BY <1>4, <2>1
  <2>3. PICK k \in after : k.id = i.id /\ k.terminal
    BY <1>6, <2>2
  <2> QED
    BY <2>2, <2>3
<1>10. \/ checkpoint' = checkpoint
       \/ /\ Table(checkpoint')
          /\ \A j \in checkpoint' : j.terminal => \E k \in after : k.id = j.id /\ k.terminal
  BY <1>13, <1>4, <1>6
<1>11. /\ jobs' = after /\ procs' = procs \o start
       /\ children' \subseteq children \union (Len(procs) + 1)..(Len(procs) + Len(start))
  BY <1>13, <1>14
<1> QED
  BY <1>6, <1>7, <1>8, <1>9, <1>10, <1>11 DEF TickedWell

------------------------------------------------------------------------------
(* Every step preserves the invariant.                                        *)

LEMMA SamePieces ==
  ASSUME ResearchInv, UNCHANGED vars
  PROVE  ResearchInv'
BY DEF ResearchInv, ProcessesKnown, FilesKnown, vars, env, files

(* A change of one worker, or of all, leaves the processes known.             *)
LEMMA ProcessesStay ==
  ASSUME ProcessesKnown, children' = children, NEW new, procs' = new,
         DOMAIN new = DOMAIN procs,
         new = [k \in DOMAIN procs |-> new[k]],
         \A k \in DOMAIN procs : /\ new[k] \in Processes
                                 /\ new[k].pc \in {"exit", "exited"} => new[k].code # "none"
  PROVE  ProcessesKnown'
<1>1. procs \in Seq(Processes) /\ DOMAIN procs = 1..Len(procs) /\ Len(procs) \in Nat
  BY DEF ProcessesKnown
<1>2. new \in [1..Len(procs) -> Processes]
  BY <1>1
<1>3. new \in Seq(Processes)
  BY <1>1, <1>2
<1> QED
  BY <1>3 DEF ProcessesKnown

(* A worker takes a step: it is at pc, and ends with the code.                *)
LEMMA WorkerStays ==
  ASSUME ProcessesKnown, children' = children, NEW k \in DOMAIN procs,
         NEW pc \in {"work", "status", "exit", "exited"}, NEW code \in Codes,
         procs' = [procs EXCEPT ![k].pc = pc, ![k].code = code],
         pc \in {"exit", "exited"} => code # "none"
  PROVE  ProcessesKnown'
<1> DEFINE p == [procs[k] EXCEPT !.pc = pc, !.code = code]
           new == [procs EXCEPT ![k] = p]
<1>1. procs \in Seq(Processes) /\ DOMAIN procs = 1..Len(procs) /\ Len(procs) \in Nat
  BY DEF ProcessesKnown
<1>2. \A i \in DOMAIN procs : /\ procs[i] \in Processes
                              /\ procs[i].pc \in {"exit", "exited"} => procs[i].code # "none"
  BY <1>1 DEF ProcessesKnown
<1>3. p \in Processes
  BY <1>2 DEF Processes
<1>4. p.pc = pc /\ p.code = code
  BY <1>2 DEF Processes
<1>5. procs' = new
  BY <1>1
<1> HIDE DEF p
<1>6. new \in Seq(Processes) /\ DOMAIN new = DOMAIN procs
  BY <1>1, <1>2, <1>3
<1>7. \A i \in DOMAIN procs : new[i] = IF i = k THEN p ELSE procs[i]
  BY <1>1
<1> HIDE DEF new
<1>8. \A i \in DOMAIN new : new[i].pc \in {"exit", "exited"} => new[i].code # "none"
  BY <1>2, <1>4, <1>6, <1>7
<1> QED
  BY <1>5, <1>6, <1>8 DEF ProcessesKnown

LEMMA TickInv ==
  ASSUME ResearchInv, TickDone
  PROVE  ResearchInv'
<1>1. TickedWell
  BY TickIsWell
<1>2. PICK start \in Seq(Launches(jobs')) :
         /\ procs' = procs \o start
         /\ children' \subseteq children \union (Len(procs) + 1)..(Len(procs) + Len(start))
  BY <1>1 DEF TickedWell
<1>3. Table(jobs') /\ (checkpoint' # None => Table(checkpoint'))
  BY <1>1 DEF TickedWell, ResearchInv
<1>4. \A p \in Launches(jobs') : p \in Processes /\ p.pc = "work"
  <2>1. \A j \in jobs' : j.id \in Ids
    BY <1>3 DEF Table, Jobs
  <2> QED
    BY <2>1 DEF Launches, Process, Processes, Codes
<1>5. procs \in Seq(Processes) /\ Len(procs) \in Nat /\ children \subseteq DOMAIN procs
  BY DEF ResearchInv, ProcessesKnown
<1>6. start \in Seq(Processes) /\ Len(start) \in Nat
  BY <1>2, <1>4
<1>7. /\ procs \o start \in Seq(Processes)
      /\ DOMAIN (procs \o start) = 1..(Len(procs) + Len(start))
      /\ \A k \in 1..(Len(procs) + Len(start)) :
            (procs \o start)[k] = IF k <= Len(procs) THEN procs[k] ELSE start[k - Len(procs)]
  BY <1>5, <1>6
<1>8. children' \subseteq DOMAIN procs'
  BY <1>2, <1>5, <1>6, <1>7
<1>9. \A k \in DOMAIN procs' :
         procs'[k].pc \in {"exit", "exited"} => procs'[k].code # "none"
  <2> SUFFICES ASSUME NEW k \in DOMAIN procs', procs'[k].pc \in {"exit", "exited"}
               PROVE  procs'[k].code # "none"
    OBVIOUS
  <2>1. k \in 1..(Len(procs) + Len(start))
    BY <1>2, <1>7
  <2>2. CASE k <= Len(procs)
    <3>1. k \in DOMAIN procs /\ procs'[k] = procs[k]
      BY <2>1, <2>2, <1>2, <1>5, <1>7
    <3> QED
      BY <3>1 DEF ResearchInv, ProcessesKnown
  <2>3. CASE ~ (k <= Len(procs))
    <3>1. procs'[k] = start[k - Len(procs)] /\ k - Len(procs) \in 1..Len(start)
      BY <2>1, <2>3, <1>2, <1>5, <1>6, <1>7
    <3>2. procs'[k] \in Launches(jobs')
      BY <3>1, <1>2
    <3> QED
      BY <3>2, <1>4
  <2> QED
    BY <2>2, <2>3
<1>10. ProcessesKnown'
  BY <1>2, <1>7, <1>8, <1>9 DEF ProcessesKnown
<1>11. FilesKnown'
  BY DEF TickDone, files, ResearchInv, FilesKnown
<1>12. (day \in Days /\ print \in Prints /\ (ctx # None => ctx.print \in Prints))'
  BY DEF TickDone, env, ResearchInv
<1> QED
  BY <1>3, <1>10, <1>11, <1>12 DEF ResearchInv

LEMMA StopInv ==
  ASSUME ResearchInv, Stop
  PROVE  ResearchInv'
<1> DEFINE js == IF ctx = None THEN jobs ELSE Added(ctx)
<1>1. Table(js)
  BY AddedIsTable DEF ResearchInv
<1> HIDE DEF js
<1>2. Table(Collect(js))
  BY <1>1, CollectIsTable
<1>3. jobs' = Collect(js)
  BY DEF Stop, js
<1>4. checkpoint' = jobs' \/ checkpoint' = checkpoint
  BY DEF Stop, Checkpointed
<1>5. Table(jobs') /\ (checkpoint' # None => Table(checkpoint'))
  BY <1>2, <1>3, <1>4 DEF ResearchInv
<1>6. ProcessesKnown'
  BY DEF Stop, ResearchInv, ProcessesKnown
<1>7. FilesKnown'
  BY DEF Stop, files, ResearchInv, FilesKnown
<1>8. (day \in Days /\ print \in Prints /\ (ctx # None => ctx.print \in Prints))'
  BY DEF Stop, env, ResearchInv
<1> QED
  BY <1>5, <1>6, <1>7, <1>8 DEF ResearchInv

(* No jobs are a table.                                                       *)
LEMMA NoJobs == Table({})
BY DEF Table

LEMMA LeaveInv ==
  ASSUME ResearchInv, Leave
  PROVE  ResearchInv'
<1>1. Table(Collect(jobs))
  BY CollectIsTable DEF ResearchInv
<1>2. checkpoint' = Collect(jobs) \/ checkpoint' = checkpoint
  BY DEF Leave, Checkpointed
<1>3. Table(jobs') /\ (checkpoint' # None => Table(checkpoint'))
  BY <1>1, <1>2, NoJobs DEF Leave, ResearchInv
<1>4. ProcessesKnown'
  BY DEF Leave, ResearchInv, ProcessesKnown
<1>5. FilesKnown'
  BY DEF Leave, files, ResearchInv, FilesKnown
<1>6. (day \in Days /\ print \in Prints /\ (ctx # None => ctx.print \in Prints))'
  BY DEF Leave, env, ResearchInv
<1> QED
  BY <1>3, <1>4, <1>5, <1>6 DEF ResearchInv

LEMMA OpenInv ==
  ASSUME ResearchInv, OpenWorkbench
  PROVE  ResearchInv'
<1>1. Table(jobs')
  <2>1. CASE checkpoint = None
    BY <2>1, NoJobs DEF OpenWorkbench
  <2>2. CASE checkpoint # None
    BY <2>2, RestoredIsTable DEF OpenWorkbench, ResearchInv
  <2> QED
    BY <2>1, <2>2
<1>2. checkpoint' # None => Table(checkpoint')
  BY DEF OpenWorkbench, ResearchInv
<1>3. ProcessesKnown'
  BY DEF OpenWorkbench, ResearchInv, ProcessesKnown
<1>4. FilesKnown'
  BY DEF OpenWorkbench, files, ResearchInv, FilesKnown
<1>5. (day \in Days /\ print \in Prints /\ (ctx # None => ctx.print \in Prints))'
  BY DEF OpenWorkbench, env, ResearchInv
<1> QED
  BY <1>1, <1>2, <1>3, <1>4, <1>5 DEF ResearchInv

LEMMA CrashInv ==
  ASSUME ResearchInv, CrashWorkbench
  PROVE  ResearchInv'
<1>1. Table(jobs') /\ (checkpoint' # None => Table(checkpoint'))
  BY NoJobs DEF CrashWorkbench, ResearchInv
<1>2. ProcessesKnown'
  BY DEF CrashWorkbench, ResearchInv, ProcessesKnown
<1>3. FilesKnown'
  BY DEF CrashWorkbench, files, ResearchInv, FilesKnown
<1>4. (day \in Days /\ print \in Prints /\ (ctx # None => ctx.print \in Prints))'
  BY DEF CrashWorkbench, env, ResearchInv
<1> QED
  BY <1>1, <1>2, <1>3, <1>4 DEF ResearchInv

LEMMA StopWorkersInv ==
  ASSUME ResearchInv, StopWorkers
  PROVE  ResearchInv'
<1> DEFINE stopped(k) == [procs[k] EXCEPT !.pc = "exited", !.code = "bad"]
           new == [k \in DOMAIN procs |->
                      IF k \in children /\ Running(k) THEN stopped(k) ELSE procs[k]]
<1>1. procs' = new /\ children' = children
  BY DEF StopWorkers
<1>2. \A k \in DOMAIN procs : /\ procs[k] \in Processes
                              /\ procs[k].pc \in {"exit", "exited"} => procs[k].code # "none"
  BY DEF ResearchInv, ProcessesKnown
<1>3. \A k \in DOMAIN procs :
         stopped(k) \in Processes /\ stopped(k).pc = "exited" /\ stopped(k).code = "bad"
  BY <1>2 DEF Processes, Codes
<1> HIDE DEF stopped
<1>4. \A k \in DOMAIN procs : /\ new[k] \in Processes
                              /\ new[k].pc \in {"exit", "exited"} => new[k].code # "none"
  BY <1>2, <1>3
<1>5. DOMAIN new = DOMAIN procs /\ new = [k \in DOMAIN procs |-> new[k]]
  OBVIOUS
<1> HIDE DEF new
<1>6. ProcessesKnown'
  BY <1>1, <1>4, <1>5, ProcessesStay DEF ResearchInv
<1>7. FilesKnown' /\ Table(jobs') /\ (checkpoint' # None => Table(checkpoint'))
  BY DEF StopWorkers, files, ResearchInv, FilesKnown
<1>8. (day \in Days /\ print \in Prints /\ (ctx # None => ctx.print \in Prints))'
  BY DEF StopWorkers, env, ResearchInv
<1> QED
  BY <1>6, <1>7, <1>8 DEF ResearchInv

(* A worker knows a job id, and has a number that is not 0.                   *)
LEMMA WorkerKnown ==
  ASSUME ResearchInv, NEW k \in DOMAIN procs
  PROVE  /\ procs[k] \in Processes /\ procs[k].id \in Ids /\ k \in Nat \ {0}
         /\ procs[k].pc \in {"exit", "exited"} => procs[k].code # "none"
<1>1. procs \in Seq(Processes) /\ DOMAIN procs = 1..Len(procs) /\ Len(procs) \in Nat
  BY DEF ResearchInv, ProcessesKnown
<1>2. procs[k] \in Processes
  BY <1>1
<1> QED
  BY <1>1, <1>2 DEF Processes, ResearchInv, ProcessesKnown

(* One worker's step keeps the invariant when the files stay known.           *)
LEMMA WorkerInv ==
  ASSUME ResearchInv, NEW k \in DOMAIN procs,
         NEW pc \in {"work", "status", "exit", "exited"}, NEW code \in Codes,
         procs' = [procs EXCEPT ![k].pc = pc, ![k].code = code],
         pc \in {"exit", "exited"} => code # "none",
         FilesKnown', UNCHANGED <<env, ctx, jobs, children, checkpoint>>
  PROVE  ResearchInv'
<1>1. ProcessesKnown'
  BY WorkerStays DEF ResearchInv
<1> QED
  BY <1>1 DEF ResearchInv, env

LEMMA WriteEvidenceInv ==
  ASSUME ResearchInv, NEW k \in DOMAIN procs, WriteEvidence(k)
  PROVE  ResearchInv'
<1>1. procs[k] \in Processes /\ procs[k].id \in Ids /\ k \in Nat \ {0}
  BY WorkerKnown
<1>2. evidence' \in [Ids -> Nat]
  BY <1>1 DEF WriteEvidence, ResearchInv, FilesKnown
<1>3. FilesKnown'
  BY <1>2 DEF WriteEvidence, ResearchInv, FilesKnown
<1>4. procs[k].code \in Codes
  BY <1>1 DEF Processes
<1>5. procs' = [procs EXCEPT ![k].pc = "status", ![k].code = procs[k].code]
  <2> DEFINE p == procs[k]
  <2>1. [p EXCEPT !.pc = "status"] = [p EXCEPT !.pc = "status", !.code = p.code]
    BY <1>1 DEF Processes
  <2>2. procs' = [procs EXCEPT ![k] = [p EXCEPT !.pc = "status"]]
    BY DEF WriteEvidence
  <2> QED
    BY <2>1, <2>2
<1>6. UNCHANGED <<env, ctx, jobs, children, checkpoint>>
  BY DEF WriteEvidence
<1> QED
  BY <1>3, <1>4, <1>5, <1>6, WorkerInv

LEMMA WriteStatusInv ==
  ASSUME ResearchInv, NEW k \in DOMAIN procs, WriteStatus(k)
  PROVE  ResearchInv'
<1>1. procs[k].id \in Ids /\ k \in Nat \ {0}
  BY WorkerKnown
<1> DEFINE new == [ok |-> TRUE, digest |-> k]
<1>2. new \in Statuses /\ new.ok /\ new.digest # 0
  BY <1>1 DEF Statuses
<1>3. status' = [status EXCEPT ![procs[k].id] = new]
  BY DEF WriteStatus
<1> HIDE DEF new
<1>4. /\ status' \in [Ids -> Statuses]
      /\ \A id \in Ids : status'[id].ok => status'[id].digest # 0
  BY <1>1, <1>2, <1>3 DEF ResearchInv, FilesKnown
<1>5. FilesKnown'
  BY <1>4 DEF WriteStatus, ResearchInv, FilesKnown
<1>6. /\ procs' = [procs EXCEPT ![k].pc = "exit", ![k].code = "ok"]
      /\ UNCHANGED <<env, ctx, jobs, children, checkpoint>>
  BY DEF WriteStatus
<1>7. "exit" \in {"work", "status", "exit", "exited"} /\ "ok" \in Codes /\ "ok" # "none"
  BY DEF Codes
<1> QED
  BY <1>5, <1>6, <1>7, WorkerInv

LEMMA BlockedInv ==
  ASSUME ResearchInv, NEW k \in DOMAIN procs, Blocked(k)
  PROVE  ResearchInv'
<1>1. procs[k].id \in Ids
  BY WorkerKnown
<1> DEFINE new == [ok |-> FALSE, digest |-> 0]
<1>2. new \in Statuses /\ ~ new.ok
  BY DEF Statuses
<1>3. status' = [status EXCEPT ![procs[k].id] = new]
  BY DEF Blocked
<1> HIDE DEF new
<1>4. /\ status' \in [Ids -> Statuses]
      /\ \A id \in Ids : status'[id].ok => status'[id].digest # 0
  BY <1>1, <1>2, <1>3 DEF ResearchInv, FilesKnown
<1>5. FilesKnown'
  BY <1>4 DEF Blocked, ResearchInv, FilesKnown
<1>6. /\ procs' = [procs EXCEPT ![k].pc = "exit", ![k].code = "bad"]
      /\ UNCHANGED <<env, ctx, jobs, children, checkpoint>>
  BY DEF Blocked
<1>7. "exit" \in {"work", "status", "exit", "exited"} /\ "bad" \in Codes /\ "bad" # "none"
  BY DEF Codes
<1> QED
  BY <1>5, <1>6, <1>7, WorkerInv

LEMMA ExitInv ==
  ASSUME ResearchInv, NEW k \in DOMAIN procs, Exit(k)
  PROVE  ResearchInv'
<1>1. procs[k] \in Processes /\ procs[k].code # "none"
  BY WorkerKnown DEF Exit
<1>2. procs[k].code \in Codes
  BY <1>1 DEF Processes
<1>3. procs' = [procs EXCEPT ![k].pc = "exited", ![k].code = procs[k].code]
  <2> DEFINE p == procs[k]
  <2>1. [p EXCEPT !.pc = "exited"] = [p EXCEPT !.pc = "exited", !.code = p.code]
    BY <1>1 DEF Processes
  <2>2. procs' = [procs EXCEPT ![k] = [p EXCEPT !.pc = "exited"]]
    BY DEF Exit
  <2> QED
    BY <2>1, <2>2
<1>4. FilesKnown' /\ UNCHANGED <<env, ctx, jobs, children, checkpoint>>
  BY DEF Exit, files, ResearchInv, FilesKnown
<1>5. "exited" \in {"work", "status", "exit", "exited"}
  OBVIOUS
<1> QED
  BY <1>1, <1>2, <1>3, <1>4, <1>5, WorkerInv

LEMMA DieInv ==
  ASSUME ResearchInv, NEW k \in DOMAIN procs, Die(k)
  PROVE  ResearchInv'
<1>1. /\ procs' = [procs EXCEPT ![k].pc = "exited", ![k].code = "bad"]
      /\ UNCHANGED <<env, ctx, jobs, children, checkpoint>>
  BY DEF Die
<1>2. FilesKnown'
  BY DEF Die, files, ResearchInv, FilesKnown
<1>3. "exited" \in {"work", "status", "exit", "exited"} /\ "bad" \in Codes /\ "bad" # "none"
  BY DEF Codes
<1> QED
  BY <1>1, <1>2, <1>3, WorkerInv

(* What a step outside of the supervisor and the workers does: the days, the  *)
(* session and the fingerprint of the manifest.                               *)
LEMMA WorldInv ==
  ASSUME ResearchInv,
         \/ CloseSession \/ RefreshDaily \/ NextDay \/ TickRead \/ TickAborted
         \/ \E k \in DOMAIN procs : Publish(k)
  PROVE  ResearchInv'
<1>1. UNCHANGED <<jobs, children, procs, files, checkpoint>>
  BY DEF CloseSession, RefreshDaily, NextDay, TickRead, TickAborted, Publish
<1>2. ProcessesKnown' /\ FilesKnown'
  BY <1>1 DEF ResearchInv, ProcessesKnown, FilesKnown, files
<1>3. day' \in Days
  <2>1. CASE NextDay
    <3>1. /\ day \in Nat /\ 1 <= day /\ day' = day + 1
          /\ day < IF network THEN MaxNetDay ELSE MaxDay
      BY <2>1 DEF NextDay, ResearchInv, Days
    <3>2. MaxNetDay \in Nat /\ MaxDay \in Nat /\ MaxNetDay <= MaxDay
      BY BoundsAssumption
    <3>3. day < MaxDay
      BY <3>1, <3>2
    <3> QED
      BY <3>1, <3>2, <3>3 DEF Days
  <2>2. CASE ~ NextDay
    <3>1. day' = day
      BY <2>2 DEF CloseSession, RefreshDaily, TickRead, TickAborted, Publish, env
    <3> QED
      BY <3>1 DEF ResearchInv
  <2> QED
    BY <2>1, <2>2
<1>4. print' \in Prints /\ (ctx' # None => ctx'.print \in Prints)
  <2>1. CASE TickRead
    BY <2>1 DEF TickRead, Context, ResearchInv, env
  <2>2. CASE \E k \in DOMAIN procs : Publish(k)
    <3>1. print' = print + 1 /\ print < MaxPrint /\ ctx' = ctx
      BY <2>2 DEF Publish
    <3>2. print \in Nat /\ MaxPrint \in Nat
      BY BoundsAssumption DEF ResearchInv, Prints
    <3> QED
      BY <3>1, <3>2 DEF ResearchInv, Prints
  <2>3. CASE TickAborted
    BY <2>3 DEF TickAborted, ResearchInv, env
  <2>4. CASE CloseSession \/ RefreshDaily \/ NextDay
    BY <2>4 DEF CloseSession, RefreshDaily, NextDay, ResearchInv
  <2> QED
    BY <2>1, <2>2, <2>3, <2>4
<1> QED
  BY <1>1, <1>2, <1>3, <1>4 DEF ResearchInv

LEMMA ResearchInit ==
  ASSUME Init
  PROVE  ResearchInv
<1>1. day \in Days /\ print \in Prints
  BY BoundsAssumption DEF Init, Days, Prints
<1>2. ProcessesKnown
  <2>1. procs = <<>> /\ children = {}
    BY DEF Init
  <2>2. <<>> \in Seq(Processes) /\ DOMAIN <<>> = {}
    OBVIOUS
  <2> QED
    BY <2>1, <2>2 DEF ProcessesKnown
<1>3. FilesKnown
  <2> DEFINE none == [ok |-> FALSE, digest |-> 0]
  <2>1. none \in Statuses /\ ~ none.ok
    BY DEF Statuses
  <2>2. status = [id \in Ids |-> none] /\ evidence = [id \in Ids |-> 0]
    BY DEF Init
  <2> HIDE DEF none
  <2> QED
    BY <2>1, <2>2 DEF FilesKnown
<1> QED
  BY <1>1, <1>2, <1>3, NoJobs DEF Init, ResearchInv

LEMMA ResearchStep ==
  ASSUME ResearchInv, [Next]_vars
  PROVE  ResearchInv'
<1>1. CASE UNCHANGED vars
  BY <1>1, SamePieces
<1>2. CASE CloseSession \/ RefreshDaily \/ NextDay \/ TickRead \/ TickAborted
  BY <1>2, WorldInv
<1>3. CASE OpenWorkbench
  BY <1>3, OpenInv
<1>4. CASE TickDone
  BY <1>4, TickInv
<1>5. CASE Stop
  BY <1>5, StopInv
<1>6. CASE StopWorkers
  BY <1>6, StopWorkersInv
<1>7. CASE Leave
  BY <1>7, LeaveInv
<1>8. CASE CrashWorkbench
  BY <1>8, CrashInv
<1>9. CASE \E k \in DOMAIN procs : Publish(k) \/ Worker(k) \/ Die(k)
  <2> SUFFICES ASSUME NEW k \in DOMAIN procs, Publish(k) \/ Worker(k) \/ Die(k)
               PROVE  ResearchInv'
    BY <1>9
  <2>1. CASE Publish(k)
    BY <2>1, WorldInv
  <2>2. CASE Worker(k)
    BY <2>2, WriteEvidenceInv, WriteStatusInv, BlockedInv, ExitInv DEF Worker
  <2>3. CASE Die(k)
    BY <2>3, DieInv
  <2> QED
    BY <2>1, <2>2, <2>3
<1> QED
  BY <1>1, <1>2, <1>3, <1>4, <1>5, <1>6, <1>7, <1>8, <1>9 DEF Next, Tick

(* The table has one job of each id, whatever ended says how, and a status    *)
(* that claims success names evidence: in every reachable state.              *)
THEOREM ResearchAlways == Spec => []ResearchInv
<1>1. Init => ResearchInv
  BY ResearchInit
<1>2. ResearchInv /\ [Next]_vars => ResearchInv'
  BY ResearchStep
<1> QED
  BY <1>1, <1>2, PTL DEF Spec

------------------------------------------------------------------------------
(* The claims.                                                                *)

(* A success that is new in the table is an own worker's, or comes back from  *)
(* the checkpoint with its evidence.                                          *)
Believed ==
    \A j \in jobs' : j.completed /\ j \notin jobs =>
        /\ evidence[j.id] = j.digest
        /\ up # "down" => \E k \in children :
                             procs[k].id = j.id /\ procs[k].pc = "exited" /\ procs[k].code = "ok"

LEMMA NewSuccess ==
  ASSUME ResearchInv, [Next]_vars
  PROVE  Believed
<1>1. CASE \A j \in jobs' : j.completed => j \in jobs \/ Own(j)
  BY <1>1 DEF Believed, Own
<1>2. CASE jobs' = jobs \/ jobs' = {}
  BY <1>2 DEF Believed
<1>3. CASE OpenWorkbench
  <2>1. up = "down"
    BY <1>3 DEF OpenWorkbench
  <2>2. CASE checkpoint = None
    BY <1>3, <2>2 DEF OpenWorkbench, Believed
  <2>3. CASE checkpoint # None
    <3>1. jobs' = {Restored(j) : j \in checkpoint} /\ Table(checkpoint)
      BY <1>3, <2>3 DEF OpenWorkbench, ResearchInv
    <3>2. \A j \in jobs' : j.completed => evidence[j.id] = j.digest
      BY <3>1, RestoredIsTable
    <3> QED
      BY <2>1, <3>2 DEF Believed
  <2> QED
    BY <2>2, <2>3
<1>4. CASE TickDone
  BY <1>1, <1>4, TickIsWell DEF TickedWell
<1>5. CASE Stop
  <2> DEFINE js == IF ctx = None THEN jobs ELSE Added(ctx)
  <2>1. Table(js) /\ \A j \in js : j.completed => j \in jobs
    BY AddedIsTable DEF ResearchInv
  <2> HIDE DEF js
  <2>2. \A j \in Collect(js) : j.completed => j \in js \/ Own(j)
    BY <2>1, CollectIsTable
  <2>3. jobs' = Collect(js)
    BY <1>5 DEF Stop, js
  <2>4. \A j \in jobs' : j.completed => j \in jobs \/ Own(j)
    BY <2>1, <2>2, <2>3
  <2> QED
    BY <1>1, <2>4
<1>6. CASE UNCHANGED vars \/ StopWorkers \/ Leave \/ CrashWorkbench
  BY <1>2, <1>6 DEF vars, StopWorkers, Leave, CrashWorkbench
<1>7. CASE CloseSession \/ RefreshDaily \/ NextDay \/ TickRead \/ TickAborted
  BY <1>2, <1>7 DEF CloseSession, RefreshDaily, NextDay, TickRead, TickAborted
<1>8. CASE \E k \in DOMAIN procs : Publish(k) \/ Worker(k) \/ Die(k)
  BY <1>2, <1>8 DEF Publish, Worker, WriteEvidence, WriteStatus, Blocked, Exit, Die
<1> QED
  BY <1>3, <1>4, <1>5, <1>6, <1>7, <1>8 DEF Next, Tick

(* SuccessIsOwn: a research result is believed only when the worker that this *)
(* supervisor launched for it ended well and the evidence on disk is the one  *)
(* it reports, whatever crashes, orphans and reruns wrote to the same files.  *)
THEOREM SuccessIsBelieved == Spec => SuccessIsOwn
<1>1. ResearchInv /\ [Next]_vars => [Believed]_vars
  BY NewSuccess
<1>2. Spec => [][Believed]_vars
  BY <1>1, ResearchAlways, PTL DEF Spec
<1> QED
  BY <1>2, PTL DEF SuccessIsOwn, Believed

(* While the workbench is up, what the checkpoint records as ended is in the  *)
(* table, and ended.                                                          *)
EndedKnown ==
    checkpoint # None /\ up # "down" =>
        \A c \in checkpoint : c.terminal => \E j \in jobs : j.id = c.id /\ j.terminal

LEMMA EndedStep ==
  ASSUME AllRetained, ResearchInv, EndedKnown, [Next]_vars
  PROVE  EndedKnown'
<1>1. CASE UNCHANGED <<jobs, checkpoint, up>>
  BY <1>1 DEF EndedKnown
<1>2. CASE OpenWorkbench
  <2> SUFFICES ASSUME checkpoint # None
               PROVE  \A c \in checkpoint : c.terminal => \E j \in jobs' : j.id = c.id /\ j.terminal
    BY <1>2 DEF OpenWorkbench, EndedKnown
  <2>1. jobs' = {Restored(j) : j \in checkpoint} /\ Table(checkpoint)
    BY <1>2 DEF OpenWorkbench, ResearchInv
  <2> QED
    BY <2>1, RestoredIsTable
<1>3. ASSUME up = "up", \A j \in jobs : j.terminal => \E k \in jobs' : k.id = j.id /\ k.terminal,
             \/ checkpoint' = checkpoint
             \/ \A j \in checkpoint' : j.terminal => \E k \in jobs' : k.id = j.id /\ k.terminal
      PROVE  EndedKnown'
  <2>1. CASE checkpoint' = checkpoint
    <3> SUFFICES ASSUME checkpoint # None, NEW c \in checkpoint, c.terminal
                 PROVE  \E j \in jobs' : j.id = c.id /\ j.terminal
      BY <2>1 DEF EndedKnown
    <3>1. PICK j \in jobs : j.id = c.id /\ j.terminal
      BY <1>3 DEF EndedKnown
    <3>2. PICK k \in jobs' : k.id = j.id /\ k.terminal
      BY <1>3, <3>1
    <3> QED
      BY <3>1, <3>2
  <2>2. CASE \A j \in checkpoint' : j.terminal => \E k \in jobs' : k.id = j.id /\ k.terminal
    BY <2>2 DEF EndedKnown
  <2> QED
    BY <1>3, <2>1, <2>2
<1>4. CASE TickDone
  <2>1. TickedWell
    BY <1>4, TickIsWell
  <2>2. up = "up"
    BY <1>4 DEF TickDone
  <2> QED
    BY <1>3, <2>1, <2>2 DEF TickedWell
<1>5. CASE Stop
  <2> DEFINE js == IF ctx = None THEN jobs ELSE Added(ctx)
  <2>1. Table(js) /\ jobs \subseteq js
    BY AddedIsTable DEF ResearchInv
  <2> HIDE DEF js
  <2>2. \A j \in js : j.terminal => \E k \in Collect(js) : k.id = j.id /\ k.terminal
    BY <2>1, CollectIsTable
  <2>3. jobs' = Collect(js) /\ up = "up" /\ (checkpoint' = jobs' \/ checkpoint' = checkpoint)
    BY <1>5 DEF Stop, Checkpointed, js
  <2>4. \A j \in jobs : j.terminal => \E k \in jobs' : k.id = j.id /\ k.terminal
    BY <2>1, <2>2, <2>3
  <2> QED
    BY <1>3, <2>3, <2>4
<1>6. CASE StopWorkers
  BY <1>6 DEF StopWorkers, EndedKnown
<1>7. CASE Leave \/ CrashWorkbench
  BY <1>7 DEF Leave, CrashWorkbench, EndedKnown
<1>8. CASE CloseSession \/ RefreshDaily \/ NextDay \/ TickRead \/ TickAborted \/ UNCHANGED vars
  BY <1>1, <1>8 DEF CloseSession, RefreshDaily, NextDay, TickRead, TickAborted, vars
<1>9. CASE \E k \in DOMAIN procs : Publish(k) \/ Worker(k) \/ Die(k)
  BY <1>1, <1>9 DEF Publish, Worker, WriteEvidence, WriteStatus, Blocked, Exit, Die
<1> QED
  BY <1>2, <1>4, <1>5, <1>6, <1>7, <1>8, <1>9 DEF Next, Tick

THEOREM EndedAlways ==
  ASSUME AllRetained
  PROVE  Spec => []EndedKnown
<1>1. Init => EndedKnown
  BY DEF Init, EndedKnown
<1>2. ResearchInv /\ EndedKnown /\ [Next]_vars => EndedKnown'
  BY EndedStep
<1> QED
  BY <1>1, <1>2, ResearchAlways, PTL DEF Spec

(* What a step launches, the checkpoint does not record as ended.             *)
LaunchesNotEnded ==
    \A k \in NewProcs : checkpoint # None =>
        ~ \E j \in checkpoint : j.id = procs'[k].id /\ j.terminal

LEMMA NotReplayed ==
  ASSUME AllRetained, ResearchInv, EndedKnown, [Next]_vars
  PROVE  LaunchesNotEnded
<1>1. procs \in Seq(Processes) /\ Len(procs) \in Nat
  BY DEF ResearchInv, ProcessesKnown
<1>2. CASE Len(procs') = Len(procs)
  BY <1>1, <1>2 DEF LaunchesNotEnded, NewProcs
<1>3. CASE TickDone
  <2>1. TickedWell /\ up = "up"
    BY <1>3, TickIsWell DEF TickDone
  <2>2. PICK start \in Seq(Launches(jobs')) : procs' = procs \o start
    BY <2>1 DEF TickedWell
  <2> SUFFICES ASSUME NEW k \in NewProcs, checkpoint # None,
                      NEW c \in checkpoint, c.id = procs'[k].id, c.terminal
               PROVE  FALSE
    BY DEF LaunchesNotEnded
  <2>3. Len(start) \in Nat /\ Len(procs') = Len(procs) + Len(start)
    BY <2>2, <1>1
  <2>4. k - Len(procs) \in 1..Len(start) /\ procs'[k] = start[k - Len(procs)]
    BY <2>2, <2>3, <1>1 DEF NewProcs
  <2>5. procs'[k] \in Launches(jobs')
    BY <2>4
  <2>6. PICK i \in jobs' : ~ i.terminal /\ procs'[k] = Process(i)
    BY <2>5 DEF Launches
  <2>7. procs'[k].id = i.id
    BY <2>6 DEF Process
  <2>8. PICK j \in jobs : j.id = c.id /\ j.terminal
    BY <2>1 DEF EndedKnown
  <2>9. PICK t \in jobs' : t.id = j.id /\ t.terminal
    BY <2>1, <2>8 DEF TickedWell
  <2>10. \A a, b \in jobs' : a.id = b.id => a = b
    BY <2>1 DEF TickedWell, Table
  <2>11. t.id = i.id
    BY <2>7, <2>8, <2>9
  <2>12. t = i
    BY <2>10, <2>11
  <2> QED
    BY <2>6, <2>9, <2>12
<1>4. CASE \/ UNCHANGED vars \/ CloseSession \/ RefreshDaily \/ NextDay \/ TickRead \/ TickAborted
           \/ OpenWorkbench \/ Stop \/ Leave \/ CrashWorkbench
  <2>1. procs' = procs
    BY <1>4 DEF vars, CloseSession, RefreshDaily, NextDay, TickRead, TickAborted, OpenWorkbench,
                Stop, Leave, CrashWorkbench
  <2> QED
    BY <1>2, <2>1
<1>5. CASE StopWorkers
  <2>1. DOMAIN procs' = DOMAIN procs /\ procs' \in Seq(Processes)
    <3>1. ResearchInv'
      BY ResearchStep
    <3> QED
      BY <1>5, <3>1 DEF StopWorkers, ResearchInv, ProcessesKnown
  <2>2. Len(procs') = Len(procs)
    BY <1>1, <2>1
  <2> QED
    BY <1>2, <2>2
<1>6. CASE \E k \in DOMAIN procs : Publish(k) \/ Worker(k) \/ Die(k)
  <2>1. DOMAIN procs' = DOMAIN procs
    BY <1>6 DEF Publish, Worker, WriteEvidence, WriteStatus, Blocked, Exit, Die
  <2>2. procs' \in Seq(Processes)
    BY ResearchStep DEF ResearchInv, ProcessesKnown
  <2>3. Len(procs') = Len(procs)
    BY <1>1, <2>1, <2>2
  <2> QED
    BY <1>2, <2>3
<1> QED
  BY <1>3, <1>4, <1>5, <1>6 DEF Next, Tick

(* EndedNotReplayed: while the table is large enough for all cycles, a job    *)
(* that the checkpoint on disk records as ended is not launched again, over   *)
(* crashes, restarts and shutdowns, and when checkpoints cannot be written.   *)
THEOREM EndedIsNotReplayed ==
  ASSUME AllRetained
  PROVE  Spec => EndedNotReplayed
<1>1. ResearchInv /\ EndedKnown /\ [Next]_vars => [LaunchesNotEnded]_vars
  BY NotReplayed
<1>2. Spec => [][LaunchesNotEnded]_vars
  BY <1>1, ResearchAlways, EndedAlways, PTL DEF Spec
<1> QED
  BY <1>2, PTL DEF EndedNotReplayed, LaunchesNotEnded
=============================================================================
