------------------------- MODULE ProspectiveContest -------------------------
(* The frozen contest: which model new predictions are registered for.        *)
(* _freeze_contest (scripts/quant_cli.py) runs in every tick of the workbench *)
(* that has a fresh daily artifact, and from the command line; it archives a  *)
(* contest whose model bundle was replaced and creates the next one.  The     *)
(* predict worker (runtime/research_worker.py) reads the contest and the      *)
(* artifact once and then appends one prediction after the other.             *)
(*                                                                            *)
(* The bundle digest covers the strategy file and the version of the model,   *)
(* so a bundle stands for the whole registration.  Artifacts are numbered in  *)
(* the order of generation, which is the time the model knows.                *)
EXTENDS Naturals, FiniteSets, FiniteSetsExt

CONSTANTS Bundles, Symbols,   \* model bundles; the symbols of every artifact
          Freezers, Predictors,  \* processes: the tick, the command line; workers
          LastDay,            \* bound: calendar days, all of them sessions
          MaxArtifacts,       \* bound: artifacts generated
          MaxFrozen,          \* bound: contests created
          MaxDeaths,          \* bound: processes that die or fail while they write
          None

VARIABLES bundle, today, over,  \* the model installed; the date, and its session over
          artifact, made,     \* official-daily.json, and how many there were
          contest, archive,   \* the active contest; [file name -> contest]
          frozen,             \* history: contests created
          freezer,            \* what each freezer is about to do
          predictor,          \* what each worker holds
          rows, deaths        \* the predictions in the ledger

contestVars == <<bundle, today, over, artifact, made, contest, archive, frozen, freezer,
                 predictor, rows, deaths>>

(* A contest that was cut off while it was written is read as none, and no    *)
(* other can be created in its place.                                         *)
Torn == [id |-> 0]
Whole == contest \notin {None, Torn}
Idle == [step |-> "idle"]
Session == IF over THEN today ELSE today - 1

ContestInit ==
    /\ bundle \in Bundles /\ today = 1 /\ over = TRUE
    /\ artifact = None /\ made = 0
    /\ contest = None /\ archive = {} /\ frozen = 0
    /\ freezer = [f \in Freezers |-> Idle] /\ predictor = [p \in Predictors |-> Idle]
    /\ rows = {} /\ deaths = 0

Market == <<bundle, today, over, artifact, made>>
Step(f, step) == freezer[f].step = step
Freezing(f, next) == freezer' = [freezer EXCEPT ![f] = next]

(* _rollover_needed: the artifact names one bundle, and it is another one.    *)
RolloverNeeded == artifact # None /\ artifact.bundle # contest.bundle

(* The contest is read and verified; a torn one ends the attempt, as does     *)
(* one that is still that of the artifact.                                    *)
Freeze(f) ==
    /\ Step(f, "idle")
    /\ contest = None \/ (Whole /\ RolloverNeeded)
    /\ Freezing(f, [step |-> IF contest = None THEN "register" ELSE "archive"])
    /\ UNCHANGED <<Market, contest, archive, frozen, predictor, rows, deaths>>

(* _archive_frozen_contest reads the file again to name the archive: by its   *)
(* digest, or by the process too when another content has that name.  A       *)
(* reader sees no bytes of a file that is being created.                      *)
ArchiveName(f, raw) ==
    IF \E a \in archive : a.name = [of |-> raw, by |-> None] /\ a.is # raw
    THEN [of |-> raw, by |-> f] ELSE [of |-> raw, by |-> None]
NameArchive(f) ==
    /\ Step(f, "archive")
    /\ Freezing(f, IF contest = None THEN Idle
                   ELSE [step |-> "move", name |-> ArchiveName(f, contest)])
    /\ UNCHANGED <<Market, contest, archive, frozen, predictor, rows, deaths>>

(* Mutant: a contest whose bundle was replaced is overwritten in its place.   *)
Unlinked(f) ==
    /\ Step(f, "move")
    /\ contest' = None /\ Freezing(f, [step |-> "register"])
    /\ UNCHANGED <<Market, archive, frozen, predictor, rows, deaths>>

(* destination.replace: it moves what is there now, over what has that name.  *)
(* A file that another process holds open for writing cannot be moved.        *)
BeingWritten == \E f \in Freezers : Step(f, "write")
Move(f) ==
    /\ Step(f, "move")
    /\ IF contest = None \/ BeingWritten
       THEN Freezing(f, Idle) /\ UNCHANGED <<contest, archive>>
       ELSE /\ archive' = {a \in archive : a.name # freezer[f].name}
                              \cup {[name |-> freezer[f].name, is |-> contest]}
            /\ contest' = None
            /\ Freezing(f, [step |-> "register"])
    /\ UNCHANGED <<Market, frozen, predictor, rows, deaths>>

(* _derived_model_registration: the artifact must be of the bundle installed. *)
(* The contest starts now.                                                    *)
Register(f) ==
    /\ Step(f, "register")
    /\ Freezing(f, IF artifact # None /\ artifact.bundle = bundle
                   THEN [step |-> "create",
                         is |-> [id |-> 0, bundle |-> bundle, input |-> artifact.number,
                                 start |-> made, day |-> today]]
                   ELSE Idle)
    /\ UNCHANGED <<Market, contest, archive, frozen, predictor, rows, deaths>>

(* The exclusive create: whoever comes second only reads what is there.       *)
Create(f) ==
    /\ Step(f, "create") /\ frozen < MaxFrozen
    /\ IF contest # None THEN Freezing(f, Idle) /\ UNCHANGED <<contest, frozen>>
       ELSE /\ contest' = Torn /\ frozen' = frozen + 1
            /\ Freezing(f, [step |-> "write", is |-> [freezer[f].is EXCEPT !.id = frozen + 1]])
    /\ UNCHANGED <<Market, archive, predictor, rows, deaths>>
Written(f) ==
    /\ Step(f, "write")
    /\ contest' = freezer[f].is /\ Freezing(f, Idle)
    /\ UNCHANGED <<Market, archive, frozen, predictor, rows, deaths>>

Holding(p, step) == predictor[p].step = step
Predicting(p, next) == predictor' = [predictor EXCEPT ![p] = next]

(* _read_frozen_contest: the worker holds the contest that is active now.     *)
ReadContest(p) ==
    /\ Holding(p, "idle") /\ Whole
    /\ Predicting(p, [step |-> "contest", of |-> contest])
    /\ UNCHANGED <<Market, contest, archive, frozen, freezer, rows, deaths>>

(* _require_forward_signal_rollover: another artifact than the one frozen     *)
(* must be of a later day than all predictions of the registration, or,       *)
(* before there are any, of another day than the start of the contest.        *)
RowsOf(c) == {r \in rows : r.bundle = c.bundle}

(* Mutant: a day that has predictions already is accepted again.              *)
ForwardSame(c, a) ==
    IF RowsOf(c) = {} THEN a.day # c.day ELSE a.day >= Max({r.day : r \in RowsOf(c)})

Forward(c, a) ==
    IF RowsOf(c) = {} THEN a.day # c.day ELSE a.day > Max({r.day : r \in RowsOf(c)})

(* Mutant: what was generated before the contest started counts as well.      *)
BegunBefore(c, a) == a.number >= c.input

(* append_prediction: the artifact is not older than the contest.             *)
Begun(c, a) == a.number > c.start

(* _derive_predict_context: today's artifact of the bundle of the contest.    *)
Accepted(c, a) ==
    /\ a # None /\ a.day = Session
    /\ a.number = c.input \/ Forward(c, a)
    /\ a.bundle = c.bundle
    /\ Begun(c, a)
Derive(p) ==
    /\ Holding(p, "contest")
    /\ LET c == predictor[p].of
       IN  Predicting(p, IF Accepted(c, artifact)
                         THEN [step |-> "append", of |-> c, input |-> artifact, todo |-> Symbols]
                         ELSE Idle)
    /\ UNCHANGED <<Market, contest, archive, frozen, freezer, rows, deaths>>

Row(p, s) == LET w == predictor[p]
             IN  [bundle |-> w.of.bundle, contest |-> w.of.id, day |-> w.input.day,
                  input |-> w.input.number, symbol |-> s]
Predict(p, s) ==
    /\ Holding(p, "append") /\ s \in predictor[p].todo
    /\ rows' = rows \cup {Row(p, s)}
    /\ LET rest == predictor[p].todo \ {s}
       IN  Predicting(p, IF rest = {} THEN Idle ELSE [predictor[p] EXCEPT !.todo = rest])
    /\ UNCHANGED <<Market, contest, archive, frozen, freezer, deaths>>

(* Any process may die; a contest that is being written stays torn.           *)
Die ==
    /\ deaths < MaxDeaths /\ deaths' = deaths + 1
    /\ \/ \E f \in Freezers : ~ Step(f, "idle") /\ Freezing(f, Idle) /\ UNCHANGED predictor
       \/ \E p \in Predictors :
             ~ Holding(p, "idle") /\ Predicting(p, Idle) /\ UNCHANGED freezer
    /\ UNCHANGED <<Market, contest, archive, frozen, rows>>

(* The session ends, a day begins; the model is replaced, or put back; the    *)
(* daily signals are generated, again for the same session if asked for.      *)
Outside ==
    \/ /\ ~ over /\ over' = TRUE /\ UNCHANGED <<bundle, today, artifact, made>>
    \/ /\ over /\ today < LastDay /\ over' = FALSE /\ today' = today + 1
       /\ UNCHANGED <<bundle, artifact, made>>
    \/ /\ bundle' \in Bundles \ {bundle} /\ UNCHANGED <<today, over, artifact, made>>
    \/ /\ made < MaxArtifacts /\ made' = made + 1
       /\ artifact' = [number |-> made + 1, day |-> Session, bundle |-> bundle]
       /\ UNCHANGED <<bundle, today, over>>
Elsewhere ==
    Outside /\ UNCHANGED <<contest, archive, frozen, freezer, predictor, rows, deaths>>

ContestNext ==
    \/ \E f \in Freezers : \/ Freeze(f) \/ NameArchive(f) \/ Move(f)
                           \/ Register(f) \/ Create(f) \/ Written(f)
    \/ \E p \in Predictors : \/ ReadContest(p) \/ Derive(p)
                             \/ \E s \in Symbols : Predict(p, s)
    \/ Die \/ Elsewhere

ContestSpec == ContestInit /\ [][ContestNext]_contestVars
------------------------------------------------------------------------------
(* "Without weakening same-cycle binding": what is recorded for a day under a *)
(* registration was made from one artifact, however often that day's signals  *)
(* were generated, the model was put back, or the contest frozen again.       *)
OneInputPerDay ==
    \A r, s \in rows : r.bundle = s.bundle /\ r.day = s.day => r.input = s.input

(* "The old frozen contest is archived and its predictions remain available": *)
(* the contest that a prediction was recorded under is active or archived.    *)
ContestKept ==
    \A r \in rows : \/ Whole /\ contest.id = r.contest
                    \/ \E a \in archive : a.is.id = r.contest
==============================================================================
