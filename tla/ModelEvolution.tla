---------------------------- MODULE ModelEvolution ----------------------------
(* Who is champion: the registry of evaluation reports and promotions, the    *)
(* one-time tokens of the preview pages, and the handler threads that confirm *)
(* a promotion or a rollback without a lock between them.  The registry is a  *)
(* file that every change rewrites as a whole; tokens and previews live in    *)
(* the memory of the process.                                                 *)
EXTENDS Naturals, Sequences, FiniteSets

CONSTANTS None, Handlers, Reports, Models,
          MaxTokens, MaxFaults

VARIABLES champion,       \* the champion in memory
          reports,        \* report -> its evaluation: None or [candidate, status]
          tokens,         \* subject -> the last token issued for it, or None
          audit,          \* the promotions and rollbacks, in order
          file,           \* what the state file holds
          previews,       \* token -> None or [action, subject]
          handler,        \* handler thread -> None or the confirmation it carries out
          issued,         \* tokens issued so far
          spent,          \* history: tokens that changed the champion, with their subject
          faults

evolutionVars == <<champion, reports, tokens, audit, file, previews, handler, issued, spent, faults>>

First == "champion-v1"
Body == [champion |-> champion, reports |-> reports, audit |-> audit]

(* Subjects of an approval: a report, or the record of an earlier change. *)
Records == 1 .. Len(audit)
Subjects == Reports \cup 1 .. MaxTokens
Awaiting(r) == r \in Reports /\ reports[r] # None /\ reports[r].status = "AWAITING_MANUAL_APPROVAL"
Eligible(action, subject) == IF action = "promotion" THEN Awaiting(subject) ELSE subject \in Records
------------------------------------------------------------------------------
(* An evaluation passes when every check of its evidence does. *)
Evaluate ==
    /\ \E r \in Reports, m \in Models, passes \in BOOLEAN :
          /\ reports[r] = None
          /\ reports' = [reports EXCEPT ![r] =
                [candidate |-> m,
                 status |-> IF passes THEN "AWAITING_MANUAL_APPROVAL" ELSE "BLOCKED"]]
    /\ file' = [Body EXCEPT !.reports = reports']
    /\ UNCHANGED <<champion, tokens, audit, previews, handler, issued, spent, faults>>

(* A preview issues a token for its subject; the token issued before it for   *)
(* the same subject is forgotten by the registry, though not by the pages.    *)
Preview(action, subject) ==
    /\ issued < MaxTokens
    /\ Eligible(action, subject)
    /\ issued' = issued + 1
    /\ tokens' = [tokens EXCEPT ![subject] = issued']
    /\ previews' = [previews EXCEPT ![issued'] = [action |-> action, subject |-> subject]]
    /\ UNCHANGED <<champion, reports, audit, file, handler, spent, faults>>

(* A confirmation first takes the page's preview of the token away... *)
Confirm(h, token, action, subject) ==
    /\ handler[h] = None
    /\ previews' = [previews EXCEPT ![token] = None]
    /\ handler' = [handler EXCEPT ![h] =
          IF previews[token] = [action |-> action, subject |-> subject]
          THEN [step |-> "taken", token |-> token, action |-> action, subject |-> subject]
          ELSE None]
    /\ UNCHANGED <<champion, reports, tokens, audit, file, issued, spent, faults>>

(* ... then the registry's, which is gone whether or not it is the same.      *)
(* (AnyToken is a mutant: the token is not compared.)                         *)
At(h, step) == handler[h] # None /\ handler[h].step = step
AnyToken(h) == TRUE
Spends(h) == tokens[handler[h].subject] = handler[h].token
Consume(h) ==
    /\ At(h, "taken")
    /\ IF Eligible(handler[h].action, handler[h].subject)
       THEN /\ tokens' = [tokens EXCEPT ![handler[h].subject] = None]
            /\ handler' = [handler EXCEPT ![h] =
                  IF Spends(h) THEN [step |-> "spent", token |-> @.token, action |-> @.action,
                                     subject |-> @.subject] ELSE None]
            /\ spent' = IF Spends(h)
                        THEN Append(spent, [token |-> handler[h].token,
                                            subject |-> handler[h].subject,
                                            action |-> handler[h].action])
                        ELSE spent
       ELSE handler' = [handler EXCEPT ![h] = None] /\ UNCHANGED <<tokens, spent>>
    /\ UNCHANGED <<champion, reports, audit, file, previews, issued, faults>>

Successor(h) == IF handler[h].action = "promotion" THEN reports[handler[h].subject].candidate
                                                   ELSE audit[handler[h].subject].previous

ReadChampion(h) ==
    /\ At(h, "spent")
    /\ handler' = [handler EXCEPT ![h] = [step |-> "read", action |-> @.action,
                                          subject |-> @.subject, previous |-> champion]]
    /\ UNCHANGED <<champion, reports, tokens, audit, file, previews, issued, spent, faults>>

SetChampion(h) ==
    /\ At(h, "read")
    /\ champion' = Successor(h)
    /\ handler' = [handler EXCEPT ![h].step = "set"]
    /\ UNCHANGED <<reports, tokens, audit, file, previews, issued, spent, faults>>

(* The record names the champion as it is by then. *)
AppendRecord(h) ==
    /\ At(h, "set")
    /\ audit' = Append(audit, [action |-> handler[h].action, subject |-> handler[h].subject,
                               previous |-> handler[h].previous, champion |-> champion])
    /\ handler' = [handler EXCEPT ![h] = [step |-> "recorded"]]
    /\ UNCHANGED <<champion, reports, tokens, file, previews, issued, spent, faults>>

(* The body is put together before the temporary file is written and replaces *)
(* the state file, so a body may replace one that was put together later.     *)
Encode(h) ==
    /\ At(h, "recorded")
    /\ handler' = [handler EXCEPT ![h] = [step |-> "encoded", body |-> Body]]
    /\ UNCHANGED <<champion, reports, tokens, audit, file, previews, issued, spent, faults>>

Replace(h) ==
    /\ At(h, "encoded")
    /\ file' = handler[h].body
    /\ handler' = [handler EXCEPT ![h] = None]
    /\ UNCHANGED <<champion, reports, tokens, audit, previews, issued, spent, faults>>

(* An error of the disk ends the handler and leaves memory ahead of the file. *)
PersistFails(h) ==
    /\ At(h, "encoded")
    /\ faults < MaxFaults /\ faults' = faults + 1
    /\ handler' = [handler EXCEPT ![h] = None]
    /\ UNCHANGED <<champion, reports, tokens, audit, file, previews, issued, spent>>

Restart ==
    /\ faults < MaxFaults /\ faults' = faults + 1
    /\ champion' = file.champion /\ reports' = file.reports /\ audit' = file.audit
    /\ tokens' = [s \in Subjects |-> None]
    /\ previews' = [t \in 1 .. MaxTokens |-> None]
    /\ handler' = [h \in Handlers |-> None]
    /\ UNCHANGED <<file, issued, spent>>

EvolutionInit ==
    /\ champion = First
    /\ reports = [r \in Reports |-> None]
    /\ tokens = [s \in Subjects |-> None]
    /\ audit = <<>>
    /\ file = Body
    /\ previews = [t \in 1 .. MaxTokens |-> None]
    /\ handler = [h \in Handlers |-> None]
    /\ issued = 0 /\ spent = <<>> /\ faults = 0

EvolutionNext ==
    \/ Evaluate
    \/ \E action \in {"promotion", "rollback"}, s \in Subjects :
          \/ Preview(action, s)
          \/ \E h \in Handlers, t \in 1 .. issued : Confirm(h, t, action, s)
    \/ \E h \in Handlers : \/ Consume(h) \/ ReadChampion(h) \/ SetChampion(h) \/ AppendRecord(h)
                           \/ Encode(h) \/ Replace(h) \/ PersistFails(h)
    \/ Restart

Spec == EvolutionInit /\ [][EvolutionNext]_evolutionVars
------------------------------------------------------------------------------
(* A champion is changed by a person, once per confirmation: a token spends   *)
(* at most once, on the subject and the action it was previewed for, and only *)
(* while no later preview of that subject replaced it, however many handlers  *)
(* confirm at once and whatever a restart forgets.                            *)
ConfirmedOnce ==
    /\ \A i, j \in DOMAIN spent : i < j /\ spent[i].subject = spent[j].subject
          => spent[i].token < spent[j].token
    /\ \A i, j \in DOMAIN spent : spent[i].token = spent[j].token => i = j
    /\ \A h \in Handlers : At(h, "read") \/ At(h, "set")
          => Eligible(handler[h].action, handler[h].subject)
    /\ Len(audit) <= Len(spent)
==============================================================================
