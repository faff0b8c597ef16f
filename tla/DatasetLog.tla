----------------------------- MODULE DatasetLog -----------------------------
(* What the research data store promises its callers: one log of artifacts   *)
(* that only grows, in which a dataset key and version name one content, and *)
(* from which alone artifacts are handed out.                                *)
EXTENDS Naturals, Sequences, Functions

VARIABLES log,    \* the published artifacts, oldest first
          held    \* every artifact a caller was ever given

logVars == <<log, held>>

(* The artifact a key stands for: the last one published under it.           *)
Versioned(k, v) == \E r \in Range(log) : r.key = k /\ r.version = v
Keyed(k) == {i \in DOMAIN log : log[i].key = k}
Active(k) == log[CHOOSE i \in Keyed(k) : \A j \in Keyed(k) : j <= i]

LogInit == log = <<>> /\ held = {}

(* Publication, and the artifact the publisher is given if it lives so long. *)
Publish(k, v, d) ==
    /\ ~ Versioned(k, v)
    /\ log' = Append(log, [key |-> k, version |-> v, digest |-> d])

HandOut == held' \subseteq held \cup Range(log')

LogNext == HandOut /\ ( \/ UNCHANGED log
                        \/ \E r \in Range(log') : Publish(r.key, r.version, r.digest) )

LogSpec == LogInit /\ [][LogNext]_logVars
=============================================================================
