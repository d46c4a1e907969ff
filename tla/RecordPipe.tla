------------------------------ MODULE RecordPipe ------------------------------
(***************************************************************************)
(* What uploads promise of their records, without readers, channels,       *)
(* batches, retries or status: each upload is a pipe that takes the rows   *)
(* of its file in order and lets records out in the same order, into the   *)
(* tables and into its totals in one step.  Totals are written over those  *)
(* of other uploads.  The end of a pipe says nothing of what still waits   *)
(* in it: an upload may leave records behind.                              *)
(***************************************************************************)
EXTENDS Naturals, FiniteSets, SequencesExt

CONSTANTS Uploads, Rows, Providers, ProviderOf

VARIABLES pos,      \* rows taken in
          waiting,  \* records taken in and not let out
          agg,      \* totals per provider of the records let out
          stored, table,
          done      \* uploads that have ended

pipeVars == <<pos, waiting, agg, stored, table, done>>

Init ==
    /\ pos = [u \in Uploads |-> 0]
    /\ waiting = [u \in Uploads |-> <<>>]
    /\ agg = [u \in Uploads |-> [p \in Providers |-> 0]]
    /\ stored = {}
    /\ table = [p \in Providers |-> 0]
    /\ done = {}

Read(u) ==
    /\ u \notin done /\ pos[u] < Len(Rows[u])
    /\ pos' = [pos EXCEPT ![u] = @ + 1]
    /\ waiting' = [waiting EXCEPT ![u] = @ \o Rows[u][pos[u] + 1].recs]
    /\ UNCHANGED <<agg, stored, table, done>>

Occurrences(s, p) == Cardinality({i \in DOMAIN s : ProviderOf[s[i]] = p})

\* The first n of the records that wait get through.
Store(u, n) ==
    LET out == SubSeq(waiting[u], 1, n) IN
    /\ u \notin done
    /\ waiting' = [waiting EXCEPT ![u] = SubSeq(@, n + 1, Len(@))]
    /\ stored' = stored \cup Range(out)
    /\ agg' = [agg EXCEPT ![u] = [p \in Providers |-> @[p] + Occurrences(out, p)]]
    /\ UNCHANGED <<pos, table, done>>

\* A failure: some of those that wait are in the tables, and all wait on.
StorePart(u) ==
    /\ u \notin done
    /\ \E part \in SUBSET Range(waiting[u]) : stored' = stored \cup part
    /\ UNCHANGED <<pos, waiting, agg, table, done>>

\* Totals are written, of all the providers there are totals for or of some.
Report(u) ==
    /\ u \notin done
    /\ \E providers \in SUBSET {p \in Providers : agg[u][p] > 0} :
          table' = [p \in Providers |-> IF p \in providers THEN agg[u][p] ELSE table[p]]
    /\ UNCHANGED <<pos, waiting, agg, stored, done>>

Finish(u) ==
    /\ u \notin done /\ pos[u] = Len(Rows[u])
    /\ done' = done \cup {u}
    /\ UNCHANGED <<pos, waiting, agg, stored, table>>

Next ==
    \E u \in Uploads :
        \/ Read(u) \/ StorePart(u) \/ Report(u) \/ Finish(u)
        \/ \E n \in 0 .. Len(waiting[u]) : Store(u, n)

Spec == Init /\ [][Next]_pipeVars
=============================================================================
