-------------------------------- MODULE Upload --------------------------------
(***************************************************************************)
(* CSV uploads (handlers/upload.go).  Each upload has a reader goroutine   *)
(* that parses rows and sends their records into recordCh, and a worker    *)
(* goroutine that batches, stores and aggregates them.  All uploads share  *)
(* the registry uploadStatuses, keyed by file name, and the tables.        *)
(*                                                                         *)
(* A record is one (domain, nameserver) pair of the file; its provider is  *)
(* what extractProviderName makes of it.  The context is Background and    *)
(* never ends, so the ctx.Done branches are left out.  Errors and          *)
(* FailedRows are always raised together; FailedRows stands for both.      *)
(***************************************************************************)
EXTENDS Naturals, FiniteSets, SequencesExt

CONSTANTS Uploads,    \* calls of POST /upload
          Files,      \* file names
          File,       \* the name each upload gives: [Uploads -> Files]
          Rows,       \* the rows each upload holds: [Uploads -> Seq(Row)]
          Records,
          Providers,
          ProviderOf, \* [Records -> Providers]
          BatchSize,  \* batchSize
          Capacity,   \* room in recordCh
          MaxFaults   \* bound of the model: faults of disk and database

Row == [kind : {"header", "data", "bad"}, recs : Seq(Records)]

ASSUME UploadAssumption ==
    /\ File \in [Uploads -> Files]
    /\ Rows \in [Uploads -> Seq(Row)]
    /\ ProviderOf \in [Records -> Providers]
    /\ \A u \in Uploads : \A i \in DOMAIN Rows[u] :
          Rows[u][i].kind # "data" => Rows[u][i].recs = <<>>
    /\ BatchSize \in Nat \ {0} /\ Capacity \in Nat \ {0} /\ MaxFaults \in Nat

VARIABLES
    reader,    \* where the handler and the reader of each upload are
    pos,       \* rows read
    pending,   \* records of the last row read, still to be sent
    chan,      \* recordCh
    worker,    \* where the worker is
    batch,     \* the worker's batch
    agg,       \* aggState.providerCounts of the worker
    status,    \* uploadStatuses
    stored,    \* records in reverse_ns_sharded (the same batches fill provider_domains)
    table,     \* domain_count in provider_stats
    tempFiles, \* uploads whose temporary file exists
    expired,   \* uploads whose five minutes after completion are over
    faults     \* faults so far

reading == <<pos, pending>>
working == <<batch, agg>>
tables  == <<stored, table>>
files   == <<tempFiles, expired>>
vars    == <<reader, reading, chan, worker, working, status, tables, files, faults>>

\* An entry of uploadStatuses; by is the upload whose handler put it there.
NoStatus    == [Status |-> "absent", InsertedRows |-> 0, FailedRows |-> 0, by |-> {}]
Fresh(u)    == [NoStatus EXCEPT !.Status = "uploading", !.by = {u}]
StatusOf(u) == status[File[u]]

RecordsClosed(u) == reader[u] \in {"closing", "waiting"}
DoneClosed(u)    == reader[u] = "waiting"

Init ==
    /\ reader = [u \in Uploads |-> "none"]
    /\ pos = [u \in Uploads |-> 0]
    /\ pending = [u \in Uploads |-> <<>>]
    /\ chan = [u \in Uploads |-> <<>>]
    /\ worker = [u \in Uploads |-> "none"]
    /\ batch = [u \in Uploads |-> <<>>]
    /\ agg = [u \in Uploads |-> [p \in Providers |-> 0]]
    /\ status = [f \in Files |-> NoStatus]
    /\ stored = {}
    /\ table = [p \in Providers |-> 0]
    /\ tempFiles = {} /\ expired = {} /\ faults = 0

-----------------------------------------------------------------------------
(* Helpers. *)

\* updateStatus: nothing happens when the name is not registered.
Update(u, new, inserted, failed) ==
    status' = IF StatusOf(u).Status = "absent" THEN status
              ELSE [status EXCEPT ![File[u]] =
                      [StatusOf(u) EXCEPT !.Status = new,
                                          !.InsertedRows = @ + inserted,
                                          !.FailedRows = @ + failed]]

Count(u, inserted, failed) == Update(u, StatusOf(u).Status, inserted, failed)

Reader(u, from, to) == reader[u] = from /\ reader' = [reader EXCEPT ![u] = to]
Worker(u, from, to) == worker[u] = from /\ worker' = [worker EXCEPT ![u] = to]

Fault == faults < MaxFaults /\ faults' = faults + 1

\* How often a provider occurs among the records of the sequence s.
Occurrences(s, p) == Cardinality({i \in DOMAIN s : ProviderOf[s[i]] = p})

-----------------------------------------------------------------------------
(* The handler and the goroutine it starts. *)

\* The copy into the temporary file fails: an error answer, and no goroutine
\* that would remove the file.
CopyFails(u) ==
    /\ Reader(u, "none", "refused")
    /\ Fault
    /\ tempFiles' = tempFiles \cup {u}
    /\ UNCHANGED <<reading, chan, worker, working, status, tables, expired>>

Accept(u) ==
    /\ Reader(u, "none", "spawned")
    /\ tempFiles' = tempFiles \cup {u}
    /\ status' = [status EXCEPT ![File[u]] = Fresh(u)]
    /\ UNCHANGED <<reading, chan, worker, working, tables, expired, faults>>

\* The goroutine cannot reopen the file and returns at once.
ReopenFails(u) ==
    /\ Reader(u, "spawned", "dead")
    /\ Fault
    /\ Update(u, "error", 0, 0)
    /\ UNCHANGED <<reading, chan, worker, working, tables, files>>

Reopen(u) ==
    /\ Reader(u, "spawned", "first")
    /\ Update(u, "processing", 0, 0)
    /\ UNCHANGED <<reading, chan, worker, working, tables, files, faults>>

\* An empty file, or a first row that cannot be read, ends the upload.
FirstFails(u) ==
    /\ Reader(u, "first", "failed")
    /\ (Rows[u] = <<>> /\ UNCHANGED faults) \/ Fault
    /\ Update(u, "error", 0, 1)
    /\ UNCHANGED <<reading, chan, worker, working, tables, files>>

\* The first row is data only if its second column is a positive number;
\* whatever it is, the worker starts.
ReadFirst(u) ==
    /\ Rows[u] # <<>>
    /\ Reader(u, "first", "reading")
    /\ Worker(u, "none", "select")
    /\ pos' = [pos EXCEPT ![u] = 1]
    /\ pending' = [pending EXCEPT ![u] = Rows[u][1].recs]
    /\ UNCHANGED <<chan, working, status, tables, files, faults>>

-----------------------------------------------------------------------------
(* The reader's loop and its end. *)

ReadRow(u) ==
    /\ reader[u] = "reading" /\ pending[u] = <<>> /\ pos[u] < Len(Rows[u])
    /\ LET row == Rows[u][pos[u] + 1] IN
       /\ pos' = [pos EXCEPT ![u] = @ + 1]
       /\ pending' = [pending EXCEPT ![u] = row.recs]
       /\ IF row.kind = "bad" THEN Count(u, 0, 1) ELSE UNCHANGED status
    /\ UNCHANGED <<reader, chan, worker, working, tables, files, faults>>

\* A read error other than the end of the file is recorded and the read tried
\* again.
ReadError(u) ==
    /\ reader[u] = "reading" /\ pending[u] = <<>>
    /\ Fault
    /\ Count(u, 0, 1)
    /\ UNCHANGED <<reader, reading, chan, worker, working, tables, files>>

Send(u) ==
    /\ reader[u] = "reading" /\ pending[u] # <<>>
    /\ Len(chan[u]) < Capacity
    /\ chan' = [chan EXCEPT ![u] = Append(@, Head(pending[u]))]
    /\ pending' = [pending EXCEPT ![u] = Tail(@)]
    /\ UNCHANGED <<reader, pos, worker, working, status, tables, files, faults>>

CloseRecords(u) ==
    /\ pending[u] = <<>> /\ pos[u] = Len(Rows[u])
    /\ Reader(u, "reading", "closing")
    /\ UNCHANGED <<reading, chan, worker, working, status, tables, files, faults>>

CloseDone(u) ==
    /\ Reader(u, "closing", "waiting")
    /\ UNCHANGED <<reading, chan, worker, working, status, tables, files, faults>>

\* A mutant: the reader does not wait for the worker.
CompleteWithoutWait(u) ==
    /\ Reader(u, "waiting", "completed")
    /\ Update(u, "completed", 0, 0)
    /\ UNCHANGED <<reading, chan, worker, working, tables, files, faults>>

\* wg.Wait is over.
Complete(u) ==
    /\ worker[u] = "stopped"
    /\ Reader(u, "waiting", "completed")
    /\ Update(u, "completed", 0, 0)
    /\ UNCHANGED <<reading, chan, worker, working, tables, files, faults>>

RemoveTemp(u) ==
    /\ reader[u] \in {"completed", "failed"} /\ u \in tempFiles
    /\ tempFiles' = tempFiles \ {u}
    /\ UNCHANGED <<reader, reading, chan, worker, working, status, tables, expired, faults>>

\* Five minutes later the name is deleted, whoever registered it last.
Expire(u) ==
    /\ reader[u] \in {"completed", "failed"} /\ u \notin expired
    /\ expired' = expired \cup {u}
    /\ status' = [status EXCEPT ![File[u]] = NoStatus]
    /\ UNCHANGED <<reader, reading, chan, worker, working, tables, tempFiles, faults>>

-----------------------------------------------------------------------------
(* processBatchWorker: one action per branch of its select, flush and      *)
(* flushAggState as steps of their own.                                    *)

Take(u) ==
    /\ chan[u] # <<>>
    /\ Worker(u, "select", IF Len(batch[u]) + 1 >= BatchSize THEN "flush" ELSE "select")
    /\ batch' = [batch EXCEPT ![u] = Append(@, Head(chan[u]))]
    /\ chan' = [chan EXCEPT ![u] = Tail(@)]
    /\ UNCHANGED <<reader, reading, agg, status, tables, files, faults>>

\* recordCh is closed and drained.
TakeClosed(u) ==
    /\ RecordsClosed(u) /\ chan[u] = <<>>
    /\ Worker(u, "select", "lastFlush")
    /\ UNCHANGED <<reader, reading, chan, working, status, tables, files, faults>>

\* doneCh is closed; the select may choose this branch while recordCh still
\* holds records.
TakeDone(u) ==
    /\ DoneClosed(u)
    /\ Worker(u, "select", "lastFlush")
    /\ UNCHANGED <<reader, reading, chan, working, status, tables, files, faults>>

FlushTick(u) ==
    /\ batch[u] # <<>>
    /\ Worker(u, "select", "flush")
    /\ UNCHANGED <<reader, reading, chan, working, status, tables, files, faults>>

AggTick(u) ==
    /\ Worker(u, "select", "agg")
    /\ UNCHANGED <<reader, reading, chan, working, status, tables, files, faults>>

AfterFlush(u) ==
    \/ Worker(u, "flush", "select")
    \/ Worker(u, "lastFlush", "lastAgg")

Flush(u) ==
    /\ AfterFlush(u)
    /\ stored' = stored \cup Range(batch[u])
    /\ agg' = [agg EXCEPT ![u] = [p \in Providers |-> @[p] + Occurrences(batch[u], p)]]
    /\ Count(u, Len(batch[u]), 0)
    /\ batch' = [batch EXCEPT ![u] = <<>>]
    /\ UNCHANGED <<reader, reading, chan, table, files, faults>>

\* Mutants of the error path: the batch is dropped...
FlushFailsDropping(u) ==
    /\ batch[u] # <<>>
    /\ AfterFlush(u)
    /\ Fault
    /\ Count(u, 0, Len(batch[u]) + 1)
    /\ batch' = [batch EXCEPT ![u] = <<>>]
    /\ UNCHANGED <<reader, reading, chan, agg, stored, table, files>>

\* ... or aggregated before the error is looked at ...
FlushFailsAggregating(u) ==
    /\ batch[u] # <<>>
    /\ AfterFlush(u)
    /\ Fault
    /\ agg' = [agg EXCEPT ![u] = [p \in Providers |-> @[p] + Occurrences(batch[u], p)]]
    /\ Count(u, 0, Len(batch[u]) + 1)
    /\ UNCHANGED <<reader, reading, chan, batch, stored, table, files>>

\* ... or counted as one failed row ...
FlushFailsUncounted(u) ==
    /\ batch[u] # <<>>
    /\ AfterFlush(u)
    /\ Fault
    /\ Count(u, 0, 1)
    /\ UNCHANGED <<reader, reading, chan, working, stored, table, files>>

\* ... or the worker returns.
FlushFailsStopping(u) ==
    /\ batch[u] # <<>>
    /\ Worker(u, "flush", "stopped") \/ Worker(u, "lastFlush", "stopped")
    /\ Fault
    /\ Count(u, 0, Len(batch[u]) + 1)
    /\ UNCHANGED <<reader, reading, chan, working, stored, table, files>>

\* ExecuteBatch fails: the records stay in the batch and are counted as failed,
\* with one more for the batch.  An unlogged batch may have been applied in part.
FlushFails(u) ==
    /\ batch[u] # <<>>
    /\ AfterFlush(u)
    /\ Fault
    /\ \E part \in SUBSET Range(batch[u]) : stored' = stored \cup part
    /\ Count(u, 0, Len(batch[u]) + 1)
    /\ UNCHANGED <<reader, reading, chan, working, table, files>>

\* A mutant: the totals are added to what the tables hold.
WriteAggAdding(u, providers) ==
    /\ \/ Worker(u, "agg", "select")
       \/ Worker(u, "lastAgg", "stopped")
    /\ table' = [p \in Providers |-> IF p \in providers THEN table[p] + agg[u][p] ELSE table[p]]
    /\ UNCHANGED <<reader, reading, chan, working, status, stored, files>>

\* flushAggState writes the totals of this upload over what the tables hold;
\* errors are dropped, so some of the rows may stay as they were.
WriteAgg(u, providers) ==
    /\ \/ Worker(u, "agg", "select")
       \/ Worker(u, "lastAgg", "stopped")
    /\ table' = [p \in Providers |-> IF p \in providers THEN agg[u][p] ELSE table[p]]
    /\ UNCHANGED <<reader, reading, chan, working, status, stored, files>>

Touched(u) == {p \in Providers : agg[u][p] > 0}

FlushAgg(u) == WriteAgg(u, Touched(u)) /\ UNCHANGED faults

FlushAggFails(u) == Fault /\ \E part \in SUBSET Touched(u) \ {Touched(u)} : WriteAgg(u, part)

-----------------------------------------------------------------------------

Read(u) == Reopen(u) \/ FirstFails(u) \/ ReadFirst(u) \/ ReadRow(u) \/ Send(u)
           \/ CloseRecords(u) \/ CloseDone(u) \/ Complete(u)
Receive(u) == Take(u) \/ TakeClosed(u) \/ TakeDone(u)

Step(u) ==
    \/ Accept(u) \/ CopyFails(u) \/ ReopenFails(u) \/ ReadError(u) \/ Read(u)
    \/ RemoveTemp(u) \/ Expire(u)
    \/ Receive(u) \/ FlushTick(u) \/ AggTick(u)
    \/ Flush(u) \/ FlushFails(u) \/ FlushAgg(u) \/ FlushAggFails(u)

Next == \E u \in Uploads : Step(u)

\* Goroutines are scheduled.  The select picks among its ready branches at
\* random, so the tickers do not keep it from receiving for ever.
Fairness ==
    \A u \in Uploads :
        /\ WF_vars(Read(u)) /\ SF_vars(Receive(u))
        /\ WF_vars(Flush(u)) /\ WF_vars(FlushAgg(u))

Spec == Init /\ [][Next]_vars
FairSpec == Spec /\ Fairness

-----------------------------------------------------------------------------
(* What an upload does with its records. *)

\* Every variable stays in its type and the buffers within their bounds; a
\* batch only outgrows BatchSize after a failed flush.
TypeOK ==
    /\ reader \in [Uploads -> {"none", "refused", "spawned", "dead", "first", "reading",
                              "closing", "waiting", "completed", "failed"}]
    /\ worker \in [Uploads -> {"none", "select", "flush", "agg",
                              "lastFlush", "lastAgg", "stopped"}]
    /\ pos \in [Uploads -> Nat] /\ pending \in [Uploads -> Seq(Records)]
    /\ chan \in [Uploads -> Seq(Records)] /\ batch \in [Uploads -> Seq(Records)]
    /\ \A u \in Uploads :
          /\ pos[u] <= Len(Rows[u]) /\ Len(chan[u]) <= Capacity
          /\ faults = 0 => Len(batch[u]) <= BatchSize
    /\ agg \in [Uploads -> [Providers -> Nat]] /\ table \in [Providers -> Nat]
    /\ status \in [Files -> [Status : {"absent", "uploading", "processing", "completed", "error"},
                            InsertedRows : Nat, FailedRows : Nat, by : SUBSET Uploads]]
    /\ stored \subseteq Records
    /\ tempFiles \subseteq Uploads /\ expired \subseteq Uploads
    /\ faults \in 0 .. MaxFaults

\* What the reader has read, in order, and what of it left the worker's batch
\* for good: records travel first in, first out.
RecordsRead(u) == FlattenSeq([i \in 1 .. pos[u] |-> Rows[u][i].recs])
Waiting(u) == batch[u] \o chan[u] \o pending[u]
Flushed(u) == SubSeq(RecordsRead(u), 1, Len(RecordsRead(u)) - Len(Waiting(u)))

\* No record of a row is dropped or overtaken between the reader and the
\* tables: those that do not wait in the batch, in recordCh or in the row are
\* stored, whatever flushes failed and were retried before; with the types.
RecordsAccounted ==
    /\ TypeOK
    /\ \A u \in Uploads :
          /\ RecordsRead(u) = Flushed(u) \o Waiting(u)
          /\ Range(Flushed(u)) \subseteq stored

\* The aggregated counts of a worker are exactly its flushed records, and so are
\* the rows its status reports as inserted (of a file name no other upload
\* uses): a batch that is retried is neither counted twice nor forgotten.
AggregatesFlushed ==
    \A u \in Uploads :
        /\ \A p \in Providers : agg[u][p] = Occurrences(Flushed(u), p)
        /\ StatusOf(u).by = {u} /\ (\A v \in Uploads \ {u} : File[v] # File[u])
             => StatusOf(u).InsertedRows = Len(Flushed(u))

\* A count in provider_stats is one that the records some upload has flushed
\* account for, although tickers write it at any time and flushes fail in
\* between.
StatsNeverAhead ==
    \A p \in Providers :
        table[p] > 0 => \E u \in Uploads : table[p] <= Occurrences(Flushed(u), p)

\* Records that a worker leaves behind in its batch show up as failed rows, on
\* top of the rows that were bad and of one for the batch.
BadRows(u) == {i \in 2 .. pos[u] : Rows[u][i].kind = "bad"}
LeftoversReported ==
    \A u \in Uploads :
        worker[u] = "stopped" /\ batch[u] # <<>> /\ StatusOf(u).by = {u}
          => StatusOf(u).FailedRows > Len(batch[u]) + Cardinality(BadRows(u))

\* Once the status says "completed" its numbers are final, until the entry is
\* deleted (for a file name no other upload uses).
CompletedIsFinal ==
    [][\A u \in Uploads :
          (StatusOf(u).Status = "completed" /\ \A v \in Uploads \ {u} : File[v] # File[u])
            => StatusOf(u)' \in {StatusOf(u), NoStatus}]_vars

\* Every upload that was accepted ends, even when the database fails: the
\* reader is never stuck on a full channel, the worker never misses the end.
EveryUploadEnds ==
    \A u \in Uploads :
        []<>(reader[u] \in {"none", "refused", "completed", "failed", "dead"})

-----------------------------------------------------------------------------
(* What the comments and documents say and the code does not do. *)

\* "Send remaining records" (upload.go:380), "All 1.4M rows should insert
\* successfully" (UPLOAD_OPTIMIZATION.md:51): without any fault a completed
\* upload has stored all its records.
NothingLost ==
    \A u \in Uploads :
        reader[u] = "completed" /\ faults = 0 => Range(RecordsRead(u)) \subseteq stored
=============================================================================
