----------------------------- MODULE UploadProofs -----------------------------
(***************************************************************************)
(* What TLAPS proves of uploads, for any number of them, of rows and of    *)
(* faults, and for every size of batch and channel.                        *)
(***************************************************************************)
EXTENDS UploadRefines, FoldLemmas

-----------------------------------------------------------------------------
(* Types, and where the reader and the worker of an upload can be at the   *)
(* same time.                                                              *)

Early == {"none", "refused", "spawned", "dead", "first", "failed"}
Ended == {"closing", "waiting", "completed"}

\* Before the worker starts there is nothing; after the file ends there is
\* nothing more to send; the reader completes after the worker.
Phases ==
    \A u \in Uploads :
        /\ IF reader[u] \in Early
           THEN /\ worker[u] = "none" /\ pos[u] = 0
                /\ pending[u] = <<>> /\ chan[u] = <<>> /\ batch[u] = <<>>
                /\ agg[u] = [p \in Providers |-> 0]
           ELSE worker[u] # "none" /\ pos[u] >= 1
        /\ reader[u] \in Ended => pending[u] = <<>> /\ pos[u] = Len(Rows[u])
        /\ reader[u] = "completed" => worker[u] = "stopped"

\* A batch that may still grow is not full, as long as no flush failed.
Room ==
    \A u \in Uploads :
        faults = 0 /\ worker[u] \in {"select", "agg"} => Len(batch[u]) < BatchSize

Typed == TypeOK /\ Phases /\ Room

Statuses == {"absent", "uploading", "processing", "completed", "error"}
Entry == [Status : Statuses, InsertedRows : Nat, FailedRows : Nat, by : SUBSET Uploads]

\* What updateStatus does to the entries.
LEMMA UpdateEntry ==
    ASSUME Typed, NEW u \in Uploads, NEW new \in Statuses,
           NEW inserted \in Nat, NEW failed \in Nat, Update(u, new, inserted, failed)
    PROVE  /\ status' \in [Files -> Entry]
           /\ \A f \in Files \ {File[u]} : status'[f] = status[f]
           /\ StatusOf(u).Status = "absent" => status' = status
           /\ StatusOf(u).Status # "absent" =>
                status'[File[u]] =
                    [Status |-> new, InsertedRows |-> StatusOf(u).InsertedRows + inserted,
                     FailedRows |-> StatusOf(u).FailedRows + failed, by |-> StatusOf(u).by]
<1>1. status \in [Files -> Entry] /\ File[u] \in Files
    BY UploadAssumption DEF Typed, TypeOK, Entry, Statuses
<1>2. CASE StatusOf(u).Status = "absent"
    BY <1>1, <1>2 DEF Update
<1>3. CASE StatusOf(u).Status # "absent"
  <2> DEFINE e == [StatusOf(u) EXCEPT !.Status = new, !.InsertedRows = @ + inserted,
                                     !.FailedRows = @ + failed]
  <2>1. status' = [status EXCEPT ![File[u]] = e]
      BY <1>3 DEF Update
  <2>2. status'[File[u]] =
                    [Status |-> new, InsertedRows |-> StatusOf(u).InsertedRows + inserted,
                     FailedRows |-> StatusOf(u).FailedRows + failed, by |-> StatusOf(u).by]
    <3>1. status'[File[u]] = e
      <4> HIDE DEF e
      <4> QED BY <1>1, <2>1
    <3>2. StatusOf(u) \in Entry
        BY <1>1 DEF StatusOf
    <3> HIDE DEF StatusOf
    <3> QED BY <3>1, <3>2 DEF Entry
  <2>3. status'[File[u]] \in Entry
      BY <1>1, <2>2 DEF StatusOf, Entry
  <2> QED BY <1>1, <1>3, <2>1, <2>2, <2>3
<1> QED BY <1>2, <1>3

\* The records of a row are records.
LEMMA RowRecs ==
    ASSUME NEW u \in Uploads, NEW i \in 1 .. Len(Rows[u])
    PROVE  Rows[u][i].recs \in Seq(Records) /\ Rows[u] \in Seq(Row)
<1>1. Rows[u] \in Seq(Row)
    BY UploadAssumption
<1>2. Rows[u][i] \in Row
    BY <1>1, ElementOfSeq
<1> QED BY <1>1, <1>2 DEF Row

\* How often a provider occurs is a count of its records.
Of(p) == {r \in Records : ProviderOf[r] = p}

\* Occurrences is such a count.
LEMMA OccurrencesCounted ==
    ASSUME NEW s \in Seq(Records), NEW p
    PROVE  Occurrences(s, p) = CountIn(s, Of(p)) /\ Occurrences(s, p) \in Nat
<1>1. \A i \in DOMAIN s : s[i] \in Records
    BY ElementOfSeq, LenProperties
<1>2. {i \in DOMAIN s : ProviderOf[s[i]] = p} = {i \in DOMAIN s : s[i] \in Of(p)}
    BY <1>1 DEF Of
<1>3. Occurrences(s, p) = CountIn(s, Of(p))
    BY <1>2 DEF Occurrences, CountIn
<1>4. CountIn(s, Of(p)) \in Nat
    BY CountType
<1> QED BY <1>3, <1>4

\* Uploads start in their types...
LEMMA TypedInit == Init => Typed
<1> SUFFICES ASSUME Init PROVE Typed
    OBVIOUS
<1>1. \A u \in Uploads : Rows[u] \in Seq(Row) /\ Len(Rows[u]) \in Nat
    BY UploadAssumption
<1>2. TypeOK
    BY <1>1, UploadAssumption DEF Init, TypeOK, NoStatus
<1>3. Phases /\ Room
    BY UploadAssumption DEF Init, Phases, Room, Early, Ended
<1> QED BY <1>2, <1>3 DEF Typed

\* ... and every step keeps them there.
LEMMA TypedStep == Typed /\ [Next]_vars => Typed'
<1> SUFFICES ASSUME Typed, [Next]_vars PROVE Typed'
    OBVIOUS
<1>0. /\ TypeOK /\ Phases /\ Room
      /\ \A u \in Uploads : Rows[u] \in Seq(Row) /\ Len(Rows[u]) \in Nat
      /\ BatchSize \in Nat \ {0} /\ Capacity \in Nat \ {0} /\ MaxFaults \in Nat
      /\ File \in [Uploads -> Files]
    BY UploadAssumption DEF Typed
<1>e. ASSUME status' \in [Files -> Entry]
      PROVE  status' \in [Files -> [Status : {"absent", "uploading", "processing", "completed",
                                             "error"},
                                    InsertedRows : Nat, FailedRows : Nat, by : SUBSET Uploads]]
    BY <1>e DEF Entry, Statuses
<1>f. status \in [Files -> Entry] /\ \A u \in Uploads : StatusOf(u).Status \in Statuses
    BY <1>0 DEF TypeOK, Entry, Statuses, StatusOf
<1>1. ASSUME NEW u \in Uploads, CopyFails(u) PROVE Typed'
    BY <1>0, <1>1 DEF CopyFails, Reader, Fault, Typed, TypeOK, Phases, Room, Early, Ended,
           reading, working, tables
<1>2. ASSUME NEW u \in Uploads, Accept(u) PROVE Typed'
  <2>1. status' \in [Files -> Entry]
      BY <1>0, <1>2, <1>f DEF Accept, Fresh, NoStatus, Entry, Statuses
  <2> QED BY <1>0, <1>2, <2>1, <1>e DEF Accept, Reader, Typed, TypeOK, Phases, Room, Early, Ended,
           reading, working, tables
<1>3. ASSUME NEW u \in Uploads, ReopenFails(u) PROVE Typed'
  <2>1. status' \in [Files -> Entry]
      BY <1>3, UpdateEntry DEF ReopenFails, Statuses
  <2> QED BY SMTT(30), <1>0, <1>3, <2>1, <1>e DEF ReopenFails, Fault, Reader, Typed, TypeOK, Phases, Room, Early, Ended,
           reading, working, tables, files
<1>4. ASSUME NEW u \in Uploads, ReadError(u) PROVE Typed'
  <2>1. status' \in [Files -> Entry]
      BY <1>4, <1>f, UpdateEntry DEF ReadError, Count
  <2> QED BY SMTT(30), <1>0, <1>4, <2>1, <1>e DEF ReadError, Fault, Reader, Typed, TypeOK, Phases, Room, Early, Ended,
           reading, working, tables, files
<1>5. ASSUME NEW u \in Uploads, Reopen(u) PROVE Typed'
  <2>1. status' \in [Files -> Entry]
      BY <1>5, UpdateEntry DEF Reopen, Statuses
  <2> QED BY <1>0, <1>5, <2>1, <1>e DEF Reopen, Fault, Reader, Typed, TypeOK, Phases, Room, Early, Ended,
           reading, working, tables, files
<1>6. ASSUME NEW u \in Uploads, FirstFails(u) PROVE Typed'
  <2>1. status' \in [Files -> Entry]
      BY <1>6, UpdateEntry DEF FirstFails, Statuses
  <2> QED BY SMTT(30), <1>0, <1>6, <2>1, <1>e DEF FirstFails, Fault, Reader, Typed, TypeOK, Phases, Room, Early, Ended,
           reading, working, tables, files
<1>7. ASSUME NEW u \in Uploads, ReadFirst(u) PROVE Typed'
  <2>1. 1 \in 1 .. Len(Rows[u]) /\ Rows[u][1].recs \in Seq(Records)
    <3>1. Rows[u] # <<>> /\ Rows[u] \in Seq(Row)
        BY <1>0, <1>7 DEF ReadFirst
    <3>2. 1 \in 1 .. Len(Rows[u])
        BY <3>1, EmptySeq
    <3> QED BY <3>2, RowRecs
  <2>5. /\ pos' = [pos EXCEPT ![u] = 1] /\ pending' = [pending EXCEPT ![u] = Rows[u][1].recs]
        /\ reader' = [reader EXCEPT ![u] = "reading"] /\ worker' = [worker EXCEPT ![u] = "select"]
        /\ UNCHANGED <<chan, batch, agg, status, tables, files, faults>>
      BY <1>7 DEF ReadFirst, Worker, Reader, working
  <2>6. /\ pos' \in [Uploads -> Nat] /\ pending' \in [Uploads -> Seq(Records)]
        /\ \A v \in Uploads : pos'[v] <= Len(Rows[v])
      BY SMTT(30), <1>0, <2>1, <2>5 DEF TypeOK
  <2>2. TypeOK'
      BY <1>0, <2>5, <2>6 DEF TypeOK, tables, files
  <2>3. Phases'
      BY <1>0, <1>7 DEF ReadFirst, Worker, Reader, TypeOK, Phases, Early, Ended, working
  <2>4. Room'
      BY <1>0, <1>7 DEF ReadFirst, Worker, Reader, TypeOK, Phases, Room, Early, working
  <2> QED BY <2>2, <2>3, <2>4 DEF Typed
<1>8. ASSUME NEW u \in Uploads, ReadRow(u) PROVE Typed'
  <2>1. status' \in [Files -> Entry]
      BY <1>8, <1>f, UpdateEntry DEF ReadRow, Count
  <2>2. pos[u] + 1 \in 1 .. Len(Rows[u]) /\ Rows[u][pos[u] + 1].recs \in Seq(Records)
      BY SMTT(30), <1>0, <1>8, RowRecs DEF ReadRow, TypeOK
  <2>3. /\ pos' = [pos EXCEPT ![u] = @ + 1]
        /\ pending' = [pending EXCEPT ![u] = Rows[u][pos[u] + 1].recs]
        /\ reader[u] = "reading" /\ pos[u] < Len(Rows[u])
        /\ UNCHANGED <<reader, chan, worker, batch, agg, tables, files, faults>>
      BY <1>8 DEF ReadRow, working
  <2>4. /\ pos' \in [Uploads -> Nat] /\ pending' \in [Uploads -> Seq(Records)]
        /\ pos'[u] = pos[u] + 1 /\ pos'[u] \in Nat /\ pos'[u] <= Len(Rows[u])
        /\ \A v \in Uploads \ {u} : pos'[v] = pos[v] /\ pending'[v] = pending[v]
    <3>1. pos \in [Uploads -> Nat] /\ pending \in [Uploads -> Seq(Records)]
        BY <1>0 DEF TypeOK
    <3>2. pos[u] + 1 \in Nat /\ pos[u] + 1 <= Len(Rows[u])
        BY <1>0, <2>3, <3>1
    <3>3. pos'[u] = pos[u] + 1 /\ \A v \in Uploads \ {u} : pos'[v] = pos[v]
        BY <2>3, <3>1
    <3>4. pos' \in [Uploads -> Nat]
        BY <2>3, <3>1, <3>2
    <3>5. pending' \in [Uploads -> Seq(Records)]
        BY <2>2, <2>3, <3>1
    <3>6. \A v \in Uploads \ {u} : pending'[v] = pending[v]
        BY <2>3, <3>1
    <3> QED BY <3>2, <3>3, <3>4, <3>5, <3>6
  <2>5. \A v \in Uploads : pos'[v] <= Len(Rows[v])
      BY <1>0, <2>4 DEF TypeOK
  <2>7. TypeOK'
      BY <1>0, <2>1, <2>3, <2>4, <2>5, <1>e DEF TypeOK, tables, files
  <2>8. Phases'
    <3>1. /\ reader' = reader /\ worker' = worker /\ chan' = chan /\ batch' = batch /\ agg' = agg
          /\ reader[u] \notin Early \cup Ended
        BY <2>3 DEF Early, Ended
    <3>2. worker[u] # "none" /\ pos'[u] >= 1
        BY <1>0, <2>4, <3>1 DEF Phases, TypeOK
    <3> QED BY <1>0, <2>4, <3>1, <3>2 DEF Phases
  <2>6. Room'
      BY <1>0, <2>3 DEF Room
  <2> QED BY <2>6, <2>7, <2>8 DEF Typed
<1>9. ASSUME NEW u \in Uploads, Send(u) PROVE Typed'
  <2>1. /\ Head(pending[u]) \in Records /\ Tail(pending[u]) \in Seq(Records)
        /\ Append(chan[u], Head(pending[u])) \in Seq(Records)
        /\ Len(Append(chan[u], Head(pending[u]))) = Len(chan[u]) + 1
        /\ Len(chan[u]) \in Nat
      BY <1>0, <1>9, HeadTail, AppendProperties DEF Send, TypeOK
  <2>2. TypeOK'
      BY SMTT(30), <1>0, <1>9, <2>1 DEF Send, TypeOK, working, tables, files
  <2>3. Phases' /\ Room'
      BY <1>0, <1>9 DEF Send, TypeOK, Phases, Room, Early, Ended, working
  <2> QED BY <2>2, <2>3 DEF Typed
<1>10. ASSUME NEW u \in Uploads, CloseRecords(u) PROVE Typed'
    BY <1>0, <1>10 DEF CloseRecords, Reader, Typed, TypeOK, Phases, Room, Early, Ended,
           reading, working, tables, files
<1>11. ASSUME NEW u \in Uploads, CloseDone(u) PROVE Typed'
    BY <1>0, <1>11 DEF CloseDone, Reader, Typed, TypeOK, Phases, Room, Early, Ended,
           reading, working, tables, files
<1>12. ASSUME NEW u \in Uploads, Complete(u) PROVE Typed'
  <2>1. status' \in [Files -> Entry]
      BY <1>12, UpdateEntry DEF Complete, Statuses
  <2> QED BY <1>0, <1>12, <2>1, <1>e DEF Complete, Reader, Typed, TypeOK, Phases, Room, Early, Ended,
           reading, working, tables, files
<1>13. ASSUME NEW u \in Uploads, RemoveTemp(u) PROVE Typed'
    BY <1>0, <1>13 DEF RemoveTemp, Typed, TypeOK, Phases, Room, Early, Ended,
           reading, working, tables, files
<1>14. ASSUME NEW u \in Uploads, Expire(u) PROVE Typed'
  <2>1. status' \in [Files -> Entry]
      BY <1>0, <1>14, <1>f DEF Expire, NoStatus, Entry, Statuses
  <2> QED BY <1>0, <1>14, <2>1, <1>e DEF Expire, Typed, TypeOK, Phases, Room, Early, Ended,
           reading, working, tables, files
<1>15. ASSUME NEW u \in Uploads, Take(u) PROVE Typed'
  <2>1. /\ Head(chan[u]) \in Records /\ Tail(chan[u]) \in Seq(Records)
        /\ Append(batch[u], Head(chan[u])) \in Seq(Records)
        /\ Len(Append(batch[u], Head(chan[u]))) = Len(batch[u]) + 1
        /\ Len(chan[u]) \in Nat /\ Len(batch[u]) \in Nat
        /\ Len(Tail(chan[u])) = Len(chan[u]) - 1
      BY <1>0, <1>15, HeadTail, HeadTailProperties, AppendProperties DEF Take, TypeOK
  <2>5. /\ worker[u] = "select" /\ worker' \in [Uploads -> {"none", "select", "flush", "agg",
                                                          "lastFlush", "lastAgg", "stopped"}]
        /\ batch' = [batch EXCEPT ![u] = Append(batch[u], Head(chan[u]))]
        /\ chan' = [chan EXCEPT ![u] = Tail(chan[u])]
        /\ UNCHANGED <<reader, pos, pending, agg, status, tables, files, faults>>
      BY <1>0, <1>15 DEF Take, Worker, TypeOK, reading
  <2>6. batch' \in [Uploads -> Seq(Records)] /\ chan' \in [Uploads -> Seq(Records)]
      BY <1>0, <2>1, <2>5 DEF TypeOK
  <2>7. \A v \in Uploads : Len(chan'[v]) <= Capacity
      BY <1>0, <2>1, <2>5 DEF TypeOK
  <2>8. \A v \in Uploads : faults = 0 => Len(batch'[v]) <= BatchSize
      BY <1>0, <2>1, <2>5 DEF TypeOK, Room
  <2>2. TypeOK'
      BY <1>0, <2>5, <2>6, <2>7, <2>8 DEF TypeOK, tables, files
  <2>3. Phases'
      BY <1>0, <1>15 DEF Take, Worker, TypeOK, Phases, Early, Ended, reading
  <2>4. Room'
      BY SMTT(30), <1>0, <1>15, <2>1 DEF Take, Worker, TypeOK, Room
  <2> QED BY <2>2, <2>3, <2>4 DEF Typed
<1>16. ASSUME NEW u \in Uploads, TakeClosed(u) \/ TakeDone(u) \/ FlushTick(u) \/ AggTick(u)
       PROVE  Typed'
  <2>1. /\ UNCHANGED <<reader, reading, chan, working, status, tables, files, faults>>
        /\ \E to \in {"flush", "agg", "lastFlush"} : Worker(u, "select", to)
      BY <1>16 DEF TakeClosed, TakeDone, FlushTick, AggTick
  <2>2. TypeOK'
      BY <1>0, <2>1 DEF Worker, TypeOK, reading, working, tables, files
  <2>3. Phases'
      BY <1>0, <2>1 DEF Worker, TypeOK, Phases, reading, working
  <2>4. Room'
      BY <1>0, <2>1 DEF Worker, TypeOK, Room, working
  <2> QED BY <2>2, <2>3, <2>4 DEF Typed
<1>17. ASSUME NEW u \in Uploads, Flush(u) PROVE Typed'
  <2>1. /\ batch[u] \in Seq(Records) /\ Len(batch[u]) \in Nat
        /\ Range(batch[u]) \subseteq Records
        /\ agg[u] \in [Providers -> Nat]
      BY <1>0, RangeOfSeq DEF TypeOK
  <2>2. status' \in [Files -> Entry]
      BY <1>17, <1>f, <2>1, UpdateEntry DEF Flush, Count
  <2>3. agg' \in [Uploads -> [Providers -> Nat]]
    <3>1. [p \in Providers |-> agg[u][p] + Occurrences(batch[u], p)] \in [Providers -> Nat]
        BY <2>1, OccurrencesCounted
    <3> QED BY <1>0, <1>17, <3>1 DEF Flush, TypeOK
  <2>4. reader' = reader /\ worker[u] \in {"flush", "lastFlush"}
        /\ \E to \in {"select", "lastAgg"} : worker' = [worker EXCEPT ![u] = to]
      BY <1>17 DEF Flush, AfterFlush, Worker
  <2>5. TypeOK'
      BY <1>0, <1>17, <1>e, <2>1, <2>2, <2>3, <2>4 DEF Flush, TypeOK, reading, files
  <2>6. Phases'
      BY <1>0, <1>17, <2>4 DEF Flush, TypeOK, Phases, reading
  <2>7. Room'
      BY <1>0, <1>17, <2>4 DEF Flush, TypeOK, Room
  <2> QED BY <2>5, <2>6, <2>7 DEF Typed
<1>18. ASSUME NEW u \in Uploads, FlushFails(u) PROVE Typed'
  <2>1. /\ batch[u] \in Seq(Records) /\ Len(batch[u]) + 1 \in Nat
        /\ Range(batch[u]) \subseteq Records
      BY <1>0, RangeOfSeq DEF TypeOK
  <2>2. status' \in [Files -> Entry]
      BY <1>18, <1>f, <2>1, UpdateEntry DEF FlushFails, Count
  <2>4. reader' = reader /\ worker[u] \in {"flush", "lastFlush"} /\ faults' = faults + 1
        /\ \E to \in {"select", "lastAgg"} : worker' = [worker EXCEPT ![u] = to]
      BY <1>18 DEF FlushFails, AfterFlush, Worker, Fault
  <2>5. TypeOK'
      BY SMTT(30), <1>0, <1>18, <1>e, <2>1, <2>2, <2>4 DEF FlushFails, Fault, TypeOK, reading, working, files
  <2>6. Phases'
      BY <1>0, <1>18, <2>4 DEF FlushFails, TypeOK, Phases, reading, working
  <2>7. Room'
      BY <1>0, <2>4 DEF TypeOK, Room
  <2> QED BY <2>5, <2>6, <2>7 DEF Typed
<1>19. ASSUME NEW u \in Uploads, NEW providers, WriteAgg(u, providers),
              faults' = faults \/ Fault
       PROVE  Typed'
  <2>1. reader' = reader /\ worker[u] \in {"agg", "lastAgg"}
        /\ worker' = [worker EXCEPT ![u] = IF worker[u] = "agg" THEN "select" ELSE "stopped"]
      BY <1>19 DEF WriteAgg, Worker
  <2>2. TypeOK'
      BY SMTT(30), <1>0, <1>19, <2>1 DEF WriteAgg, Fault, TypeOK, reading, working, files
  <2>3. Phases'
      BY <1>0, <1>19, <2>1 DEF WriteAgg, TypeOK, Phases, reading, working
  <2>4. ASSUME NEW v \in Uploads, faults' = 0, worker'[v] \in {"select", "agg"}
        PROVE  Len(batch'[v]) < BatchSize
    <3>1. batch' = batch /\ faults = 0
        BY <1>0, <1>19, <2>4 DEF WriteAgg, Fault, TypeOK, working
    <3>2. worker[v] \in {"select", "agg"}
        BY <1>0, <2>1, <2>4 DEF TypeOK
    <3> QED BY <1>0, <3>1, <3>2 DEF Room
  <2>5. Room'
      BY <2>4 DEF Room
  <2> QED BY <2>2, <2>3, <2>5 DEF Typed
<1>20. CASE UNCHANGED vars
    BY <1>0, <1>20 DEF vars, reading, working, tables, files, Typed, TypeOK, Phases, Room
<1> QED BY <1>1, <1>2, <1>3, <1>4, <1>5, <1>6, <1>7, <1>8, <1>9, <1>10, <1>11, <1>12, <1>13,
           <1>14, <1>15, <1>16, <1>17, <1>18, <1>19, <1>20 DEF Next, Step, Read, Receive, FlushAgg, FlushAggFails

\* Uploads keep to their types, to the room in recordCh and in the batch, and to
\* the order of reader and worker.
THEOREM TypesCorrect == Spec => []TypeOK
<1>1. Typed => TypeOK
    BY DEF Typed
<1> QED BY TypedInit, TypedStep, <1>1, PTL DEF Spec

-----------------------------------------------------------------------------
(* Where the records of an upload are.                                     *)

ReadUpTo(u, n) == FlattenSeq([i \in 1 .. n |-> Rows[u][i].recs])

\* Each row adds its records at the end of what was read.
LEMMA RowAdds ==
    ASSUME NEW u \in Uploads, NEW n \in Nat, n < Len(Rows[u])
    PROVE  /\ ReadUpTo(u, 0) = <<>>
           /\ ReadUpTo(u, n) \in Seq(Records)
           /\ ReadUpTo(u, n + 1) = ReadUpTo(u, n) \o Rows[u][n + 1].recs
<1> DEFINE e == [i \in 1 .. Len(Rows[u]) |-> Rows[u][i].recs]
<1>1. Len(Rows[u]) \in Nat
    BY UploadAssumption
<1>2. \A i \in 1 .. Len(Rows[u]) : e[i] \in Seq(Records) /\ e[i] = Rows[u][i].recs
    BY RowRecs
<1>3. \A m \in 0 .. Len(Rows[u]) : FirstOf(e, m) = [i \in 1 .. m |-> Rows[u][i].recs]
    BY <1>1, <1>2 DEF FirstOf
<1> HIDE DEF e
<1>4. \A i \in 1 .. n + 1 : e[i] \in Seq(Records)
    BY <1>1, <1>2
<1>5. /\ FlattenSeq(FirstOf(e, 0)) = <<>> /\ FlattenSeq(FirstOf(e, n)) \in Seq(Records)
      /\ FlattenSeq(FirstOf(e, n + 1)) = FlattenSeq(FirstOf(e, n)) \o e[n + 1]
    BY <1>4, FlattenFirst, FlattenType
<1>6. FirstOf(e, 0) = [i \in 1 .. 0 |-> Rows[u][i].recs]
      /\ FirstOf(e, n) = [i \in 1 .. n |-> Rows[u][i].recs]
      /\ FirstOf(e, n + 1) = [i \in 1 .. n + 1 |-> Rows[u][i].recs]
      /\ e[n + 1] = Rows[u][n + 1].recs
  <2>1. /\ 0 \in 0 .. Len(Rows[u]) /\ n \in 0 .. Len(Rows[u]) /\ n + 1 \in 0 .. Len(Rows[u])
        /\ n + 1 \in 1 .. Len(Rows[u])
      BY <1>1
  <2> QED BY <1>2, <1>3, <2>1, Zenon
<1>7. /\ ReadUpTo(u, 0) = FlattenSeq(FirstOf(e, 0)) /\ ReadUpTo(u, n) = FlattenSeq(FirstOf(e, n))
      /\ ReadUpTo(u, n + 1) = FlattenSeq(FirstOf(e, n + 1))
    BY <1>6, Zenon DEF ReadUpTo
<1> QED BY <1>5, <1>6, <1>7

\* What was read is a sequence of records, empty before the first row.
LEMMA ReadIsSeq ==
    ASSUME Typed, NEW u \in Uploads
    PROVE  /\ RecordsRead(u) = ReadUpTo(u, pos[u]) /\ RecordsRead(u) \in Seq(Records)
           /\ pos[u] = 0 => RecordsRead(u) = <<>>
<1>1. pos[u] \in Nat /\ pos[u] <= Len(Rows[u]) /\ Len(Rows[u]) \in Nat
    BY UploadAssumption DEF Typed, TypeOK
<1>2. RecordsRead(u) = ReadUpTo(u, pos[u])
    BY DEF RecordsRead, ReadUpTo
<1>3. CASE pos[u] = 0
    BY <1>2, <1>3 DEF ReadUpTo, FlattenSeq
<1>4. CASE pos[u] # 0
  <2>1. pos[u] - 1 \in Nat /\ pos[u] - 1 < Len(Rows[u]) /\ pos[u] = (pos[u] - 1) + 1
        /\ pos[u] \in 1 .. Len(Rows[u])
      BY <1>1, <1>4
  <2>2. /\ ReadUpTo(u, pos[u] - 1) \in Seq(Records)
        /\ ReadUpTo(u, pos[u]) = ReadUpTo(u, pos[u] - 1) \o Rows[u][pos[u]].recs
      BY <2>1, RowAdds
  <2>3. Rows[u][pos[u]].recs \in Seq(Records)
      BY <2>1, RowRecs
  <2> QED BY <1>2, <1>4, <2>2, <2>3, ConcatProperties
<1> QED BY <1>2, <1>3, <1>4

\* Each step leaves the records of an upload where they are, or reads a row, or
\* sends, takes or flushes.
Kept(v) ==
    /\ pos'[v] = pos[v] /\ pending'[v] = pending[v]
    /\ chan'[v] = chan[v] /\ batch'[v] = batch[v] /\ agg'[v] = agg[v]
RowRead(v) ==
    /\ pos[v] < Len(Rows[v]) /\ pending[v] = <<>>
    /\ pos'[v] = pos[v] + 1 /\ pending'[v] = Rows[v][pos[v] + 1].recs
    /\ chan'[v] = chan[v] /\ batch'[v] = batch[v] /\ agg'[v] = agg[v]
Sent(v) ==
    /\ pending[v] # <<>>
    /\ pos'[v] = pos[v] /\ pending'[v] = Tail(pending[v])
    /\ chan'[v] = Append(chan[v], Head(pending[v]))
    /\ batch'[v] = batch[v] /\ agg'[v] = agg[v]
Taken(v) ==
    /\ chan[v] # <<>>
    /\ pos'[v] = pos[v] /\ pending'[v] = pending[v]
    /\ chan'[v] = Tail(chan[v])
    /\ batch'[v] = Append(batch[v], Head(chan[v])) /\ agg'[v] = agg[v]
Stored(v) ==
    /\ Flush(v)
    /\ pos'[v] = pos[v] /\ pending'[v] = pending[v]
    /\ chan'[v] = chan[v] /\ batch'[v] = <<>>
    /\ agg'[v] = [p \in Providers |-> agg[v][p] + Occurrences(batch[v], p)]
    /\ stored' = stored \cup Range(batch[v])

\* Nothing else happens to the records, and nothing stored is ever removed.
LEMMA Moves ==
    ASSUME Typed, [Next]_vars, NEW v \in Uploads
    PROVE  /\ Kept(v) \/ RowRead(v) \/ Sent(v) \/ Taken(v) \/ Stored(v)
           /\ stored \subseteq stored'
<1>0. /\ pos \in [Uploads -> Nat] /\ pending \in [Uploads -> Seq(Records)]
      /\ chan \in [Uploads -> Seq(Records)] /\ batch \in [Uploads -> Seq(Records)]
      /\ agg \in [Uploads -> [Providers -> Nat]]
    BY DEF Typed, TypeOK
<1>1. CASE UNCHANGED vars
    BY <1>1 DEF vars, reading, working, tables, Kept
<1>2. ASSUME NEW u \in Uploads,
             CopyFails(u) \/ Accept(u) \/ ReopenFails(u) \/ ReadError(u) \/ Reopen(u)
             \/ FirstFails(u) \/ CloseRecords(u) \/ CloseDone(u) \/ Complete(u)
             \/ RemoveTemp(u) \/ Expire(u) \/ TakeClosed(u) \/ TakeDone(u)
             \/ FlushTick(u) \/ AggTick(u)
      PROVE  Kept(v) /\ stored \subseteq stored'
  <2>1. UNCHANGED <<reading, chan, working, tables>>
      BY <1>2 DEF CopyFails, Accept, ReopenFails, ReadError, Reopen, FirstFails, CloseRecords,
            CloseDone, Complete, RemoveTemp, Expire, TakeClosed, TakeDone, FlushTick, AggTick
  <2> QED BY <2>1 DEF reading, working, tables, Kept
<1>3. ASSUME NEW u \in Uploads, FlushFails(u) PROVE Kept(v) /\ stored \subseteq stored'
    BY <1>3 DEF FlushFails, reading, working, Kept
<1>4. ASSUME NEW u \in Uploads, NEW providers, WriteAgg(u, providers)
      PROVE  Kept(v) /\ stored \subseteq stored'
    BY <1>4 DEF WriteAgg, reading, working, Kept
<1>5. ASSUME NEW u \in Uploads, ReadFirst(u)
      PROVE  (Kept(v) \/ RowRead(v)) /\ stored \subseteq stored'
  <2>1. pos[u] = 0 /\ pending[u] = <<>>
      BY <1>5 DEF Typed, Phases, ReadFirst, Reader, Early
  <2>2. Len(Rows[u]) > 0 /\ Len(Rows[u]) \in Nat
      BY <1>5, UploadAssumption, EmptySeq, LenProperties DEF ReadFirst
  <2>3. /\ pos' = [pos EXCEPT ![u] = 1] /\ pending' = [pending EXCEPT ![u] = Rows[u][1].recs]
        /\ chan' = chan /\ batch' = batch /\ agg' = agg /\ stored' = stored
      BY <1>5 DEF ReadFirst, working, tables
  <2> QED BY <1>0, <2>1, <2>2, <2>3 DEF Kept, RowRead
<1>6. ASSUME NEW u \in Uploads, ReadRow(u)
      PROVE  (Kept(v) \/ RowRead(v)) /\ stored \subseteq stored'
  <2>1. /\ pos' = [pos EXCEPT ![u] = @ + 1]
        /\ pending' = [pending EXCEPT ![u] = Rows[u][pos[u] + 1].recs]
        /\ pending[u] = <<>> /\ pos[u] < Len(Rows[u])
        /\ chan' = chan /\ batch' = batch /\ agg' = agg /\ stored' = stored
      BY <1>6 DEF ReadRow, working, tables
  <2> QED BY <1>0, <2>1 DEF Kept, RowRead
<1>7. ASSUME NEW u \in Uploads, Send(u)
      PROVE  (Kept(v) \/ Sent(v)) /\ stored \subseteq stored'
    BY <1>0, <1>7 DEF Send, working, tables, Kept, Sent
<1>8. ASSUME NEW u \in Uploads, Take(u)
      PROVE  (Kept(v) \/ Taken(v)) /\ stored \subseteq stored'
    BY <1>0, <1>8 DEF Take, reading, tables, Kept, Taken
<1>9. ASSUME NEW u \in Uploads, Flush(u)
      PROVE  (Kept(v) \/ Stored(v)) /\ stored \subseteq stored'
  <2>1. /\ pos' = pos /\ pending' = pending /\ chan' = chan
        /\ batch' = [batch EXCEPT ![u] = <<>>]
        /\ agg' = [agg EXCEPT ![u] = [p \in Providers |-> agg[u][p] + Occurrences(batch[u], p)]]
        /\ stored' = stored \cup Range(batch[u])
      BY <1>9 DEF Flush, reading
  <2>2. CASE v = u
      BY <1>0, <1>9, <2>1, <2>2 DEF Stored
  <2>3. CASE v # u
      BY <1>0, <2>1, <2>3 DEF Kept
  <2> QED BY <2>2, <2>3
<1> QED BY <1>1, <1>2, <1>3, <1>4, <1>5, <1>6, <1>7, <1>8, <1>9
        DEF Next, Step, Read, Receive, FlushAgg, FlushAggFails

\* A record sent or taken does not change the order of those that wait.
LEMMA SendKeepsOrder ==
    ASSUME NEW S, NEW b \in Seq(S), NEW c \in Seq(S), NEW p \in Seq(S), p # <<>>
    PROVE  Cat(Cat(b, Append(c, Head(p))), Tail(p)) = Cat(Cat(b, c), p)
<1> DEFINE h == <<Head(p)>>
           t == Tail(p)
<1>1. p = Cat(h, t) /\ Head(p) \in S /\ h \in Seq(S) /\ t \in Seq(S)
    BY CatHead
<1>2. Append(c, Head(p)) = Cat(c, h)
    BY <1>1, CatAppend
<1> HIDE DEF h, t
<1>3. Cat(Cat(b, Cat(c, h)), t) = Cat(Cat(b, c), Cat(h, t))
    BY <1>1, CatFacts, CatAssociative
<1> QED BY <1>1, <1>2, <1>3 DEF t

\* Nor does a record the worker takes.
LEMMA TakeKeepsOrder ==
    ASSUME NEW S, NEW b \in Seq(S), NEW c \in Seq(S), c # <<>>
    PROVE  Cat(Append(b, Head(c)), Tail(c)) = Cat(b, c)
<1> DEFINE h == <<Head(c)>>
           t == Tail(c)
<1>1. c = Cat(h, t) /\ Head(c) \in S /\ h \in Seq(S) /\ t \in Seq(S)
    BY CatHead
<1>2. Append(b, Head(c)) = Cat(b, h)
    BY <1>1, CatAppend
<1> HIDE DEF h, t
<1>3. Cat(Cat(b, h), t) = Cat(b, Cat(h, t))
    BY <1>1, CatAssociative
<1> QED BY <1>1, <1>2, <1>3 DEF t

\* The buffers and what went through them are sequences of records.
LEMMA Sequences ==
    ASSUME Typed, NEW v \in Uploads
    PROVE  /\ batch[v] \in Seq(Records) /\ chan[v] \in Seq(Records) /\ pending[v] \in Seq(Records)
           /\ batch[v] \o chan[v] \in Seq(Records)
           /\ Waiting(v) = (batch[v] \o chan[v]) \o pending[v] /\ Waiting(v) \in Seq(Records)
           /\ RecordsRead(v) \in Seq(Records) /\ Flushed(v) \in Seq(Records)
<1>1. batch[v] \in Seq(Records) /\ chan[v] \in Seq(Records) /\ pending[v] \in Seq(Records)
    BY DEF Typed, TypeOK
<1>2. batch[v] \o chan[v] \in Seq(Records) /\ Waiting(v) \in Seq(Records)
    BY <1>1, ConcatProperties DEF Waiting
<1>3. RecordsRead(v) \in Seq(Records)
    BY ReadIsSeq
<1>4. Flushed(v) \in Seq(Records)
  <2> DEFINE n == Len(RecordsRead(v)) - Len(Waiting(v))
  <2>1. n \in Int /\ n <= Len(RecordsRead(v)) /\ Len(RecordsRead(v)) \in Nat
      BY <1>2, <1>3, LenProperties
  <2>2. \A i \in 1 .. n : RecordsRead(v)[i] \in Records
      BY <1>3, <2>1, ElementOfSeq
  <2> QED BY <2>1, <2>2, SubSeqProperties DEF Flushed
<1> QED BY <1>1, <1>2, <1>3, <1>4 DEF Waiting

\* What a step does to the flushed records: a flush adds the batch at the end,
\* anything else leaves them.
LEMMA FlushedStep ==
    ASSUME Typed, Typed', [Next]_vars, NEW v \in Uploads,
           RecordsRead(v) = Flushed(v) \o Waiting(v)
    PROVE  /\ RecordsRead(v)' = Flushed(v)' \o Waiting(v)'
           /\ Flush(v) => Stored(v) /\ Flushed(v)' = Flushed(v) \o batch[v]
           /\ ~Flush(v) => Flushed(v)' = Flushed(v) /\ agg'[v] = agg[v]
<1> DEFINE b == batch[v]
           c == chan[v]
           p == pending[v]
           F == Flushed(v)
           W == Cat(Cat(b, c), p)
           R == ReadUpTo(v, pos[v])
           W1 == Cat(Cat(batch'[v], chan'[v]), pending'[v])
           R1 == ReadUpTo(v, pos'[v])
<1>0. /\ pos[v] \in Nat /\ Len(Rows[v]) \in Nat
    BY UploadAssumption DEF Typed, TypeOK
<1>1. /\ b \in Seq(Records) /\ c \in Seq(Records) /\ p \in Seq(Records)
      /\ Cat(b, c) \in Seq(Records) /\ W \in Seq(Records)
      /\ R \in Seq(Records) /\ F \in Seq(Records)
    BY Sequences, ReadIsSeq DEF Cat
<1>2. R = Cat(F, W)
    BY ReadIsSeq DEF Cat, Waiting
<1>3. RecordsRead(v)' = R1 /\ Waiting(v)' = W1
    BY DEF RecordsRead, ReadUpTo, Waiting, Cat
<1>4. batch'[v] \in Seq(Records) /\ chan'[v] \in Seq(Records) /\ pending'[v] \in Seq(Records)
    BY DEF Typed, TypeOK
<1>5. W1 \in Seq(Records)
    BY <1>4, ConcatProperties DEF Cat
<1>6. Flushed(v)' = SubSeq(R1, 1, Len(R1) - Len(W1))
    BY <1>3 DEF Flushed
<1>7. ASSUME NEW G \in Seq(Records), R1 = Cat(G, W1)
      PROVE  Flushed(v)' = G /\ RecordsRead(v)' = Flushed(v)' \o Waiting(v)'
  <2>1. SubSeq(G \o W1, 1, Len(G \o W1) - Len(W1)) = G
    <3> HIDE DEF W1
    <3> QED BY <1>5, PrefixOfConcat
  <2> HIDE DEF W1, R1
  <2> QED BY <1>3, <1>6, <1>7, <2>1 DEF Cat
<1>8. CASE Flush(v)
  <2>1. Stored(v)
    <3>1. /\ pos' = pos /\ pending' = pending /\ chan' = chan
          /\ batch' = [batch EXCEPT ![v] = <<>>]
          /\ agg' = [agg EXCEPT ![v] = [q \in Providers |-> agg[v][q] + Occurrences(batch[v], q)]]
          /\ stored' = stored \cup Range(batch[v])
        BY <1>8 DEF Flush, reading
    <3> QED BY <1>8, <3>1 DEF Stored, Typed, TypeOK
  <2>2. W1 = Cat(Cat(<<>>, c), p) /\ R1 = R
      BY <2>1 DEF Stored
  <2> HIDE DEF R1, W1, R, F, b, c, p
  <2>3. Cat(<<>>, c) = c /\ Cat(c, p) \in Seq(Records) /\ Cat(F, b) \in Seq(Records)
      BY <1>1, CatFacts
  <2>4. Cat(F, Cat(Cat(b, c), p)) = Cat(Cat(F, b), Cat(c, p))
    <3>1. Cat(Cat(b, c), p) = Cat(b, Cat(c, p))
        BY <1>1, CatAssociative
    <3>2. Cat(Cat(F, b), Cat(c, p)) = Cat(F, Cat(b, Cat(c, p)))
        BY <1>1, <2>3, CatAssociative
    <3> QED BY <3>1, <3>2
  <2>5. R1 = Cat(Cat(F, b), W1)
      BY <1>2, <2>2, <2>3, <2>4
  <2>6. Flushed(v)' = Cat(F, b) /\ RecordsRead(v)' = Flushed(v)' \o Waiting(v)'
      BY <1>7, <2>3, <2>5
  <2> QED BY <1>8, <2>1, <2>6 DEF F, b, Cat
<1>9. CASE ~Flush(v)
  <2>1. R1 = Cat(F, W1)
    <3>1. CASE Kept(v)
        BY <1>2, <3>1 DEF Kept
    <3>2. CASE RowRead(v)
      <4> DEFINE r == Rows[v][pos[v] + 1].recs
      <4>1. W1 = Cat(Cat(b, c), r) /\ p = <<>>
          BY <3>2 DEF RowRead
      <4>2. R1 = Cat(R, r) /\ r \in Seq(Records)
        <5>1. pos[v] + 1 \in 1 .. Len(Rows[v])
            BY <1>0, <3>2 DEF RowRead
        <5> QED BY <1>0, <3>2, <5>1, RowAdds, RowRecs DEF RowRead, Cat
      <4> HIDE DEF r, F, R, R1, W1, b, c, p
      <4>3. Cat(Cat(b, c), <<>>) = Cat(b, c)
          BY <1>1, CatFacts
      <4>4. Cat(Cat(F, Cat(b, c)), r) = Cat(F, Cat(Cat(b, c), r))
          BY <1>1, <4>2, CatAssociative
      <4> QED BY <1>2, <4>1, <4>2, <4>3, <4>4
    <3>3. CASE Sent(v)
      <4>1. W1 = Cat(Cat(b, Append(c, Head(p))), Tail(p)) /\ R1 = R /\ p # <<>>
          BY <3>3 DEF Sent
      <4> HIDE DEF b, c, p, F, R, R1, W1
      <4>2. Cat(Cat(b, Append(c, Head(p))), Tail(p)) = Cat(Cat(b, c), p)
          BY <1>1, <4>1, SendKeepsOrder
      <4> QED BY <1>2, <4>1, <4>2
    <3>4. CASE Taken(v)
      <4>1. W1 = Cat(Cat(Append(b, Head(c)), Tail(c)), p) /\ R1 = R /\ c # <<>>
          BY <3>4 DEF Taken
      <4> HIDE DEF b, c, p, F, R, R1, W1
      <4>2. Cat(Append(b, Head(c)), Tail(c)) = Cat(b, c)
          BY <1>1, <4>1, TakeKeepsOrder
      <4> QED BY <1>2, <4>1, <4>2
    <3> QED BY <1>9, <3>1, <3>2, <3>3, <3>4, Moves DEF Stored
  <2>2. agg'[v] = agg[v]
      BY <1>9, Moves DEF Kept, RowRead, Sent, Taken, Stored
  <2>3. Flushed(v)' = F /\ RecordsRead(v)' = Flushed(v)' \o Waiting(v)'
    <3> HIDE DEF F, R1, W1
    <3> QED BY <1>1, <1>7, <2>1
  <2> QED BY <1>9, <2>2, <2>3
<1> QED BY <1>8, <1>9

\* At the start nothing was read, waits or was flushed...
LEMMA InitEmpty ==
    ASSUME Init, NEW u \in Uploads
    PROVE  RecordsRead(u) = <<>> /\ Waiting(u) = <<>> /\ Flushed(u) = <<>>
<1>1. Typed
    BY TypedInit
<1>2. pos[u] = 0 /\ batch[u] = <<>> /\ chan[u] = <<>> /\ pending[u] = <<>>
    BY DEF Init
<1>3. RecordsRead(u) = <<>>
    BY <1>1, <1>2, ReadIsSeq
<1>4. Waiting(u) = <<>>
    BY <1>2 DEF Waiting
<1>5. Flushed(u) = <<>>
    BY <1>3, <1>4 DEF Flushed
<1> QED BY <1>3, <1>4, <1>5

\* ... so that every record is accounted for...
LEMMA AccountedInit == Init => RecordsAccounted
<1> SUFFICES ASSUME Init, NEW u \in Uploads
             PROVE  /\ RecordsRead(u) = Flushed(u) \o Waiting(u)
                    /\ Range(Flushed(u)) \subseteq stored
    BY TypedInit DEF RecordsAccounted, Typed
<1>1. RecordsRead(u) = <<>> /\ Waiting(u) = <<>> /\ Flushed(u) = <<>>
    BY InitEmpty
<1>2. <<>> \o <<>> = <<>> /\ Range(<<>>) = {}
    BY DEF Range
<1> QED BY <1>1, <1>2

\* ... and every step keeps it so.
LEMMA AccountedStep == Typed /\ Typed' /\ RecordsAccounted /\ [Next]_vars => RecordsAccounted'
<1> SUFFICES ASSUME Typed, Typed', RecordsAccounted, [Next]_vars, NEW u \in Uploads
             PROVE  /\ RecordsRead(u)' = Flushed(u)' \o Waiting(u)'
                    /\ Range(Flushed(u)') \subseteq stored'
    BY DEF RecordsAccounted, Typed
<1>1. RecordsRead(u) = Flushed(u) \o Waiting(u) /\ Range(Flushed(u)) \subseteq stored
    BY DEF RecordsAccounted
<1>2. stored \subseteq stored'
    BY Moves
<1>3. CASE Flush(u)
  <2>1. stored' = stored \cup Range(batch[u]) /\ Flushed(u)' = Flushed(u) \o batch[u]
      BY <1>1, <1>3, FlushedStep DEF Stored
  <2>2. Range(Flushed(u) \o batch[u]) = Range(Flushed(u)) \cup Range(batch[u])
    <3>1. Flushed(u) \in Seq(Records) /\ batch[u] \in Seq(Records)
        BY Sequences
    <3> QED BY ZenonT(30), <3>1, RangeConcatenation
  <2> QED BY <1>1, <2>1, <2>2, FlushedStep
<1>4. CASE ~Flush(u)
    BY <1>1, <1>2, <1>4, FlushedStep
<1> QED BY <1>3, <1>4

\* No record is dropped or overtaken between the reader and the tables, however
\* the two goroutines interleave and whatever flushes fail.
THEOREM RecordsAccountedCorrect == Spec => []RecordsAccounted
<1> DEFINE IInv == Typed /\ RecordsAccounted
<1>1. Init => IInv
    BY TypedInit, AccountedInit
<1>2. IInv /\ [Next]_vars => IInv'
    BY TypedStep, AccountedStep
<1>3. IInv => RecordsAccounted
    OBVIOUS
<1> QED BY <1>1, <1>2, <1>3, PTL DEF Spec

-----------------------------------------------------------------------------
(* Aggregates and the table: exact, however often a flush was retried.      *)

AggregatesExact == \A u \in Uploads : \A p \in Providers : agg[u][p] = Occurrences(Flushed(u), p)

\* Occurrences add up.
LEMMA OccurrencesConcat ==
    ASSUME NEW s \in Seq(Records), NEW t \in Seq(Records), NEW p
    PROVE  /\ Occurrences(s \o t, p) = Occurrences(s, p) + Occurrences(t, p)
           /\ Occurrences(s, p) \in Nat /\ Occurrences(t, p) \in Nat
           /\ Occurrences(<<>>, p) = 0
<1>1. s \o t \in Seq(Records) /\ <<>> \in Seq(Records)
    BY ConcatProperties
<1>2. /\ Occurrences(s, p) = CountIn(s, Of(p)) /\ Occurrences(t, p) = CountIn(t, Of(p))
      /\ Occurrences(s \o t, p) = CountIn(s \o t, Of(p))
      /\ Occurrences(<<>>, p) = CountIn(<<>>, Of(p))
      /\ Occurrences(s, p) \in Nat /\ Occurrences(t, p) \in Nat
  <2> DEFINE st == s \o t
  <2>1. st \in Seq(Records)
      BY <1>1
  <2> HIDE DEF st
  <2>2. Occurrences(st, p) = CountIn(st, Of(p))
      BY <2>1, OccurrencesCounted
  <2> QED BY <1>1, <2>2, OccurrencesCounted DEF st
<1>3. CountIn(s \o t, Of(p)) = CountIn(s, Of(p)) + CountIn(t, Of(p))
    BY CountConcat
<1> QED BY <1>2, <1>3, CountEmpty

\* The totals are exact at the start...
LEMMA AggregatesExactInit == Init => AggregatesExact
<1> SUFFICES ASSUME Init, NEW u \in Uploads, NEW p \in Providers
             PROVE  agg[u][p] = Occurrences(Flushed(u), p)
    BY DEF AggregatesExact
<1>1. agg[u][p] = 0
    BY DEF Init
<1>2. <<>> \in Seq(Records)
    OBVIOUS
<1> QED BY <1>1, <1>2, InitEmpty, OccurrencesConcat

\* ... and every flush, failed or not, leaves them exact.
LEMMA AggregatesExactStep ==
    Typed /\ Typed' /\ RecordsAccounted /\ AggregatesExact /\ [Next]_vars => AggregatesExact'
<1> SUFFICES ASSUME Typed, Typed', RecordsAccounted, AggregatesExact, [Next]_vars,
                    NEW u \in Uploads, NEW p \in Providers
             PROVE  agg'[u][p] = Occurrences(Flushed(u)', p)
    BY DEF AggregatesExact, Occurrences
<1>1. RecordsRead(u) = Flushed(u) \o Waiting(u) /\ agg[u][p] = Occurrences(Flushed(u), p)
    BY DEF RecordsAccounted, AggregatesExact
<1>2. CASE Flush(u)
  <2>1. Flushed(u)' = Flushed(u) \o batch[u]
        /\ agg'[u] = [q \in Providers |-> agg[u][q] + Occurrences(batch[u], q)]
      BY <1>1, <1>2, FlushedStep DEF Stored
  <2>2. Flushed(u) \in Seq(Records) /\ batch[u] \in Seq(Records)
      BY Sequences
  <2>3. Occurrences(Flushed(u) \o batch[u], p)
          = Occurrences(Flushed(u), p) + Occurrences(batch[u], p)
      BY <2>2, OccurrencesConcat
  <2> QED BY <1>1, <2>1, <2>3
<1>3. CASE ~Flush(u)
    BY <1>1, <1>3, FlushedStep
<1> QED BY <1>2, <1>3

\* A write puts exact totals into the table, and the totals only grow.
LEMMA StatsStep ==
    /\ Typed /\ Typed' /\ RecordsAccounted /\ AggregatesExact /\ StatsNeverAhead /\ [Next]_vars
    => StatsNeverAhead'
<1> SUFFICES ASSUME Typed, Typed', RecordsAccounted, AggregatesExact, StatsNeverAhead,
                    [Next]_vars, NEW p \in Providers, table'[p] > 0
             PROVE  \E u \in Uploads : table'[p] <= Occurrences(Flushed(u)', p)
    BY DEF StatsNeverAhead, Occurrences
<1>1. /\ table \in [Providers -> Nat] /\ table' \in [Providers -> Nat]
      /\ agg \in [Uploads -> [Providers -> Nat]]
    BY DEF Typed, TypeOK
<1>2. \E u \in Uploads : table'[p] <= Occurrences(Flushed(u), p)
  <2>1. CASE table'[p] = table[p]
      BY <2>1 DEF StatsNeverAhead
  <2>2. ASSUME NEW u \in Uploads, NEW providers, WriteAgg(u, providers), table'[p] # table[p]
        PROVE  table'[p] <= Occurrences(Flushed(u), p)
    <3>1. table'[p] = agg[u][p]
        BY <2>2 DEF WriteAgg
    <3>2. agg[u][p] = Occurrences(Flushed(u), p) /\ agg[u][p] \in Nat
        BY <1>1 DEF AggregatesExact
    <3> QED BY <3>1, <3>2
  <2>3. CASE UNCHANGED table
      BY <2>1, <2>3
  <2>4. UNCHANGED table \/ \E u \in Uploads, providers \in SUBSET Providers : WriteAgg(u, providers)
    <3>1. CASE UNCHANGED vars
        BY <3>1 DEF vars, tables
    <3>2. ASSUME NEW u \in Uploads, FlushAgg(u) \/ FlushAggFails(u)
          PROVE  \E providers \in SUBSET Providers : WriteAgg(u, providers)
      <4>1. Touched(u) \in SUBSET Providers
          BY DEF Touched
      <4> QED BY <3>2, <4>1 DEF FlushAgg, FlushAggFails
    <3>3. ASSUME NEW u \in Uploads, Step(u), ~FlushAgg(u), ~FlushAggFails(u) PROVE UNCHANGED table
        BY <3>3 DEF Step, Read, Receive, CopyFails, Accept, ReopenFails, ReadError, Reopen,
             FirstFails, CloseRecords, CloseDone, Complete, RemoveTemp, Expire, TakeClosed,
             TakeDone, FlushTick, AggTick, ReadFirst, ReadRow, Send, Take, Flush, FlushFails, tables
    <3> QED BY <3>1, <3>2, <3>3 DEF Next
  <2> QED BY <2>1, <2>2, <2>3, <2>4
<1>3. PICK u \in Uploads : table'[p] <= Occurrences(Flushed(u), p)
    BY <1>2
<1>4. Occurrences(Flushed(u), p) <= Occurrences(Flushed(u)', p)
      /\ Occurrences(Flushed(u), p) \in Nat /\ Occurrences(Flushed(u)', p) \in Nat
  <2>1. RecordsRead(u) = Flushed(u) \o Waiting(u)
      BY DEF RecordsAccounted
  <2>2. Flushed(u) \in Seq(Records) /\ batch[u] \in Seq(Records)
      BY Sequences
  <2>3. CASE Flush(u)
    <3>1. Flushed(u)' = Flushed(u) \o batch[u]
        BY <2>1, <2>3, FlushedStep
    <3>2. Occurrences(Flushed(u) \o batch[u], p)
            = Occurrences(Flushed(u), p) + Occurrences(batch[u], p)
          /\ Occurrences(Flushed(u), p) \in Nat /\ Occurrences(batch[u], p) \in Nat
        BY <2>2, OccurrencesConcat
    <3> QED BY <3>1, <3>2
  <2>4. CASE ~Flush(u)
    <3>1. Flushed(u)' = Flushed(u)
        BY <2>1, <2>4, FlushedStep
    <3>2. Occurrences(Flushed(u), p) \in Nat
        BY <2>2, OccurrencesConcat
    <3> QED BY <3>1, <3>2
  <2> QED BY <2>3, <2>4
<1> QED BY <1>1, <1>3, <1>4

\* No write of the totals, whenever a ticker makes it, puts more into
\* provider_stats than the records some upload has flushed.
THEOREM StatsNeverAheadCorrect == Spec => []StatsNeverAhead
<1> DEFINE IInv == Typed /\ RecordsAccounted /\ AggregatesExact /\ StatsNeverAhead
<1>1. Init => IInv
  <2>1. Init => StatsNeverAhead
      BY DEF Init, StatsNeverAhead
  <2> QED BY <2>1, TypedInit, AccountedInit, AggregatesExactInit
<1>2. IInv /\ [Next]_vars => IInv'
    BY TypedStep, AccountedStep, AggregatesExactStep, StatsStep
<1>3. IInv => StatsNeverAhead
    OBVIOUS
<1> QED BY <1>1, <1>2, <1>3, PTL DEF Spec

-----------------------------------------------------------------------------
(* The entries of uploadStatuses.                                          *)

\* A deleted or missing entry belongs to nobody.
Unowned == \A f \in Files : status[f].Status = "absent" => status[f].by = {}

\* An entry keeps its owner and gains rows.
Gains(v, inserted, failed) ==
    /\ StatusOf(v)'.by = StatusOf(v).by
    /\ StatusOf(v)'.InsertedRows = StatusOf(v).InsertedRows + inserted
    /\ StatusOf(v)'.FailedRows = StatusOf(v).FailedRows + failed

Late == {"lastAgg", "stopped"}
Alone(v) == \A u \in Uploads \ {v} : File[u] # File[v]
IsBad(v, i) == Rows[v][i].kind = "bad"

\* A step that changes neither the bad rows of v nor what its worker leaves.
Quiet(v) ==
    /\ BadRows(v)' = BadRows(v)
    /\ worker'[v] \in Late => worker[v] \in Late /\ batch'[v] = batch[v]

\* updateStatus leaves the owner and adds to the rows, of its own name only.
LEMMA UpdateGains ==
    ASSUME Typed, Unowned, NEW u \in Uploads, NEW new \in Statuses,
           NEW inserted \in Nat, NEW failed \in Nat, Update(u, new, inserted, failed),
           NEW v \in Uploads, StatusOf(v).by = {v}
    PROVE  IF File[u] = File[v] THEN Gains(v, inserted, failed) ELSE Gains(v, 0, 0)
<1>1. File[u] \in Files /\ File[v] \in Files /\ status \in [Files -> Entry]
    BY UploadAssumption DEF Typed, TypeOK, Entry, Statuses
<1>2. StatusOf(v).Status # "absent"
    BY <1>1 DEF Unowned, StatusOf
<1>3. StatusOf(v).InsertedRows \in Nat /\ StatusOf(v).FailedRows \in Nat
    BY <1>1 DEF StatusOf, Entry
<1>4. StatusOf(v)' = status'[File[v]]
    BY DEF StatusOf
<1>5. CASE File[u] = File[v]
  <2>1. StatusOf(u) = StatusOf(v)
      BY <1>5 DEF StatusOf
  <2>2. status'[File[v]] =
            [Status |-> new, InsertedRows |-> StatusOf(v).InsertedRows + inserted,
             FailedRows |-> StatusOf(v).FailedRows + failed, by |-> StatusOf(v).by]
    <3>1. status'[File[u]] =
            [Status |-> new, InsertedRows |-> StatusOf(u).InsertedRows + inserted,
             FailedRows |-> StatusOf(u).FailedRows + failed, by |-> StatusOf(u).by]
      <4>1. StatusOf(u).Status # "absent"
          BY <1>2, <2>1
      <4> QED BY <4>1, UpdateEntry
    <3> QED BY <1>5, <2>1, <3>1
  <2> QED BY <1>4, <1>5, <2>2 DEF Gains
<1>6. CASE File[u] # File[v]
  <2>1. status'[File[v]] = status[File[v]]
      BY <1>1, <1>6, UpdateEntry
  <2> QED BY <1>3, <1>4, <1>6, <2>1 DEF Gains, StatusOf
<1> QED BY <1>5, <1>6

\* Whose steps change an entry, and how.
LEMMA EntryMoves ==
    ASSUME Typed, Unowned, [Next]_vars, NEW v \in Uploads
    PROVE  \/ StatusOf(v)'.by # {v}
           \/ Accept(v) /\ StatusOf(v)' = Fresh(v)
           \/ /\ StatusOf(v).by = {v}
              /\ \/ Flush(v) /\ Gains(v, Len(batch[v]), 0)
                 \/ ~Flush(v) /\ FlushFails(v) /\ Gains(v, 0, Len(batch[v]) + 1)
                 \/ /\ ~Flush(v) /\ ReadRow(v)
                    /\ Gains(v, 0, IF IsBad(v, pos[v] + 1) THEN 1 ELSE 0)
                 \/ /\ ~Flush(v) /\ Quiet(v)
                    /\ \E inserted, failed \in Nat :
                          Gains(v, inserted, failed) /\ (Alone(v) => inserted = 0)
<1> DEFINE Quietly ==
        /\ Quiet(v)
        /\ \E inserted, failed \in Nat :
              Gains(v, inserted, failed) /\ (Alone(v) => inserted = 0)
<1>0. /\ pos \in [Uploads -> Nat] /\ batch \in [Uploads -> Seq(Records)]
      /\ File \in [Uploads -> Files] /\ status \in [Files -> Entry]
      /\ worker \in [Uploads -> {"none", "select", "flush", "agg",
                                 "lastFlush", "lastAgg", "stopped"}]
      /\ \A u \in Uploads : Len(batch[u]) \in Nat
    BY UploadAssumption, LenProperties DEF Typed, TypeOK, Entry, Statuses
<1>s. StatusOf(v)' = status'[File[v]] /\ \A u \in Uploads : StatusOf(u).Status \in Statuses
    BY <1>0 DEF StatusOf, Entry
<1>k. ASSUME StatusOf(v)' = StatusOf(v) PROVE Gains(v, 0, 0)
    BY <1>0, <1>k DEF Gains, StatusOf, Entry
<1>q. ASSUME pos'[v] = pos[v], worker'[v] \in Late => worker[v] \in Late /\ batch'[v] = batch[v]
      PROVE  Quiet(v)
    BY <1>q DEF Quiet, BadRows
<1>o. SUFFICES ASSUME StatusOf(v)'.by = {v}
               PROVE  \/ Accept(v) /\ StatusOf(v)' = Fresh(v)
                      \/ /\ StatusOf(v).by = {v}
                         /\ \/ Flush(v) /\ Gains(v, Len(batch[v]), 0)
                            \/ ~Flush(v) /\ FlushFails(v) /\ Gains(v, 0, Len(batch[v]) + 1)
                            \/ /\ ~Flush(v) /\ ReadRow(v)
                               /\ Gains(v, 0, IF IsBad(v, pos[v] + 1) THEN 1 ELSE 0)
                            \/ ~Flush(v) /\ Quietly
    OBVIOUS
<1>1. ASSUME NEW u \in Uploads, Accept(u) PROVE (Accept(v) /\ StatusOf(v)' = Fresh(v))
             \/ (StatusOf(v).by = {v} /\ Quietly)
  <2>1. status' = [status EXCEPT ![File[u]] = Fresh(u)]
        /\ pos' = pos /\ worker' = worker /\ batch' = batch
      BY <1>1 DEF Accept, reading, working
  <2>2. CASE File[u] = File[v]
    <3>1. StatusOf(v)' = Fresh(u)
        BY <1>0, <1>s, <2>1, <2>2
    <3>2. Fresh(u).by = {u}
        BY DEF Fresh, NoStatus
    <3>3. u = v
        BY <1>o, <3>1, <3>2
    <3> QED BY <1>1, <3>1, <3>3
  <2>3. CASE File[u] # File[v]
    <3>1. StatusOf(v)' = StatusOf(v)
        BY <1>0, <1>s, <2>1, <2>3 DEF StatusOf
    <3>2. Quiet(v) /\ Gains(v, 0, 0)
        BY <1>k, <1>q, <2>1, <3>1
    <3> QED BY <1>o, <3>1, <3>2
  <2> QED BY <2>2, <2>3
<1>2. ASSUME NEW u \in Uploads, Expire(u) PROVE StatusOf(v).by = {v} /\ Quietly
  <2>1. status' = [status EXCEPT ![File[u]] = NoStatus]
        /\ pos' = pos /\ worker' = worker /\ batch' = batch
      BY <1>2 DEF Expire, reading, working
  <2>2. File[u] # File[v]
    <3>1. File[u] = File[v] => StatusOf(v)' = NoStatus
        BY <1>0, <1>s, <2>1
    <3>2. NoStatus.by = {}
        BY DEF NoStatus
    <3> QED BY <1>o, <3>1, <3>2
  <2>3. StatusOf(v)' = StatusOf(v)
      BY <1>0, <1>s, <2>1, <2>2 DEF StatusOf
  <2>4. Quiet(v) /\ Gains(v, 0, 0)
      BY <1>k, <1>q, <2>1, <2>3
  <2> QED BY <1>o, <2>3, <2>4
<1>3. ASSUME UNCHANGED status, Quiet(v) PROVE StatusOf(v).by = {v} /\ Quietly
  <2>1. StatusOf(v)' = StatusOf(v)
      BY <1>3 DEF StatusOf
  <2>2. Quiet(v) /\ Gains(v, 0, 0)
      BY <1>3, <1>k, <2>1
  <2> QED BY <1>o, <2>1, <2>2
<1>4. ASSUME NEW u \in Uploads, NEW new \in Statuses, NEW inserted \in Nat, NEW failed \in Nat,
             Update(u, new, inserted, failed)
      PROVE  /\ StatusOf(v).by = {v}
             /\ Gains(v, inserted, failed) \/ (u # v /\ Gains(v, 0, 0))
             /\ u # v /\ Alone(v) => Gains(v, 0, 0)
  <2>1. StatusOf(v).by = {v}
    <3>1. CASE File[u] # File[v]
      <4>0. File[v] \in Files /\ File[v] # File[u]
          BY <1>0, <3>1
      <4>1. \A f \in Files \ {File[u]} : status'[f] = status[f]
          BY <1>4, UpdateEntry
      <4>2. StatusOf(v)' = StatusOf(v)
          BY <1>s, <4>0, <4>1 DEF StatusOf
      <4> QED BY <1>o, <4>2
    <3>2. CASE File[u] = File[v]
      <4>1. StatusOf(u) = StatusOf(v) /\ StatusOf(v)' = status'[File[u]]
          BY <1>s, <3>2 DEF StatusOf
      <4>2. CASE StatusOf(u).Status = "absent"
        <5>1. status' = status
            BY <1>4, <4>2, UpdateEntry
        <5> QED BY <1>o, <4>1, <5>1 DEF StatusOf
      <4>3. CASE StatusOf(u).Status # "absent"
        <5>1. status'[File[u]] =
                [Status |-> new, InsertedRows |-> StatusOf(u).InsertedRows + inserted,
                 FailedRows |-> StatusOf(u).FailedRows + failed, by |-> StatusOf(u).by]
            BY <1>4, <4>3, UpdateEntry
        <5> QED BY <1>o, <4>1, <5>1
      <4> QED BY <4>2, <4>3
    <3> QED BY <3>1, <3>2
  <2>2. IF File[u] = File[v] THEN Gains(v, inserted, failed) ELSE Gains(v, 0, 0)
      BY <1>4, <2>1, UpdateGains
  <2> QED BY <2>1, <2>2 DEF Alone
<1> HIDE <1>k
<1>5. ASSUME NEW u \in Uploads, NEW new \in Statuses, NEW inserted \in Nat, NEW failed \in Nat,
             Update(u, new, inserted, failed), u = v => inserted = 0, Quiet(v)
      PROVE  StatusOf(v).by = {v} /\ Quietly
  <2>1. /\ StatusOf(v).by = {v}
        /\ Gains(v, inserted, failed) \/ (u # v /\ Gains(v, 0, 0))
        /\ u # v /\ Alone(v) => Gains(v, 0, 0)
      BY <1>5, <1>4
  <2> QED BY <1>5, <2>1
<1> HIDE DEF Quietly
<1>6. ASSUME NEW u \in Uploads, ReopenFails(u) \/ Reopen(u) \/ ReadError(u) \/ FirstFails(u) \/ Complete(u)
      PROVE  StatusOf(v).by = {v} /\ Quietly
  <2>1. UNCHANGED <<reading, worker, working>>
      BY <1>6 DEF ReopenFails, Reopen, ReadError, FirstFails, Complete
  <2>2. Quiet(v)
      BY <1>q, <2>1 DEF reading, working
  <2>3. \E new \in Statuses, failed \in Nat : Update(u, new, 0, failed)
      BY <1>6, <1>s DEF ReopenFails, Reopen, ReadError, FirstFails, Complete, Count, Statuses
  <2> QED BY <1>5, <2>2, <2>3
<1>7. ASSUME NEW u \in Uploads,
             CopyFails(u) \/ CloseRecords(u) \/ CloseDone(u) \/ RemoveTemp(u) \/ Send(u)
      PROVE  StatusOf(v).by = {v} /\ Quietly
  <2>1. UNCHANGED <<pos, worker, batch, status>>
      BY <1>7 DEF CopyFails, CloseRecords, CloseDone, RemoveTemp, Send, reading, working
  <2> QED BY <1>3, <1>q, <2>1
<1>8. ASSUME NEW u \in Uploads,
             Take(u) \/ TakeClosed(u) \/ TakeDone(u) \/ FlushTick(u) \/ AggTick(u)
      PROVE  StatusOf(v).by = {v} /\ Quietly
  <2>1. /\ pos' = pos /\ status' = status /\ \A w \in Uploads \ {u} : batch'[w] = batch[w]
        /\ \E to \in {"select", "flush", "lastFlush", "agg"} : worker' = [worker EXCEPT ![u] = to]
      BY <1>0, <1>8 DEF Take, TakeClosed, TakeDone, FlushTick, AggTick, Worker, reading, working
  <2>2. worker'[v] \in Late => worker[v] \in Late /\ batch'[v] = batch[v]
      BY <1>0, <2>1 DEF Late
  <2> QED BY <1>3, <1>q, <2>1, <2>2
<1>9. ASSUME NEW u \in Uploads, ReadFirst(u) PROVE StatusOf(v).by = {v} /\ Quietly
  <2>1. /\ pos' = [pos EXCEPT ![u] = 1] /\ pos[u] = 0 /\ status' = status /\ batch' = batch
        /\ worker' = [worker EXCEPT ![u] = "select"]
      BY <1>9 DEF ReadFirst, Reader, Worker, working, Typed, Phases, Early
  <2>2. worker'[v] \in Late => worker[v] \in Late /\ batch'[v] = batch[v]
      BY <1>0, <2>1 DEF Late
  <2>3. BadRows(v)' = BadRows(v)
    <3>1. CASE v = u
      <4>1. pos[v] = 0 /\ pos'[v] = 1
          BY <1>0, <2>1, <3>1
      <4>2. BadRows(v) = {} /\ BadRows(v)' = {}
          BY <4>1 DEF BadRows
      <4> QED BY <4>2
    <3>2. CASE v # u
        BY <1>0, <2>1, <3>2 DEF BadRows
    <3> QED BY <3>1, <3>2
  <2>4. Quiet(v)
      BY <2>2, <2>3 DEF Quiet
  <2> QED BY <1>3, <2>1, <2>4
<1>10. ASSUME NEW u \in Uploads, NEW providers, WriteAgg(u, providers)
       PROVE  StatusOf(v).by = {v} /\ Quietly
  <2>1. pos' = pos /\ status' = status /\ batch' = batch
      BY <1>10 DEF WriteAgg, reading, working
  <2>2. worker[u] \in {"agg", "lastAgg"}
        /\ worker' = [worker EXCEPT ![u] = IF worker[u] = "agg" THEN "select" ELSE "stopped"]
      BY <1>10 DEF WriteAgg, Worker
  <2>3. worker'[v] \in Late => worker[v] \in Late /\ batch'[v] = batch[v]
      BY <1>0, <2>1, <2>2 DEF Late
  <2> QED BY <1>3, <1>q, <2>1, <2>3
<1>11. ASSUME NEW u \in Uploads \ {v}, Flush(u) \/ FlushFails(u) \/ ReadRow(u)
       PROVE  StatusOf(v).by = {v} /\ Quietly
  <2>1. pos'[v] = pos[v] /\ worker'[v] = worker[v] /\ batch'[v] = batch[v]
    <3>1. CASE Flush(u) \/ FlushFails(u)
        BY <1>0, <3>1 DEF Flush, FlushFails, AfterFlush, Worker, reading, working
    <3>2. CASE ReadRow(u)
      <4>1. pos' = [pos EXCEPT ![u] = @ + 1] /\ worker' = worker /\ batch' = batch
          BY <3>2 DEF ReadRow, working
      <4> QED BY <1>0, <4>1
    <3> QED BY <1>11, <3>1, <3>2
  <2>2. Quiet(v)
      BY <1>q, <2>1
  <2>3. UNCHANGED status
        \/ \E inserted, failed \in Nat : Update(u, StatusOf(u).Status, inserted, failed)
      BY <1>0, <1>11 DEF Flush, FlushFails, ReadRow, Count
  <2> QED BY <1>3, <1>5, <1>s, <2>2, <2>3
<1>12. ASSUME Flush(v) PROVE StatusOf(v).by = {v} /\ Gains(v, Len(batch[v]), 0)
  <2>1. Update(v, StatusOf(v).Status, Len(batch[v]), 0)
      BY <1>12 DEF Flush, Count
  <2> QED BY <1>0, <1>4, <1>s, <2>1
<1>13. ASSUME FlushFails(v) PROVE StatusOf(v).by = {v} /\ Gains(v, 0, Len(batch[v]) + 1)
  <2>1. Update(v, StatusOf(v).Status, 0, Len(batch[v]) + 1) /\ Len(batch[v]) + 1 \in Nat
      BY <1>0, <1>13 DEF FlushFails, Count
  <2> QED BY <1>4, <1>s, <2>1
<1>14. ASSUME ReadRow(v)
       PROVE  StatusOf(v).by = {v} /\ Gains(v, 0, IF IsBad(v, pos[v] + 1) THEN 1 ELSE 0)
  <2>1. IF IsBad(v, pos[v] + 1) THEN Update(v, StatusOf(v).Status, 0, 1) ELSE UNCHANGED status
      BY <1>14 DEF ReadRow, Count, IsBad
  <2>2. CASE IsBad(v, pos[v] + 1)
      BY <1>4, <1>s, <2>1, <2>2
  <2>3. CASE ~IsBad(v, pos[v] + 1)
    <3>1. StatusOf(v)' = StatusOf(v)
        BY <2>1, <2>3 DEF StatusOf
    <3> QED BY <1>k, <1>o, <2>3, <3>1
  <2> QED BY <2>2, <2>3
<1>15. CASE UNCHANGED vars
  <2>1. UNCHANGED <<pos, worker, batch, status>>
      BY <1>15 DEF vars, reading, working
  <2> QED BY <1>3, <1>q, <2>1, <1>12
<1>16. CASE Flush(v)
    BY <1>12, <1>16
<1>17. CASE ~Flush(v) /\ (FlushFails(v) \/ ReadRow(v))
    BY <1>13, <1>14, <1>17
<1>18. ASSUME NEW u \in Uploads, Step(u), ~Flush(v), ~FlushFails(v), ~ReadRow(v)
       PROVE  \/ Accept(v) /\ StatusOf(v)' = Fresh(v)
              \/ StatusOf(v).by = {v} /\ Quietly
    BY <1>18, <1>1, <1>2, <1>6, <1>7, <1>8, <1>9, <1>10, <1>11
       DEF Step, Read, Receive, FlushAgg, FlushAggFails
<1> QED BY <1>15, <1>16, <1>17, <1>18 DEF Next

\* Every step keeps deleted entries unowned.
LEMMA UnownedStep == Typed /\ Unowned /\ [Next]_vars => Unowned'
<1> SUFFICES ASSUME Typed, Unowned, [Next]_vars, NEW f \in Files, status'[f].Status = "absent"
             PROVE  status'[f].by = {}
    BY DEF Unowned
<1>0. /\ status \in [Files -> Entry] /\ File \in [Uploads -> Files]
      /\ \A u \in Uploads : StatusOf(u).Status \in Statuses
    BY UploadAssumption DEF Typed, TypeOK, Entry, Statuses, StatusOf
<1>1. ASSUME status'[f] = status[f] PROVE status'[f].by = {}
    BY <1>1 DEF Unowned
<1>2. ASSUME NEW u \in Uploads, Accept(u) PROVE status'[f].by = {}
  <2>1. status' = [status EXCEPT ![File[u]] = Fresh(u)] /\ Fresh(u).Status # "absent"
      BY <1>2 DEF Accept, Fresh, NoStatus
  <2> QED BY <1>0, <1>1, <2>1
<1>3. ASSUME NEW u \in Uploads, Expire(u) PROVE status'[f].by = {}
  <2>1. status' = [status EXCEPT ![File[u]] = NoStatus] /\ NoStatus.by = {}
      BY <1>3 DEF Expire, NoStatus
  <2> QED BY <1>0, <1>1, <2>1
<1>4. ASSUME NEW u \in Uploads, NEW new \in Statuses, new # "absent" \/ new = StatusOf(u).Status,
             NEW inserted \in Nat, NEW failed \in Nat, Update(u, new, inserted, failed)
      PROVE  status'[f].by = {}
  <2>1. CASE StatusOf(u).Status = "absent"
    <3>1. status' = status
        BY <1>4, <2>1, UpdateEntry
    <3> QED BY <1>1, <3>1
  <2>2. CASE StatusOf(u).Status # "absent"
    <3>1. status'[File[u]] =
            [Status |-> new, InsertedRows |-> StatusOf(u).InsertedRows + inserted,
             FailedRows |-> StatusOf(u).FailedRows + failed, by |-> StatusOf(u).by]
        BY <1>4, <2>2, UpdateEntry
    <3>2. f # File[u]
        BY <1>4, <2>2, <3>1
    <3>3. status'[f] = status[f]
        BY <1>4, <3>2, UpdateEntry
    <3> QED BY <1>1, <3>3
  <2> QED BY <2>1, <2>2
<1>5. CASE UNCHANGED status
    BY <1>1, <1>5
<1>6. ASSUME NEW u \in Uploads, ReopenFails(u) \/ Reopen(u) \/ ReadError(u) \/ FirstFails(u)
                                \/ Complete(u) \/ Flush(u) \/ FlushFails(u) \/ ReadRow(u)
      PROVE  status'[f].by = {}
  <2>1. Len(batch[u]) \in Nat
      BY LenProperties DEF Typed, TypeOK
  <2>2. UNCHANGED status \/
        \E new \in Statuses, inserted, failed \in Nat :
            (new # "absent" \/ new = StatusOf(u).Status) /\ Update(u, new, inserted, failed)
    <3>1. CASE ReopenFails(u) \/ Reopen(u) \/ FirstFails(u) \/ Complete(u)
        BY <3>1 DEF ReopenFails, Reopen, FirstFails, Complete, Statuses
    <3>2. CASE ReadError(u) \/ Flush(u) \/ FlushFails(u) \/ ReadRow(u)
        BY <1>0, <2>1, <3>2 DEF ReadError, Flush, FlushFails, ReadRow, Count
    <3> QED BY <1>6, <3>1, <3>2
  <2> QED BY <1>4, <1>5, <2>2
<1>7. ASSUME NEW u \in Uploads, Step(u) PROVE status'[f].by = {}
    BY <1>2, <1>3, <1>5, <1>6, <1>7 DEF Step, Read, Receive, CopyFails, CloseRecords, CloseDone,
       RemoveTemp, TakeClosed, TakeDone, FlushTick, AggTick, ReadFirst, Send, Take,
       FlushAgg, FlushAggFails, WriteAgg
<1>8. CASE UNCHANGED vars
    BY <1>5, <1>8 DEF vars
<1> QED BY <1>7, <1>8 DEF Next

-----------------------------------------------------------------------------
(* The rows a status reports as inserted or failed.                        *)

InsertedExact ==
    \A u \in Uploads :
        StatusOf(u).by = {u} /\ Alone(u) => StatusOf(u).InsertedRows = Len(Flushed(u))

\* An upload is accepted before anything was read.
LEMMA AcceptKeeps ==
    ASSUME Typed, NEW v \in Uploads, Accept(v), RecordsRead(v) = Flushed(v) \o Waiting(v)
    PROVE  Flushed(v) = <<>> /\ BadRows(v) = {} /\ worker'[v] = "none" /\ BadRows(v)' = {}
<1>1. /\ pos[v] = 0 /\ pos'[v] = 0 /\ worker'[v] = "none"
      /\ batch[v] = <<>> /\ chan[v] = <<>> /\ pending[v] = <<>>
    BY DEF Accept, Reader, Typed, Phases, Early, reading
<1>2. RecordsRead(v) = <<>> /\ Waiting(v) = <<>>
    BY <1>1, ReadIsSeq DEF Waiting
<1>3. Flushed(v) = <<>>
    BY <1>2 DEF Flushed
<1> QED BY <1>1, <1>3 DEF BadRows

\* Every step keeps the inserted rows of an entry exact.
LEMMA InsertedStep ==
    Typed /\ Typed' /\ Unowned /\ RecordsAccounted /\ InsertedExact /\ [Next]_vars => InsertedExact'
<1> SUFFICES ASSUME Typed, Typed', Unowned, RecordsAccounted, InsertedExact, [Next]_vars,
                    NEW v \in Uploads, StatusOf(v)'.by = {v}, Alone(v)
             PROVE  StatusOf(v)'.InsertedRows = Len(Flushed(v)')
    BY DEF InsertedExact, Alone
<1>1. RecordsRead(v) = Flushed(v) \o Waiting(v)
    BY DEF RecordsAccounted
<1>2. Flushed(v) \in Seq(Records) /\ batch[v] \in Seq(Records)
    BY Sequences
<1>3. Len(Flushed(v)) \in Nat /\ Len(batch[v]) \in Nat
    BY <1>2, LenProperties
<1>4. CASE Accept(v) /\ StatusOf(v)' = Fresh(v)
  <2>1. ~Flush(v)
    <3>1. worker'[v] = "none" /\ worker \in [Uploads -> {"none", "select", "flush", "agg",
                                                        "lastFlush", "lastAgg", "stopped"}]
        BY <1>1, <1>4, AcceptKeeps DEF Typed, TypeOK
    <3> QED BY <3>1 DEF Flush, AfterFlush, Worker
  <2>2. Flushed(v)' = <<>>
      BY <1>1, <1>4, <2>1, FlushedStep, AcceptKeeps
  <2> QED BY <1>4, <2>2 DEF Fresh, NoStatus
<1>5. ASSUME StatusOf(v).by = {v}, Flush(v), Gains(v, Len(batch[v]), 0)
      PROVE  StatusOf(v)'.InsertedRows = Len(Flushed(v)')
  <2>1. Flushed(v)' = Flushed(v) \o batch[v]
      BY <1>1, <1>5, FlushedStep
  <2>2. Len(Flushed(v) \o batch[v]) = Len(Flushed(v)) + Len(batch[v])
      BY <1>2, ConcatProperties
  <2> QED BY <1>5, <2>1, <2>2 DEF InsertedExact, Gains
<1>6. ASSUME StatusOf(v).by = {v}, ~Flush(v), NEW failed, Gains(v, 0, failed)
      PROVE  StatusOf(v)'.InsertedRows = Len(Flushed(v)')
  <2>1. Flushed(v)' = Flushed(v)
      BY <1>1, <1>6, FlushedStep
  <2>2. StatusOf(v).InsertedRows = Len(Flushed(v))
      BY <1>6 DEF InsertedExact
  <2>3. StatusOf(v)'.InsertedRows = StatusOf(v).InsertedRows + 0
      BY <1>6 DEF Gains
  <2> QED BY <1>3, <2>1, <2>2, <2>3
<1> QED BY <1>4, <1>5, <1>6, EntryMoves

\* The counts a worker aggregates are exactly its flushed records, and its
\* status reports exactly so many inserted rows.
THEOREM AggregatesFlushedCorrect == Spec => []AggregatesFlushed
<1> DEFINE IInv == Typed /\ RecordsAccounted /\ AggregatesExact /\ Unowned /\ InsertedExact
<1>1. Init => IInv
  <2> SUFFICES ASSUME Init PROVE Unowned /\ InsertedExact
      BY TypedInit, AccountedInit, AggregatesExactInit
  <2>1. \A f \in Files : status[f] = NoStatus
      BY DEF Init
  <2>2. Unowned
      BY <2>1 DEF Unowned, NoStatus
  <2>3. \A u \in Uploads : StatusOf(u).by = {}
      BY <2>1, UploadAssumption DEF StatusOf, NoStatus
  <2> QED BY <2>2, <2>3 DEF InsertedExact
<1>2. IInv /\ [Next]_vars => IInv'
    BY TypedStep, AccountedStep, AggregatesExactStep, UnownedStep, InsertedStep
<1>3. IInv => AggregatesFlushed
  <2> SUFFICES ASSUME IInv, NEW u \in Uploads
               PROVE  /\ \A p \in Providers : agg[u][p] = Occurrences(Flushed(u), p)
                      /\ StatusOf(u).by = {u} /\ (\A v \in Uploads \ {u} : File[v] # File[u])
                           => StatusOf(u).InsertedRows = Len(Flushed(u))
      BY DEF AggregatesFlushed
  <2> QED BY DEF AggregatesExact, InsertedExact, Alone
<1> QED BY <1>1, <1>2, <1>3, PTL DEF Spec

\* Failed rows cover the bad rows, and what a worker leaves in its batch.
FailedCovers ==
    \A u \in Uploads :
        StatusOf(u).by = {u}
          => /\ StatusOf(u).FailedRows >= Cardinality(BadRows(u))
             /\ worker[u] \in Late /\ batch[u] # <<>>
                  => StatusOf(u).FailedRows > Len(batch[u]) + Cardinality(BadRows(u))

\* Bad rows can be counted.
LEMMA BadRowsFinite ==
    ASSUME Typed, NEW u \in Uploads
    PROVE  IsFiniteSet(BadRows(u)) /\ Cardinality(BadRows(u)) \in Nat
<1>1. pos[u] \in Nat
    BY DEF Typed, TypeOK
<1>2. IsFiniteSet(2 .. pos[u])
    BY <1>1, FS_Interval
<1> QED BY <1>2, FS_Subset, FS_CardinalityType DEF BadRows

\* Reading a bad row counts one more of them.
LEMMA BadRowsRead ==
    ASSUME Typed, NEW v \in Uploads, ReadRow(v)
    PROVE  /\ Cardinality(BadRows(v)') =
                 Cardinality(BadRows(v)) + (IF IsBad(v, pos[v] + 1) THEN 1 ELSE 0)
           /\ worker' = worker /\ batch' = batch
<1>1. /\ pos' = [pos EXCEPT ![v] = @ + 1] /\ worker' = worker /\ batch' = batch
      /\ reader[v] = "reading"
    BY DEF ReadRow, working
<1>2. pos[v] \in Nat /\ pos[v] >= 1 /\ pos'[v] = pos[v] + 1
    BY <1>1 DEF Typed, TypeOK, Phases, Early
<1>3. BadRows(v)' = {i \in 2 .. pos[v] + 1 : IsBad(v, i)} /\ BadRows(v) = {i \in 2 .. pos[v] : IsBad(v, i)}
    BY <1>2 DEF BadRows, IsBad
<1>4. IsFiniteSet(BadRows(v)) /\ Cardinality(BadRows(v)) \in Nat
    BY BadRowsFinite
<1>5. CASE IsBad(v, pos[v] + 1)
  <2>1. BadRows(v)' = BadRows(v) \cup {pos[v] + 1} /\ pos[v] + 1 \notin BadRows(v)
      BY <1>2, <1>3, <1>5
  <2> QED BY <1>1, <1>4, <1>5, <2>1, FS_AddElement
<1>6. CASE ~IsBad(v, pos[v] + 1)
  <2>1. BadRows(v)' = BadRows(v)
      BY <1>2, <1>3, <1>6
  <2> QED BY <1>1, <1>4, <1>6, <2>1
<1> QED BY <1>5, <1>6

\* Every step keeps the failed rows at least as many.
LEMMA FailedStep ==
    Typed /\ Typed' /\ Unowned /\ RecordsAccounted /\ FailedCovers /\ [Next]_vars => FailedCovers'
<1> SUFFICES ASSUME Typed, Typed', Unowned, RecordsAccounted, FailedCovers, [Next]_vars,
                    NEW v \in Uploads, StatusOf(v)'.by = {v}
             PROVE  /\ StatusOf(v)'.FailedRows >= Cardinality(BadRows(v)')
                    /\ worker'[v] \in Late /\ batch'[v] # <<>>
                         => StatusOf(v)'.FailedRows > Len(batch'[v]) + Cardinality(BadRows(v)')
    BY DEF FailedCovers
<1>0. /\ RecordsRead(v) = Flushed(v) \o Waiting(v)
      /\ worker \in [Uploads -> {"none", "select", "flush", "agg", "lastFlush", "lastAgg", "stopped"}]
      /\ batch \in [Uploads -> Seq(Records)] /\ Len(batch[v]) \in Nat
      /\ pos \in [Uploads -> Nat]
    BY LenProperties DEF RecordsAccounted, Typed, TypeOK
<1>1. Cardinality(BadRows(v)) \in Nat /\ StatusOf(v).FailedRows \in Nat
  <2>1. StatusOf(v).FailedRows \in Nat
      BY UploadAssumption DEF Typed, TypeOK, StatusOf
  <2> QED BY <2>1, BadRowsFinite
<1>2. CASE Accept(v) /\ StatusOf(v)' = Fresh(v)
  <2>1. worker'[v] = "none" /\ BadRows(v)' = {}
      BY <1>0, <1>2, AcceptKeeps
  <2>2. Cardinality(BadRows(v)') = 0 /\ StatusOf(v)'.FailedRows = 0
      BY <1>2, <2>1, FS_EmptySet DEF Fresh, NoStatus
  <2> QED BY <2>1, <2>2 DEF Late
<1>3. ASSUME StatusOf(v).by = {v}, Flush(v), Gains(v, Len(batch[v]), 0)
      PROVE  /\ StatusOf(v)'.FailedRows >= Cardinality(BadRows(v)')
             /\ batch'[v] = <<>>
  <2>1. pos' = pos /\ batch'[v] = <<>>
      BY <1>0, <1>3 DEF Flush, reading
  <2>2. BadRows(v)' = BadRows(v)
      BY <2>1 DEF BadRows
  <2>3. StatusOf(v)'.FailedRows = StatusOf(v).FailedRows
      BY <1>1, <1>3 DEF Gains
  <2> QED BY <1>3, <2>1, <2>2, <2>3 DEF FailedCovers
<1>4. ASSUME StatusOf(v).by = {v}, FlushFails(v), Gains(v, 0, Len(batch[v]) + 1)
      PROVE  /\ StatusOf(v)'.FailedRows > Len(batch'[v]) + Cardinality(BadRows(v)')
             /\ StatusOf(v)'.FailedRows >= Cardinality(BadRows(v)')
  <2>1. pos' = pos /\ batch' = batch
      BY <1>4 DEF FlushFails, reading, working
  <2>2. BadRows(v)' = BadRows(v)
      BY <2>1 DEF BadRows
  <2>3. StatusOf(v)'.FailedRows = StatusOf(v).FailedRows + (Len(batch[v]) + 1)
      BY <1>4 DEF Gains
  <2>4. StatusOf(v).FailedRows >= Cardinality(BadRows(v))
      BY <1>4 DEF FailedCovers
  <2> QED BY <1>0, <1>1, <2>1, <2>2, <2>3, <2>4
<1>5. ASSUME StatusOf(v).by = {v}, ReadRow(v), Gains(v, 0, IF IsBad(v, pos[v] + 1) THEN 1 ELSE 0)
      PROVE  /\ StatusOf(v)'.FailedRows >= Cardinality(BadRows(v)')
             /\ worker'[v] \in Late /\ batch'[v] # <<>>
                  => StatusOf(v)'.FailedRows > Len(batch'[v]) + Cardinality(BadRows(v)')
  <2> DEFINE n == IF IsBad(v, pos[v] + 1) THEN 1 ELSE 0
  <2>1. Cardinality(BadRows(v)') = Cardinality(BadRows(v)) + n /\ worker' = worker /\ batch' = batch
      BY <1>5, BadRowsRead
  <2>2. StatusOf(v)'.FailedRows = StatusOf(v).FailedRows + n /\ n \in Nat
      BY <1>5 DEF Gains
  <2>3. /\ StatusOf(v).FailedRows >= Cardinality(BadRows(v))
        /\ worker[v] \in Late /\ batch[v] # <<>>
             => StatusOf(v).FailedRows > Len(batch[v]) + Cardinality(BadRows(v))
      BY <1>5 DEF FailedCovers
  <2> HIDE DEF n
  <2> QED BY <1>0, <1>1, <2>1, <2>2, <2>3
<1>6. ASSUME StatusOf(v).by = {v}, Quiet(v), NEW inserted \in Nat, NEW failed \in Nat,
             Gains(v, inserted, failed)
      PROVE  /\ StatusOf(v)'.FailedRows >= Cardinality(BadRows(v)')
             /\ worker'[v] \in Late /\ batch'[v] # <<>>
                  => StatusOf(v)'.FailedRows > Len(batch'[v]) + Cardinality(BadRows(v)')
  <2>1. /\ BadRows(v)' = BadRows(v)
        /\ worker'[v] \in Late => worker[v] \in Late /\ batch'[v] = batch[v]
      BY <1>6 DEF Quiet
  <2>2. StatusOf(v)'.FailedRows = StatusOf(v).FailedRows + failed
      BY <1>6 DEF Gains
  <2>3. /\ StatusOf(v).FailedRows >= Cardinality(BadRows(v))
        /\ worker[v] \in Late /\ batch[v] # <<>>
             => StatusOf(v).FailedRows > Len(batch[v]) + Cardinality(BadRows(v))
      BY <1>6 DEF FailedCovers
  <2> QED BY <1>0, <1>1, <2>1, <2>2, <2>3
<1> QED BY <1>2, <1>3, <1>4, <1>5, <1>6, EntryMoves

\* What a worker leaves in its batch shows up as failed rows, on top of the bad
\* rows and of one for the batch.
THEOREM LeftoversReportedCorrect == Spec => []LeftoversReported
<1> DEFINE IInv == Typed /\ RecordsAccounted /\ Unowned /\ FailedCovers
<1>1. Init => IInv
  <2> SUFFICES ASSUME Init PROVE Unowned /\ FailedCovers
      BY TypedInit, AccountedInit
  <2>1. \A f \in Files : status[f] = NoStatus
      BY DEF Init
  <2>2. Unowned
      BY <2>1 DEF Unowned, NoStatus
  <2>3. \A u \in Uploads : StatusOf(u).by = {}
      BY <2>1, UploadAssumption DEF StatusOf, NoStatus
  <2> QED BY <2>2, <2>3 DEF FailedCovers
<1>2. IInv /\ [Next]_vars => IInv'
    BY TypedStep, AccountedStep, UnownedStep, FailedStep
<1>3. IInv => LeftoversReported
    BY DEF FailedCovers, LeftoversReported, Late
<1> QED BY <1>1, <1>2, <1>3, PTL DEF Spec

-----------------------------------------------------------------------------
(* A completed status is final.                                            *)

Final == \A u \in Uploads : StatusOf(u).Status = "completed" /\ Alone(u) => reader[u] = "completed"

\* Other uploads do not touch the entry of a name that is not theirs.
LEMMA OthersLeave ==
    ASSUME Typed, NEW v \in Uploads, Alone(v), NEW u \in Uploads \ {v}, Step(u)
    PROVE  StatusOf(v)' = StatusOf(v) /\ reader'[v] = reader[v]
<1>0. /\ status \in [Files -> Entry] /\ File \in [Uploads -> Files]
      /\ \A w \in Uploads : StatusOf(w).Status \in Statuses
      /\ Len(batch[u]) \in Nat /\ File[u] # File[v]
    BY UploadAssumption, LenProperties DEF Typed, TypeOK, Entry, Statuses, StatusOf, Alone
<1>1. reader'[v] = reader[v]
  <2>1. reader' = reader \/ \E to : reader' = [reader EXCEPT ![u] = to]
      BY DEF Step, Read, Receive, CopyFails, Accept, ReopenFails, ReadError, Reopen,
         FirstFails, CloseRecords, CloseDone, Complete, RemoveTemp, Expire, TakeClosed,
         TakeDone, FlushTick, AggTick, ReadFirst, ReadRow, Send, Take, Flush, FlushFails,
         FlushAgg, FlushAggFails, WriteAgg, Reader
  <2> QED BY <2>1 DEF Typed, TypeOK
<1>o. SUFFICES StatusOf(v)' = StatusOf(v)
    BY <1>1
<1>2. ASSUME status'[File[v]] = status[File[v]] PROVE StatusOf(v)' = StatusOf(v)
    BY <1>2 DEF StatusOf
<1>3. ASSUME NEW e, status' = [status EXCEPT ![File[u]] = e] PROVE StatusOf(v)' = StatusOf(v)
    BY <1>0, <1>2, <1>3
<1>4. ASSUME NEW new \in Statuses, NEW inserted \in Nat, NEW failed \in Nat,
             Update(u, new, inserted, failed)
      PROVE  StatusOf(v)' = StatusOf(v)
  <2>1. status'[File[v]] = status[File[v]]
      BY <1>0, <1>4, UpdateEntry
  <2> QED BY <1>2, <2>1
<1>5. CASE UNCHANGED status
    BY <1>2, <1>5
<1>6. CASE Accept(u) \/ Expire(u)
    BY <1>3, <1>6 DEF Accept, Expire
<1>7. CASE ReopenFails(u) \/ Reopen(u) \/ FirstFails(u) \/ Complete(u)
    BY <1>4, <1>7 DEF ReopenFails, Reopen, FirstFails, Complete, Statuses
<1>8. CASE ReadError(u) \/ Flush(u) \/ FlushFails(u) \/ ReadRow(u)
    BY <1>0, <1>4, <1>5, <1>8 DEF ReadError, Flush, FlushFails, ReadRow, Count
<1> QED BY <1>1, <1>5, <1>6, <1>7, <1>8 DEF Step, Read, Receive, CopyFails, CloseRecords, CloseDone,
       RemoveTemp, TakeClosed, TakeDone, FlushTick, AggTick, ReadFirst, Send, Take,
       FlushAgg, FlushAggFails, WriteAgg

\* Once its reader has completed, an upload only removes its file and expires.
LEMMA CompletedStep ==
    ASSUME Typed, NEW v \in Uploads, Step(v), reader[v] = "completed"
    PROVE  StatusOf(v)' \in {StatusOf(v), NoStatus} /\ reader'[v] = "completed"
<1>1. worker[v] = "stopped"
    BY DEF Typed, Phases
<1>2. RemoveTemp(v) \/ Expire(v)
  <2>1. ~Receive(v) /\ ~FlushTick(v) /\ ~AggTick(v) /\ ~Flush(v) /\ ~FlushFails(v)
      BY <1>1 DEF Receive, Take, TakeClosed, TakeDone, FlushTick, AggTick, Flush, FlushFails,
          AfterFlush, Worker
  <2>2. ~FlushAgg(v) /\ ~FlushAggFails(v)
      BY <1>1 DEF FlushAgg, FlushAggFails, WriteAgg, Worker
  <2>3. ~Accept(v) /\ ~CopyFails(v) /\ ~ReopenFails(v) /\ ~ReadError(v) /\ ~Read(v)
      BY DEF Accept, CopyFails, ReopenFails, ReadError, Read, Reopen, FirstFails, ReadFirst,
          ReadRow, Send, CloseRecords, CloseDone, Complete, Reader
  <2> QED BY <2>1, <2>2, <2>3 DEF Step
<1>3. CASE RemoveTemp(v)
    BY <1>3 DEF RemoveTemp, StatusOf
<1>4. CASE Expire(v)
  <2>1. status' = [status EXCEPT ![File[v]] = NoStatus] /\ reader' = reader
      BY <1>4 DEF Expire
  <2>2. status \in [Files -> Entry] /\ File[v] \in Files
      BY UploadAssumption DEF Typed, TypeOK, Entry, Statuses
  <2> QED BY <2>1, <2>2 DEF StatusOf
<1> QED BY <1>2, <1>3, <1>4

\* Nothing but the end of its reader turns an entry to "completed".
LEMMA BecomesCompleted ==
    ASSUME Typed, NEW v \in Uploads, Step(v), StatusOf(v)'.Status = "completed"
    PROVE  StatusOf(v).Status = "completed" \/ reader'[v] = "completed"
<1>0. /\ status \in [Files -> Entry] /\ File[v] \in Files /\ StatusOf(v).Status \in Statuses
      /\ Len(batch[v]) \in Nat /\ StatusOf(v)' = status'[File[v]]
      /\ reader \in [Uploads -> {"none", "refused", "spawned", "dead", "first", "reading",
                              "closing", "waiting", "completed", "failed"}]
    BY UploadAssumption, LenProperties DEF Typed, TypeOK, Entry, Statuses, StatusOf
<1>1. CASE UNCHANGED status
    BY <1>1 DEF StatusOf
<1>2. ASSUME NEW new \in Statuses, NEW inserted \in Nat, NEW failed \in Nat,
             Update(v, new, inserted, failed)
      PROVE  new = "completed" \/ StatusOf(v).Status = "completed"
  <2>1. CASE StatusOf(v).Status = "absent"
    <3>1. status' = status
        BY <1>2, <2>1, UpdateEntry
    <3> QED BY <1>1, <3>1 DEF StatusOf
  <2>2. CASE StatusOf(v).Status # "absent"
    <3>1. status'[File[v]] =
            [Status |-> new, InsertedRows |-> StatusOf(v).InsertedRows + inserted,
             FailedRows |-> StatusOf(v).FailedRows + failed, by |-> StatusOf(v).by]
        BY <1>2, <2>2, UpdateEntry
    <3> QED BY <1>0, <3>1
  <2> QED BY <2>1, <2>2
<1>3. ASSUME NEW e, e.Status # "completed", status' = [status EXCEPT ![File[v]] = e]
      PROVE  FALSE
  <2>1. status'[File[v]] = e
    <3>1. status \in [Files -> Entry] /\ File[v] \in Files
        BY <1>0
    <3> QED BY <1>3, <3>1
  <2> QED BY <1>0, <1>3, <2>1
<1>4. CASE Accept(v) \/ Expire(v)
  <2>1. Fresh(v).Status # "completed" /\ NoStatus.Status # "completed"
      BY DEF Fresh, NoStatus
  <2>2. \E e \in {Fresh(v), NoStatus} : status' = [status EXCEPT ![File[v]] = e]
      BY <1>4 DEF Accept, Expire
  <2> QED BY <1>3, <2>1, <2>2
<1>5. CASE ReopenFails(v) \/ Reopen(v) \/ FirstFails(v)
    BY <1>2, <1>5 DEF ReopenFails, Reopen, FirstFails, Statuses
<1>6. CASE ReadError(v) \/ Flush(v) \/ FlushFails(v) \/ ReadRow(v)
    BY <1>0, <1>1, <1>2, <1>6 DEF ReadError, Flush, FlushFails, ReadRow, Count
<1>7. CASE Complete(v)
    BY <1>0, <1>7 DEF Complete, Reader
<1> QED BY <1>1, <1>4, <1>5, <1>6, <1>7 DEF Step, Read, Receive, CopyFails, CloseRecords, CloseDone,
       RemoveTemp, TakeClosed, TakeDone, FlushTick, AggTick, ReadFirst, Send, Take,
       FlushAgg, FlushAggFails, WriteAgg

\* Every step keeps completed entries those of completed readers...
LEMMA FinalStep == Typed /\ Final /\ [Next]_vars => Final'
<1> SUFFICES ASSUME Typed, Final, [Next]_vars, NEW v \in Uploads,
                    StatusOf(v)'.Status = "completed", Alone(v)
             PROVE  reader'[v] = "completed"
    BY DEF Final, Alone
<1>1. CASE UNCHANGED vars
    BY <1>1 DEF vars, Final, StatusOf
<1>2. ASSUME NEW u \in Uploads, u # v, Step(u) PROVE reader'[v] = "completed"
    BY <1>2, OthersLeave DEF Final
<1>3. CASE Step(v)
  <2>1. CASE reader[v] = "completed"
      BY <1>3, <2>1, CompletedStep
  <2>2. CASE reader[v] # "completed"
      BY <1>3, <2>2, BecomesCompleted DEF Final
  <2> QED BY <2>1, <2>2
<1> QED BY <1>1, <1>2, <1>3 DEF Next

\* ... and leaves their numbers or deletes them.
LEMMA FinalMove ==
    Typed /\ Final /\ [Next]_vars
      => [\A u \in Uploads :
            (StatusOf(u).Status = "completed" /\ \A v \in Uploads \ {u} : File[v] # File[u])
              => StatusOf(u)' \in {StatusOf(u), NoStatus}]_vars
<1> SUFFICES ASSUME Typed, Final, [Next]_vars, ~UNCHANGED vars, NEW v \in Uploads,
                    StatusOf(v).Status = "completed", Alone(v)
             PROVE  StatusOf(v)' \in {StatusOf(v), NoStatus}
    BY DEF Alone
<1>1. reader[v] = "completed"
    BY DEF Final
<1>2. ASSUME NEW u \in Uploads, Step(u) PROVE StatusOf(v)' \in {StatusOf(v), NoStatus}
    BY <1>1, <1>2, OthersLeave, CompletedStep
<1> QED BY <1>2 DEF Next

\* Once a status says "completed" its numbers never change, until it is deleted.
THEOREM CompletedIsFinalCorrect == Spec => CompletedIsFinal
<1> DEFINE IInv == Typed /\ Final
           Move == \A u \in Uploads :
                     (StatusOf(u).Status = "completed" /\ \A v \in Uploads \ {u} : File[v] # File[u])
                       => StatusOf(u)' \in {StatusOf(u), NoStatus}
<1>1. Init => IInv
  <2> SUFFICES ASSUME Init PROVE Final
      BY TypedInit
  <2> QED BY UploadAssumption DEF Init, Final, StatusOf, NoStatus
<1>2. IInv /\ [Next]_vars => IInv'
    BY TypedStep, FinalStep
<1>3. IInv /\ [Next]_vars => [Move]_vars
    BY FinalMove
<1> HIDE DEF IInv
<1> QED BY <1>1, <1>2, <1>3, PTL DEF Spec, CompletedIsFinal

-----------------------------------------------------------------------------
(* Upload implements RecordPipe.                                           *)

\* What the mapping makes of an upload.
InPipe == [u \in Uploads |-> Waiting(u)]
Out    == {u \in Uploads : reader[u] = "completed"}

\* The pipe counts as everybody does.
LEMMA SamePipe ==
    /\ \A s, p : Pipe!Occurrences(s, p) = Occurrences(s, p)
    /\ \A s : Pipe!Range(s) = Range(s)
BY DEF Pipe!Occurrences, Occurrences, Pipe!Cardinality, Cardinality, Pipe!Range, Range

\* One upload moves at a time.
LEMMA OthersRest ==
    ASSUME Typed, NEW u \in Uploads, Step(u), NEW v \in Uploads \ {u}
    PROVE  Kept(v) /\ reader'[v] = reader[v]
<1>1. /\ reader' = reader \/ \E x : reader' = [reader EXCEPT ![u] = x]
      /\ pos' = pos \/ \E x : pos' = [pos EXCEPT ![u] = x]
      /\ pending' = pending \/ \E x : pending' = [pending EXCEPT ![u] = x]
      /\ chan' = chan \/ \E x : chan' = [chan EXCEPT ![u] = x]
      /\ batch' = batch \/ \E x : batch' = [batch EXCEPT ![u] = x]
      /\ agg' = agg \/ \E x : agg' = [agg EXCEPT ![u] = x]
  <2>1. CASE Read(u)
      BY <2>1 DEF Read, Reopen, FirstFails, CloseRecords, CloseDone, Complete, ReadFirst,
         ReadRow, Send, Reader, reading, working
  <2>2. CASE Receive(u)
      BY <2>2 DEF Receive, Take, TakeClosed, TakeDone, reading, working
  <2>3. CASE Flush(u) \/ FlushFails(u) \/ FlushAgg(u) \/ FlushAggFails(u)
      BY <2>3 DEF Flush, FlushFails, FlushAgg, FlushAggFails, WriteAgg, reading, working
  <2>4. CASE CopyFails(u) \/ Accept(u) \/ ReopenFails(u) \/ ReadError(u) \/ RemoveTemp(u)
             \/ Expire(u) \/ FlushTick(u) \/ AggTick(u)
      BY <2>4 DEF CopyFails, Accept, ReopenFails, ReadError, RemoveTemp, Expire, FlushTick,
         AggTick, Reader, reading, working
  <2> QED BY <2>1, <2>2, <2>3, <2>4 DEF Step
<1> QED BY <1>1 DEF Typed, TypeOK, Kept

\* What a move does to the records that wait.
LEMMA WaitingStep ==
    ASSUME Typed, NEW v \in Uploads
    PROVE  /\ Kept(v) \/ Sent(v) \/ Taken(v) => Waiting(v)' = Waiting(v)
           /\ RowRead(v) => Waiting(v)' = Waiting(v) \o Rows[v][pos[v] + 1].recs
           /\ Stored(v) => /\ Waiting(v)' \in Seq(Records)
                           /\ Waiting(v) = batch[v] \o Waiting(v)'
<1> DEFINE b == batch[v]
           c == chan[v]
           p == pending[v]
           W == Cat(Cat(b, c), p)
           W1 == Cat(Cat(batch'[v], chan'[v]), pending'[v])
<1>1. Waiting(v) = W /\ Waiting(v)' = W1
    BY DEF Waiting, Cat
<1>2. /\ b \in Seq(Records) /\ c \in Seq(Records) /\ p \in Seq(Records)
      /\ Cat(b, c) \in Seq(Records)
    BY Sequences DEF Cat
<1>3. ASSUME Kept(v) PROVE W1 = W
    BY <1>3 DEF Kept
<1>4. ASSUME Sent(v) PROVE W1 = W
  <2>1. W1 = Cat(Cat(b, Append(c, Head(p))), Tail(p)) /\ p # <<>>
      BY <1>4 DEF Sent
  <2> HIDE DEF b, c, p, W1
  <2> QED BY <1>2, <2>1, SendKeepsOrder
<1>5. ASSUME Taken(v) PROVE W1 = W
  <2>1. W1 = Cat(Cat(Append(b, Head(c)), Tail(c)), p) /\ c # <<>>
      BY <1>5 DEF Taken
  <2> HIDE DEF b, c, p, W1
  <2> QED BY <1>2, <2>1, TakeKeepsOrder
<1>6. ASSUME RowRead(v) PROVE W1 = Cat(W, Rows[v][pos[v] + 1].recs)
  <2>1. W1 = Cat(Cat(b, c), Rows[v][pos[v] + 1].recs) /\ p = <<>>
      BY <1>6 DEF RowRead
  <2> HIDE DEF b, c, p, W1
  <2>2. Cat(Cat(b, c), <<>>) = Cat(b, c)
      BY <1>2, CatFacts
  <2> QED BY <2>1, <2>2
<1>7. ASSUME Stored(v) PROVE W1 \in Seq(Records) /\ W = Cat(b, W1)
  <2>1. W1 = Cat(Cat(<<>>, c), p)
      BY <1>7 DEF Stored
  <2> HIDE DEF b, c, p, W1
  <2>2. Cat(<<>>, c) = c /\ Cat(c, p) \in Seq(Records)
      BY <1>2, CatFacts
  <2>3. Cat(Cat(b, c), p) = Cat(b, Cat(c, p))
      BY <1>2, CatAssociative
  <2> QED BY <2>1, <2>2, <2>3
<1> HIDE DEF W, W1, b
<1> QED BY <1>1, <1>3, <1>4, <1>5, <1>6, <1>7 DEF Cat, b

\* What waits in the pipe, and which have ended, after a step of u.
LEMMA PipeMoves ==
    ASSUME Typed, Typed', NEW u \in Uploads, Step(u)
    PROVE  /\ InPipe' = [InPipe EXCEPT ![u] = Waiting(u)']
           /\ Out' \ {u} = Out \ {u}
<1>1. \A v \in Uploads \ {u} : Waiting(v)' = Waiting(v) /\ reader'[v] = reader[v]
  <2> SUFFICES ASSUME NEW v \in Uploads \ {u}
               PROVE  Waiting(v)' = Waiting(v) /\ reader'[v] = reader[v]
      OBVIOUS
  <2> QED BY OthersRest DEF Kept, Waiting
<1>2. InPipe' = [v \in Uploads |-> Waiting(v)']
    BY DEF InPipe
<1>3. Out' = {v \in Uploads : reader'[v] = "completed"}
    BY DEF Out
<1> QED BY <1>1, <1>2, <1>3 DEF InPipe, Out

\* The refinement: what waits, what ended and the rest before and after a step.
Mapped == <<pos, InPipe, agg, stored, table, Out>>

LEMMA PipeInit == Init => Pipe!Init
<1> SUFFICES ASSUME Init PROVE Pipe!Init
    OBVIOUS
<1>1. \A u \in Uploads : Waiting(u) = <<>>
    BY InitEmpty
<1>2. \A u \in Uploads : reader[u] # "completed"
    BY DEF Init
<1> QED BY <1>1, <1>2 DEF Init, Pipe!Init

LEMMA PipeStep == Typed /\ Typed' /\ [Next]_vars => [Pipe!Next]_(Pipe!pipeVars)
<1> SUFFICES ASSUME Typed, Typed', [Next]_vars PROVE Pipe!Next \/ UNCHANGED Mapped
    BY DEF Mapped, InPipe, Out, Pipe!pipeVars
<1>0. /\ pos \in [Uploads -> Nat] /\ agg \in [Uploads -> [Providers -> Nat]]
      /\ \A v \in Uploads : reader[v] = "completed" => worker[v] = "stopped"
      /\ \A v \in Uploads : reader[v] \in Ended => pos[v] = Len(Rows[v])
    BY DEF Typed, TypeOK, Phases
<1>1. CASE UNCHANGED vars
  <2>1. InPipe' = InPipe /\ Out' = Out
      BY <1>1 DEF InPipe, Out, Waiting, vars, reading, working
  <2> QED BY <1>1, <2>1 DEF vars, reading, working, tables, Mapped
<1> SUFFICES ASSUME NEW u \in Uploads, Step(u) PROVE Pipe!Next \/ UNCHANGED Mapped
    BY <1>1 DEF Next
<1>2. /\ InPipe' = [InPipe EXCEPT ![u] = Waiting(u)'] /\ Out' \ {u} = Out \ {u}
      /\ InPipe[u] = Waiting(u) /\ (u \in Out <=> reader[u] = "completed")
      /\ (u \in Out' <=> reader'[u] = "completed")
      /\ InPipe \in [Uploads -> {Waiting(v) : v \in Uploads}]
    BY PipeMoves DEF InPipe, Out
<1>k. ASSUME Waiting(u)' = Waiting(u) PROVE InPipe' = InPipe
    BY <1>2, <1>k
<1>w. ASSUME worker[u] # "stopped", UNCHANGED reader PROVE Out' = Out /\ u \notin Out
    BY <1>0, <1>w DEF Out
<1>3. ASSUME Waiting(u)' = Waiting(u), UNCHANGED <<pos, agg, stored, table>>,
             reader'[u] = "completed" <=> reader[u] = "completed"
      PROVE  UNCHANGED Mapped
    BY <1>2, <1>3 DEF Mapped
<1>4. CASE CopyFails(u) \/ Accept(u) \/ ReopenFails(u) \/ ReadError(u) \/ Reopen(u)
           \/ FirstFails(u) \/ CloseRecords(u) \/ CloseDone(u) \/ RemoveTemp(u) \/ Expire(u)
           \/ TakeClosed(u) \/ TakeDone(u) \/ FlushTick(u) \/ AggTick(u)
  <2>1. UNCHANGED <<reading, chan, working, tables>>
      BY <1>4 DEF CopyFails, Accept, ReopenFails, ReadError, Reopen, FirstFails, CloseRecords,
            CloseDone, RemoveTemp, Expire, TakeClosed, TakeDone, FlushTick, AggTick
  <2>2. reader'[u] = "completed" <=> reader[u] = "completed"
      BY <1>4 DEF CopyFails, Accept, ReopenFails, ReadError, Reopen, FirstFails, CloseRecords,
            CloseDone, RemoveTemp, Expire, TakeClosed, TakeDone, FlushTick, AggTick, Reader,
            Typed, TypeOK
  <2>3. Waiting(u)' = Waiting(u)
      BY <2>1 DEF Waiting, reading, working
  <2> QED BY <1>3, <2>1, <2>2, <2>3 DEF reading, working, tables
<1>5. CASE Send(u) \/ Take(u)
  <2>1. Kept(u) \/ Sent(u) \/ Taken(u)
      BY <1>5 DEF Send, Take, working, reading, Sent, Taken, Kept, Typed, TypeOK
  <2>2. UNCHANGED <<pos, agg, stored, table, reader>>
      BY <1>5 DEF Send, Take, reading, working, tables
  <2> QED BY <1>3, <2>1, <2>2, WaitingStep
<1>6. CASE ReadFirst(u) \/ ReadRow(u)
  <2>1. UNCHANGED <<agg, stored, table>> /\ reader[u] # "completed" /\ reader'[u] # "completed"
      BY <1>6 DEF ReadFirst, ReadRow, Reader, working, tables, Typed, TypeOK
  <2>2. RowRead(u) /\ \E n : pos' = [pos EXCEPT ![u] = n]
    <3>1. CASE ReadFirst(u)
      <4>1. pos[u] = 0 /\ pending[u] = <<>>
          BY <3>1 DEF Typed, Phases, ReadFirst, Reader, Early
      <4>2. Len(Rows[u]) > 0 /\ Len(Rows[u]) \in Nat
          BY <3>1, UploadAssumption, EmptySeq, LenProperties DEF ReadFirst
      <4>3. /\ pos' = [pos EXCEPT ![u] = 1] /\ pending' = [pending EXCEPT ![u] = Rows[u][1].recs]
            /\ chan' = chan /\ batch' = batch /\ agg' = agg
          BY <3>1 DEF ReadFirst, working
      <4>4. RowRead(u)
          BY <4>1, <4>2, <4>3 DEF RowRead, Typed, TypeOK
      <4> QED BY <4>3, <4>4
    <3>2. CASE ReadRow(u)
        BY <3>2 DEF ReadRow, working, RowRead, Typed, TypeOK
    <3> QED BY <1>6, <3>1, <3>2
  <2>3. /\ pos' = [pos EXCEPT ![u] = pos[u] + 1] /\ pos[u] < Len(Rows[u])
        /\ Waiting(u)' = InPipe[u] \o Rows[u][pos[u] + 1].recs
      BY <1>0, <1>2, <2>2, WaitingStep DEF RowRead
  <2>4. Out' = Out /\ u \notin Out
      BY <1>2, <2>1
  <2> QED BY <1>2, <2>1, <2>3, <2>4 DEF InPipe, Out, Pipe!Read, Pipe!Next
<1>7. CASE Complete(u)
  <2>1. /\ UNCHANGED <<pos, agg, stored, table>> /\ Waiting(u)' = Waiting(u)
        /\ reader[u] = "waiting" /\ reader'[u] = "completed"
      BY <1>7 DEF Complete, Reader, reading, working, tables, Waiting, Typed, TypeOK
  <2>2. pos[u] = Len(Rows[u])
      BY <1>0, <2>1 DEF Ended
  <2>3. InPipe' = InPipe /\ Out' = Out \cup {u} /\ u \notin Out
      BY <1>2, <2>1
  <2> QED BY <2>1, <2>2, <2>3 DEF InPipe, Out, Pipe!Finish, Pipe!Next
<1>8. CASE Flush(u)
  <2> DEFINE b == batch[u]
             n == Len(b)
             counted == [p \in Providers |-> agg[u][p] + Occurrences(b, p)]
  <2>1. /\ UNCHANGED <<pos, table, reader>> /\ stored' = stored \cup Range(b)
        /\ agg' = [agg EXCEPT ![u] = counted]
        /\ worker[u] # "stopped"
      BY <1>8 DEF Flush, AfterFlush, Worker, reading
  <2>2. Stored(u)
      BY <1>8 DEF Flush, reading, Stored, Typed, TypeOK
  <2>3. Waiting(u) = b \o Waiting(u)' /\ Waiting(u)' \in Seq(Records) /\ b \in Seq(Records)
      BY <2>2, WaitingStep, Sequences
  <2>4. /\ n \in 0 .. Len(InPipe[u]) /\ SubSeq(InPipe[u], 1, n) = b
        /\ SubSeq(InPipe[u], n + 1, Len(InPipe[u])) = Waiting(u)'
    <3> DEFINE w == Waiting(u)'
    <3>1. InPipe[u] = b \o w /\ w \in Seq(Records) /\ b \in Seq(Records)
        BY <1>2, <2>3
    <3> HIDE DEF b, w
    <3>2. /\ Len(b) \in 0 .. Len(b \o w) /\ SubSeq(b \o w, 1, Len(b)) = b
          /\ SubSeq(b \o w, Len(b) + 1, Len(b \o w)) = w
        BY <3>1, SplitAt
    <3> QED BY <3>1, <3>2 DEF w
  <2>5. Out' = Out /\ u \notin Out
      BY <2>1, <1>w
  <2>6. Range(b) = Pipe!Range(b) /\ counted = [p \in Providers |-> agg[u][p] + Pipe!Occurrences(b, p)]
      BY SamePipe
  <2> HIDE DEF b, n, counted
  <2>7. Pipe!Store(u, n)
      BY <1>2, <2>1, <2>4, <2>5, <2>6 DEF InPipe, Out, Pipe!Store
  <2> QED BY <2>4, <2>7 DEF InPipe, Pipe!Next
<1>9. CASE FlushFails(u)
  <2>1. PICK part \in SUBSET Range(batch[u]) : stored' = stored \cup part
      BY <1>9 DEF FlushFails
  <2>2. /\ UNCHANGED <<pos, agg, table, reader>> /\ Waiting(u)' = Waiting(u)
        /\ worker[u] # "stopped"
      BY <1>9 DEF FlushFails, AfterFlush, Worker, reading, working, Waiting
  <2>3. Range(batch[u]) \subseteq Pipe!Range(InPipe[u])
    <3> DEFINE b == batch[u]
               c == chan[u] \o pending[u]
    <3>1. b \in Seq(Records) /\ c \in Seq(Records)
        BY Sequences, ConcatProperties
    <3>2. InPipe[u] = Cat(b, c)
      <4>1. Waiting(u) = Cat(Cat(batch[u], chan[u]), pending[u])
          BY DEF Waiting, Cat
      <4>2. /\ batch[u] \in Seq(Records) /\ chan[u] \in Seq(Records) /\ pending[u] \in Seq(Records)
          BY Sequences
      <4>3. Cat(Cat(batch[u], chan[u]), pending[u]) = Cat(batch[u], Cat(chan[u], pending[u]))
          BY <4>2, CatAssociative
      <4> QED BY <1>2, <4>1, <4>3 DEF Cat
    <3> HIDE DEF b, c
    <3>3. Range(b \o c) = Range(b) \cup Range(c)
        BY ZenonT(30), <3>1, RangeConcatenation
    <3> QED BY <3>2, <3>3, SamePipe DEF Cat, b
  <2>4. InPipe' = InPipe /\ Out' = Out /\ u \notin Out
      BY <2>2, <1>k, <1>w
  <2>5. part \in SUBSET Pipe!Range(InPipe[u])
      BY <2>3
  <2> QED BY <2>1, <2>2, <2>4, <2>5 DEF InPipe, Out, Pipe!StorePart, Pipe!Next
<1>10. ASSUME NEW providers \in SUBSET Touched(u), WriteAgg(u, providers) PROVE Pipe!Next
  <2>1. /\ UNCHANGED <<pos, agg, stored, reader>> /\ Waiting(u)' = Waiting(u)
        /\ worker[u] # "stopped"
        /\ table' = [p \in Providers |-> IF p \in providers THEN agg[u][p] ELSE table[p]]
      BY <1>10 DEF WriteAgg, Worker, reading, working, Waiting
  <2>2. InPipe' = InPipe /\ Out' = Out /\ u \notin Out
      BY <2>1, <1>k, <1>w
  <2> QED BY <2>1, <2>2, <1>10 DEF Touched, InPipe, Out, Pipe!Report, Pipe!Next
<1>11. CASE FlushAgg(u) \/ FlushAggFails(u)
  <2>1. \E providers \in SUBSET Touched(u) : WriteAgg(u, providers)
      BY <1>11 DEF FlushAgg, FlushAggFails
  <2> QED BY <1>10, <2>1
<1> QED BY <1>4, <1>5, <1>6, <1>7, <1>8, <1>9, <1>11 DEF Step, Read, Receive

\* Uploads with their goroutines, channel, batches and retries are pipes that
\* let their records out in order and count each of them once.
THEOREM PipeRefined == Spec => ImplementsPipe
BY PipeInit, PipeStep, TypedInit, TypedStep, PTL DEF Spec, ImplementsPipe, Pipe!Spec
=============================================================================
