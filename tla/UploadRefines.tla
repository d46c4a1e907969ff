---------------------------- MODULE UploadRefines ----------------------------
(***************************************************************************)
(* The refinement mapping under which Upload implements RecordPipe: what   *)
(* waits in a pipe is in the worker's batch, in recordCh or in the row     *)
(* being sent, and the pipe has ended when the status says "completed".    *)
(***************************************************************************)
EXTENDS Upload

Pipe == INSTANCE RecordPipe
    WITH waiting <- [u \in Uploads |-> Waiting(u)],
         done <- {u \in Uploads : reader[u] = "completed"}

\* Every step of reader and worker is a step of the pipe or leaves it alone:
\* sending and taking move no record out of its place, a flush lets the whole
\* batch out once, a failed one nothing, and after the end of an upload its
\* goroutines touch neither tables nor totals.
ImplementsPipe == Pipe!Spec
=============================================================================
