------------------------------ MODULE Telemetry -------------------------------
(***************************************************************************)
(* What becomes of an event: record_prompt_defense_event and               *)
(* record_policy_enforcement_event of events.py append it to the audit log *)
(* (AuditChain.tla) and then hand it to the background worker of cloud.py, *)
(* which posts it to the platform.  An event is a detection or a clean     *)
(* scan, a pass, and two settings say what becomes of passes.              *)
(*                                                                         *)
(* External: the platform and the network; and who calls flush_cloud_events*)
(* (a program's end, or the CLI).                                          *)
(***************************************************************************)
EXTENDS AuditChain, FiniteSets

CONSTANTS
    QueueSize,  \* rows the worker's queue holds
    Clean       \* the records of clean scans

ASSUME TelemetryAssumption ==
    /\ QueueSize \in Nat \ {0}
    /\ IsFiniteSet(Callers)
    /\ Clean \subseteq 1..MaxRecords

VARIABLES
    queue,     \* the worker's _queue
    pending,   \* its _pending
    alive,     \* whether its thread was started
    sending,   \* the row the thread posts, 0 for none
    kept,      \* whether the transport keeps a connection
    flush,     \* a call of flush
    passes,    \* the settings ..._JSONL_PASSES and ..._CLOUD_PASSES

\* History.
    stored,    \* how often the platform stored each row
    tried      \* rows that were posted, or given up

workerVars == <<queue, pending, alive, sending, kept, flush, passes, stored, tried>>
vars == <<chainVars, calls, records, stops, workerVars>>

NoFlush == [pc |-> "none", rows |-> {}]

\* write_jsonl, and what is handed to the worker.
Logged(r) == r \in Clean => passes.log
Posted(r) == r \in Clean => passes.post

\* A thread records an event.  What is not logged goes on to the platform.
Record(c) ==
    /\ calls[c].pc = "idle"
    /\ records < MaxRecords
    /\ records' = records + 1
    /\ calls' = [calls EXCEPT ![c] =
                   [pc |-> IF Logged(records + 1) THEN "append" ELSE "recorded",
                    record |-> records + 1]]
    /\ UNCHANGED <<chainVars, stops, workerVars>>

\* enqueue: the row counts, then it is in the queue or dropped, and then there
\* is a thread.  A row that is in the queue may be sent before this returns.
Goes(c, from, to) == calls[c].pc = from /\ calls' = [calls EXCEPT ![c].pc = to]

Count(c) ==
    /\ Goes(c, "recorded", "counted")
    /\ Posted(calls[c].record)
    /\ pending' = pending + 1
    /\ UNCHANGED <<chainVars, records, stops, queue, alive, sending, kept, flush, passes,
                   stored, tried>>

\* A clean scan that is not posted.
Ends(c) ==
    /\ Goes(c, "recorded", "idle")
    /\ ~Posted(calls[c].record)
    /\ UNCHANGED <<chainVars, records, stops, workerVars>>

Put(c) ==
    /\ Goes(c, "counted", "put")
    /\ Len(queue) < QueueSize
    /\ queue' = Append(queue, calls[c].record)
    /\ UNCHANGED <<chainVars, records, stops, pending, alive, sending, kept, flush, passes,
                   stored, tried>>

Drop(c) ==
    /\ Goes(c, "counted", "idle")
    /\ Len(queue) >= QueueSize
    /\ pending' = pending - 1
    /\ UNCHANGED <<chainVars, records, stops, queue, alive, sending, kept, flush, passes,
                   stored, tried>>

EnsureThread(c) ==
    /\ Goes(c, "put", "idle")
    /\ alive' = TRUE
    /\ UNCHANGED <<chainVars, records, stops, queue, pending, sending, kept, flush, passes,
                   stored, tried>>

\* The thread takes the oldest row.  A connection that was kept too long, or
\* that the platform closed, is not used again.
Take ==
    /\ alive
    /\ sending = 0
    /\ queue # <<>>
    /\ sending' = Head(queue)
    /\ queue' = Tail(queue)
    /\ kept' \in {kept, FALSE}
    /\ UNCHANGED <<chainVars, calls, records, stops, pending, alive, flush, passes, stored,
                   tried>>

\* The row is done with, whatever came of it.
Finish(keeps) ==
    /\ sending' = 0
    /\ pending' = pending - 1
    /\ tried' = tried \cup {sending}
    /\ kept' = keeps
    /\ UNCHANGED <<chainVars, calls, records, stops, queue, alive, flush, passes>>

\* The platform answers, and has stored the row or refused it.
Answered ==
    /\ sending # 0
    /\ stored' \in {stored, [stored EXCEPT ![sending] = @ + 1]}
    /\ Finish(TRUE)

\* Mutant: a row is posted again when the connection breaks at any point.
ResendsAnyFailure(whole, timedOut) == kept

\* A row is sent again, on a connection of its own, only when it did not get
\* out whole on a kept one, and not for being slow.
Resends(whole, timedOut) == kept /\ ~whole /\ ~timedOut

\* The connection breaks or is too slow: before the row is out, or after, when
\* the platform may have stored it.
Breaks ==
    /\ sending # 0
    /\ \E whole, timedOut \in BOOLEAN :
          /\ \/ UNCHANGED stored
             \/ whole /\ stored' = [stored EXCEPT ![sending] = @ + 1]
          /\ IF Resends(whole, timedOut)
             THEN /\ kept' = FALSE
                  /\ UNCHANGED <<chainVars, calls, records, stops, queue, pending, alive,
                                 sending>>
                  /\ UNCHANGED <<flush, passes, tried>>
             ELSE Finish(FALSE)

\* Mutant: flush waits for the queue to be empty.
QueueEmpty == queue = <<>>

AllDone == pending = 0

\* flush waits until no row is pending, or for its time.
FlushBegins ==
    /\ flush.pc # "waiting"
    /\ flush' = [pc |-> "waiting",
                 rows |-> {queue[i] : i \in 1..Len(queue)} \cup ({sending} \ {0})]
    /\ UNCHANGED <<chainVars, calls, records, stops, queue, pending, alive, sending, kept,
                   passes, stored, tried>>

FlushEnds ==
    /\ flush.pc = "waiting"
    /\ flush' \in {NoFlush} \cup (IF AllDone THEN {[flush EXCEPT !.pc = "done"]} ELSE {})
    /\ UNCHANGED <<chainVars, calls, records, stops, queue, pending, alive, sending, kept,
                   passes, stored, tried>>

\* Another process: what was queued is gone.  The settings are the same.
Restart ==
    /\ ChainRestart
    /\ queue' = <<>>
    /\ pending' = 0
    /\ alive' = FALSE
    /\ sending' = 0
    /\ kept' = FALSE
    /\ flush' = NoFlush
    /\ UNCHANGED <<passes, stored, tried>>

Init ==
    /\ ChainInit
    /\ queue = <<>>
    /\ pending = 0
    /\ alive = FALSE
    /\ sending = 0
    /\ kept = FALSE
    /\ flush = NoFlush
    /\ passes \in [log : BOOLEAN, post : BOOLEAN]
    /\ stored = [r \in 1..MaxRecords |-> 0]
    /\ tried = {}

Next ==
    \/ \E c \in Callers :
          \/ Record(c)
          \/ (AppendLine(c) \/ AppendState(c) \/ AppendFails(c)) /\ UNCHANGED workerVars
          \/ Count(c) \/ Ends(c) \/ Put(c) \/ Drop(c) \/ EnsureThread(c)
    \/ Take \/ Answered \/ Breaks
    \/ FlushBegins \/ FlushEnds
    \/ Restart

Spec == Init /\ [][Next]_vars

-----------------------------------------------------------------------------
\* What the platform shows is in the audit log, though the log's writes fail,
\* callers cross and processes end; a line that was torn before it may make
\* it unreadable there.  The exception is a clean scan where the settings say
\* that passes are not logged ("detections are always written", events.py).
PostedIsRecorded ==
    \A r \in 1..MaxRecords : stored[r] > 0 /\ Logged(r) =>
        \E i \in 1..Len(lines) : lines[i].record = r /\ lines[i].kind \in {"chained", "glued"}

\* The posts are not idempotent, so no row is stored twice, whatever breaks
\* ("never once it may have reached the server", _CloudTransport).
StoredOnce == \A r \in 1..MaxRecords : stored[r] <= 1

\* A flush that says so has seen every row sent or given up that was queued
\* when it was called, though others are queued, dropped and sent meanwhile.
FlushMeansTried == flush.pc = "done" => flush.rows \subseteq tried
=============================================================================
