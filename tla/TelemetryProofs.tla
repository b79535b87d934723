---------------------------- MODULE TelemetryProofs ----------------------------
(***************************************************************************)
(* Proofs about Telemetry.tla with AuditChain.tla: for every number of     *)
(* threads, records and stops, and every size of the queue.                *)
(***************************************************************************)
EXTENDS Telemetry, SequenceTheorems, FiniteSetTheorems, TLAPS

Rows == 0..MaxRecords
CallPcs == {"idle", "append", "recorded", "counted", "put"}
Call == [pc : CallPcs, record : Rows]

\* The calls and the worker.
Typed ==
    /\ records \in Rows
    /\ calls \in [Callers -> Call]
    /\ \A c \in Callers : calls[c].pc # "idle" => calls[c].record \in 1..records
    /\ queue \in Seq(1..MaxRecords)
    /\ sending \in Rows
    /\ stored \in [1..MaxRecords -> Nat]
    /\ tried \subseteq Rows
    /\ flush \in [pc : {"none", "waiting", "done"}, rows : SUBSET Rows]
    /\ appending \in Callers \cup {"none"}
    /\ \A c \in Callers : appending = c => calls[c].pc = "append"

LEMMA Numbers ==
    /\ MaxRecords \in Nat
    /\ 0 \in Rows
    /\ 1..MaxRecords \subseteq Rows
    /\ \A r \in Rows : r \in Nat /\ r <= MaxRecords /\ (r # 0 => r \in 1..MaxRecords)
    /\ \A r \in Rows : 1..r \subseteq 1..MaxRecords
    /\ "none" \notin Callers
BY AuditChainAssumption DEF Rows

LEMMA TypedInit == Init => Typed
<1> SUFFICES ASSUME Init PROVE Typed
  OBVIOUS
<1>1. stored \in [1..MaxRecords -> Nat]
  BY DEF Init
<1>2. calls \in [Callers -> Call] /\ \A c \in Callers : calls[c].pc = "idle"
  BY Numbers DEF Init, ChainInit, CallPcs, Call
<1>3. flush \in [pc : {"none", "waiting", "done"}, rows : SUBSET Rows]
  BY DEF Init, NoFlush
<1> QED
  BY <1>1, <1>2, <1>3, Numbers DEF Init, ChainInit, Typed

\* A call that goes on to another place, and nothing else of any call.
Moves(c, to) ==
    /\ calls' \in [Callers -> Call]
    /\ calls'[c].pc = to
    /\ calls'[c].record = calls[c].record
    /\ \A d \in Callers \ {c} : calls'[d] = calls[d]

LEMMA CallMoves ==
    ASSUME Typed, NEW c \in Callers, NEW to \in CallPcs,
           calls' = [calls EXCEPT ![c].pc = to]
    PROVE  Moves(c, to)
<1>1. calls \in [Callers -> Call]
  BY DEF Typed
<1>2. [calls[c] EXCEPT !.pc = to] \in Call
  BY <1>1 DEF Call
<1>3. calls' = [calls EXCEPT ![c] = [calls[c] EXCEPT !.pc = to]]
  OBVIOUS
<1>4. calls' \in [Callers -> Call]
  BY <1>1, <1>2, <1>3
<1>5. calls'[c].pc = to /\ calls'[c].record = calls[c].record
  BY <1>1, <1>3 DEF Call
<1>6. \A d \in Callers \ {c} : calls'[d] = calls[d]
  BY <1>1, <1>3
<1> QED
  BY <1>4, <1>5, <1>6 DEF Moves

LEMMA GoesMoves ==
    ASSUME Typed, NEW c \in Callers, NEW from, NEW to \in CallPcs, Goes(c, from, to)
    PROVE  calls[c].pc = from /\ Moves(c, to)
BY CallMoves DEF Goes

\* Where a record starts: at the log, or behind it.
LEMMA Starts ==
    ASSUME NEW c \in Callers, Record(c)
    PROVE  \E pc \in {"append", "recorded"} :
              /\ calls' = [calls EXCEPT ![c] = [pc |-> pc, record |-> records + 1]]
              /\ pc = "recorded" => ~Logged(records + 1)
BY DEF Record

LEMMA TypedNext == Typed /\ [Next]_vars => Typed'
<1> SUFFICES ASSUME Typed, [Next]_vars PROVE Typed'
  OBVIOUS
<1> USE Numbers
<1>1. ASSUME NEW c \in Callers, NEW to \in CallPcs, Moves(c, to), UNCHANGED records,
             calls[c].pc # "append" \/ appending' = "none", UNCHANGED appending \/ appending' = "none",
             to # "idle" => calls[c].pc # "idle"
      PROVE  /\ \A d \in Callers : appending' = d => calls'[d].pc = "append"
             /\ calls' \in [Callers -> Call]
             /\ \A d \in Callers : calls'[d].pc # "idle" => calls'[d].record \in 1..records'
  <2>1. \A d \in Callers : calls'[d].pc # "idle" => calls'[d].record \in 1..records'
    BY <1>1 DEF Moves, Typed
  <2>2. \A d \in Callers : appending' = d => calls'[d].pc = "append"
    BY <1>1, Numbers DEF Moves, Typed
  <2> QED
    BY <1>1, <2>1, <2>2 DEF Moves
<1>2. ASSUME NEW c \in Callers, Record(c)
      PROVE  Typed'
  <2>1. records + 1 \in Rows
    BY <1>2 DEF Record, Typed, Rows
  <2>2. PICK pc \in {"append", "recorded"} :
             calls' = [calls EXCEPT ![c] = [pc |-> pc, record |-> records + 1]]
    BY <1>2, Starts
  <2>3. calls' \in [Callers -> Call]
    BY <2>1, <2>2 DEF Typed, Call, CallPcs
  <2>4. \A d \in Callers : calls'[d].pc # "idle" => calls'[d].record \in 1..records'
    BY <1>2, <2>1, <2>2 DEF Record, Typed
  <2>5. \A d \in Callers : appending' = d => calls'[d].pc = "append"
    BY <1>2, <2>2 DEF Record, Typed, chainVars
  <2> QED
    BY <1>2, <2>1, <2>3, <2>4, <2>5 DEF Record, Typed, workerVars, chainVars
<1>3. ASSUME NEW c \in Callers, AppendLine(c) \/ AppendState(c) \/ AppendFails(c),
             UNCHANGED workerVars
      PROVE  Typed'
  <2>1. CASE AppendLine(c)
    BY <1>3, <2>1 DEF AppendLine, Typed, workerVars
  <2>2. CASE AppendState(c)
    <3>1. Moves(c, "recorded")
      BY <2>2, CallMoves DEF AppendState, CallPcs
    <3> QED
      BY <1>3, <2>2, <3>1 DEF AppendState, Typed, Moves, workerVars
  <2>3. CASE AppendFails(c)
    <3>1. Moves(c, "idle")
      BY <2>3, CallMoves DEF AppendFails, WriteRaises, CallPcs
    <3> QED
      BY <1>3, <2>3, <3>1 DEF AppendFails, Typed, Moves, workerVars
  <2> QED
    BY <1>3, <2>1, <2>2, <2>3
<1>4. ASSUME NEW c \in Callers, Count(c) \/ Ends(c) \/ Drop(c) \/ EnsureThread(c) \/ Put(c)
      PROVE  Typed'
  <2>1. CASE Count(c)
    <3>1. calls[c].pc = "recorded" /\ Moves(c, "counted")
      BY <2>1, GoesMoves DEF Count, CallPcs
    <3> QED
      BY <2>1, <3>1, <1>1 DEF Count, Typed, CallPcs, chainVars
  <2>2. CASE Drop(c)
    <3>1. calls[c].pc = "counted" /\ Moves(c, "idle")
      BY <2>2, GoesMoves DEF Drop, CallPcs
    <3> QED
      BY <2>2, <3>1, <1>1 DEF Drop, Typed, CallPcs, chainVars
  <2>3. CASE EnsureThread(c)
    <3>1. calls[c].pc = "put" /\ Moves(c, "idle")
      BY <2>3, GoesMoves DEF EnsureThread, CallPcs
    <3> QED
      BY <2>3, <3>1, <1>1 DEF EnsureThread, Typed, CallPcs, chainVars
  <2>4. CASE Put(c)
    <3>1. calls[c].pc = "counted" /\ Moves(c, "put")
      BY <2>4, GoesMoves DEF Put, CallPcs
    <3>2. queue' \in Seq(1..MaxRecords)
      BY <2>4, <3>1 DEF Put, Typed
    <3> QED
      BY <2>4, <3>1, <3>2, <1>1 DEF Put, Typed, CallPcs, chainVars
  <2>5. CASE Ends(c)
    <3>1. calls[c].pc = "recorded" /\ Moves(c, "idle")
      BY <2>5, GoesMoves DEF Ends, CallPcs
    <3> QED
      BY <2>5, <3>1, <1>1 DEF Ends, Typed, CallPcs, chainVars, workerVars
  <2> QED
    BY <1>4, <2>1, <2>2, <2>3, <2>4, <2>5
<1>5. CASE Take
  <2>1. Head(queue) \in 1..MaxRecords /\ Tail(queue) \in Seq(1..MaxRecords)
    BY <1>5 DEF Take, Typed
  <2> QED
    BY <1>5, <2>1 DEF Take, Typed, chainVars
<1>6. ASSUME NEW keeps, Finish(keeps), stored' \in [1..MaxRecords -> Nat]
      PROVE  Typed'
  BY <1>6 DEF Finish, Typed, chainVars
<1>7. sending # 0 => [stored EXCEPT ![sending] = @ + 1] \in [1..MaxRecords -> Nat]
  BY DEF Typed
<1>8. CASE Answered
  BY <1>6, <1>7, <1>8 DEF Answered, Typed
<1>9. CASE Breaks
  <2>1. stored' \in [1..MaxRecords -> Nat]
    BY <1>7, <1>9 DEF Breaks, Typed
  <2>2. Finish(FALSE) => Typed'
    BY <1>6, <2>1
  <2>3. CASE UNCHANGED <<chainVars, calls, records, stops, queue, pending, alive, sending, flush, tried>>
    BY <2>1, <2>3 DEF Typed, chainVars
  <2> QED
    BY <1>9, <2>2, <2>3 DEF Breaks
<1>10. CASE FlushBegins
  <2>1. {queue[i] : i \in 1..Len(queue)} \cup ({sending} \ {0}) \subseteq Rows
    BY DEF Typed
  <2>2. flush' \in [pc : {"none", "waiting", "done"}, rows : SUBSET Rows]
    BY <1>10, <2>1 DEF FlushBegins
  <2> QED
    BY <1>10, <2>2 DEF FlushBegins, Typed, chainVars
<1>11. CASE FlushEnds
  <2>1. flush' \in [pc : {"none", "waiting", "done"}, rows : SUBSET Rows]
    BY <1>11 DEF FlushEnds, Typed, NoFlush
  <2> QED
    BY <1>11, <2>1 DEF FlushEnds, Typed, chainVars
<1>12. CASE Restart
  <2>1. /\ calls' \in [Callers -> Call]
        /\ \A c \in Callers : calls'[c].pc = "idle"
    BY <1>12 DEF Restart, ChainRestart, Call, CallPcs
  <2>2. flush' \in [pc : {"none", "waiting", "done"}, rows : SUBSET Rows]
    BY <1>12 DEF Restart, NoFlush
  <2> QED
    BY <1>12, <2>1, <2>2 DEF Restart, ChainRestart, Typed
<1>13. CASE UNCHANGED vars
  BY <1>13 DEF vars, Typed, chainVars, workerVars
<1> QED
  BY <1>2, <1>3, <1>4, <1>5, <1>8, <1>9, <1>10, <1>11, <1>12, <1>13 DEF Next

(***************************************************************************)
(* StoredOnce.  A row that is not yet posted is in one place: with its     *)
(* caller, in the queue, or with the thread; and it is not stored.         *)
(***************************************************************************)
Ahead(c) == calls[c].pc \in {"append", "recorded", "counted"}

AheadOK ==
    \A c \in Callers : Ahead(c) =>
        /\ stored[calls[c].record] = 0
        /\ calls[c].record # sending
        /\ \A i \in 1..Len(queue) : queue[i] # calls[c].record
AheadDiffer ==
    \A c, d \in Callers : Ahead(c) /\ Ahead(d) /\ calls[c].record = calls[d].record => c = d
QueueOK ==
    \A i \in 1..Len(queue) :
        queue[i] \in 1..records /\ stored[queue[i]] = 0 /\ queue[i] # sending
QueueDiffers == \A i, j \in 1..Len(queue) : queue[i] = queue[j] => i = j
SendingOK == sending # 0 => sending \in 1..records /\ stored[sending] = 0
StoredOK == \A r \in 1..MaxRecords : stored[r] <= 1 /\ (r > records => stored[r] = 0)

OnceInv == AheadOK /\ AheadDiffer /\ QueueOK /\ QueueDiffers /\ SendingOK /\ StoredOK

LEMMA OnceNext == Typed /\ OnceInv /\ [Next]_vars => OnceInv'
<1> SUFFICES ASSUME Typed, OnceInv, [Next]_vars PROVE OnceInv'
  OBVIOUS
<1> USE Numbers
<1>1. ASSUME NEW c \in Callers, Record(c)
      PROVE  OnceInv'
  <2>1. records \in Nat /\ records + 1 \in 1..MaxRecords
    BY <1>1 DEF Record, Typed, Rows
  <2>2. PICK pc \in {"append", "recorded"} :
             calls' = [calls EXCEPT ![c] = [pc |-> pc, record |-> records + 1]]
    BY <1>1, Starts
  <2>3. UNCHANGED <<queue, sending, stored>> /\ records' = records + 1
    BY <1>1 DEF Record, workerVars
  <2>4. calls'[c].record = records + 1 /\ \A d \in Callers \ {c} : calls'[d] = calls[d]
    BY <2>2 DEF Typed
  <2>5. stored[records + 1] = 0 /\ records + 1 # sending /\ (\A i \in 1..Len(queue) : queue[i] # records + 1)
    BY <2>1
    DEF OnceInv, AheadOK, AheadDiffer, QueueOK, QueueDiffers, SendingOK, StoredOK
  <2>6. \A d \in Callers : Ahead(d) => calls[d].record # records + 1
    BY <2>1 DEF Typed, Ahead
  <2>7. \A d \in Callers : Ahead(d)' /\ d # c => Ahead(d) /\ calls'[d].record = calls[d].record
    BY <2>4 DEF Ahead
  <2>9. AheadOK'
    BY <2>3, <2>4, <2>5, <2>7
    DEF OnceInv, AheadOK, AheadDiffer, QueueOK, QueueDiffers, SendingOK, StoredOK
  <2>10. AheadDiffer'
    BY <2>4, <2>6, <2>7
    DEF OnceInv, AheadOK, AheadDiffer, QueueOK, QueueDiffers, SendingOK, StoredOK
  <2>11. 1..records \subseteq 1..records'
    BY <2>1, <2>3
  <2>12. StoredOK'
    BY <2>1, <2>3
    DEF OnceInv, AheadOK, AheadDiffer, QueueOK, QueueDiffers, SendingOK, StoredOK
  <2> QED
    BY <2>3, <2>9, <2>10, <2>11, <2>12
    DEF OnceInv, AheadOK, AheadDiffer, QueueOK, QueueDiffers, SendingOK, StoredOK
\* A call goes on without a row that another has.
<1>2. ASSUME NEW c \in Callers, NEW to, Moves(c, to), UNCHANGED <<queue, sending, stored, records>>,
             to \in {"recorded", "counted"} => Ahead(c),
             to \in {"recorded", "counted", "idle", "put"}
      PROVE  OnceInv'
  <2>1. \A d \in Callers : Ahead(d)' => Ahead(d) /\ calls'[d].record = calls[d].record
    BY <1>2 DEF Moves, Ahead
  <2> QED
    BY <1>2, <2>1
    DEF OnceInv, AheadOK, AheadDiffer, QueueOK, QueueDiffers, SendingOK, StoredOK
<1>3. ASSUME NEW c \in Callers, AppendLine(c) \/ AppendState(c) \/ AppendFails(c),
             UNCHANGED workerVars
      PROVE  OnceInv'
  <2>1. CASE AppendLine(c)
    BY <1>3, <2>1
    DEF AppendLine, workerVars, OnceInv, AheadOK, AheadDiffer, QueueOK, QueueDiffers, SendingOK, StoredOK, Ahead
  <2>2. CASE AppendState(c)
    <3>1. Moves(c, "recorded") /\ Ahead(c)
      BY <2>2, CallMoves DEF AppendState, CallPcs, Typed, Ahead
    <3> QED
      BY <1>2, <1>3, <2>2, <3>1 DEF AppendState, workerVars
  <2>3. CASE AppendFails(c)
    <3>1. Moves(c, "idle")
      BY <2>3, CallMoves DEF AppendFails, WriteRaises, CallPcs
    <3> QED
      BY <1>2, <1>3, <2>3, <3>1 DEF AppendFails, workerVars
  <2> QED
    BY <1>3, <2>1, <2>2, <2>3
<1>4. ASSUME NEW c \in Callers, Count(c) \/ Ends(c) \/ Drop(c) \/ EnsureThread(c)
      PROVE  OnceInv'
  <2>1. CASE Count(c)
    <3>1. calls[c].pc = "recorded" /\ Moves(c, "counted")
      BY <2>1, GoesMoves DEF Count, CallPcs
    <3> QED
      BY <2>1, <3>1, <1>2 DEF Count, Ahead
  <2>2. CASE Ends(c) \/ Drop(c) \/ EnsureThread(c)
    <3>1. Moves(c, "idle")
      BY <2>2, GoesMoves DEF Ends, Drop, EnsureThread, CallPcs
    <3> QED
      BY <2>2, <3>1, <1>2 DEF Ends, Drop, EnsureThread, workerVars
  <2> QED
    BY <1>4, <2>1, <2>2
<1>5. ASSUME NEW c \in Callers, Put(c)
      PROVE  OnceInv'
  <2> DEFINE r == calls[c].record
  <2>1. calls[c].pc = "counted" /\ Moves(c, "put")
    BY <1>5, GoesMoves DEF Put, CallPcs
  <2>2. r \in 1..records /\ r \in 1..MaxRecords /\ stored[r] = 0 /\ r # sending /\ (\A i \in 1..Len(queue) : queue[i] # r)
    BY <2>1
    DEF Typed, OnceInv, AheadOK, AheadDiffer, QueueOK, QueueDiffers, SendingOK, StoredOK, Ahead
  <2>3. queue' = Append(queue, r) /\ UNCHANGED <<sending, stored, records>>
    BY <1>5 DEF Put
  <2>4. /\ Len(queue) \in Nat
        /\ Len(queue') = Len(queue) + 1
        /\ \A i \in 1..Len(queue) : queue'[i] = queue[i]
        /\ queue'[Len(queue) + 1] = r
    BY <2>2, <2>3 DEF Typed
  <2>5. \A d \in Callers : Ahead(d)' => Ahead(d) /\ calls'[d].record = calls[d].record /\ d # c
    BY <2>1 DEF Moves, Ahead
  <2>6. \A d \in Callers : Ahead(d)' => calls[d].record # r
    BY <2>1, <2>5
    DEF OnceInv, AheadOK, AheadDiffer, QueueOK, QueueDiffers, SendingOK, StoredOK, Ahead
  <2>8. QueueOK'
    BY <2>2, <2>3, <2>4
    DEF OnceInv, AheadOK, AheadDiffer, QueueOK, QueueDiffers, SendingOK, StoredOK
  <2>9. QueueDiffers'
    BY <2>2, <2>4
    DEF OnceInv, AheadOK, AheadDiffer, QueueOK, QueueDiffers, SendingOK, StoredOK
  <2>10. AheadOK'
    BY <2>2, <2>3, <2>4, <2>5, <2>6
    DEF OnceInv, AheadOK, AheadDiffer, QueueOK, QueueDiffers, SendingOK, StoredOK
  <2> QED
    BY <2>3, <2>5, <2>8, <2>9, <2>10
    DEF OnceInv, AheadOK, AheadDiffer, QueueOK, QueueDiffers, SendingOK, StoredOK
<1>6. CASE Take
  <2>1. /\ sending' = queue[1] /\ Len(queue) \in Nat /\ Len(queue) >= 1
        /\ Len(queue') = Len(queue) - 1
        /\ \A i \in 1..Len(queue') : queue'[i] = queue[i + 1]
    BY <1>6 DEF Take, Typed
  <2>2. UNCHANGED <<calls, records, stored>> /\ sending = 0
    BY <1>6 DEF Take
  <2>5. \A i \in 1..Len(queue') : i + 1 \in 1..Len(queue) /\ i + 1 # 1
    BY <2>1
  <2>6. ASSUME NEW c \in Callers, Ahead(c)'
        PROVE  /\ stored'[calls'[c].record] = 0
               /\ calls'[c].record # sending'
               /\ \A i \in 1..Len(queue') : queue'[i] # calls'[c].record
    <3>1. /\ Ahead(c) /\ calls'[c] = calls[c]
          /\ stored[calls[c].record] = 0
          /\ \A i \in 1..Len(queue) : queue[i] # calls[c].record
      BY <2>2, <2>6 DEF OnceInv, AheadOK, Ahead
    <3>2. 1 \in 1..Len(queue)
      BY <2>1
    <3> QED
      BY <2>1, <2>2, <2>5, <3>1, <3>2
  <2>7. ASSUME NEW i \in 1..Len(queue')
        PROVE  queue'[i] \in 1..records' /\ stored'[queue'[i]] = 0 /\ queue'[i] # sending'
    <3>1. /\ i + 1 \in 1..Len(queue) /\ 1 \in 1..Len(queue) /\ i + 1 # 1
          /\ queue'[i] = queue[i + 1]
      BY <2>1, <2>5
    <3>2. queue[i + 1] # queue[1]
      BY <3>1 DEF OnceInv, QueueDiffers
    <3>3. queue[i + 1] \in 1..records /\ stored[queue[i + 1]] = 0
      BY <3>1 DEF OnceInv, QueueOK
    <3> QED
      BY <2>1, <2>2, <3>1, <3>2, <3>3
  <2>8. ASSUME NEW i \in 1..Len(queue'), NEW j \in 1..Len(queue'), queue'[i] = queue'[j]
        PROVE  i = j
    <3>1. queue[i + 1] = queue[j + 1] /\ i + 1 \in 1..Len(queue) /\ j + 1 \in 1..Len(queue)
      BY <2>1, <2>5, <2>8
    <3>2. i + 1 = j + 1
      BY <3>1 DEF OnceInv, QueueDiffers
    <3> QED
      BY <3>2, <2>1
  <2>9. SendingOK'
    BY <2>1, <2>2
    DEF OnceInv, AheadOK, AheadDiffer, QueueOK, QueueDiffers, SendingOK, StoredOK
  <2>10. AheadDiffer'
    BY <2>2
    DEF OnceInv, AheadOK, AheadDiffer, QueueOK, QueueDiffers, SendingOK, StoredOK, Ahead
  <2>11. AheadOK' /\ QueueOK' /\ QueueDiffers'
    BY <2>6, <2>7, <2>8 DEF AheadOK, QueueOK, QueueDiffers
  <2>12. StoredOK'
    BY <2>2 DEF OnceInv, StoredOK
  <2> QED
    BY <2>9, <2>10, <2>11, <2>12 DEF OnceInv
\* The row may be stored once, as it leaves.
<1>7. ASSUME NEW keeps, Finish(keeps), sending # 0,
             stored' = stored \/ stored' = [stored EXCEPT ![sending] = @ + 1]
      PROVE  OnceInv'
  <2>1. UNCHANGED <<calls, records, queue>> /\ sending' = 0
    BY <1>7 DEF Finish
  <2>2. \A r \in 1..MaxRecords : r # sending => stored'[r] = stored[r]
    BY <1>7 DEF Typed
  <2>3. stored'[sending] <= 1
    BY <1>7
    DEF Typed, OnceInv, AheadOK, AheadDiffer, QueueOK, QueueDiffers, SendingOK, StoredOK
  <2>4. StoredOK'
    BY <1>7, <2>1, <2>2, <2>3
    DEF OnceInv, AheadOK, AheadDiffer, QueueOK, QueueDiffers, SendingOK, StoredOK, Typed
  <2>5. \A c \in Callers : Ahead(c) => calls[c].record \in 1..MaxRecords
    BY DEF Ahead, Typed
  <2>6. \A i \in 1..Len(queue) : queue[i] \in 1..MaxRecords
    BY
    DEF Typed, OnceInv, AheadOK, AheadDiffer, QueueOK, QueueDiffers, SendingOK, StoredOK
  <2>7. AheadOK'
    BY <2>1, <2>2, <2>5
    DEF OnceInv, AheadOK, AheadDiffer, QueueOK, QueueDiffers, SendingOK, StoredOK, Ahead
  <2>8. QueueOK'
    BY <2>1, <2>2, <2>6
    DEF OnceInv, AheadOK, AheadDiffer, QueueOK, QueueDiffers, SendingOK, StoredOK
  <2>9. AheadDiffer'
    BY <2>1
    DEF OnceInv, AheadOK, AheadDiffer, QueueOK, QueueDiffers, SendingOK, StoredOK, Ahead
  <2> QED
    BY <2>1, <2>4, <2>7, <2>8, <2>9
    DEF OnceInv, AheadOK, AheadDiffer, QueueOK, QueueDiffers, SendingOK, StoredOK
<1>8. UNCHANGED <<calls, records, queue, sending, stored>> => OnceInv'
  BY DEF OnceInv, AheadOK, AheadDiffer, QueueOK, QueueDiffers, SendingOK, StoredOK, Ahead
<1>9. CASE Answered
  BY <1>7, <1>9 DEF Answered
<1>10. CASE Breaks
  <2>1. PICK whole \in BOOLEAN, timedOut \in BOOLEAN :
          /\ stored' = stored \/ (whole /\ stored' = [stored EXCEPT ![sending] = @ + 1])
          /\ IF Resends(whole, timedOut)
             THEN UNCHANGED <<calls, records, queue, sending>>
             ELSE Finish(FALSE)
    BY <1>10 DEF Breaks
  <2>2. CASE Resends(whole, timedOut)
    BY <1>8, <2>1, <2>2 DEF Resends
  <2>3. CASE ~Resends(whole, timedOut)
    BY <1>7, <1>10, <2>1, <2>3 DEF Breaks
  <2> QED
    BY <2>2, <2>3
<1>11. CASE FlushBegins \/ FlushEnds
  BY <1>8, <1>11 DEF FlushBegins, FlushEnds
<1>12. CASE Restart
  <2>1. /\ \A c \in Callers : calls'[c].pc = "idle"
        /\ queue' = <<>> /\ sending' = 0 /\ UNCHANGED <<records, stored>>
    BY <1>12 DEF Restart, ChainRestart
  <2> QED
    BY <2>1
    DEF OnceInv, AheadOK, AheadDiffer, QueueOK, QueueDiffers, SendingOK, StoredOK, Ahead
<1>13. CASE UNCHANGED vars
  BY <1>8, <1>13 DEF vars, workerVars
<1> QED
  BY <1>1, <1>3, <1>4, <1>5, <1>6, <1>9, <1>10, <1>11, <1>12, <1>13 DEF Next

\* No row is stored twice, whatever breaks (_CloudTransport.post).
THEOREM AlwaysStoredOnce == Spec => []StoredOnce
<1>1. Init => OnceInv
  <2> SUFFICES ASSUME Init PROVE OnceInv
    OBVIOUS
  <2>1. \A c \in Callers : ~Ahead(c)
    BY DEF Init, ChainInit, Ahead
  <2> QED
    BY <2>1, Numbers
    DEF Init, ChainInit, OnceInv, AheadOK, AheadDiffer, QueueOK, QueueDiffers, SendingOK, StoredOK
<1>2. OnceInv => StoredOnce
  BY DEF OnceInv, AheadOK, AheadDiffer, QueueOK, QueueDiffers, SendingOK, StoredOK, StoredOnce
<1> QED
  BY <1>1, <1>2, TypedInit, TypedNext, OnceNext, PTL DEF Spec

(***************************************************************************)
(* FlushMeansTried.  The pending count is what is queued, sent, or counted *)
(* and not yet queued, and what a flush waits for is tried or pending.     *)
(***************************************************************************)
Counted == {c \in Callers : calls[c].pc = "counted"}
Sends == IF sending = 0 THEN 0 ELSE 1

CountOK == pending = Len(queue) + Sends + Cardinality(Counted)
WaitOK ==
    flush.pc = "waiting" =>
        \A r \in flush.rows :
            r \in tried \/ (r # 0 /\ r = sending) \/ (\E i \in 1..Len(queue) : queue[i] = r)
FlushInv == CountOK /\ WaitOK /\ FlushMeansTried

LEMMA CountedMoves ==
    ASSUME Typed, NEW c \in Callers, NEW to, Moves(c, to)
    PROVE  /\ IsFiniteSet(Counted)
           /\ Cardinality(Counted) \in Nat
           /\ to = "counted" /\ calls[c].pc # "counted"
              => Cardinality(Counted)' = Cardinality(Counted) + 1
           /\ to # "counted" /\ calls[c].pc = "counted"
              => Cardinality(Counted)' = Cardinality(Counted) - 1
           /\ to # "counted" /\ calls[c].pc # "counted" => Counted' = Counted
<1>1. IsFiniteSet(Counted)
  BY TelemetryAssumption, FS_Subset DEF Counted
<1>2. Cardinality(Counted) \in Nat
  BY <1>1, FS_CardinalityType
<1>3. ASSUME to = "counted", calls[c].pc # "counted"
      PROVE  Cardinality(Counted)' = Cardinality(Counted) + 1
  <2>1. Counted' = Counted \cup {c} /\ c \notin Counted
    BY <1>3 DEF Counted, Moves
  <2> QED
    BY <1>1, <2>1, FS_AddElement
<1>4. ASSUME to # "counted", calls[c].pc = "counted"
      PROVE  Cardinality(Counted)' = Cardinality(Counted) - 1
  <2>1. Counted' = Counted \ {c} /\ c \in Counted
    BY <1>4 DEF Counted, Moves
  <2> QED
    BY <1>1, <2>1, FS_RemoveElement
<1>5. to # "counted" /\ calls[c].pc # "counted" => Counted' = Counted
  BY DEF Counted, Moves
<1> QED
  BY <1>1, <1>2, <1>3, <1>4, <1>5

LEMMA FlushNext == Typed /\ FlushInv /\ [Next]_vars => FlushInv'
<1> SUFFICES ASSUME Typed, FlushInv, [Next]_vars PROVE FlushInv'
  OBVIOUS
<1> USE Numbers
<1> DEFINE Waits(r) == (r # 0 /\ r = sending) \/ (\E i \in 1..Len(queue) : queue[i] = r)
<1>0. IsFiniteSet(Counted) /\ Cardinality(Counted) \in Nat /\ Len(queue) \in Nat
  BY TelemetryAssumption, FS_Subset, FS_CardinalityType DEF Counted, Typed
\* A step of no interest to a flush but for the count.
<1>1. ASSUME UNCHANGED <<flush, tried, sending>>, CountOK',
             \A i \in 1..Len(queue) : i \in 1..Len(queue') /\ queue'[i] = queue[i]
      PROVE  FlushInv'
  <2>1. WaitOK'
    BY <1>1 DEF FlushInv, WaitOK
  <2>2. FlushMeansTried'
    BY <1>1 DEF FlushInv, FlushMeansTried
  <2> QED
    BY <1>1, <2>1, <2>2 DEF FlushInv
<1>2. ASSUME NEW c \in Callers, Record(c)
      PROVE  FlushInv'
  <2>1. \E pc \in {"append", "recorded"} :
             calls' = [calls EXCEPT ![c] = [pc |-> pc, record |-> records + 1]]
        /\ calls[c].pc = "idle"
    BY <1>2, Starts DEF Record
  <2>2. Counted' = Counted
    BY <2>1 DEF Counted, Typed
  <2> QED
    BY <1>1, <1>2, <2>2 DEF Record, workerVars, FlushInv, CountOK, Sends
<1>3. ASSUME NEW c \in Callers, AppendLine(c) \/ AppendState(c) \/ AppendFails(c),
             UNCHANGED workerVars
      PROVE  FlushInv'
  <2>1. CASE UNCHANGED calls
    BY <1>1, <1>3, <2>1 DEF workerVars, FlushInv, CountOK, Sends, Counted
  <2>2. CASE AppendState(c)
    <3>1. Moves(c, "recorded") /\ calls[c].pc = "append"
      BY <2>2, CallMoves DEF AppendState, CallPcs, Typed
    <3>2. Counted' = Counted
      BY <3>1, CountedMoves
    <3> QED
      BY <1>1, <1>3, <3>2 DEF workerVars, FlushInv, CountOK, Sends
  <2>3. CASE AppendFails(c)
    <3>1. Moves(c, "idle") /\ calls[c].pc = "append"
      BY <2>3, CallMoves DEF AppendFails, WriteRaises, CallPcs
    <3>2. Counted' = Counted
      BY <3>1, CountedMoves
    <3> QED
      BY <1>1, <1>3, <3>2 DEF workerVars, FlushInv, CountOK, Sends
  <2> QED
    BY <1>3, <2>1, <2>2, <2>3 DEF AppendLine
<1>4. ASSUME NEW c \in Callers, Count(c)
      PROVE  FlushInv'
  <2>1. calls[c].pc = "recorded" /\ Moves(c, "counted")
    BY <1>4, GoesMoves DEF Count, CallPcs
  <2>2. Cardinality(Counted)' = Cardinality(Counted) + 1
    BY <2>1, CountedMoves
  <2>3. pending' = pending + 1 /\ UNCHANGED <<queue, sending, flush, tried>>
    BY <1>4 DEF Count
  <2>4. CountOK'
    BY <1>0, <2>2, <2>3 DEF FlushInv, CountOK, Sends
  <2> QED
    BY <1>1, <2>3, <2>4
<1>5. ASSUME NEW c \in Callers, Put(c)
      PROVE  FlushInv'
  <2>1. calls[c].pc = "counted" /\ Moves(c, "put")
    BY <1>5, GoesMoves DEF Put, CallPcs
  <2>2. Cardinality(Counted)' = Cardinality(Counted) - 1
    BY <2>1, CountedMoves
  <2>3. queue' = Append(queue, calls[c].record) /\ UNCHANGED <<pending, sending, flush, tried>>
    BY <1>5 DEF Put
  <2>4. calls[c].record \in 1..MaxRecords
    BY <2>1 DEF Typed
  <2>5. /\ Len(queue') = Len(queue) + 1
        /\ \A i \in 1..Len(queue) : i \in 1..Len(queue') /\ queue'[i] = queue[i]
    BY <1>0, <2>3, <2>4 DEF Typed
  <2>6. CountOK'
    <3>1. pending' = pending /\ sending' = sending /\ Sends \in {0, 1} /\ Sends' = Sends
      BY <2>3 DEF Sends
    <3>2. pending = Len(queue) + Sends + Cardinality(Counted)
      BY DEF FlushInv, CountOK
    <3>3. pending' = Len(queue') + Sends' + Cardinality(Counted)'
      BY <1>0, <2>2, <2>5, <3>1, <3>2
    <3> QED
      BY <3>3 DEF CountOK
  <2> QED
    BY <1>1, <2>3, <2>5, <2>6
<1>6. ASSUME NEW c \in Callers, Ends(c) \/ Drop(c) \/ EnsureThread(c)
      PROVE  FlushInv'
  <2>1. CASE Drop(c)
    <3>1. calls[c].pc = "counted" /\ Moves(c, "idle")
      BY <2>1, GoesMoves DEF Drop, CallPcs
    <3>2. Cardinality(Counted)' = Cardinality(Counted) - 1
      BY <3>1, CountedMoves
    <3>3. pending' = pending - 1 /\ UNCHANGED <<queue, sending, flush, tried>>
      BY <2>1 DEF Drop
    <3>4. CountOK'
      BY <1>0, <3>2, <3>3 DEF FlushInv, CountOK, Sends
    <3> QED
      BY <1>1, <3>3, <3>4
  <2>2. CASE Ends(c) \/ EnsureThread(c)
    <3>1. calls[c].pc \in {"put", "recorded"} /\ Moves(c, "idle")
      BY <2>2, GoesMoves DEF Ends, EnsureThread, CallPcs
    <3>2. Counted' = Counted
      BY <3>1, CountedMoves
    <3>3. UNCHANGED <<queue, pending, sending, flush, tried>>
      BY <2>2 DEF Ends, EnsureThread, workerVars
    <3> QED
      BY <1>1, <3>2, <3>3 DEF FlushInv, CountOK, Sends
  <2> QED
    BY <1>6, <2>1, <2>2
<1>7. CASE Take
  <2>1. /\ sending' = queue[1] /\ sending = 0
        /\ Len(queue) >= 1 /\ Len(queue') = Len(queue) - 1
        /\ \A i \in 1..Len(queue') : queue'[i] = queue[i + 1]
    BY <1>7 DEF Take, Typed
  <2>2. UNCHANGED <<calls, pending, flush, tried>>
    BY <1>7 DEF Take
  <2>3. sending' # 0
    BY <1>0, <2>1 DEF Typed
  <2>4. CountOK'
    BY <1>0, <2>1, <2>2, <2>3 DEF FlushInv, CountOK, Sends, Counted
  <2>5. ASSUME NEW i \in 1..Len(queue)
        PROVE  queue[i] = sending' \/ \E j \in 1..Len(queue') : queue'[j] = queue[i]
    <3>1. CASE i = 1
      BY <2>1, <3>1
    <3>2. CASE i # 1
      <4>1. i - 1 \in 1..Len(queue') /\ queue'[i - 1] = queue[i]
        BY <1>0, <2>1, <3>2
      <4> QED
        BY <4>1
    <3> QED
      BY <3>1, <3>2
  <2>6. WaitOK'
    BY <2>1, <2>2, <2>3, <2>5 DEF FlushInv, WaitOK
  <2> QED
    BY <2>2, <2>4, <2>6 DEF FlushInv, FlushMeansTried
<1>8. ASSUME NEW keeps, Finish(keeps), sending # 0
      PROVE  FlushInv'
  <2>1. /\ sending' = 0 /\ pending' = pending - 1 /\ tried' = tried \cup {sending}
        /\ UNCHANGED <<calls, queue, flush>>
    BY <1>8 DEF Finish
  <2>2. CountOK'
    BY <1>0, <1>8, <2>1 DEF FlushInv, CountOK, Sends, Counted
  <2>3. WaitOK'
    BY <2>1 DEF FlushInv, WaitOK
  <2>4. FlushMeansTried'
    BY <2>1 DEF FlushInv, FlushMeansTried
  <2> QED
    BY <2>2, <2>3, <2>4 DEF FlushInv
<1>9. UNCHANGED <<calls, queue, pending, sending, flush, tried>> => FlushInv'
  BY DEF FlushInv, CountOK, WaitOK, FlushMeansTried, Sends, Counted
<1>10. CASE Answered
  BY <1>8, <1>10 DEF Answered
<1>11. CASE Breaks
  BY <1>8, <1>9, <1>11 DEF Breaks
<1>12. CASE FlushBegins
  <2>1. /\ flush' = [pc |-> "waiting",
                     rows |-> {queue[i] : i \in 1..Len(queue)} \cup ({sending} \ {0})]
        /\ UNCHANGED <<calls, queue, pending, sending, tried>>
    BY <1>12 DEF FlushBegins
  <2>2. WaitOK'
    BY <2>1 DEF WaitOK
  <2>3. CountOK'
    BY <2>1 DEF FlushInv, CountOK, Sends, Counted
  <2> QED
    BY <2>1, <2>2, <2>3 DEF FlushInv, FlushMeansTried
<1>13. CASE FlushEnds
  <2>1. UNCHANGED <<calls, queue, pending, sending, tried>> /\ flush.pc = "waiting"
    BY <1>13 DEF FlushEnds
  <2>2. CASE flush' = NoFlush
    BY <2>1, <2>2 DEF FlushInv, CountOK, WaitOK, FlushMeansTried, Sends, Counted, NoFlush
  <2>3. CASE pending = 0 /\ flush' = [flush EXCEPT !.pc = "done"]
    <3>1. Len(queue) = 0 /\ sending = 0
      BY <1>0, <2>3 DEF FlushInv, CountOK, Sends
    <3>2. flush.rows \subseteq tried
      BY <2>1, <3>1 DEF FlushInv, WaitOK
    <3>3. flush'.pc = "done" /\ flush'.rows = flush.rows
      BY <2>3 DEF Typed
    <3> QED
      BY <2>1, <3>2, <3>3 DEF FlushInv, CountOK, WaitOK, FlushMeansTried, Sends, Counted
  <2> QED
    BY <1>13, <2>2, <2>3 DEF FlushEnds, AllDone
<1>14. CASE Restart
  <2>1. /\ \A c \in Callers : calls'[c].pc = "idle"
        /\ queue' = <<>> /\ sending' = 0 /\ pending' = 0 /\ flush' = NoFlush
    BY <1>14 DEF Restart, ChainRestart
  <2>2. Counted' = {}
    BY <2>1 DEF Counted
  <2> QED
    BY <2>1, <2>2, FS_EmptySet DEF FlushInv, CountOK, WaitOK, FlushMeansTried, Sends, NoFlush
<1>15. CASE UNCHANGED vars
  BY <1>9, <1>15 DEF vars, workerVars
<1> QED
  BY <1>2, <1>3, <1>4, <1>5, <1>6, <1>7, <1>10, <1>11, <1>12, <1>13, <1>14, <1>15 DEF Next

\* A flush that says it is done has seen every row tried that was queued when
\* it was called (_CloudWorker.flush and its pending count).
THEOREM FlushAlwaysMeansTried == Spec => []FlushMeansTried
<1>1. Init => FlushInv
  <2> SUFFICES ASSUME Init PROVE FlushInv
    OBVIOUS
  <2>1. Counted = {}
    BY DEF Init, ChainInit, Counted
  <2> QED
    BY <2>1, FS_EmptySet DEF Init, NoFlush, FlushInv, CountOK, WaitOK, FlushMeansTried, Sends
<1>2. FlushInv => FlushMeansTried
  BY DEF FlushInv
<1> QED
  BY <1>1, <1>2, TypedInit, TypedNext, FlushNext, PTL DEF Spec

-----------------------------------------------------------------------------
(***************************************************************************)
(* The audit log of AuditChain.tla as Telemetry.tla uses it: what is       *)
(* posted is in the log, and the log verifies.                             *)
(***************************************************************************)

Tips == {"genesis", "missing", "legacy", "chained", "torn", "glued"} \X Nat
Tail_ == [seq : Nat, tip : Tips]
Lines == [kind : {"legacy", "chained", "torn", "glued"}, seq : Nat, prev : Tips, record : Rows]

ChainTyped ==
    /\ lines \in Seq(Lines)
    /\ state \in Tail_
    /\ stateFile \in Tail_
    /\ slipped \in BOOLEAN

\* What the chain sees of a step that is none of its own.
Aside ==
    /\ UNCHANGED chainVars
    /\ \A c \in Callers : appending = c => calls'[c].record = calls[c].record

LEMMA MovesAside ==
    ASSUME Typed, NEW c \in Callers, NEW to, Moves(c, to), UNCHANGED chainVars
    PROVE  Aside
BY DEF Aside, Moves

LEMMA Steps ==
    ASSUME Typed, [Next]_vars
    PROVE  \/ Aside
           \/ \E c \in Callers :
                 (AppendLine(c) \/ AppendState(c) \/ AppendFails(c)) /\ UNCHANGED workerVars
           \/ ChainRestart /\ UNCHANGED <<stored, tried>> /\ queue' = <<>> /\ sending' = 0
<1>1. UNCHANGED <<chainVars, calls>> => Aside
  BY DEF Aside
<1>2. ASSUME NEW c \in Callers, Record(c)
      PROVE  Aside
  BY <1>2 DEF Record, Aside, Typed
<1>3. ASSUME NEW c \in Callers, Count(c) \/ Ends(c) \/ Put(c) \/ Drop(c) \/ EnsureThread(c)
      PROVE  Aside
  <2>1. UNCHANGED chainVars
    BY <1>3 DEF Count, Ends, Put, Drop, EnsureThread
  <2>2. \E to \in CallPcs : Moves(c, to)
    BY <1>3, GoesMoves DEF Count, Ends, Put, Drop, EnsureThread, CallPcs
  <2> QED
    BY <2>1, <2>2, MovesAside
<1>4. Take \/ Answered \/ Breaks \/ FlushBegins \/ FlushEnds \/ UNCHANGED vars
      => UNCHANGED <<chainVars, calls>>
  BY DEF Take, Answered, Breaks, FlushBegins, FlushEnds, Finish, vars
<1>5. CASE Restart
  BY <1>5 DEF Restart
<1> QED
  BY <1>1, <1>2, <1>3, <1>4, <1>5 DEF Next

(***************************************************************************)
(* The types.                                                              *)
(***************************************************************************)
LEMMA EndType == ChainTyped => End \in Tail_
<1> SUFFICES ASSUME ChainTyped PROVE End \in Tail_
  OBVIOUS
<1>1. Len(lines) \in Nat
  BY DEF ChainTyped
<1>2. GENESIS \in Tips
  BY DEF GENESIS, Tips
<1>3. lines # <<>> => HashOf(lines[Len(lines)]) \in Tips
  <2> SUFFICES ASSUME lines # <<>> PROVE HashOf(lines[Len(lines)]) \in Tips
    OBVIOUS
  <2>1. lines[Len(lines)] \in Lines
    BY <1>1 DEF ChainTyped
  <2> QED
    BY <2>1, Numbers DEF Lines, HashOf, Tips
<1> QED
  BY <1>1, <1>2, <1>3 DEF End, Tail_

LEMMA LoadedType == ChainTyped => Loaded \in Tail_
BY EndType DEF Loaded, Rebuilt, ChainTyped

LEMMA NextLineType ==
    ASSUME ChainTyped, NEW r \in Rows
    PROVE  /\ NextLine(r) \in Lines
           /\ [NextLine(r) EXCEPT !.kind = "torn"] \in Lines
           /\ NextLine(r).kind = "chained" /\ NextLine(r).record = r
           /\ NextLine(r).seq = Loaded.seq + 1 /\ NextLine(r).prev = Loaded.tip
<1>1. Loaded.seq + 1 \in Nat /\ Loaded.tip \in Tips
  BY LoadedType DEF Tail_
<1> QED
  BY <1>1 DEF NextLine, Line, Lines

LEMMA WrittenType ==
    ASSUME ChainTyped, NEW line \in Lines
    PROVE  Written(line) \in Seq(Lines)
<1>1. [line EXCEPT !.kind = "glued"] \in Lines
  BY DEF Lines
<1>2. CASE lines # <<>> /\ lines[Len(lines)].kind = "torn"
  BY <1>1, <1>2 DEF Written, ChainTyped
<1>3. CASE ~(lines # <<>> /\ lines[Len(lines)].kind = "torn")
  BY <1>3 DEF Written, ChainTyped
<1> QED
  BY <1>2, <1>3

LEMMA MissingType == Missing \in Tail_
BY DEF Missing, Tail_, Tips

LEMMA ChainTypedNext == Typed /\ ChainTyped /\ [Next]_vars => ChainTyped'
<1> SUFFICES ASSUME Typed, ChainTyped, [Next]_vars PROVE ChainTyped'
  OBVIOUS
<1>1. CASE Aside
  BY <1>1 DEF Aside, ChainTyped, chainVars, fileVars
<1>2. ASSUME NEW c \in Callers, AppendLine(c)
      PROVE  ChainTyped'
  <2>1. calls[c].record \in Rows
    BY DEF Typed, Call
  <2> QED
    BY <1>2, <2>1, NextLineType, WrittenType, LoadedType DEF AppendLine, ChainTyped
<1>3. ASSUME NEW c \in Callers, AppendState(c)
      PROVE  ChainTyped'
  <2>1. calls[c].record \in Nat
    BY Numbers DEF Typed, Call
  <2>2. state' \in Tail_
    BY <1>3, <2>1 DEF AppendState, ChainTyped, Tail_, Tips
  <2> QED
    BY <1>3, <2>2 DEF AppendState, ChainTyped
<1>4. ASSUME NEW c \in Callers, AppendFails(c)
      PROVE  ChainTyped'
  <2>1. calls[c].record \in Rows
    BY DEF Typed, Call
  <2>2. lines' \in Seq(Lines)
    BY <1>4, <2>1, NextLineType, WrittenType DEF AppendFails, ChainTyped
  <2> QED
    BY <1>4, <2>2, LoadedType DEF AppendFails, ChainTyped
<1>5. CASE ChainRestart
  BY <1>5, MissingType DEF ChainRestart, ChainTyped
<1> QED
  BY <1>1, <1>2, <1>3, <1>4, <1>5, Steps

LEMMA ChainTypedInit == Init => ChainTyped
<1> SUFFICES ASSUME Init PROVE ChainTyped
  OBVIOUS
<1>1. Line("legacy", 0, GENESIS, 0) \in Lines
  BY Numbers DEF Line, GENESIS, Lines, Tips
<1>2. <<>> \in Seq(Lines) /\ <<Line("legacy", 0, GENESIS, 0)>> \in Seq(Lines)
  BY <1>1
<1>3. lines \in Seq(Lines)
  BY <1>2 DEF Init, ChainInit
<1> QED
  BY <1>3, MissingType DEF Init, ChainInit, ChainTyped

(***************************************************************************)
(* PostedIsRecorded.  What a call has recorded, what is queued, sent or    *)
(* stored is in the log if it is to be there: lines are only added, or a   *)
(* torn one is glued.                                                      *)
(***************************************************************************)
Has(log, r) == \E i \in 1..Len(log) : log[i].record = r /\ log[i].kind \in {"chained", "glued"}
Shown(log, settings, r) == (r \in Clean => settings.log) => Has(log, r)

CallsRecorded ==
    \A c \in Callers : appending = c \/ calls[c].pc \in {"recorded", "counted"}
                       => Shown(lines, passes, calls[c].record)
RowsRecorded ==
    /\ \A i \in 1..Len(queue) : Shown(lines, passes, queue[i])
    /\ sending # 0 => Shown(lines, passes, sending)
    /\ \A r \in 1..MaxRecords : stored[r] > 0 => Shown(lines, passes, r)
PostedInv == CallsRecorded /\ RowsRecorded

LEMMA WrittenKeeps ==
    ASSUME ChainTyped, NEW line \in Lines, lines' = Written(line)
    PROVE  /\ \A r : Has(lines, r) => Has(lines', r)
           /\ line.kind = "chained" => Has(lines', line.record)
<1>1. Len(lines) \in Nat
  BY DEF ChainTyped
<1>2. CASE lines # <<>> /\ lines[Len(lines)].kind = "torn"
  <2>1. /\ lines' = [lines EXCEPT ![Len(lines)] = [line EXCEPT !.kind = "glued"]]
        /\ Len(lines) \in 1..Len(lines)
    BY <1>1, <1>2 DEF Written, ChainTyped
  <2>2. /\ Len(lines') = Len(lines)
        /\ \A i \in 1..Len(lines) : i # Len(lines) => lines'[i] = lines[i]
        /\ lines'[Len(lines)] = [line EXCEPT !.kind = "glued"]
    BY <1>1, <2>1 DEF ChainTyped
  <2>3. lines'[Len(lines)].kind = "glued" /\ lines'[Len(lines)].record = line.record
    BY <2>2 DEF Lines
  <2> QED
    BY <1>2, <2>1, <2>2, <2>3 DEF Has
<1>3. CASE ~(lines # <<>> /\ lines[Len(lines)].kind = "torn")
  <2>1. /\ Len(lines') = Len(lines) + 1
        /\ \A i \in 1..Len(lines) : lines'[i] = lines[i]
        /\ lines'[Len(lines) + 1] = line
    BY <1>1, <1>3 DEF Written, ChainTyped
  <2> QED
    BY <1>1, <2>1 DEF Has
<1> QED
  BY <1>2, <1>3

LEMMA PostedNext == Typed /\ ChainTyped /\ PostedInv /\ [Next]_vars => PostedInv'
<1> SUFFICES ASSUME Typed, ChainTyped, PostedInv, [Next]_vars PROVE PostedInv'
  OBVIOUS
<1> USE Numbers
<1>0. passes' = passes
  BY DEF Next, Record, Count, Ends, Put, Drop, EnsureThread, Take, Answered, Breaks, Finish,
         FlushBegins, FlushEnds, Restart, workerVars, vars
<1>1. ASSUME UNCHANGED <<queue, sending, stored>>, \A r : Shown(lines, passes, r) => Shown(lines', passes', r)
      PROVE  RowsRecorded'
  BY <1>1 DEF PostedInv, RowsRecorded
\* A call goes on behind its recording, or ends.
<1>2. ASSUME NEW c \in Callers, NEW to, Moves(c, to), UNCHANGED <<lines, appending>>,
             to = "counted" => calls[c].pc = "recorded",
             to # "recorded"
      PROVE  CallsRecorded'
  BY <1>0, <1>2 DEF PostedInv, CallsRecorded, Moves
<1>3. ASSUME NEW c \in Callers, Record(c)
      PROVE  PostedInv'
  <2>1. /\ calls[c].pc = "idle"
        /\ UNCHANGED <<lines, appending, queue, sending, stored>>
    BY <1>3 DEF Record, chainVars, fileVars, workerVars
  <2>2. /\ calls'[c].pc \in {"append", "recorded"} /\ calls'[c].record = records + 1
        /\ calls'[c].pc = "recorded" => ~Logged(records + 1)
        /\ \A d \in Callers \ {c} : calls'[d] = calls[d]
    BY <1>3, Starts DEF Typed
  <2>3. appending # c
    BY <2>1 DEF Typed
  <2>5. calls'[c].pc = "recorded" => Shown(lines, passes, calls'[c].record)
    BY <2>2 DEF Logged, Shown
  <2>4. CallsRecorded'
    BY <1>0, <2>1, <2>2, <2>3, <2>5 DEF PostedInv, CallsRecorded
  <2> QED
    BY <1>0, <1>1, <2>1, <2>4 DEF PostedInv
<1>4. ASSUME NEW c \in Callers, AppendLine(c), UNCHANGED workerVars
      PROVE  PostedInv'
  <2> DEFINE line == NextLine(calls[c].record)
  <2>1. line \in Lines /\ line.kind = "chained" /\ line.record = calls[c].record
    BY NextLineType DEF Typed, Call
  <2>2. lines' = Written(line) /\ appending' = c /\ UNCHANGED calls
    BY <1>4 DEF AppendLine
  <2> HIDE DEF line
  <2>3. (\A r : Shown(lines, passes, r) => Shown(lines', passes', r)) /\ Shown(lines', passes', calls[c].record)
    BY <1>0, <2>1, <2>2, WrittenKeeps DEF Shown
  <2>4. CallsRecorded'
    BY <2>2, <2>3 DEF PostedInv, CallsRecorded
  <2> QED
    BY <1>1, <1>4, <2>3, <2>4 DEF PostedInv, workerVars
<1>5. ASSUME NEW c \in Callers, AppendState(c), UNCHANGED workerVars
      PROVE  PostedInv'
  <2>1. Moves(c, "recorded") /\ appending = c /\ appending' = "none" /\ UNCHANGED lines
    BY <1>5, CallMoves DEF AppendState, CallPcs
  <2>2. CallsRecorded'
    BY <1>0, <2>1 DEF PostedInv, CallsRecorded, Moves
  <2> QED
    BY <1>0, <1>1, <1>5, <2>1, <2>2 DEF PostedInv, workerVars
<1>6. ASSUME NEW c \in Callers, AppendFails(c), UNCHANGED workerVars
      PROVE  PostedInv'
  <2> DEFINE line == NextLine(calls[c].record)
             torn == [NextLine(calls[c].record) EXCEPT !.kind = "torn"]
  <2>1. line \in Lines /\ torn \in Lines
    BY NextLineType DEF Typed, Call
  <2>2. lines' \in {lines, Written(line), Written(torn)} /\ UNCHANGED appending
    BY <1>6 DEF AppendFails
  <2>3. Moves(c, "idle")
    BY <1>6, CallMoves DEF AppendFails, WriteRaises, CallPcs
  <2> HIDE DEF line, torn
  <2>4. \A r : Shown(lines, passes, r) => Shown(lines', passes', r)
    BY <1>0, <2>1, <2>2, WrittenKeeps DEF Shown
  <2>5. appending = "none"
    BY <1>6 DEF AppendFails
  <2>6. CallsRecorded'
    BY <2>2, <2>3, <2>4, <2>5 DEF PostedInv, CallsRecorded, Moves
  <2> QED
    BY <1>1, <1>6, <2>4, <2>6 DEF PostedInv, workerVars
<1>7. ASSUME NEW c \in Callers, Count(c) \/ Ends(c) \/ Drop(c) \/ EnsureThread(c)
      PROVE  PostedInv'
  <2>1. UNCHANGED <<lines, appending, queue, sending, stored>>
    BY <1>7 DEF Count, Ends, Drop, EnsureThread, chainVars, fileVars, workerVars
  <2>2. \/ calls[c].pc = "recorded" /\ Moves(c, "counted")
        \/ Moves(c, "idle")
    BY <1>7, GoesMoves DEF Count, Ends, Drop, EnsureThread, CallPcs
  <2> QED
    BY <1>0, <1>1, <1>2, <2>1, <2>2 DEF PostedInv
<1>8. ASSUME NEW c \in Callers, Put(c)
      PROVE  PostedInv'
  <2>1. calls[c].pc = "counted" /\ Moves(c, "put")
    BY <1>8, GoesMoves DEF Put, CallPcs
  <2>2. queue' = Append(queue, calls[c].record) /\ UNCHANGED <<lines, appending, sending, stored>>
    BY <1>8 DEF Put, chainVars, fileVars
  <2>3. calls[c].record \in 1..MaxRecords /\ Shown(lines, passes, calls[c].record)
    BY <2>1 DEF Typed, PostedInv, CallsRecorded
  <2>6. /\ Len(queue) \in Nat /\ Len(queue') = Len(queue) + 1
        /\ \A i \in 1..Len(queue) : queue'[i] = queue[i]
        /\ queue'[Len(queue) + 1] = calls[c].record
    BY <2>2, <2>3 DEF Typed
  <2>4. \A i \in 1..Len(queue') : Shown(lines, passes, queue'[i])
    BY <2>3, <2>6 DEF PostedInv, RowsRecorded
  <2>5. RowsRecorded'
    BY <1>0, <2>2, <2>4 DEF PostedInv, RowsRecorded
  <2> QED
    BY <1>2, <2>1, <2>2, <2>5 DEF PostedInv
<1>9. ASSUME UNCHANGED <<lines, appending, calls>>
      PROVE  CallsRecorded'
  BY <1>0, <1>9 DEF PostedInv, CallsRecorded
<1>10. CASE Take
  <2>1. /\ sending' = queue[1] /\ Len(queue) \in Nat /\ Len(queue) >= 1
        /\ Len(queue') = Len(queue) - 1
        /\ \A i \in 1..Len(queue') : queue'[i] = queue[i + 1]
    BY <1>10 DEF Take, Typed
  <2>2. UNCHANGED <<lines, appending, calls, stored>>
    BY <1>10 DEF Take, chainVars, fileVars
  <2>3. \A i \in 1..Len(queue') : i + 1 \in 1..Len(queue)
    BY <2>1
  <2>4. (\A i \in 1..Len(queue') : Shown(lines, passes, queue'[i])) /\ Shown(lines, passes, sending')
    BY <2>1, <2>3 DEF PostedInv, RowsRecorded
  <2>5. RowsRecorded'
    BY <1>0, <2>2, <2>4 DEF PostedInv, RowsRecorded
  <2> QED
    BY <1>9, <2>2, <2>5 DEF PostedInv
<1>11. ASSUME UNCHANGED <<lines, queue>>, sending' \in {sending, 0}, sending # 0,
              stored' = stored \/ stored' = [stored EXCEPT ![sending] = @ + 1]
       PROVE  RowsRecorded'
  <2>1. \A r \in 1..MaxRecords : r # sending => stored'[r] = stored[r]
    BY <1>11 DEF Typed
  <2> QED
    BY <1>0, <1>11, <2>1 DEF PostedInv, RowsRecorded
<1>12. CASE Answered \/ Breaks
  <2>1. UNCHANGED <<lines, appending, calls, queue>> /\ sending' \in {sending, 0} /\ sending # 0
    BY <1>12 DEF Answered, Breaks, Finish, chainVars, fileVars
  <2>2. stored' = stored \/ stored' = [stored EXCEPT ![sending] = @ + 1]
    BY <1>12 DEF Answered, Breaks
  <2> QED
    BY <1>9, <1>11, <2>1, <2>2 DEF PostedInv
<1>13. CASE FlushBegins \/ FlushEnds \/ UNCHANGED vars
  <2>1. UNCHANGED <<lines, appending, calls, queue, sending, stored>>
    BY <1>13 DEF FlushBegins, FlushEnds, vars, chainVars, fileVars, workerVars
  <2> QED
    BY <1>0, <1>1, <1>9, <2>1 DEF PostedInv
<1>14. CASE Restart
  <2>1. /\ \A c \in Callers : calls'[c].pc = "idle"
        /\ appending' = "none" /\ queue' = <<>> /\ sending' = 0 /\ UNCHANGED <<lines, stored>>
    BY <1>14 DEF Restart, ChainRestart
  <2> QED
    BY <1>0, <2>1 DEF PostedInv, CallsRecorded, RowsRecorded
<1> QED
  BY <1>3, <1>4, <1>5, <1>6, <1>7, <1>8, <1>10, <1>12, <1>13, <1>14 DEF Next

\* What the platform shows is in the audit log, but for clean scans where the
\* settings say that they are not logged, though the log's writes fail, callers
\* cross and processes end (record_ functions of events.py: the log first,
\* AuditLogWriteError before the row is queued).
THEOREM PostedAlwaysRecorded == Spec => []PostedIsRecorded
<1>1. Init => PostedInv
  <2> SUFFICES ASSUME Init PROVE PostedInv
    OBVIOUS
  <2>1. \A c \in Callers : calls[c].pc = "idle" /\ appending # c
    BY Numbers DEF Init, ChainInit
  <2> QED
    BY <2>1 DEF Init, PostedInv, CallsRecorded, RowsRecorded
<1>2. PostedInv => PostedIsRecorded
  BY DEF PostedInv, RowsRecorded, Shown, Has, Logged, PostedIsRecorded
<1> QED
  BY <1>1, <1>2, TypedInit, TypedNext, ChainTypedInit, ChainTypedNext, PostedNext, PTL DEF Spec

(***************************************************************************)
(* ChainVerifies.  While nothing has slipped, the chain knows the end of   *)
(* the log: from its state, or from the file or the lines it loads, or,    *)
(* with a line written, as the line before the last.                       *)
(***************************************************************************)
KnowsEnd ==
    /\ appending = "none" => state \in {Missing, End}
    /\ state = Missing => appending = "none" /\ stateFile \in {Missing, End}
    /\ \A c \in Callers : appending = c =>
          /\ lines # <<>>
          /\ state.seq + 1 = Len(lines)
          /\ HashOf(lines[Len(lines)]) = <<"chained", calls[c].record>>
WholeLines == \A i \in 1..Len(lines) : lines[i].kind \in {"legacy", "chained"}
ChainInv == ~slipped => KnowsEnd /\ WholeLines /\ verify_chain

LEMMA EndNotMissing == ChainTyped => End # Missing
<1> SUFFICES ASSUME ChainTyped PROVE End.tip[1] # "missing"
  BY DEF Missing
<1>1. CASE lines = <<>>
  BY <1>1 DEF End, GENESIS
<1>2. CASE lines # <<>>
  <2>1. lines[Len(lines)] \in Lines
    BY <1>2 DEF ChainTyped
  <2>2. lines[Len(lines)].kind # "missing"
    BY <2>1 DEF Lines
  <2> QED
    BY <1>2, <2>2 DEF End, HashOf
<1> QED
  BY <1>1, <1>2

LEMMA LoadsEnd == KnowsEnd /\ appending = "none" => Loaded = End
BY DEF KnowsEnd, Loaded, Rebuilt

\* What the chain appends to a log whose end it knows verifies.
LEMMA AppendVerifies ==
    ASSUME ChainTyped, verify_chain, WholeLines, NEW r \in Rows, Loaded = End,
           lines' = Written(NextLine(r))
    PROVE  /\ lines' # <<>> /\ Len(lines') = End.seq + 1
           /\ HashOf(lines'[Len(lines')]) = <<"chained", r>>
           /\ WholeLines' /\ verify_chain'
<1> DEFINE line == NextLine(r)
<1>1. PICK n \in Nat : n = Len(lines) /\ End.seq = n
  BY DEF ChainTyped, End
<1>2. /\ line \in Lines /\ line.kind = "chained" /\ line.record = r
      /\ line.seq = n + 1 /\ line.prev = End.tip
  BY <1>1, NextLineType
<1>3. ~(lines # <<>> /\ lines[n].kind = "torn")
  BY <1>1 DEF WholeLines, ChainTyped
<1> HIDE DEF line
<1>4. lines' = Append(lines, line)
  BY <1>1, <1>3 DEF Written, line
<1>5. /\ Len(lines') = n + 1
      /\ \A i \in 1..n : lines'[i] = lines[i]
      /\ lines'[n + 1] = line
  BY <1>1, <1>2, <1>4 DEF ChainTyped
<1>6. WholeLines'
  BY <1>1, <1>2, <1>5 DEF WholeLines
<1>7. line.prev = PrevOf(n + 1)'
  <2>1. lines = <<>> <=> n = 0
    BY <1>1 DEF ChainTyped
  <2> QED
    BY <1>1, <1>2, <1>5, <2>1 DEF End, PrevOf, HashOf
<1>8. \A i \in 1..n : PrevOf(i)' = PrevOf(i)
  BY <1>1, <1>5 DEF PrevOf
<1>9. verify_chain'
  <2> SUFFICES ASSUME NEW i \in 1..(n + 1)
               PROVE  \/ lines'[i].kind = "legacy" /\ \A j \in 1..i : lines'[j].kind = "legacy"
                      \/ lines'[i].kind = "chained" /\ lines'[i].seq = i /\ lines'[i].prev = PrevOf(i)'
    BY <1>1, <1>5 DEF verify_chain
  <2>1. CASE i = n + 1
    BY <1>1, <1>2, <1>5, <1>7, <2>1
  <2>2. CASE i # n + 1
    <3>1. i \in 1..n /\ \A j \in 1..i : j \in 1..n
      BY <1>1, <2>2
    <3>2. \/ lines[i].kind = "legacy" /\ \A j \in 1..i : lines[j].kind = "legacy"
          \/ lines[i].kind = "chained" /\ lines[i].seq = i /\ lines[i].prev = PrevOf(i)
      BY <1>1, <3>1 DEF verify_chain
    <3> QED
      BY <1>5, <1>8, <3>1, <3>2
  <2> QED
    BY <2>1, <2>2
<1> QED
  BY <1>1, <1>2, <1>4, <1>5, <1>6, <1>9 DEF HashOf

LEMMA ChainInvNext == Typed /\ ChainTyped /\ ChainInv /\ [Next]_vars => ChainInv'
<1> SUFFICES ASSUME Typed, ChainTyped, ChainInv, [Next]_vars, ~slipped'
             PROVE  (KnowsEnd /\ WholeLines /\ verify_chain)'
  BY DEF ChainInv
<1>1. ASSUME UNCHANGED lines
      PROVE  End' = End /\ WholeLines' = WholeLines /\ verify_chain' = verify_chain
  BY <1>1 DEF End, HashOf, WholeLines, verify_chain, PrevOf
<1>2. CASE Aside
  BY <1>1, <1>2 DEF Aside, chainVars, fileVars, ChainInv, KnowsEnd
<1>3. ASSUME NEW c \in Callers, AppendLine(c)
      PROVE  (KnowsEnd /\ WholeLines /\ verify_chain)'
  <2>1. ~slipped /\ appending = "none" /\ appending' = c /\ UNCHANGED calls
    BY <1>3 DEF AppendLine
  <2>2. Loaded = End /\ state' = End /\ lines' = Written(NextLine(calls[c].record))
    BY <1>3, <2>1, LoadsEnd DEF AppendLine, ChainInv
  <2>3. calls[c].record \in Rows
    BY DEF Typed, Call
  <2>4. /\ lines' # <<>> /\ Len(lines') = End.seq + 1
        /\ HashOf(lines'[Len(lines')]) = <<"chained", calls[c].record>>
        /\ WholeLines' /\ verify_chain'
    BY <2>1, <2>2, <2>3, AppendVerifies DEF ChainInv
  <2>5. KnowsEnd'
    BY <2>1, <2>2, <2>4, EndNotMissing, Numbers DEF KnowsEnd, HashOf
  <2> QED
    BY <2>4, <2>5
<1>4. ASSUME NEW c \in Callers, AppendState(c)
      PROVE  (KnowsEnd /\ WholeLines /\ verify_chain)'
  <2>1. ~slipped /\ appending = c /\ appending' = "none" /\ UNCHANGED lines
    BY <1>4 DEF AppendState
  <2>2. state' = End
    BY <1>4, <2>1 DEF AppendState, ChainInv, KnowsEnd, End
  <2>3. KnowsEnd'
    BY <1>1, <2>1, <2>2, EndNotMissing, Numbers DEF KnowsEnd, Missing
  <2> QED
    BY <1>1, <2>1, <2>3 DEF ChainInv
<1>5. ASSUME NEW c \in Callers, AppendFails(c)
      PROVE  (KnowsEnd /\ WholeLines /\ verify_chain)'
  <2>1. ~slipped /\ appending = "none" /\ UNCHANGED <<lines, appending>> /\ state' = Loaded
    BY <1>5 DEF AppendFails
  <2>2. state' = End
    BY <2>1, LoadsEnd DEF ChainInv
  <2>3. KnowsEnd'
    BY <1>1, <2>1, <2>2, EndNotMissing, Numbers DEF KnowsEnd, Missing
  <2> QED
    BY <1>1, <2>1, <2>3 DEF ChainInv
<1>6. CASE ChainRestart
  <2>1. /\ ~slipped /\ stateFile' \in {End, Missing} /\ UNCHANGED lines
        /\ state' = Missing /\ appending' = "none"
    BY <1>6 DEF ChainRestart
  <2>2. KnowsEnd'
    BY <1>1, <2>1, Numbers DEF KnowsEnd, Missing
  <2> QED
    BY <1>1, <2>1, <2>2 DEF ChainInv
<1> QED
  BY <1>2, <1>3, <1>4, <1>5, <1>6, Steps

\* The log verifies, whoever appends at once and whatever process goes on with
\* it, while no write has failed halfway and no process has ended between a
\* line and its state (MerkleAuditChain.append and verify_chain).
THEOREM ChainAlwaysVerifies == Spec => []ChainVerifies
<1>1. Init => ChainInv
  <2> SUFFICES ASSUME Init PROVE ChainInv
    OBVIOUS
  <2>1. KnowsEnd
    BY Numbers DEF Init, ChainInit, KnowsEnd, Missing
  <2>2. WholeLines /\ verify_chain
    BY DEF Init, ChainInit, WholeLines, verify_chain, Line
  <2> QED
    BY <2>1, <2>2 DEF ChainInv
<1>2. ChainInv => ChainVerifies
  BY DEF ChainInv, ChainVerifies
<1> QED
  BY <1>1, <1>2, TypedInit, TypedNext, ChainTypedInit, ChainTypedNext, ChainInvNext, PTL DEF Spec
=============================================================================
