---------------------------- MODULE ReportsProofs ----------------------------
(***************************************************************************)
(* Proofs about Reports.tla, for any number of threads, reports, restarts  *)
(* and entries that may wait.  What the journal does is proved in          *)
(* JournalProofs.tla.                                                      *)
(***************************************************************************)
EXTENDS Reports, JournalProofs, FiniteSetTheorems

Pcs == {"idle", "reported", "first", "sending", "release"}
Delivering == {"first", "sending", "release"}

Typed ==
    /\ JournalInv
    /\ holder \in Threads \cup {NoOne}
    /\ pc \in [Threads -> Pcs]
    /\ own \in [Threads -> Entry \cup {NoEntry}]
    /\ sending \in Entry \cup {NoEntry}
    /\ delivered \subseteq Nat
    /\ counter \in Nat
    /\ beat \in Nat \cup {-1}
    /\ wire \subseteq Body
    /\ recorded \in Seq(Body)

TypedHistory ==
    /\ made \in Seq(Body)
    /\ told \in [Body -> {"none", "yes", "no"}]
    /\ confirmed \in Nat
    /\ unposted \in Nat
    /\ missed \subseteq Body
    /\ old \subseteq Body

\* The thread that delivers holds the lock, and who waits for it has a report.
Lock ==
    /\ \A t \in Threads : pc[t] \in Delivering => holder = t
    /\ \A t \in Threads : pc[t] = "reported" => own[t] # NoEntry

SenderInv == Typed /\ TypedHistory /\ Lock /\ SendsTheOldest

(***************************************************************************)
(* What the steps do to the journal.                                       *)
(***************************************************************************)
\* The file has what memory has, or what it had.
FileFollows == LoadedEntries(file') \in {entries', LoadedEntries(file)}

LEMMA HeadFacts ==
    ASSUME JournalInv
    PROVE  /\ base.seq \in Nat /\ entries \in Seq(Entry) /\ Len(entries) \in Nat
           /\ head.hash \in Seq(Nat \X Body)
           /\ head.seq \in Nat /\ Len(head.hash) = head.seq
           /\ head.seq = base.seq + Len(entries)
BY HeadIsPoint DEF JournalInv, JournalTypeOK, Point, Hash

\* An entry of the journal is in its history, at its seq.
LEMMA EntryInHistory ==
    ASSUME JournalInv, NEW i \in 1..Len(entries)
    PROVE  /\ entries[i].seq \in 1..Len(head.hash)
           /\ head.hash[entries[i].seq] = <<entries[i].seq, entries[i].body>>
<1> DEFINE h == head.hash
           e == entries[i]
<1>1. /\ h \in Seq(Nat \X Body) /\ Len(h) = base.seq + Len(entries)
      /\ base.seq \in Nat /\ Len(entries) \in Nat
      /\ e \in Entry
  BY HeadFacts
<1>2. e.seq = base.seq + i /\ e.hash = SubSeq(h, 1, base.seq + i)
  BY DEF JournalInv, Chained, head
<1>3. e.hash = Append(e.prev, <<e.seq, e.body>>)
  BY VerifiedEntry DEF JournalInv, entry_hash
<1>4. e.seq \in 1..Len(h)
  BY <1>1, <1>2
<1>5. e.prev \in Seq(Nat \X Body) /\ <<e.seq, e.body>> \in Nat \X Body
  BY <1>1 DEF Entry, Hash
<1> HIDE DEF h, e
<1>6. Len(e.hash) = e.seq /\ e.hash[e.seq] = h[e.seq]
  <2>1. \A j \in 1..e.seq : h[j] \in Nat \X Body
    BY <1>1, <1>4
  <2>2. /\ Len(SubSeq(h, 1, e.seq)) = e.seq
        /\ \A j \in 1..e.seq : SubSeq(h, 1, e.seq)[j] = h[j]
    BY <1>1, <1>4, <2>1, SubSeqProperties
  <2>3. e.hash = SubSeq(h, 1, e.seq) /\ e.seq \in 1..e.seq
    BY <1>1, <1>2, <1>4
  <2> QED
    BY <2>2, <2>3
<1>7. /\ Len(e.hash) = Len(e.prev) + 1
      /\ e.hash[Len(e.prev) + 1] = <<e.seq, e.body>>
  BY <1>3, <1>5
<1>8. h[e.seq] = <<e.seq, e.body>>
  BY <1>5, <1>6, <1>7
<1> QED
  BY <1>4, <1>8 DEF h, e

\* http_report_projection adds an entry.
LEMMA ReportGrows ==
    ASSUME Typed, NEW t, NEW r \in Body, Report(t, r)
    PROVE  /\ JournalInv'
           /\ NewEntry(r) \in Entry /\ NewEntry(r) # NoEntry
           /\ NewEntry(r).body = r /\ NewEntry(r).seq = head.seq + 1
           /\ entries' = Append(entries, NewEntry(r))
           /\ head'.hash = Append(head.hash, <<head.seq + 1, r>>)
           /\ FileFollows
<1>1. AppendKept(r, FALSE) /\ JournalInv
  BY DEF Report, Typed
<1>2. /\ JournalInv'
      /\ head' = PointOf(NewEntry(r))
      /\ NewEntry(r) \in Entry
  BY <1>1, AppendKeptInv
<1>3. NewEntry(r).body = r /\ NewEntry(r).seq = head.seq + 1
  BY DEF NewEntry
<1>4. NewEntry(r) # NoEntry
  BY <1>1, <1>3, HeadFacts DEF NoEntry
<1>5. head'.hash = Append(head.hash, <<head.seq + 1, r>>)
  BY <1>2 DEF PointOf, NewEntry, entry_hash
<1>6. PICK ok \in BOOLEAN : Save(base, entries', ok)
  BY <1>1 DEF AppendKept
<1>7. UNCHANGED base /\ entries' = Append(entries, NewEntry(r))
  BY <1>1 DEF AppendKept
<1>8. Verified(base, entries')
  BY <1>2, <1>7 DEF JournalInv, Verified
<1>9. FileFollows
  BY <1>6, <1>8, SaveSecures DEF FileFollows, LoadedEntries, Replayable
<1> QED
  BY <1>2, <1>3, <1>4, <1>5, <1>7, <1>9

\* deliver_reports takes the oldest entry off.
LEMMA SettleTakes ==
    ASSUME Typed, entries # <<>>, Settle(entries[1].seq)
    PROVE  /\ JournalInv'
           /\ head' = head
           /\ Len(entries') = Len(entries) - 1
           /\ \A i \in 1..Len(entries') : entries'[i] = entries[i + 1]
           /\ FileFollows
<1>1. Take(1) /\ JournalInv
  BY DEF Settle, settle, Typed
<1>2. JournalInv' /\ head' = head
  BY <1>1, TakeInv
<1>3. /\ entries \in Seq(Entry) /\ Len(entries) \in Nat /\ 1 \in 1..Len(entries)
      /\ entries' = SubSeq(entries, 2, Len(entries))
  BY <1>1, HeadFacts DEF Take
<1>4. \A i \in 2..Len(entries) : entries[i] \in Entry
  BY <1>3
<1>5. /\ Len(entries') = Len(entries) - 1
      /\ \A i \in 1..Len(entries') : entries'[i] = entries[i + 1]
  <2>1. 2 \in Int /\ Len(entries) \in Int
    BY <1>3
  <2>2. /\ Len(entries') = IF 2 <= Len(entries) THEN Len(entries) - 2 + 1 ELSE 0
        /\ \A i \in 1..(Len(entries) - 2 + 1) : entries'[i] = entries[2 + i - 1]
    BY <1>3, <1>4, <2>1, SubSeqProperties
  <2>3. Len(entries') = Len(entries) - 1
    <3>1. Len(entries') = IF 2 <= Len(entries) THEN Len(entries) - 2 + 1 ELSE 0
      BY <2>2
    <3>2. Len(entries) \in Nat /\ Len(entries) >= 1
      BY <1>3
    <3> DEFINE n == Len(entries)
               m == Len(entries')
    <3> HIDE DEF n, m
    <3>3. n \in Nat /\ n >= 1 /\ m = IF 2 <= n THEN n - 2 + 1 ELSE 0
      BY <3>1, <3>2 DEF n, m
    <3>4. m = n - 1
      BY <3>3
    <3> QED
      BY <3>4 DEF n, m
  <2>4. \A i \in 1..Len(entries') : i \in 1..(Len(entries) - 2 + 1) /\ 2 + i - 1 = i + 1
    BY <1>3, <2>3
  <2> QED
    BY <2>2, <2>3, <2>4
<1>6. PICK ok \in BOOLEAN : Save(base', entries', ok)
  BY <1>1 DEF Take
<1>7. Verified(base', entries')
  BY <1>2 DEF JournalInv
<1>8. FileFollows
  BY <1>6, <1>7, SaveSecures DEF FileFollows, LoadedEntries, Replayable
<1> QED
  BY <1>2, <1>5, <1>8

\* A restart goes on with the file's.
LEMMA RestartLoads ==
    ASSUME Typed, ReportsRestart
    PROVE  /\ JournalInv'
           /\ entries' = LoadedEntries(file)
           /\ LoadedEntries(file') = entries'
           /\ HasFile /\ ~saveFailed => entries' = entries
<1>1. Load(file) /\ JournalInv
  BY DEF ReportsRestart, Typed
<1>2. Restart
  BY <1>1 DEF Restart, Found
<1> QED
  BY <1>1, <1>2, RestartInv DEF Load, JournalInv, FileIsCurrent

LEMMA JournalRests ==
    ASSUME Typed, UNCHANGED journalVars
    PROVE  JournalInv' /\ head' = head /\ UNCHANGED <<entries, file>> /\ FileFollows
<1>1. JournalInv'
  BY NextInv DEF Typed
<1>2. UNCHANGED <<base, entries, file>>
  BY DEF journalVars
<1> QED
  BY <1>1, <1>2 DEF head, HeadOf, FileFollows, LoadedEntries, Replayable

(***************************************************************************)
(* Types, the lock, and what the holder of the lock sends.                 *)
(***************************************************************************)
LEMMA ReturnTyped ==
    ASSUME Typed, TypedHistory, NEW r \in Body, NEW taken \in BOOLEAN, Return(r, taken)
    PROVE  /\ told' \in [Body -> {"none", "yes", "no"}]
           /\ counter' \in Nat /\ missed' \subseteq Body
           /\ UNCHANGED <<beat, unposted, confirmed>>
BY DEF Return, Typed, TypedHistory

LEMMA OwnBody ==
    ASSUME Typed, NEW t \in Threads, own[t] # NoEntry
    PROVE  own[t] \in Entry /\ own[t].body \in Body /\ own[t].seq \in Nat
BY DEF Typed, Entry

LEMMA OldestType ==
    ASSUME Typed, entries # <<>>
    PROVE  /\ 1 \in 1..Len(entries)
           /\ entries[1] \in Entry /\ entries[1].body \in Body /\ entries[1].seq \in Nat
<1>1. entries \in Seq(Entry) /\ 1 \in 1..Len(entries)
  BY EmptySeq, HeadFacts DEF Typed
<1>2. entries[1] \in Entry
  BY <1>1, ElementOfSeq
<1> QED
  BY <1>1, <1>2 DEF Entry

LEMMA SenderInvInit == Init => SenderInv
<1> SUFFICES ASSUME Init PROVE SenderInv
  OBVIOUS
<1>1. JournalInv
  BY InitInv DEF Init
<1>2. NoOne \notin Threads
  BY ThreadsAssumption
<1>3. Typed
  BY <1>1 DEF Init, Typed, Pcs
<1>4. TypedHistory
  BY DEF Init, TypedHistory
<1>5. \A t \in Threads : pc[t] = "idle"
  BY DEF Init
<1> QED
  BY <1>3, <1>4, <1>5 DEF SenderInv, Lock, SendsTheOldest, Delivering

LEMMA SenderInvNext == SenderInv /\ [Next]_vars => SenderInv'
<1> SUFFICES ASSUME SenderInv, [Next]_vars PROVE SenderInv'
  OBVIOUS
<1> USE DEF SenderInv
<1>a. NoOne \notin Threads
  BY ThreadsAssumption
<1>1. ASSUME NEW t \in Threads, NEW r \in Body, Report(t, r)
      PROVE  SenderInv'
  <2>1. /\ pc[t] = "idle" /\ pc' = [pc EXCEPT ![t] = "reported"]
        /\ own' = [own EXCEPT ![t] = NewEntry(r)]
        /\ made' = Append(made, r)
        /\ UNCHANGED <<holder, sending, delivered, countVars, engineVars, told, old>>
    BY <1>1 DEF Report
  <2>2. JournalInv' /\ NewEntry(r) \in Entry /\ NewEntry(r) # NoEntry
        /\ entries' = Append(entries, NewEntry(r))
    BY <1>1, ReportGrows
  <2>3. Typed' /\ TypedHistory'
    BY <2>1, <2>2 DEF Typed, TypedHistory, Pcs, countVars, engineVars
  <2>4. Lock'
    BY <2>1, <2>2 DEF Lock, Delivering, Typed
  <2>5. entries # <<>> => entries' # <<>> /\ entries'[1] = entries[1]
    BY <2>2 DEF Typed, JournalInv, JournalTypeOK
  <2>6. SendsTheOldest'
    BY <2>1, <2>5 DEF SendsTheOldest, Typed
  <2> QED
    BY <2>3, <2>4, <2>6
<1>2. ASSUME NEW t \in Threads, NEW r \in Body, ReportDropped(t, r)
      PROVE  SenderInv'
  <2>1. UNCHANGED <<journalVars, senderVars, engineVars, made, old>> /\ Return(r, FALSE)
    BY <1>2 DEF ReportDropped, AppendRefused
  <2>2. Typed' /\ TypedHistory'
    BY <2>1, JournalRests, ReturnTyped DEF Typed, TypedHistory, senderVars, engineVars
  <2> QED
    BY <2>1, <2>2, JournalRests DEF Lock, SendsTheOldest, senderVars
\* A step of a thread that leaves the journal as it is.
<1>3. ASSUME NEW t \in Threads, NEW to \in Pcs, pc' = [pc EXCEPT ![t] = to],
             UNCHANGED journalVars, Typed', TypedHistory',
             to \in Delivering => holder' = t,
             holder' = holder \/ (holder = NoOne) \/ (holder = t),
             to # "reported" \/ own'[t] # NoEntry,
             \A u \in Threads \ {t} : own'[u] = own[u],
             to = "sending" => entries # <<>> /\ entries[1] = sending',
             to # "sending" => UNCHANGED sending \/ holder = t
      PROVE  SenderInv'
  <2>1. /\ pc'[t] = to /\ \A u \in Threads \ {t} : pc'[u] = pc[u]
        /\ UNCHANGED entries
    BY <1>3, JournalRests DEF Typed
  <2>2. \A u \in Threads : pc'[u] \in Delivering => holder' = u
    BY <1>3, <1>a, <2>1 DEF Lock
  <2>3. Lock'
    BY <1>3, <2>1, <2>2 DEF Lock
  <2>4. ASSUME NEW u \in Threads, pc'[u] = "sending"
        PROVE  entries' # <<>> /\ entries'[1] = sending'
    <3>1. CASE u = t
      BY <1>3, <2>1, <2>4, <3>1
    <3>2. CASE u # t
      <4>1. pc[u] = "sending" /\ holder = u
        BY <2>1, <2>4, <3>2 DEF Lock, Delivering
      <4>2. to # "sending"
        BY <1>3, <2>2, <2>1, <2>4, <3>2 DEF Delivering
      <4> QED
        BY <1>3, <2>1, <3>2, <4>1, <4>2 DEF SendsTheOldest
    <3> QED
      BY <3>1, <3>2
  <2> QED
    BY <1>3, <2>3, <2>4 DEF SendsTheOldest
<1>4. ASSUME NEW t \in Threads, Acquire(t)
      PROVE  SenderInv'
  <2>1. /\ holder = NoOne /\ holder' = t /\ pc' = [pc EXCEPT ![t] = "first"]
        /\ UNCHANGED <<journalVars, own, sending, delivered, countVars, engineVars, historyVars>>
    BY <1>4 DEF Acquire, LockIsFree
  <2>2. Typed' /\ TypedHistory'
    BY <2>1, JournalRests DEF Typed, TypedHistory, Pcs, countVars, engineVars, historyVars
  <2> QED
    BY <1>3, <2>1, <2>2 DEF Pcs
<1>5. ASSUME NEW t \in Threads, Busy(t)
      PROVE  SenderInv'
  <2>1. /\ pc[t] = "reported" /\ Return(own[t].body, FALSE)
        /\ own' = [own EXCEPT ![t] = NoEntry] /\ pc' = [pc EXCEPT ![t] = "idle"]
        /\ UNCHANGED <<journalVars, holder, sending, delivered, engineVars, made, old>>
    BY <1>5 DEF Busy
  <2>2. own[t].body \in Body
    BY <2>1, OwnBody DEF Lock
  <2>3. Typed' /\ TypedHistory'
    BY <2>1, <2>2, JournalRests, ReturnTyped DEF Typed, TypedHistory, Pcs, engineVars
  <2>4. \A u \in Threads \ {t} : own'[u] = own[u]
    BY <2>1 DEF Typed
  <2> QED
    BY <1>3, <2>1, <2>3, <2>4 DEF Pcs, Delivering
<1>6. ASSUME NEW t \in Threads, Post(t) \/ NothingLeft(t) \/ Later(t)
      PROVE  SenderInv'
  <2>1. holder = t
    BY <1>6 DEF Post, NothingLeft, Later, Lock, Delivering
  <2>2. UNCHANGED <<journalVars, holder, own, delivered, countVars, recorded, historyVars>>
    BY <1>6 DEF Post, NothingLeft, Later, engineVars
  <2>3. PICK to \in {"sending", "release"} :
           /\ pc' = [pc EXCEPT ![t] = to]
           /\ to = "sending" => entries # <<>> /\ entries[1] = sending'
    BY <1>6 DEF Post, NothingLeft, Later, Oldest
  <2>4. sending' \in Entry \cup {NoEntry} /\ wire' \subseteq Body
    <3>1. entries # <<>> => entries[1] \in Entry /\ entries[1].body \in Body
      BY OldestType
    <3> QED
      BY <1>6, <3>1 DEF Post, NothingLeft, Later, Oldest, Typed, engineVars
  <2>5. Typed' /\ TypedHistory'
    BY <2>2, <2>3, <2>4, JournalRests DEF Typed, TypedHistory, Pcs, countVars, historyVars
  <2> QED
    BY <1>3, <2>1, <2>2, <2>3, <2>5 DEF Pcs
<1>7. ASSUME NEW t \in Threads, Delivered(t) \/ GivenUp(t)
      PROVE  SenderInv'
  <2>1. /\ pc[t] = "sending" /\ Settle(sending.seq) /\ sending' = NoEntry
        /\ pc' = [pc EXCEPT ![t] = "first"]
        /\ UNCHANGED <<holder, own, countVars, engineVars, made, told, old>>
        /\ delivered' \in {delivered, delivered \cup {sending.seq}}
    BY <1>7 DEF Delivered, GivenUp, historyVars
  <2>2. holder = t /\ entries # <<>> /\ entries[1] = sending
    BY <2>1 DEF Lock, Delivering, SendsTheOldest
  <2>3. JournalInv'
    BY <2>1, <2>2, SettleTakes
  <2>4. sending.seq \in Nat
    BY <2>2, OldestType
  <2>5. Typed' /\ TypedHistory'
    BY <2>1, <2>3, <2>4 DEF Typed, TypedHistory, Pcs, countVars, engineVars
  <2>6. pc'[t] = "first" /\ \A u \in Threads \ {t} : pc'[u] = pc[u] /\ pc[u] \notin Delivering
    BY <2>1, <2>2 DEF Typed, Lock
  <2>7. Lock' /\ SendsTheOldest'
    BY <2>1, <2>2, <2>6 DEF Lock, SendsTheOldest, Delivering
  <2> QED
    BY <2>5, <2>7
<1>8. ASSUME NEW t \in Threads, Release(t)
      PROVE  SenderInv'
  <2>1. /\ pc[t] = "release" /\ holder' = NoOne /\ delivered' = {}
        /\ own' = [own EXCEPT ![t] = NoEntry] /\ pc' = [pc EXCEPT ![t] = "idle"]
        /\ UNCHANGED <<journalVars, sending, engineVars, made, old>>
    BY <1>8 DEF Release, AfterRelease
  <2>2. /\ told' \in [Body -> {"none", "yes", "no"}] /\ counter' \in Nat
        /\ missed' \subseteq Body /\ UNCHANGED <<beat, unposted, confirmed>>
    <3>1. CASE own[t] = NoEntry
      BY <1>8, <3>1 DEF Release, countVars, Typed, TypedHistory
    <3>2. CASE own[t] # NoEntry
      <4>1. Return(own[t].body, OwnDelivered(t)) /\ OwnDelivered(t) \in BOOLEAN
        BY <1>8, <3>2 DEF Release, OwnDelivered
      <4>2. own[t].body \in Body
        BY <3>2, OwnBody
      <4> QED
        BY <4>1, <4>2, ReturnTyped
    <3> QED
      BY <3>1, <3>2
  <2>3. holder = t
    BY <2>1 DEF Lock, Delivering
  <2>4. Typed' /\ TypedHistory'
    BY <2>1, <2>2, JournalRests DEF Typed, TypedHistory, Pcs, engineVars
  <2>5. \A u \in Threads \ {t} : own'[u] = own[u]
    BY <2>1 DEF Typed
  <2> QED
    BY <1>3, <2>1, <2>3, <2>4, <2>5 DEF Pcs, Delivering
\* What no thread of the sidecar does.
<1>9. CASE SendHeartbeat \/ HeartbeatTaken \/ HeartbeatFails \/ InventoryFails \/ GrowOld
           \/ UNCHANGED vars \/ \E r \in wire : EngineRecords(r) \/ PostLost(r)
  <2>1. UNCHANGED <<journalVars, senderVars, made, told, missed>>
    BY <1>9 DEF SendHeartbeat, HeartbeatTaken, HeartbeatFails, InventoryFails, GrowOld, vars, countVars,
                historyVars, EngineRecords, PostLost
  <2>2. wire' \subseteq Body /\ recorded' \in Seq(Body)
    BY <1>9 DEF SendHeartbeat, HeartbeatTaken, HeartbeatFails, InventoryFails, GrowOld, vars, engineVars,
                EngineRecords, PostLost, Typed
  <2>3. /\ counter' \in Nat /\ beat' \in Nat \cup {-1} /\ confirmed' \in Nat
        /\ unposted' \in Nat
    BY <1>9 DEF SendHeartbeat, HeartbeatTaken, HeartbeatFails, InventoryFails, GrowOld, vars, countVars,
                EngineRecords, PostLost, Typed, TypedHistory, Less
  <2>4. old' \subseteq Body
    BY <1>9 DEF SendHeartbeat, HeartbeatTaken, HeartbeatFails, InventoryFails, GrowOld, vars, historyVars,
                EngineRecords, PostLost, TypedHistory, ToSet
  <2>5. Typed' /\ TypedHistory'
    BY <2>1, <2>2, <2>3, <2>4, JournalRests DEF Typed, TypedHistory, senderVars
  <2> QED
    BY <2>1, <2>5, JournalRests DEF Lock, SendsTheOldest, senderVars
<1>10. CASE ReportsRestart
  <2>1. JournalInv'
    BY <1>10, RestartLoads
  <2>2. Typed' /\ TypedHistory'
    BY <1>10, <2>1 DEF ReportsRestart, Typed, TypedHistory, Pcs, engineVars
  <2>3. \A t \in Threads : pc'[t] = "idle"
    BY <1>10 DEF ReportsRestart
  <2> QED
    BY <2>2, <2>3 DEF Lock, SendsTheOldest, Delivering
<1> QED
  BY <1>1, <1>2, <1>4, <1>5, <1>6, <1>7, <1>8, <1>9, <1>10 DEF Next

(***************************************************************************)
(* What http_report_projection returns and the heartbeat counts.  A seq    *)
(* names one report as long as the process lives: delivered is about those *)
(* of the journal's history, which only grows until a restart.             *)
(***************************************************************************)
InHistory(seq, body) == seq \in 1..Len(head.hash) /\ head.hash[seq][2] = body

\* Each thread's report is its own, and has no answer yet.
OwnInv ==
    /\ \A t \in Threads : own[t] # NoEntry =>
          /\ told[own[t].body] = "none"
          /\ own[t].body \in ToSet(made)
          /\ InHistory(own[t].seq, own[t].body)
    /\ \A t, u \in Threads :
          t # u /\ own[t] # NoEntry /\ own[u] # NoEntry => own[t].body # own[u].body

TruthInv ==
    /\ \A s \in delivered : \E r \in ToSet(recorded) : InHistory(s, r)
    /\ TrueMeansRecorded

CountInv ==
    /\ CountedOnce
    /\ IsFiniteSet(missed)
    /\ beat = -1 \/ beat <= counter
    /\ \A r \in missed : told[r] = "no"

CallInv == OwnInv /\ TruthInv /\ CountInv

LEMMA ToSetAppend ==
    ASSUME NEW S, NEW s \in Seq(S), NEW x \in S
    PROVE  ToSet(Append(s, x)) = ToSet(s) \cup {x}
<1>1. /\ Len(s) \in Nat /\ Len(Append(s, x)) = Len(s) + 1
      /\ DOMAIN s = 1..Len(s) /\ DOMAIN Append(s, x) = 1..(Len(s) + 1)
      /\ \A i \in 1..Len(s) : Append(s, x)[i] = s[i]
      /\ Append(s, x)[Len(s) + 1] = x
  OBVIOUS
<1>2. \A i \in 1..(Len(s) + 1) : i \in 1..Len(s) \/ i = Len(s) + 1
  BY <1>1
<1>3. \A i \in 1..Len(s) : i \in 1..(Len(s) + 1)
  BY <1>1
<1>4. Len(s) + 1 \in 1..(Len(s) + 1)
  BY <1>1
<1> QED
  BY <1>1, <1>2, <1>3, <1>4 DEF ToSet

\* The calls that go on know no difference when the history is as it was, or
\* longer.
LEMMA HistoryKeeps ==
    ASSUME JournalInv, NEW x \in Nat \X Body,
           head' = head \/ head'.hash = Append(head.hash, x)
    PROVE  \A s, r : InHistory(s, r) => InHistory(s, r)'
<1>1. head.hash \in Seq(Nat \X Body)
  BY HeadFacts
<1>2. CASE head' = head
  BY <1>2 DEF InHistory
<1>3. CASE head'.hash = Append(head.hash, x)
  <2>1. /\ Len(head.hash) \in Nat /\ Len(head'.hash) = Len(head.hash) + 1
        /\ \A i \in 1..Len(head.hash) : head'.hash[i] = head.hash[i]
    BY <1>1, <1>3
  <2> QED
    BY <2>1 DEF InHistory
<1> QED
  BY <1>2, <1>3

LEMMA Returned ==
    ASSUME SenderInv, CallInv, NEW r \in Body, NEW taken \in BOOLEAN, told[r] = "none",
           Return(r, taken), taken => r \in ToSet(recorded), UNCHANGED recorded
    PROVE  CountInv' /\ TrueMeansRecorded'
<1>1. r \notin missed
  BY DEF CallInv, CountInv
<1>2. told'[r] = (IF taken THEN "yes" ELSE "no") /\ \A q \in Body \ {r} : told'[q] = told[q]
  BY DEF Return, SenderInv, TypedHistory
<1>3. TrueMeansRecorded'
  BY <1>2 DEF TrueMeansRecorded, CallInv, TruthInv
<1>4. CASE taken
  <2>1. UNCHANGED <<counter, missed, beat, unposted, confirmed>>
    BY <1>4 DEF Return
  <2>2. \A q \in missed : q \in Body \ {r}
    BY <1>1 DEF SenderInv, TypedHistory
  <2> QED
    BY <1>2, <1>3, <2>1, <2>2 DEF CallInv, CountInv, CountedOnce
<1>5. CASE ~taken
  <2>1. counter' = counter + 1 /\ missed' = missed \cup {r} /\ UNCHANGED <<beat, unposted, confirmed>>
    BY <1>5 DEF Return
  <2>2. IsFiniteSet(missed') /\ Cardinality(missed') = Cardinality(missed) + 1
    BY <1>1, <2>1, FS_AddElement DEF CallInv, CountInv
  <2>3. CountedOnce'
    <3>1. Cardinality(missed) \in Nat
      BY FS_CardinalityType DEF CallInv, CountInv
    <3>2. counter \in Nat /\ confirmed \in Nat /\ unposted \in Nat
      BY DEF SenderInv, Typed, TypedHistory
    <3>3. counter + confirmed = Cardinality(missed) + unposted
      BY DEF CallInv, CountInv, CountedOnce
    <3> QED
      BY <2>1, <2>2, <3>1, <3>2, <3>3 DEF CountedOnce
  <2>4. \A q \in missed : q \in Body \ {r}
    BY <1>1 DEF SenderInv, TypedHistory
  <2>5. \A q \in missed' : told'[q] = "no"
    BY <1>2, <1>5, <2>1, <2>4 DEF CallInv, CountInv
  <2>6. (beat = -1 \/ beat <= counter)'
    BY <2>1 DEF CallInv, CountInv, SenderInv, Typed
  <2> QED
    BY <1>3, <2>2, <2>3, <2>5, <2>6 DEF CountInv
<1> QED
  BY <1>4, <1>5

LEMMA CallInvInit == Init => CallInv
<1> SUFFICES ASSUME Init PROVE CallInv
  OBVIOUS
<1>1. IsFiniteSet({}) /\ Cardinality({}) = 0
  BY FS_EmptySet
<1> QED
  BY <1>1 DEF Init, CallInv, OwnInv, TruthInv, TrueMeansRecorded, CountInv, CountedOnce

LEMMA CallInvNext == SenderInv /\ SenderInv' /\ CallInv /\ [Next]_vars => CallInv'
<1> SUFFICES ASSUME SenderInv, SenderInv', CallInv, [Next]_vars PROVE CallInv'
  OBVIOUS
<1>a. Typed /\ JournalInv /\ recorded \in Seq(Body) /\ made \in Seq(Body)
  BY DEF SenderInv, Typed, TypedHistory
\* A step that is not of the journal, nor of the heartbeat.
<1>b. ASSUME UNCHANGED <<own, told, made, delivered, countVars>>, ToSet(recorded) \subseteq ToSet(recorded'),
             head' = head
      PROVE  CallInv'
  BY <1>b DEF CallInv, OwnInv, TruthInv, TrueMeansRecorded, CountInv, CountedOnce, countVars, InHistory
\* A thread's report has its answer.
<1>c. ASSUME NEW t \in Threads, own[t] # NoEntry, NEW taken \in BOOLEAN, Return(own[t].body, taken),
             taken => own[t].seq \in delivered,
             own' = [own EXCEPT ![t] = NoEntry], delivered' \in {delivered, {}},
             UNCHANGED <<journalVars, made, recorded>>
      PROVE  CallInv'
  <2>1. own[t].body \in Body /\ told[own[t].body] = "none"
    BY <1>a, <1>c, OwnBody DEF CallInv, OwnInv
  <2>2. taken => own[t].body \in ToSet(recorded)
    BY <1>c DEF CallInv, OwnInv, TruthInv, InHistory
  <2>3. CountInv' /\ TrueMeansRecorded'
    BY <1>c, <2>1, <2>2, Returned
  <2>4. head' = head
    BY <1>a, <1>c, JournalRests
  <2>5. own'[t] = NoEntry /\ \A u \in Threads \ {t} : own'[u] = own[u]
    BY <1>a, <1>c DEF Typed
  <2>6. \A r \in Body \ {own[t].body} : told'[r] = told[r]
    BY <1>c DEF Return, SenderInv, TypedHistory
  <2>7. \A u \in Threads \ {t} : own[u] # NoEntry => own[u].body \in Body \ {own[t].body}
    BY <1>a, <1>c, OwnBody DEF CallInv, OwnInv
  <2>8. OwnInv'
    BY <1>c, <2>4, <2>5, <2>6, <2>7 DEF CallInv, OwnInv, InHistory
  <2> QED
    BY <1>c, <2>3, <2>4, <2>8 DEF CallInv, TruthInv, InHistory
<1>1. ASSUME NEW t \in Threads, NEW r \in Body, Report(t, r)
      PROVE  CallInv'
  <2>1. /\ r \notin ToSet(made) /\ told[r] = "none"
        /\ own' = [own EXCEPT ![t] = NewEntry(r)] /\ made' = Append(made, r)
        /\ UNCHANGED <<delivered, countVars, engineVars, told>>
    BY <1>1 DEF Report
  <2>2. PICK e : /\ e = NewEntry(r) /\ e.body = r /\ e.seq = head.seq + 1
                 /\ head'.hash = Append(head.hash, <<head.seq + 1, r>>)
    BY <1>a, <1>1, ReportGrows
  <2>3. <<head.seq + 1, r>> \in Nat \X Body
    BY <1>a, HeadFacts
  <2>4. \A s, q : InHistory(s, q) => InHistory(s, q)'
    BY <1>a, <2>2, <2>3, HistoryKeeps
  <2>5. InHistory(e.seq, r)'
    BY <1>a, <2>2, <2>3, HeadFacts DEF InHistory
  <2>6. own'[t] = e /\ \A u \in Threads \ {t} : own'[u] = own[u]
    BY <1>a, <2>1, <2>2 DEF Typed
  <2>7. ToSet(made') = ToSet(made) \cup {r}
    BY <1>a, <2>1, ToSetAppend
  <2>8. OwnInv'
    <3>1. \A u \in Threads \ {t} : own[u] # NoEntry => own[u].body # r
      BY <2>1 DEF CallInv, OwnInv
    <3>2. ASSUME NEW u \in Threads, own'[u] # NoEntry
          PROVE  (/\ told[own[u].body] = "none"
                  /\ own[u].body \in ToSet(made)
                  /\ InHistory(own[u].seq, own[u].body))'
      <4>1. CASE u = t
        <5>1. own'[u] = e
          BY <2>6, <4>1
        <5>2. InHistory(own[u].seq, own[u].body)'
          BY <2>2, <2>5, <5>1 DEF InHistory
        <5> QED
          BY <2>1, <2>2, <2>7, <5>1, <5>2
      <4>2. CASE u # t
        <5>1. PICK o : o = own[u] /\ own'[u] = o
          BY <2>6, <4>2
        <5>2. o # NoEntry /\ told[o.body] = "none" /\ o.body \in ToSet(made) /\ InHistory(o.seq, o.body)
          BY <3>2, <5>1 DEF CallInv, OwnInv
        <5>3. InHistory(o.seq, o.body)'
          BY <2>4, <5>2
        <5>4. InHistory(own[u].seq, own[u].body)'
          BY <5>1, <5>3 DEF InHistory
        <5> QED
          BY <2>1, <2>7, <5>1, <5>2, <5>4
      <4> QED
        BY <4>1, <4>2
    <3>3. ASSUME NEW u \in Threads, NEW v \in Threads, u # v, own'[u] # NoEntry, own'[v] # NoEntry
          PROVE  own'[u].body # own'[v].body
      <4>1. CASE u = t
        BY <2>2, <2>6, <3>1, <3>3, <4>1
      <4>2. CASE v = t
        BY <2>2, <2>6, <3>1, <3>3, <4>2
      <4>3. CASE u # t /\ v # t
        BY <2>6, <3>3, <4>3 DEF CallInv, OwnInv
      <4> QED
        BY <4>1, <4>2, <4>3
    <3> QED
      BY <3>2, <3>3 DEF OwnInv
  <2>9. TruthInv' /\ CountInv'
    BY <2>1, <2>4 DEF CallInv, TruthInv, TrueMeansRecorded, CountInv, CountedOnce, countVars, engineVars
  <2> QED
    BY <2>8, <2>9 DEF CallInv
<1>2. ASSUME NEW t \in Threads, NEW r \in Body, ReportDropped(t, r)
      PROVE  CallInv'
  <2>1. /\ r \notin ToSet(made) /\ told[r] = "none" /\ Return(r, FALSE)
        /\ UNCHANGED <<journalVars, senderVars, engineVars, made>>
    BY <1>2 DEF ReportDropped, AppendRefused
  <2>2. CountInv' /\ TrueMeansRecorded'
    BY <2>1, Returned DEF engineVars
  <2>3. head' = head
    BY <1>a, <2>1, JournalRests
  <2>4. \A q \in Body \ {r} : told'[q] = told[q]
    BY <2>1 DEF Return, SenderInv, TypedHistory
  <2>5. \A u \in Threads : own[u] # NoEntry => own[u].body \in Body \ {r}
    BY <1>a, <2>1, OwnBody DEF CallInv, OwnInv
  <2>6. OwnInv'
    BY <2>1, <2>3, <2>4, <2>5 DEF CallInv, OwnInv, InHistory, senderVars
  <2> QED
    BY <2>1, <2>2, <2>3, <2>6 DEF CallInv, TruthInv, InHistory, senderVars, engineVars
<1>3. ASSUME NEW t \in Threads, Acquire(t) \/ Post(t) \/ NothingLeft(t) \/ Later(t)
      PROVE  CallInv'
  <2>1. UNCHANGED <<journalVars, own, told, made, delivered, countVars, recorded>>
    BY <1>3 DEF Acquire, Post, NothingLeft, Later, engineVars, historyVars
  <2> QED
    BY <1>a, <1>b, <2>1, JournalRests
<1>4. ASSUME NEW t \in Threads, Busy(t)
      PROVE  CallInv'
  <2>1. own[t] # NoEntry
    BY <1>4 DEF Busy, SenderInv, Lock
  <2> QED
    BY <1>4, <1>c, <2>1 DEF Busy, engineVars
<1>5. ASSUME NEW t \in Threads, Delivered(t) \/ GivenUp(t)
      PROVE  CallInv'
  <2>1. /\ pc[t] = "sending" /\ Settle(sending.seq)
        /\ UNCHANGED <<own, countVars, engineVars, made, told>>
        /\ \/ UNCHANGED delivered
           \/ delivered' = delivered \cup {sending.seq} /\ sending.body \in ToSet(recorded)
    BY <1>5 DEF Delivered, GivenUp, historyVars
  <2>2. entries # <<>> /\ entries[1] = sending
    BY <2>1 DEF SenderInv, SendsTheOldest
  <2>3. head' = head
    BY <1>a, <2>1, <2>2, SettleTakes
  <2>4. InHistory(sending.seq, sending.body)
    BY <1>a, <2>2, OldestType, EntryInHistory DEF InHistory
  <2> QED
    BY <2>1, <2>3, <2>4 DEF CallInv, OwnInv, TruthInv, TrueMeansRecorded, CountInv, CountedOnce,
                            countVars, engineVars, InHistory
<1>6. ASSUME NEW t \in Threads, Release(t)
      PROVE  CallInv'
  <2>1. /\ own' = [own EXCEPT ![t] = NoEntry] /\ delivered' = {}
        /\ UNCHANGED <<journalVars, engineVars, made>>
    BY <1>6 DEF Release
  <2>2. CASE own[t] = NoEntry
    <3>1. UNCHANGED <<own, told, countVars>> /\ head' = head
      BY <1>a, <1>6, <2>1, <2>2, JournalRests DEF Release, Typed
    <3> QED
      BY <2>1, <3>1 DEF CallInv, OwnInv, TruthInv, TrueMeansRecorded, CountInv, CountedOnce,
                        countVars, engineVars, InHistory
  <2>3. CASE own[t] # NoEntry
    <3>1. /\ Return(own[t].body, OwnDelivered(t)) /\ OwnDelivered(t) \in BOOLEAN
          /\ OwnDelivered(t) => own[t].seq \in delivered
      BY <1>6, <2>3 DEF Release, OwnDelivered
    <3> QED
      BY <1>c, <2>1, <2>3, <3>1 DEF engineVars
  <2> QED
    BY <2>2, <2>3
<1>7. CASE SendHeartbeat \/ HeartbeatTaken \/ HeartbeatFails \/ InventoryFails
  <2>1. /\ UNCHANGED <<journalVars, senderVars, engineVars, historyVars, missed>>
        /\ \/ UNCHANGED <<counter, unposted, confirmed>> /\ beat' \in {counter, -1}
           \/ /\ beat # -1 /\ beat' = -1 /\ UNCHANGED unposted
              /\ counter' = Less(counter, beat) /\ confirmed' = confirmed + beat
           \/ /\ beat = -1 /\ UNCHANGED <<beat, confirmed>>
              /\ counter' = counter + 1 /\ unposted' = unposted + 1
    BY <1>7 DEF SendHeartbeat, HeartbeatTaken, HeartbeatFails, InventoryFails
  <2>2. /\ \/ unposted' = unposted /\ counter' + confirmed' = counter + confirmed
           \/ unposted' = unposted + 1 /\ counter' + confirmed' = (counter + confirmed) + 1
        /\ (beat = -1 \/ beat <= counter)'
    <3>1. counter \in Nat /\ beat \in Nat \cup {-1} /\ confirmed \in Nat /\ unposted \in Nat
          /\ (beat = -1 \/ beat <= counter)
      BY DEF SenderInv, Typed, TypedHistory, CallInv, CountInv
    <3> QED
      BY <2>1, <3>1 DEF Less
  <2>3. head' = head
    BY <1>a, <2>1, JournalRests
  <2>4. CountedOnce'
    <3>1. /\ counter \in Nat /\ confirmed \in Nat /\ unposted \in Nat
          /\ counter' \in Nat /\ confirmed' \in Nat /\ unposted' \in Nat
      BY DEF SenderInv, Typed, TypedHistory
    <3>2. Cardinality(missed) \in Nat /\ Cardinality(missed') = Cardinality(missed)
      BY <2>1, FS_CardinalityType DEF CallInv, CountInv
    <3>3. counter + confirmed = Cardinality(missed) + unposted
      BY DEF CallInv, CountInv, CountedOnce
    <3>4. counter' + confirmed' = Cardinality(missed) + unposted'
      <4>1. CASE unposted' = unposted /\ counter' + confirmed' = counter + confirmed
        BY <3>3, <4>1
      <4>2. CASE unposted' = unposted + 1 /\ counter' + confirmed' = (counter + confirmed) + 1
        <5>1. ASSUME NEW m \in Nat, NEW u \in Nat
              PROVE  (m + u) + 1 = m + (u + 1)
          OBVIOUS
        <5>2. (Cardinality(missed) + unposted) + 1 = Cardinality(missed) + (unposted + 1)
          BY <3>1, <3>2, <5>1
        <5> QED
          BY <3>3, <4>2, <5>2
      <4> QED
        BY <2>2, <4>1, <4>2
    <3> QED
      BY <3>2, <3>4 DEF CountedOnce
  <2> QED
    BY <2>1, <2>2, <2>3, <2>4 DEF CallInv, OwnInv, TruthInv, TrueMeansRecorded, CountInv,
                                  engineVars, historyVars, senderVars, InHistory
<1>8. CASE GrowOld \/ UNCHANGED vars \/ \E r \in wire : EngineRecords(r) \/ PostLost(r)
  <2>1. UNCHANGED <<journalVars, own, told, made, delivered, countVars>>
    BY <1>8 DEF GrowOld, EngineRecords, PostLost, vars, senderVars, historyVars
  <2>2. ToSet(recorded) \subseteq ToSet(recorded')
    <3>1. UNCHANGED recorded \/ \E r \in Body : recorded' = Append(recorded, r)
      BY <1>a, <1>8 DEF GrowOld, EngineRecords, PostLost, vars, engineVars, Typed
    <3>2. ASSUME NEW r \in Body, recorded' = Append(recorded, r)
          PROVE  ToSet(recorded) \subseteq ToSet(recorded')
      <4>1. ToSet(Append(recorded, r)) = ToSet(recorded) \cup {r}
        BY <1>a, ToSetAppend
      <4> QED
        BY <3>2, <4>1
    <3> QED
      BY <3>1, <3>2
  <2> QED
    BY <1>a, <1>b, <2>1, <2>2, JournalRests
<1>9. CASE ReportsRestart
  <2>1. /\ own' = [t \in Threads |-> NoEntry] /\ delivered' = {} /\ counter' = 0 /\ beat' = -1
        /\ missed' = {} /\ unposted' = 0 /\ confirmed' = 0 /\ UNCHANGED <<engineVars, told>>
    BY <1>9 DEF ReportsRestart
  <2>2. IsFiniteSet({}) /\ Cardinality({}) = 0
    BY FS_EmptySet
  <2> QED
    BY <2>1, <2>2 DEF CallInv, OwnInv, TruthInv, TrueMeansRecorded, CountInv, CountedOnce, engineVars
<1> QED
  BY <1>1, <1>2, <1>3, <1>4, <1>5, <1>6, <1>7, <1>8, <1>9 DEF Next

(***************************************************************************)
(* No report vanishes, and the engine records them in their order.  The    *)
(* entries wait in the order the reports were made, so whatever was made   *)
(* before one that was ever posted is recorded, unless it was given up or  *)
(* lost.                                                                   *)
(***************************************************************************)
Before(a, b) == \E k, l \in 1..Len(made) : k < l /\ made[k] = a /\ made[l] = b

\* Entries of reports that were made, in their order.
Listed(es) ==
    /\ \A i \in 1..Len(es) : es[i].body \in ToSet(made)
    /\ \A i, j \in 1..Len(es) : i < j => Before(es[i].body, es[j].body)

Sent == wire \cup ToSet(recorded)
Kept(r) == r \notin abandoned \cup lost

SentInOrder == \A a, b : Before(a, b) /\ b \in Sent /\ Kept(a) => a \in ToSet(recorded)

OrderInv ==
    /\ IsInjective(made)
    /\ Listed(entries)
    /\ Listed(LoadedEntries(file))
    /\ Sent \subseteq ToSet(made)
    /\ SentInOrder
    /\ RecordedInOrder
    /\ NothingVanishes

LEMMA BeforeIsAnOrder ==
    ASSUME made \in Seq(Body), IsInjective(made)
    PROVE  /\ \A a, b : Before(a, b) => ~Before(b, a) /\ a # b /\ {a, b} \subseteq ToSet(made)
           /\ \A a, b \in ToSet(made) : a = b \/ Before(a, b) \/ Before(b, a)
<1>1. /\ Len(made) \in Nat /\ DOMAIN made = 1..Len(made)
      /\ \A i, j \in 1..Len(made) : made[i] = made[j] => i = j
  BY DEF IsInjective
<1>2. ASSUME NEW a, NEW b, Before(a, b)
      PROVE  ~Before(b, a) /\ a # b /\ {a, b} \subseteq ToSet(made)
  <2>1. PICK k, l \in 1..Len(made) : k < l /\ made[k] = a /\ made[l] = b
    BY <1>2 DEF Before
  <2>2. a # b
    BY <1>1, <2>1
  <2>3. ~Before(b, a)
    BY <1>1, <2>1 DEF Before
  <2> QED
    BY <1>1, <2>1, <2>2, <2>3 DEF ToSet
<1>3. ASSUME NEW a \in ToSet(made), NEW b \in ToSet(made), a # b
      PROVE  Before(a, b) \/ Before(b, a)
  <2>1. PICK k, l \in 1..Len(made) : made[k] = a /\ made[l] = b
    BY <1>1 DEF ToSet
  <2>2. k < l \/ l < k
    BY <1>1, <1>3, <2>1
  <2> QED
    BY <2>1, <2>2 DEF Before
<1> QED
  BY <1>2, <1>3

LEMMA MadeGrows ==
    ASSUME made \in Seq(Body), IsInjective(made), NEW r \in Body, r \notin ToSet(made),
           made' = Append(made, r)
    PROVE  /\ IsInjective(made')
           /\ ToSet(made') = ToSet(made) \cup {r}
           /\ \A a, b : Before(a, b)' <=> Before(a, b) \/ (a \in ToSet(made) /\ b = r)
<1>1. PICK n \in Nat :
         /\ n = Len(made) /\ Len(made') = n + 1
         /\ DOMAIN made = 1..n /\ DOMAIN made' = 1..(n + 1)
         /\ \A i \in 1..n : made'[i] = made[i] /\ made[i] # r
         /\ made'[n + 1] = r
  BY DEF ToSet
<1>2. \A i \in 1..(n + 1) : i \in 1..n \/ i = n + 1
  BY <1>1
<1>3. IsInjective(made')
  BY <1>1, <1>2 DEF IsInjective
<1>4. ToSet(made') = ToSet(made) \cup {r}
  BY ToSetAppend
<1>5. ASSUME NEW a, NEW b, Before(a, b)
      PROVE  Before(a, b)'
  <2>1. PICK k, l \in 1..n : k < l /\ made[k] = a /\ made[l] = b
    BY <1>1, <1>5 DEF Before
  <2>2. k \in 1..(n + 1) /\ l \in 1..(n + 1)
    BY <1>1
  <2> QED
    BY <1>1, <2>1, <2>2 DEF Before
<1>6. ASSUME NEW a \in ToSet(made)
      PROVE  Before(a, r)'
  <2>1. PICK k \in 1..n : made[k] = a
    BY <1>1 DEF ToSet
  <2>2. k \in 1..(n + 1) /\ n + 1 \in 1..(n + 1) /\ k < n + 1
    BY <1>1
  <2> QED
    BY <1>1, <2>1, <2>2 DEF Before
<1>7. ASSUME NEW a, NEW b, Before(a, b)'
      PROVE  Before(a, b) \/ (a \in ToSet(made) /\ b = r)
  <2>1. PICK k, l \in 1..(n + 1) : k < l /\ made'[k] = a /\ made'[l] = b
    BY <1>1, <1>7 DEF Before
  <2>2. k \in 1..n /\ (l \in 1..n \/ l = n + 1)
    BY <1>1, <2>1
  <2>3. made[k] = a /\ a \in ToSet(made)
    BY <1>1, <2>1, <2>2 DEF ToSet
  <2>4. CASE l = n + 1
    BY <1>1, <2>1, <2>3, <2>4
  <2>5. CASE l \in 1..n
    BY <1>1, <2>1, <2>2, <2>3, <2>5 DEF Before
  <2> QED
    BY <2>2, <2>4, <2>5
<1> QED
  BY <1>3, <1>4, <1>5, <1>6, <1>7

LEMMA OrderInvInit == Init => OrderInv
<1> SUFFICES ASSUME Init PROVE OrderInv
  OBVIOUS
<1>1. entries = <<>> /\ LoadedEntries(file) = <<>> /\ made = <<>> /\ recorded = <<>> /\ wire = {}
  BY DEF Init, JournalInit, NoDocument, LoadedEntries, Replayable
<1>2. ToSet(made) = {} /\ ToSet(recorded) = {} /\ IsInjective(made) /\ IsInjective(recorded)
  BY <1>1 DEF ToSet, IsInjective
<1>3. \A a, b : ~Before(a, b)
  BY <1>1 DEF Before
<1> QED
  BY <1>1, <1>2, <1>3 DEF OrderInv, Listed, Sent, SentInOrder, RecordedInOrder, NothingVanishes

LEMMA OrderInvNext == SenderInv /\ OrderInv /\ [Next]_vars => OrderInv'
<1> SUFFICES ASSUME SenderInv, OrderInv, [Next]_vars PROVE OrderInv'
  OBVIOUS
<1>a. Typed /\ recorded \in Seq(Body) /\ made \in Seq(Body)
  BY DEF SenderInv, Typed, TypedHistory
\* What the file may have become.
<1>b. ASSUME \A es : Listed(es) => Listed(es)', Listed(entries)', FileFollows
      PROVE  Listed(LoadedEntries(file))'
  <2>1. PICK f : f = LoadedEntries(file)
    OBVIOUS
  <2>2. PICK g : g = LoadedEntries(file')
    OBVIOUS
  <2>3. Listed(f)'
    BY <1>b, <2>1 DEF OrderInv
  <2>4. g = entries' \/ g = f
    BY <1>b, <2>1, <2>2 DEF FileFollows
  <2>5. Listed(g)'
    BY <1>b, <2>3, <2>4 DEF Listed
  <2> QED
    BY <2>2, <2>5 DEF Listed, LoadedEntries, Replayable
<1>c. ASSUME UNCHANGED made
      PROVE  (\A es : Listed(es) => Listed(es)') /\ \A a, b : Before(a, b)' <=> Before(a, b)
  BY <1>c DEF Listed, Before
<1>d. ASSUME UNCHANGED <<recorded, made>>, abandoned \subseteq abandoned', lost \subseteq lost'
      PROVE  RecordedInOrder'
  BY <1>d DEF OrderInv, RecordedInOrder
<1>1. ASSUME NEW t \in Threads, NEW r \in Body, Report(t, r)
      PROVE  OrderInv'
  <2>1. /\ r \notin ToSet(made) /\ made' = Append(made, r)
        /\ UNCHANGED <<wire, recorded, abandoned, lost>>
    BY <1>1 DEF Report, engineVars
  <2>2. PICK e : /\ e.body = r /\ entries' = Append(entries, e) /\ e \in Entry
                 /\ FileFollows
    BY <1>a, <1>1, ReportGrows
  <2>3. /\ IsInjective(made')
        /\ ToSet(made') = ToSet(made) \cup {r}
        /\ \A a, b : Before(a, b)' <=> Before(a, b) \/ (a \in ToSet(made) /\ b = r)
    BY <1>a, <2>1, MadeGrows DEF OrderInv
  <2>4. \A es : Listed(es) => Listed(es)'
    BY <2>3 DEF Listed
  <2>5. PICK n \in Nat : /\ n = Len(entries) /\ Len(entries') = n + 1
                         /\ \A i \in 1..n : entries'[i] = entries[i]
                         /\ entries'[n + 1] = e
    <3>1. entries \in Seq(Entry)
      BY <1>a, HeadFacts DEF Typed
    <3> QED
      BY <2>2, <3>1
  <2>6. Listed(entries)'
    <3>1. \A i \in 1..(n + 1) : i \in 1..n \/ i = n + 1
      BY <2>5
    <3>2. \A i \in 1..n : entries[i].body \in ToSet(made)
      BY <2>5 DEF OrderInv, Listed
    <3>3. \A i, j \in 1..n : i < j => Before(entries[i].body, entries[j].body)
      BY <2>5 DEF OrderInv, Listed
    <3>4. \A i \in 1..(n + 1) : entries'[i].body \in ToSet(made')
      BY <2>2, <2>3, <2>5, <3>1, <3>2
    <3>5. ASSUME NEW i \in 1..(n + 1), NEW j \in 1..(n + 1), i < j
          PROVE  Before(entries[i].body, entries[j].body)'
      <4>1. i \in 1..n
        BY <2>5, <3>5
      <4>2. PICK a, b : a = entries'[i].body /\ b = entries'[j].body
        OBVIOUS
      <4>3. Before(a, b) \/ (a \in ToSet(made) /\ b = r)
        BY <2>2, <2>5, <3>1, <3>2, <3>3, <3>5, <4>1, <4>2
      <4>4. Before(a, b)'
        BY <2>3, <4>3
      <4> QED
        BY <4>2, <4>4 DEF Before
    <3> QED
      BY <2>5, <3>4, <3>5 DEF Listed
  <2>7. Sent' = Sent /\ Sent \subseteq ToSet(made)
    BY <2>1 DEF OrderInv, Sent
  <2>8. SentInOrder'
    BY <2>1, <2>3, <2>7 DEF OrderInv, SentInOrder, Kept
  <2>9. RecordedInOrder'
    <3>1. \A i \in 1..Len(recorded) : recorded[i] \in Body
      BY <1>a
    <3>2. \A a, b : Before(a, b) => \E k, l \in 1..Len(made') : k < l /\ made'[k] = a /\ made'[l] = b
      BY <2>3 DEF Before
    <3> QED
      BY <2>1, <3>2 DEF OrderInv, RecordedInOrder, Before
  <2>10. NothingVanishes'
    <3>1. Waiting \cup {r} \subseteq Waiting'
      <4>1. \A i \in 1..n : i \in 1..(n + 1)
        BY <2>5
      <4>2. n + 1 \in 1..(n + 1)
        BY <2>5
      <4> QED
        BY <2>2, <2>5, <4>1, <4>2 DEF Waiting
    <3> QED
      BY <2>1, <2>3, <3>1 DEF OrderInv, NothingVanishes
  <2> QED
    BY <1>b, <2>2, <2>3, <2>4, <2>6, <2>7, <2>8, <2>9, <2>10 DEF OrderInv
<1>2. ASSUME UNCHANGED <<journalVars, made, wire, recorded, abandoned, lost>>
      PROVE  OrderInv'
  <2>1. UNCHANGED <<entries, file>> /\ FileFollows
    BY <1>2, <1>a, JournalRests
  <2>2. Listed(entries)'
    BY <1>2, <2>1 DEF OrderInv, Listed, Before
  <2>3. Sent' = Sent /\ SentInOrder'
    BY <1>2, <1>c DEF OrderInv, Sent, SentInOrder, Kept
  <2>4. RecordedInOrder'
    BY <1>2, <1>d
  <2>5. NothingVanishes'
    BY <1>2, <2>1 DEF OrderInv, NothingVanishes, Waiting
  <2> QED
    BY <1>2, <1>b, <1>c, <2>1, <2>2, <2>3, <2>4, <2>5 DEF OrderInv
<1>3. ASSUME NEW t \in Threads,
             Acquire(t) \/ Busy(t) \/ NothingLeft(t) \/ Later(t) \/ Release(t)
             \/ \E r \in Body : ReportDropped(t, r)
      PROVE  OrderInv'
  <2>1. UNCHANGED <<journalVars, made, wire, recorded, abandoned, lost>>
    BY <1>3 DEF Acquire, Busy, NothingLeft, Later, Release, ReportDropped, AppendRefused,
                engineVars, historyVars
  <2> QED
    BY <1>2, <2>1
<1>4. CASE SendHeartbeat \/ HeartbeatTaken \/ HeartbeatFails \/ InventoryFails \/ GrowOld
           \/ UNCHANGED vars
  <2>1. UNCHANGED <<journalVars, made, wire, recorded, abandoned, lost>>
    BY <1>4 DEF SendHeartbeat, HeartbeatTaken, HeartbeatFails, InventoryFails, GrowOld, vars, engineVars, historyVars
  <2> QED
    BY <1>2, <2>1
<1>5. ASSUME NEW t \in Threads, Post(t)
      PROVE  OrderInv'
  <2>1. PICK b : b = entries[1].body
    OBVIOUS
  <2>2. /\ entries # <<>> /\ wire' = wire \cup {b}
        /\ UNCHANGED <<journalVars, made, recorded, abandoned, lost>>
    BY <1>5, <2>1 DEF Post, Oldest, historyVars
  <2>3. UNCHANGED <<entries, file>> /\ FileFollows
    BY <1>a, <2>2, JournalRests
  <2>4. 1 \in 1..Len(entries) /\ b \in ToSet(made)
    BY <1>a, <2>1, <2>2, OldestType DEF OrderInv, Listed
  <2>5. Sent' = Sent \cup {b} /\ Sent' \subseteq ToSet(made)
    BY <2>2, <2>4 DEF Sent, OrderInv
  <2>6. ASSUME NEW a, Before(a, b), Kept(a)
        PROVE  a \in ToSet(recorded)
    <3>1. ~Before(b, a) /\ a # b /\ a \in ToSet(made)
      BY <1>a, <2>6, BeforeIsAnOrder DEF OrderInv
    <3>2. a \notin Waiting
      <4> SUFFICES ASSUME NEW i \in 1..Len(entries), entries[i].body = a PROVE FALSE
        BY DEF Waiting
      <4>1. i = 1 \/ 1 < i
        BY <2>4
      <4> QED
        BY <2>1, <2>4, <3>1, <4>1 DEF OrderInv, Listed
    <3> QED
      BY <2>6, <3>1, <3>2 DEF OrderInv, NothingVanishes, Kept
  <2>7. SentInOrder'
    BY <1>c, <2>2, <2>5, <2>6 DEF OrderInv, SentInOrder, Kept
  <2>8. Listed(entries)'
    BY <2>2, <2>3 DEF OrderInv, Listed, Before
  <2>9. NothingVanishes'
    BY <2>2, <2>3 DEF OrderInv, NothingVanishes, Waiting
  <2> QED
    BY <1>b, <1>c, <1>d, <2>2, <2>3, <2>5, <2>7, <2>8, <2>9 DEF OrderInv
<1>6. ASSUME NEW t \in Threads, Delivered(t) \/ GivenUp(t)
      PROVE  OrderInv'
  <2>1. /\ pc[t] = "sending" /\ Settle(sending.seq)
        /\ UNCHANGED <<made, wire, recorded, lost>>
        /\ \/ UNCHANGED abandoned /\ sending.body \in ToSet(recorded)
           \/ abandoned' = abandoned \cup {sending.body}
    BY <1>6 DEF Delivered, GivenUp, engineVars, historyVars
  <2>2. entries # <<>> /\ entries[1] = sending
    BY <2>1 DEF SenderInv, SendsTheOldest
  <2>3. /\ Len(entries') = Len(entries) - 1
        /\ \A i \in 1..Len(entries') : entries'[i] = entries[i + 1]
        /\ FileFollows
    BY <1>a, <2>1, <2>2, SettleTakes
  <2>4. PICK n \in Nat : n = Len(entries) /\ n >= 1 /\ Len(entries') = n - 1
    BY <1>a, <2>2, <2>3, OldestType, HeadFacts DEF Typed
  <2>5. Listed(entries)'
    <3>1. \A i \in 1..(n - 1) : i + 1 \in 1..n /\ entries'[i] = entries[i + 1]
      BY <2>3, <2>4
    <3>2. \A i, j \in 1..(n - 1) : i < j => i + 1 < j + 1
      BY <2>4
    <3>3. \A i, j \in 1..(n - 1) : i < j => Before(entries'[i].body, entries'[j].body)
      BY <2>4, <3>1, <3>2 DEF OrderInv, Listed
    <3>4. \A i \in 1..(n - 1) : entries'[i].body \in ToSet(made)
      BY <2>4, <3>1 DEF OrderInv, Listed
    <3>5. \A i \in 1..Len(entries') : entries'[i].body \in ToSet(made')
      BY <2>1, <2>4, <3>4
    <3>6. ASSUME NEW i \in 1..Len(entries'), NEW j \in 1..Len(entries'), i < j
          PROVE  Before(entries[i].body, entries[j].body)'
      <4>1. Before(entries'[i].body, entries'[j].body)
        BY <2>4, <3>3, <3>6
      <4> QED
        BY <2>1, <4>1 DEF Before
    <3> QED
      BY <3>5, <3>6 DEF Listed
  <2>6. abandoned \subseteq abandoned' /\ Sent' = Sent
    BY <2>1 DEF Sent
  <2>7. SentInOrder'
    BY <1>c, <2>1, <2>6 DEF OrderInv, SentInOrder, Kept
  <2>8. NothingVanishes'
    <3>1. Waiting \subseteq Waiting' \cup {sending.body}
      <4> SUFFICES ASSUME NEW i \in 1..n, i # 1 PROVE entries[i].body \in Waiting'
        BY <2>2, <2>4 DEF Waiting
      <4>1. i - 1 \in 1..(n - 1) /\ (i - 1) + 1 = i
        BY <2>4
      <4>2. entries'[i - 1] = entries[i]
        BY <2>3, <2>4, <4>1
      <4> QED
        BY <2>4, <4>1, <4>2 DEF Waiting
    <3> QED
      BY <2>1, <3>1 DEF OrderInv, NothingVanishes
  <2> QED
    BY <1>b, <1>c, <1>d, <2>1, <2>3, <2>5, <2>6, <2>7, <2>8 DEF OrderInv
<1>7. ASSUME NEW r \in wire, EngineRecords(r)
      PROVE  OrderInv'
  <2>1. /\ wire' = wire \ {r} /\ UNCHANGED <<journalVars, made, abandoned, lost>>
        /\ recorded' = IF r \in ToSet(recorded) THEN recorded ELSE Append(recorded, r)
    BY <1>7 DEF EngineRecords, historyVars
  <2>2. UNCHANGED <<entries, file>> /\ FileFollows
    BY <1>a, <2>1, JournalRests
  <2>3. r \in Body
    BY <1>a DEF Typed
  <2>4. ToSet(recorded') = ToSet(recorded) \cup {r}
    BY <1>a, <2>1, <2>3, ToSetAppend
  <2>5. Sent' = Sent
    BY <2>1, <2>4 DEF Sent
  <2>6. SentInOrder'
    BY <1>c, <2>1, <2>4, <2>5 DEF OrderInv, SentInOrder, Kept
  <2>7. RecordedInOrder'
    <3>1. CASE r \in ToSet(recorded)
      BY <2>1, <3>1 DEF OrderInv, RecordedInOrder
    <3>2. CASE r \notin ToSet(recorded)
      <4>1. PICK n \in Nat : /\ n = Len(recorded) /\ Len(recorded') = n + 1
                             /\ DOMAIN recorded = 1..n /\ DOMAIN recorded' = 1..(n + 1)
                             /\ \A i \in 1..n : recorded'[i] = recorded[i] /\ recorded[i] # r
                                                /\ recorded[i] \in ToSet(recorded)
                             /\ recorded'[n + 1] = r
        BY <1>a, <2>1, <2>3, <3>2 DEF ToSet
      <4>2. \A i \in 1..(n + 1) : i \in 1..n \/ i = n + 1
        BY <4>1
      <4>3. IsInjective(recorded')
        BY <4>1, <4>2 DEF OrderInv, RecordedInOrder, IsInjective
      <4>4. ASSUME NEW i \in 1..n, Kept(r)
            PROVE  Before(recorded[i], r)
        <5>1. recorded[i] # r /\ recorded[i] \in Sent /\ r \in Sent
          BY <4>1, <4>4 DEF Sent
        <5>2. ~Before(r, recorded[i])
          BY <3>2, <4>4, <5>1 DEF OrderInv, SentInOrder
        <5> QED
          BY <1>a, <5>1, <5>2, BeforeIsAnOrder DEF OrderInv
      <4>5. ASSUME NEW i \in 1..(n + 1), NEW j \in 1..(n + 1), i < j,
                   Kept(recorded'[i]), Kept(recorded'[j])
            PROVE  Before(recorded'[i], recorded'[j])
        <5>1. i \in 1..n
          BY <4>1, <4>5
        <5>2. CASE j = n + 1
          BY <4>1, <4>4, <4>5, <5>1, <5>2
        <5>3. CASE j \in 1..n
          <6>1. Kept(recorded[i]) /\ Kept(recorded[j])
            BY <4>1, <4>5, <5>1, <5>3
          <6>2. Before(recorded[i], recorded[j])
            BY <4>1, <4>5, <5>1, <5>3, <6>1 DEF OrderInv, RecordedInOrder, Kept, Before
          <6> QED
            BY <4>1, <5>1, <5>3, <6>2
        <5> QED
          BY <4>2, <5>2, <5>3
      <4> QED
        BY <2>1, <4>1, <4>3, <4>5 DEF RecordedInOrder, Kept, Before
    <3> QED
      BY <3>1, <3>2
  <2>8. Listed(entries)'
    BY <2>1, <2>2 DEF OrderInv, Listed, Before
  <2>9. NothingVanishes'
    BY <2>1, <2>2, <2>4 DEF OrderInv, NothingVanishes, Waiting
  <2> QED
    BY <1>b, <1>c, <2>1, <2>2, <2>5, <2>6, <2>7, <2>8, <2>9 DEF OrderInv
<1>8. ASSUME NEW r \in wire, PostLost(r)
      PROVE  OrderInv'
  <2>1. /\ wire' \subseteq wire /\ UNCHANGED <<journalVars, made, recorded, abandoned, lost>>
    BY <1>8 DEF PostLost, historyVars
  <2>2. UNCHANGED <<entries, file>> /\ FileFollows
    BY <1>a, <2>1, JournalRests
  <2>3. Sent' \subseteq Sent
    BY <2>1 DEF Sent
  <2>4. SentInOrder'
    BY <1>c, <2>1, <2>3 DEF OrderInv, SentInOrder, Kept
  <2>5. Listed(entries)' /\ NothingVanishes'
    BY <2>1, <2>2 DEF OrderInv, Listed, Before, NothingVanishes, Waiting
  <2> QED
    BY <1>b, <1>c, <1>d, <2>1, <2>2, <2>3, <2>4, <2>5 DEF OrderInv
<1>9. CASE ReportsRestart
  <2>1. /\ entries' = LoadedEntries(file) /\ LoadedEntries(file') = entries'
        /\ HasFile /\ ~saveFailed => entries' = entries
    BY <1>9, <1>a, RestartLoads
  <2>2. /\ UNCHANGED <<wire, recorded, made, abandoned>>
        /\ lost' = IF HasFile /\ ~saveFailed THEN lost ELSE lost \cup Waiting
    BY <1>9 DEF ReportsRestart, engineVars
  <2>3. Listed(entries)'
    BY <2>1, <2>2 DEF OrderInv, Listed, Before
  <2>4. FileFollows
    BY <2>1 DEF FileFollows
  <2>5. lost \subseteq lost' /\ Sent' = Sent
    BY <2>2 DEF Sent
  <2>6. SentInOrder'
    BY <1>c, <2>2, <2>5 DEF OrderInv, SentInOrder, Kept
  <2>7. NothingVanishes'
    <3>1. CASE HasFile /\ ~saveFailed
      BY <2>1, <2>2, <3>1 DEF OrderInv, NothingVanishes, Waiting
    <3>2. CASE ~(HasFile /\ ~saveFailed)
      BY <2>2, <3>2 DEF OrderInv, NothingVanishes
    <3> QED
      BY <3>1, <3>2
  <2> QED
    BY <1>b, <1>c, <1>d, <2>2, <2>3, <2>4, <2>5, <2>6, <2>7 DEF OrderInv
<1> QED
  BY <1>1, <1>3, <1>4, <1>5, <1>6, <1>7, <1>8, <1>9 DEF Next

LEMMA InvAlways == Spec => [](SenderInv /\ CallInv /\ OrderInv)
<1> DEFINE Inv == SenderInv /\ CallInv /\ OrderInv
<1>1. Init => Inv
  BY SenderInvInit, CallInvInit, OrderInvInit
<1>2. Inv /\ [Next]_vars => Inv'
  BY SenderInvNext, CallInvNext, OrderInvNext
<1> HIDE DEF Inv
<1>3. Spec => []Inv
  BY <1>1, <1>2, PTL DEF Spec
<1> QED
  BY <1>3 DEF Inv

\* The reports, the lock and the heartbeat's count are always well typed.
THEOREM ReportsTypeCorrect == Spec => []ReportsTypeOK
<1>1. SenderInv => ReportsTypeOK
  BY DEF SenderInv, Typed, ReportsTypeOK, JournalInv, Pcs
<1> QED
  BY <1>1, InvAlways, PTL

\* deliver_reports: the copy that is being sent is still the oldest entry when
\* the answer comes, however many threads report and deliver.
THEOREM AlwaysSendsTheOldest == Spec => []SendsTheOldest
<1>1. SenderInv => SendsTheOldest
  BY DEF SenderInv
<1> QED
  BY <1>1, InvAlways, PTL

\* http_report_projection returns True only for a report the engine has.
THEOREM TrueAlwaysMeansRecorded == Spec => []TrueMeansRecorded
<1>1. CallInv => TrueMeansRecorded
  BY DEF CallInv, TruthInv
<1> QED
  BY <1>1, InvAlways, PTL

\* _UNDELIVERED and what the heartbeats took off count each report once.
THEOREM AlwaysCountedOnce == Spec => []CountedOnce
<1>1. CallInv => CountedOnce
  BY DEF CallInv, CountInv
<1> QED
  BY <1>1, InvAlways, PTL

\* No report is settled by an answer to another one, or to none.
THEOREM NothingEverVanishes == Spec => []NothingVanishes
<1>1. OrderInv => NothingVanishes
  BY DEF OrderInv
<1> QED
  BY <1>1, InvAlways, PTL

\* The engine has the reports in the order they were made.
THEOREM AlwaysRecordedInOrder == Spec => []RecordedInOrder
<1>1. OrderInv => RecordedInOrder
  BY DEF OrderInv
<1> QED
  BY <1>1, InvAlways, PTL
\* What a delivery settles is the oldest entry or nothing.
LEMMA SettlePromise ==
    ASSUME JournalInv, NEW seq, Settle(seq)
    PROVE  Promise!Settle \/ UNCHANGED Promise!vars
<1>1. CASE settle(seq)
  <2>1. Take(1) /\ 1 \in 1..Len(entries)
    BY <1>1 DEF settle, Take
  <2> QED
    BY <2>1, TakePromise
<1>2. CASE UNCHANGED journalVars
  BY <1>2, RestPromise
<1> QED
  BY <1>1, <1>2 DEF Settle

LEMMA ReportsPromise == SenderInv /\ [Next]_vars => [Promise!Undamaged]_(Promise!vars)
<1> SUFFICES ASSUME SenderInv, [Next]_vars PROVE [Promise!Undamaged]_(Promise!vars)
  OBVIOUS
<1> USE DEF Promise!Undamaged
<1>a. JournalInv
  BY DEF SenderInv, Typed
<1>1. ASSUME NEW t \in Threads, NEW r \in Body, Report(t, r)
      PROVE  Promise!Extend
  <2>1. AppendKept(r, FALSE)
    BY <1>1 DEF Report
  <2> QED
    BY <1>a, <2>1, AppendPromise
<1>2. ASSUME NEW t \in Threads, Delivered(t) \/ GivenUp(t)
      PROVE  Promise!Settle \/ UNCHANGED Promise!vars
  <2>1. Settle(sending.seq)
    BY <1>2 DEF Delivered, GivenUp
  <2> QED
    BY <1>a, <2>1, SettlePromise
<1>3. CASE ReportsRestart
  BY <1>a, <1>3, LoadPromise DEF ReportsRestart
<1>4. CASE \/ \E t \in Threads :
                 \/ \E r \in Body : ReportDropped(t, r)
                 \/ Acquire(t) \/ Busy(t) \/ Post(t) \/ NothingLeft(t) \/ Later(t) \/ Release(t)
           \/ SendHeartbeat \/ HeartbeatTaken \/ HeartbeatFails \/ InventoryFails
           \/ \E r \in wire : EngineRecords(r) \/ PostLost(r)
           \/ GrowOld
           \/ UNCHANGED vars
  <2>1. UNCHANGED journalVars
    BY <1>4 DEF ReportDropped, AppendRefused, Acquire, Busy, Post, NothingLeft, Later, Release,
                SendHeartbeat, HeartbeatTaken, HeartbeatFails, InventoryFails, EngineRecords, PostLost,
                GrowOld, vars
  <2> QED
    BY <2>1, RestPromise
<1> QED
  BY <1>1, <1>2, <1>3, <1>4 DEF Next

\* The journal in its place behind post_commit: whatever threads report, deliver,
\* give up and stop, it is an outbox whose order nothing changes and that loses
\* at a restart only what no save had secured.
THEOREM ReportsKeepOutbox == Spec => KeepsOutbox /\ ImplementsOutbox
<1>1. Init => Promise!Init
  BY InitPromise DEF Init
<1>2. SenderInv /\ [Next]_vars => [Promise!Undamaged]_(Promise!vars)
  BY ReportsPromise
<1>3. Spec => KeepsOutbox
  BY <1>1, <1>2, InvAlways, PTL DEF Spec, KeepsOutbox, Promise!UndamagedSpec
<1> QED
  BY <1>3, UndamagedIsOutbox, PTL
=============================================================================
