------------------------------- MODULE Reports -------------------------------
(***************************************************************************)
(* The projection reports of openshell/sidecar.py: gateway threads that    *)
(* report what was committed (http_report_projection), the housekeeper     *)
(* that tries again, the one thread at a time that delivers                *)
(* (deliver_reports, under _DELIVERING), and the heartbeat that tells the  *)
(* engine how many reports were not delivered at once, and how many        *)
(* inventories it did not take.  The reports wait in the journal of        *)
(* Journal.tla, which need not be durable here.                            *)
(*                                                                         *)
(* A report is a member of Body and is made once.  The engine is external: *)
(* it records a report when the post arrives, which may be after the       *)
(* sidecar gave the post up, and answers 409 to one it has.                *)
(***************************************************************************)
EXTENDS Journal, FiniteSets

CONSTANTS
    Callers,      \* threads that serve post_commit
    Housekeeper,  \* the housekeeping thread
    NoOne,        \* _DELIVERING is free
    Heartbeats,   \* bound of the model: whether the Reporter posts
    MaxUnposted,  \* bound of the model: inventories that fail
    MaxRestarts   \* bound of the model

Threads == Callers \cup {Housekeeper}

ASSUME ThreadsAssumption ==
    /\ Housekeeper \notin Callers
    /\ NoOne \notin Threads
    /\ Heartbeats \in BOOLEAN
    /\ MaxUnposted \in Nat

VARIABLES
    holder,     \* who holds _DELIVERING
    pc,         \* where each thread is
    own,        \* the entry the thread's report became; seq 0 when it has none
    sending,    \* the holder's copy of the oldest entry
    delivered,  \* the seqs the holder delivered so far
    counter,    \* _UNDELIVERED
    beat,       \* the count in the heartbeat that is on its way, or -1
    wire,       \* posts the engine may still get
    recorded    \* what the engine recorded, in its order

\* History.
VARIABLES
    made,       \* the reports appended, in order
    told,       \* what http_report_projection returned for each
    abandoned,  \* refused by the engine for good, or given up after 72 h
    lost,       \* waited in memory only when the process stopped
    old,        \* have waited REPORT_MAX_AGE_SECONDS
    missed,     \* the reports counted since the process started
    unposted,   \* the inventories that failed since then
    confirmed,  \* the counts the engine answered for since then
    restarts    \* counter of the bound

senderVars == <<holder, pc, own, sending, delivered>>
countVars == <<counter, beat, missed, unposted, confirmed>>
engineVars == <<wire, recorded>>
historyVars == <<made, told, abandoned, lost, old, restarts>>
vars == <<journalVars, senderVars, countVars, engineVars, historyVars>>

-----------------------------------------------------------------------------
NoEntry == [seq |-> 0, body |-> NoOne, prev |-> GENESIS, hash |-> GENESIS]
Waiting == {entries[i].body : i \in 1..Len(entries)}

\* The call for report r returns; what is not delivered now is counted.
Return(r, taken) ==
    /\ told' = [told EXCEPT ![r] = IF taken THEN "yes" ELSE "no"]
    /\ counter' = IF taken THEN counter ELSE counter + 1
    /\ missed' = IF taken THEN missed ELSE missed \cup {r}
    /\ UNCHANGED <<beat, unposted, confirmed>>

\* http_report_projection: the report joins the journal.
Report(t, r) ==
    /\ t \in Callers
    /\ pc[t] = "idle"
    /\ r \notin ToSet(made)
    /\ told[r] = "none"
    /\ AppendKept(r, FALSE)
    /\ made' = Append(made, r)
    /\ own' = [own EXCEPT ![t] = NewEntry(r)]
    /\ pc' = [pc EXCEPT ![t] = "reported"]
    /\ UNCHANGED <<holder, sending, delivered, countVars, engineVars>>
    /\ UNCHANGED <<told, abandoned, lost, old, restarts>>

\* The journal is full.
ReportDropped(t, r) ==
    /\ t \in Callers
    /\ pc[t] = "idle"
    /\ r \notin ToSet(made)
    /\ told[r] = "none"
    /\ AppendRefused(FALSE)
    /\ Return(r, FALSE)
    /\ UNCHANGED <<senderVars, engineVars, made, abandoned, lost, old, restarts>>

LockIsFree == holder = NoOne

\* Mutant: the housekeeper comes for more than one report only.
SeveralWait == Len(entries) > 1

\* What the housekeeper asks before it delivers.
SomethingWaits == Len(entries) > 0

\* deliver_reports: one thread delivers at a time.  The housekeeper comes
\* only when something waits.
Acquire(t) ==
    /\ LockIsFree
    /\ \/ pc[t] = "reported"
       \/ t = Housekeeper /\ pc[t] = "idle" /\ SomethingWaits
    /\ holder' = t
    /\ pc' = [pc EXCEPT ![t] = "first"]
    /\ UNCHANGED <<journalVars, own, sending, delivered, countVars, engineVars, historyVars>>

\* Another thread delivers: nothing was delivered by this one.
Busy(t) ==
    /\ ~LockIsFree
    /\ pc[t] = "reported"
    /\ Return(own[t].body, FALSE)
    /\ own' = [own EXCEPT ![t] = NoEntry]
    /\ pc' = [pc EXCEPT ![t] = "idle"]
    /\ UNCHANGED <<journalVars, holder, sending, delivered, engineVars>>
    /\ UNCHANGED <<made, abandoned, lost, old, restarts>>

\* Mutant: the newest report first.
Newest == Last(entries)

\* journal.first().
Oldest == entries[1]

\* The holder copies the oldest entry and posts it.
Post(t) ==
    /\ pc[t] = "first"
    /\ entries # <<>>
    /\ sending' = Oldest
    /\ wire' = wire \cup {Oldest.body}
    /\ pc' = [pc EXCEPT ![t] = "sending"]
    /\ UNCHANGED <<journalVars, holder, own, delivered, countVars, recorded, historyVars>>

NothingLeft(t) ==
    /\ pc[t] = "first"
    /\ entries = <<>>
    /\ pc' = [pc EXCEPT ![t] = "release"]
    /\ UNCHANGED <<journalVars, holder, own, sending, delivered, countVars, engineVars,
                   historyVars>>

\* journal.settle, whose answer deliver_reports does not look at.
Settle(seq) ==
    \/ settle(seq)
    \/ /\ entries = <<>> \/ entries[1].seq # seq
       /\ UNCHANGED journalVars

\* The engine took it, now or before (409).
Delivered(t) ==
    /\ pc[t] = "sending"
    /\ sending.body \in ToSet(recorded)
    /\ Settle(sending.seq)
    /\ delivered' = delivered \cup {sending.seq}
    /\ sending' = NoEntry
    /\ pc' = [pc EXCEPT ![t] = "first"]
    /\ UNCHANGED <<holder, own, countVars, engineVars, historyVars>>

\* The engine refuses it for good, or the post failed and the report is old.
GivenUp(t) ==
    /\ pc[t] = "sending"
    /\ sending.body \notin ToSet(recorded) \/ sending.body \in old
    /\ Settle(sending.seq)
    /\ abandoned' = abandoned \cup {sending.body}
    /\ sending' = NoEntry
    /\ pc' = [pc EXCEPT ![t] = "first"]
    /\ UNCHANGED <<holder, own, delivered, countVars, engineVars>>
    /\ UNCHANGED <<made, told, lost, old, restarts>>

\* Mutant: a report that cannot be sent now is taken off.
LaterSettled(t) ==
    /\ pc[t] = "sending"
    /\ sending.body \notin old
    /\ Settle(sending.seq)
    /\ sending' = NoEntry
    /\ pc' = [pc EXCEPT ![t] = "release"]
    /\ UNCHANGED <<holder, own, delivered, countVars, engineVars, historyVars>>

\* No answer, or none that settles it: the delivery stops here.
Later(t) ==
    /\ pc[t] = "sending"
    /\ sending.body \notin old
    /\ sending' = NoEntry
    /\ pc' = [pc EXCEPT ![t] = "release"]
    /\ UNCHANGED <<journalVars, holder, own, delivered, countVars, engineVars, historyVars>>

\* Mutant: a delivery of any report counts for the thread's own.
AnyDelivered(t) == delivered # {}

OwnDelivered(t) == own[t].seq \in delivered

AfterRelease(t) == NoOne

\* The lock is released and, for a caller, http_report_projection returns.
Release(t) ==
    /\ pc[t] = "release"
    /\ holder' = AfterRelease(t)
    /\ delivered' = {}
    /\ IF own[t] = NoEntry
       THEN UNCHANGED <<told, countVars>>
       ELSE Return(own[t].body, OwnDelivered(t))
    /\ own' = [own EXCEPT ![t] = NoEntry]
    /\ pc' = [pc EXCEPT ![t] = "idle"]
    /\ UNCHANGED <<journalVars, sending, engineVars, made, abandoned, lost, old, restarts>>

-----------------------------------------------------------------------------
(* Class Reporter, whose one thread posts the heartbeat and the inventory  *)
(* in turn: the count the heartbeat reads, what it takes off once the      *)
(* engine has it, and the inventory that adds to it.                       *)

SendHeartbeat ==
    /\ Heartbeats
    /\ beat = -1
    /\ beat' = counter
    /\ UNCHANGED <<journalVars, senderVars, counter, missed, unposted, confirmed>>
    /\ UNCHANGED <<engineVars, historyVars>>

\* Mutant: the count starts again at zero.
Cleared(count, n) == 0

\* Counter.add(-n).
Less(count, n) == IF count > n THEN count - n ELSE 0

HeartbeatTaken ==
    /\ beat # -1
    /\ counter' = Less(counter, beat)
    /\ confirmed' = confirmed + beat
    /\ beat' = -1
    /\ UNCHANGED <<journalVars, senderVars, missed, unposted, engineVars, historyVars>>

HeartbeatFails ==
    /\ beat # -1
    /\ beat' = -1
    /\ UNCHANGED <<journalVars, senderVars, counter, missed, unposted, confirmed>>
    /\ UNCHANGED <<engineVars, historyVars>>

\* send_inventory: the engine did not take it, and it is not tried again
\* before its next turn.
InventoryFails ==
    /\ Heartbeats
    /\ beat = -1
    /\ unposted < MaxUnposted
    /\ counter' = counter + 1
    /\ unposted' = unposted + 1
    /\ UNCHANGED <<journalVars, senderVars, beat, missed, confirmed, engineVars, historyVars>>

-----------------------------------------------------------------------------
(* The engine, the time, and the process.                                  *)

EngineRecords(r) ==
    /\ r \in wire
    /\ wire' = wire \ {r}
    /\ recorded' = IF r \in ToSet(recorded) THEN recorded ELSE Append(recorded, r)
    /\ UNCHANGED <<journalVars, senderVars, countVars, historyVars>>

\* A post that never arrives, or that the engine refuses.
PostLost(r) ==
    /\ r \in wire
    /\ wire' = wire \ {r}
    /\ UNCHANGED <<journalVars, senderVars, countVars, recorded, historyVars>>

\* Three days pass.
GrowOld ==
    /\ old' = ToSet(made)
    /\ UNCHANGED <<journalVars, senderVars, countVars, engineVars>>
    /\ UNCHANGED <<made, told, abandoned, lost, restarts>>

ReportsRestart ==
    /\ restarts < MaxRestarts
    /\ restarts' = restarts + 1
    /\ Load(file)
    /\ lost' = IF HasFile /\ ~saveFailed THEN lost ELSE lost \cup Waiting
    /\ holder' = NoOne
    /\ pc' = [t \in Threads |-> "idle"]
    /\ own' = [t \in Threads |-> NoEntry]
    /\ sending' = NoEntry
    /\ delivered' = {}
    /\ counter' = 0
    /\ beat' = -1
    /\ missed' = {}
    /\ unposted' = 0
    /\ confirmed' = 0
    /\ UNCHANGED <<engineVars, made, told, abandoned, old>>

-----------------------------------------------------------------------------
Init ==
    /\ JournalInit
    /\ holder = NoOne
    /\ pc = [t \in Threads |-> "idle"]
    /\ own = [t \in Threads |-> NoEntry]
    /\ sending = NoEntry
    /\ delivered = {}
    /\ counter = 0
    /\ beat = -1
    /\ wire = {}
    /\ recorded = <<>>
    /\ made = <<>>
    /\ told = [r \in Body |-> "none"]
    /\ abandoned = {}
    /\ lost = {}
    /\ old = {}
    /\ missed = {}
    /\ unposted = 0
    /\ confirmed = 0
    /\ restarts = 0

Next ==
    \/ \E t \in Threads :
          \/ \E r \in Body : Report(t, r) \/ ReportDropped(t, r)
          \/ Acquire(t)
          \/ Busy(t)
          \/ Post(t)
          \/ NothingLeft(t)
          \/ Delivered(t)
          \/ GivenUp(t)
          \/ Later(t)
          \/ Release(t)
    \/ SendHeartbeat
    \/ HeartbeatTaken
    \/ HeartbeatFails
    \/ InventoryFails
    \/ \E r \in wire : EngineRecords(r) \/ PostLost(r)
    \/ GrowOld
    \/ ReportsRestart

Spec == Init /\ [][Next]_vars

\* A thread that runs goes on, a post has a timeout, the housekeeper turns
\* every 15 s, and the engine cannot fail every post for ever: posts arrive
\* again and again, and so do the answers to them.
Fairness ==
    /\ \A t \in Threads :
          /\ WF_vars(Busy(t) \/ Post(t) \/ NothingLeft(t) \/ Release(t))
          /\ WF_vars(Delivered(t) \/ GivenUp(t) \/ Later(t))
          /\ WF_vars(Acquire(t))
          /\ SF_vars(Delivered(t))
    /\ \A r \in Body : SF_vars(EngineRecords(r))

FairSpec == Spec /\ Fairness

-----------------------------------------------------------------------------
(* What holds.                                                             *)

ReportsTypeOK ==
    /\ JournalTypeOK
    /\ holder \in Threads \cup {NoOne}
    /\ pc \in [Threads -> {"idle", "reported", "first", "sending", "release"}]
    /\ own \in [Threads -> Entry \cup {NoEntry}]
    /\ sending \in Entry \cup {NoEntry}
    /\ delivered \subseteq Nat
    /\ counter \in Nat
    /\ beat \in Nat \cup {-1}
    /\ wire \subseteq Body
    /\ recorded \in Seq(Body)

\* A report that was appended waits, or the engine recorded it, or it was
\* refused or given up, or the process stopped while it could not be saved:
\* nothing is settled because of an answer to another report, or of none.
NothingVanishes ==
    ToSet(made) \subseteq Waiting \cup ToSet(recorded) \cup abandoned \cup lost

\* The copy that is being sent is still the oldest report when the answer
\* comes, however long the post took: settle always finds it.
SendsTheOldest ==
    \A t \in Threads : pc[t] = "sending" => entries # <<>> /\ entries[1] = sending

\* The engine records the reports in the order they were made, across lost
\* answers, retries, late posts and restarts.  The last post of one that was
\* given up, or lost in a restart, may still arrive later than the next.
RecordedInOrder ==
    LET Kept(r) == r \notin abandoned \cup lost
    IN  IsInjective(recorded) /\
        \A i, j \in 1..Len(recorded) :
            i < j /\ Kept(recorded[i]) /\ Kept(recorded[j]) =>
                \E k, l \in 1..Len(made) :
                    k < l /\ made[k] = recorded[i] /\ made[l] = recorded[j]

\* http_report_projection returns True only for a report the engine has.
TrueMeansRecorded == \A r \in Body : told[r] = "yes" => r \in ToSet(recorded)

\* Every report that was not delivered at once, and every inventory that
\* failed, is in the count or in one the engine answered for, once, also
\* when it failed while a heartbeat was on its way: _UNDELIVERED has these
\* two writers.
CountedOnce == counter + confirmed = Cardinality(missed) + unposted

\* No report waits for ever, although a caller that finds the lock held
\* leaves its report to others.
EveryReportLeaves == \A r \in Body : r \in Waiting ~> r \notin Waiting
=============================================================================
