------------------------------ MODULE BreakGlass ------------------------------
(***************************************************************************)
(* Break-glass: class BreakGlass of openshell/breakglass.py, its journal   *)
(* (Journal.tla, always durable) and the upload of that journal,           *)
(* deliver_breakglass of openshell/sidecar.py.                             *)
(*                                                                         *)
(* Every operation holds BreakGlass._lock from start to end, so op is the  *)
(* one that holds it.  What an operation does is cut where another actor   *)
(* can come in between: the journal is saved first, then the window        *)
(* changes and its file is saved, and in between the process may stop, the *)
(* time may pass and the upload may settle entries.  A restart is one      *)
(* step; time that passes while the process is down is time that passes    *)
(* before it.                                                              *)
(*                                                                         *)
(* The chain's hash is its whole history (see Journal.tla), so what was    *)
(* ever journaled is read off head.hash and, for journals that a start did *)
(* not read, off gone.                                                     *)
(***************************************************************************)
EXTENDS Journal, FiniteSets

CONSTANTS
    MaxWindows,   \* bound of the model: windows ever opened
    Minutes,      \* how long a window is opened for
    UploadBatch,  \* entries sent in one call
    MaxTime,      \* bound of the model: the last time, when every window is over
    MaxClockSets, \* bound of the model: times the host's clock is set
    MaxRestarts,  \* bound of the model: times the process stops and starts again
    Uploads,      \* bound of the model: whether the journal is sent at all
    ReadMayFail   \* whether the process may find its files unreadable at a start

Windows == 1..MaxWindows
Times == 0..MaxTime

\* The bodies of the entries.  Only the close's says how many writes.
OpenBody(w) == [kind |-> "open", window |-> w, writes |-> 0]
WriteBody(w) == [kind |-> "write", window |-> w, writes |-> 0]
CloseBody(w, n) == [kind |-> "close", window |-> w, writes |-> n]
GlassBody == [kind: {"open", "write", "close"}, window: Windows, writes: 0..(MaxSeq + 1)]

ASSUME GlassAssumption ==
    /\ HasFile
    /\ GlassBody \subseteq Body
    /\ Minutes \in Nat \ {0}
    /\ UploadBatch \in Nat \ {0}
    /\ {MaxWindows, MaxSeq, MaxTime} \subseteq Nat
    /\ {Uploads, ReadMayFail} \subseteq BOOLEAN

VARIABLES
    window,      \* _window
    left,        \* monotonic time until _deadline, 0 when it has passed
    windowFile,  \* the window in WINDOW_FILE
    now,         \* the wall clock
    op,          \* the operation that holds _lock, and where it is
    draft,       \* the window open() made and has not set yet
    upload,      \* what deliver_breakglass waits for
    wire,        \* uploads the engine may still get
    taken        \* what the engine took, as the chain's hash

glassVars == <<window, left, windowFile, now, op, draft>>
uploadVars == <<upload, wire, taken>>

\* History: what a step may not contradict, kept for the properties.
VARIABLES
    allowed,     \* the seq of each write the gateway was told to go on with
    ended,       \* windows whose end reached the window file
    age,         \* of each window: the time since it was set, at most Minutes
    gone,        \* what the journals no start could read held, as the chain's hash
    clockOf,     \* of each window: what its journaled opening has seen: the wall
                 \* clock set back, and then a restart that trusts it
    clockSets,   \* counters of the bounds
    restarts

historyVars == <<allowed, ended, age, gone, clockOf, clockSets, restarts>>
vars == <<journalVars, glassVars, uploadVars, historyVars>>

-----------------------------------------------------------------------------
NoUpload == [state |-> "idle", from |-> GENESIS, to |-> GENESIS, accepted |-> 0]
NoWindow == [id |-> 0, opened |-> 0, until |-> 0, writes |-> 0]
Free == [name |-> "none", at |-> "none"]
At(name, at) == [name |-> name, at |-> at]

IsOpen == window # NoWindow

\* Mutant: only the wall clock ends a window.
OverByWallClock ==
    /\ IsOpen
    /\ \/ now < window.opened
       \/ now >= window.until

\* _expire: the clock reads earlier than the opening, the time is up, or as
\* much monotonic time has passed.
Over ==
    /\ IsOpen
    /\ \/ now < window.opened
       \/ now >= window.until
       \/ left = 0

\* Mutant: a write is journaled in memory when the file cannot be written.
JournaledSomehow(body) == AppendKept(body, FALSE)

\* A durable append that returns a seq, and one that returns None.
Journaled(body) == AppendKept(body, TRUE)
NotJournaled == AppendUndone \/ AppendRefused(TRUE)

\* _save_window: written whole, or OSError and a warning.
SaveWindow(w) == windowFile' \in {w, windowFile}

\* Everything ever journaled.
Log == gone \o head.hash

\* The windows it was journaled of: ids are uuids, never used again.
Known == {Log[i][2].window : i \in 1..Len(Log)}
NextWindow == Cardinality(Known) + 1

-----------------------------------------------------------------------------
(* The operations.  Each starts with _expire.                              *)

\* _expire finds the window over and _end journals its close, or cannot.
Expire(name) ==
    /\ op = Free
    /\ Over
    /\ \/ Journaled(CloseBody(window.id, window.writes))
       \/ NotJournaled
    /\ op' = At(name, "ending")
    /\ UNCHANGED <<window, left, windowFile, now, draft, uploadVars, historyVars>>

\* close: the same _end, before the time is up.
Close ==
    /\ op = Free
    /\ IsOpen
    /\ ~Over
    /\ \/ Journaled(CloseBody(window.id, window.writes))
       \/ NotJournaled
    /\ op' = At("close", "ending")
    /\ UNCHANGED <<window, left, windowFile, now, draft, uploadVars, historyVars>>

\* Mutant: _end leaves _window set.
EndWindowInFile ==
    /\ op.at = "ending"
    /\ SaveWindow(NoWindow)
    /\ op' = Free
    /\ ended' = IF windowFile' = NoWindow THEN ended \cup {window.id} ELSE ended
    /\ UNCHANGED <<journalVars, window, left, now, draft, uploadVars>>
    /\ UNCHANGED <<allowed, age, gone, clockOf, clockSets, restarts>>

\* The rest of _end.  Only open() goes on after it.
EndWindow ==
    /\ op.at = "ending"
    /\ window' = NoWindow
    /\ left' = 0
    /\ SaveWindow(NoWindow)
    /\ op' = IF op.name = "open" THEN At("open", "body") ELSE Free
    /\ ended' = IF windowFile' = NoWindow THEN ended \cup {window.id} ELSE ended
    /\ UNCHANGED <<journalVars, now, draft, uploadVars>>
    /\ UNCHANGED <<allowed, age, gone, clockOf, clockSets, restarts>>

\* open(): at once, or after it ended the window it found over.
Open ==
    /\ op \in {Free, At("open", "body")}
    /\ ~IsOpen
    /\ NextWindow \in Windows
    /\ Len(Log) < MaxSeq
    /\ now + Minutes <= MaxTime
    /\ \/ /\ Journaled(OpenBody(NextWindow))
          /\ draft' = [id |-> NextWindow, opened |-> now, until |-> now + Minutes,
                       writes |-> 0]
          /\ op' = At("open", "saving")
       \/ /\ NotJournaled
          /\ op' = Free
          /\ UNCHANGED draft
    /\ UNCHANGED <<window, left, windowFile, now, uploadVars, historyVars>>

SaveOpened ==
    /\ op = At("open", "saving")
    /\ window' = draft
    /\ left' = Minutes
    /\ SaveWindow(draft)
    /\ draft' = NoWindow
    /\ op' = Free
    /\ age' = [age EXCEPT ![draft.id] = 0]
    /\ UNCHANGED <<journalVars, now, uploadVars>>
    /\ UNCHANGED <<allowed, ended, gone, clockOf, clockSets, restarts>>

\* record_write: no entry in the file, no write.
Write ==
    /\ op = Free
    /\ IsOpen
    /\ ~Over
    /\ Len(Log) < MaxSeq
    /\ \/ /\ Journaled(WriteBody(window.id))
          /\ op' = At("write", "saving")
       \/ /\ NotJournaled
          /\ UNCHANGED op
    /\ UNCHANGED <<window, left, windowFile, now, draft, uploadVars, historyVars>>

SaveWrite ==
    /\ op = At("write", "saving")
    /\ window' = [window EXCEPT !.writes = @ + 1]
    /\ SaveWindow(window')
    /\ op' = Free
    /\ allowed' = allowed \cup {Len(Log)}
    /\ UNCHANGED <<journalVars, left, now, draft, uploadVars>>
    /\ UNCHANGED <<ended, age, gone, clockOf, clockSets, restarts>>

-----------------------------------------------------------------------------
(* The clocks and the process.                                             *)

Tick ==
    /\ now < MaxTime
    /\ now' = now + 1
    /\ left' = IF left > 0 THEN left - 1 ELSE 0
    /\ age' = [w \in Windows |-> IF w \in Known /\ age[w] < Minutes THEN age[w] + 1
                                                                ELSE age[w]]
    /\ UNCHANGED <<journalVars, window, windowFile, op, draft, uploadVars>>
    /\ UNCHANGED <<allowed, ended, gone, clockOf, clockSets, restarts>>

SetClock(t) ==
    /\ clockSets < MaxClockSets
    /\ clockSets' = clockSets + 1
    /\ now' = t
    /\ clockOf' = [w \in Windows |-> IF w \in Known /\ clockOf[w] = "steady" /\ t < now
                                     THEN "set back" ELSE clockOf[w]]
    /\ UNCHANGED <<journalVars, window, left, windowFile, op, draft, uploadVars>>
    /\ UNCHANGED <<allowed, ended, age, gone, restarts>>

\* Mutant: the time left may be less than none.
RemainingOrLess(w) == w.until - now

\* What a restart gives a window it read.
Remaining(w) == IF w.until > now THEN w.until - now ELSE 0

\* The process stops anywhere and starts again: __init__ and _load.  A journal
\* that cannot be read is set aside or left to the next save, and the chain
\* starts from nothing; the window goes on all the same.  (One that could be
\* read at a later start is left out.)
GlassRestart(journalReadable, windowReadable) ==
    /\ restarts < MaxRestarts
    /\ restarts' = restarts + 1
    /\ Load(IF journalReadable THEN file ELSE NoDocument("unreadable"))
    /\ gone' = IF journalReadable THEN gone ELSE Log
    /\ window' = IF windowReadable THEN windowFile ELSE NoWindow
    /\ left' = Remaining(window')
    /\ op' = Free
    /\ draft' = NoWindow
    /\ upload' = NoUpload
    /\ clockOf' = [w \in Windows |-> IF clockOf[w] = "set back" THEN "trusted" ELSE clockOf[w]]
    /\ UNCHANGED <<windowFile, now, wire, taken, allowed, ended, age, clockSets>>

-----------------------------------------------------------------------------
(* deliver_breakglass.  One thread uploads at a time (_UPLOADING), and only *)
(* it settles entries of this journal, so pending() and base agree.        *)

\* The entries sent are those of the chain between two of its hashes.
Upload ==
    /\ Uploads
    /\ upload.state = "idle"
    /\ entries # <<>>
    /\ LET n == IF Len(entries) < UploadBatch THEN Len(entries) ELSE UploadBatch
       IN  upload' = [state |-> "sent", from |-> base.hash, to |-> entries[n].hash,
                      accepted |-> 0]
    /\ wire' = wire \cup {[from |-> upload'.from, to |-> upload'.to]}
    /\ UNCHANGED <<journalVars, glassVars, taken, historyVars>>

\* The engine checks that a request continues from what it last took.
Continues(r) ==
    /\ IsPrefix(r.from, taken)
    /\ IsPrefix(taken, r.to) \/ IsPrefix(r.to, taken)

\* The engine gets a request, perhaps long after the sidecar gave it up,
\* and takes its entries up to n, or holds them already.
EngineTakes(r, n) ==
    /\ r \in wire
    /\ wire' = wire \ {r}
    /\ n \in (Len(r.from) + 1)..Len(r.to)
    /\ taken' = IF Continues(r) /\ n > Len(taken) THEN SubSeq(r.to, 1, n) ELSE taken
    /\ \/ /\ upload = [upload EXCEPT !.state = "sent", !.from = r.from, !.to = r.to]
          /\ Continues(r)
          /\ upload' = [upload EXCEPT !.state = "answered", !.accepted = n]
       \/ UNCHANGED upload
    /\ UNCHANGED <<journalVars, glassVars, historyVars>>

\* Mutant: the call has no timeout.
UploadWaits ==
    /\ upload.state = "sent"
    /\ UNCHANGED vars

\* An HTTP error, or no answer in time: the call has a timeout.
UploadFails ==
    /\ upload.state = "sent"
    /\ upload' = NoUpload
    /\ UNCHANGED <<wire, taken>>
    /\ UNCHANGED <<journalVars, glassVars, historyVars>>

\* A request that never arrives.
LoseRequest(r) ==
    /\ r \in wire
    /\ wire' = wire \ {r}
    /\ UNCHANGED <<journalVars, glassVars, upload, taken, historyVars>>

\* Mutant: whatever was sent is settled.
SettleSent ==
    /\ upload.state = "answered"
    /\ settle_through(Len(upload.to))
    /\ upload' = NoUpload
    /\ UNCHANGED <<glassVars, wire, taken, historyVars>>

\* The answer names an entry that was sent.
SettleAccepted ==
    /\ upload.state = "answered"
    /\ settle_through(upload.accepted)
    /\ upload' = NoUpload
    /\ UNCHANGED <<glassVars, wire, taken, historyVars>>

-----------------------------------------------------------------------------
Init ==
    /\ JournalInit
    /\ window = NoWindow
    /\ left = 0
    /\ windowFile = NoWindow
    /\ now = 0
    /\ op = Free
    /\ draft = NoWindow
    /\ upload = NoUpload
    /\ wire = {}
    /\ taken = GENESIS
    /\ allowed = {}
    /\ ended = {}
    /\ age = [w \in Windows |-> 0]
    /\ gone = GENESIS
    /\ clockOf = [w \in Windows |-> "steady"]
    /\ clockSets = 0
    /\ restarts = 0

\* look is window(), which anyone calls and the housekeeper calls every turn.
Names == {"open", "close", "write", "look"}

Next ==
    \/ \E name \in Names : Expire(name)
    \/ Close
    \/ EndWindow
    \/ Open
    \/ SaveOpened
    \/ Write
    \/ SaveWrite
    \/ Tick
    \/ \E t \in Times : SetClock(t)
    \/ \E journalReadable, windowReadable \in {TRUE, ~ReadMayFail} :
          GlassRestart(journalReadable, windowReadable)
    \/ Upload
    \/ \E r \in wire, n \in 1..(MaxSeq + MaxWindows + MaxRestarts) : EngineTakes(r, n)
    \/ UploadFails
    \/ \E r \in wire : LoseRequest(r)
    \/ SettleAccepted

Spec == Init /\ [][Next]_vars

\* Who holds the lock lets go of it; time passes; the housekeeping loop turns
\* every 15 s; the engine answers again some day.
Fairness ==
    /\ WF_vars(EndWindow \/ SaveOpened \/ SaveWrite)
    /\ WF_vars(op = At("open", "body") /\ Open)
    /\ WF_vars(Tick)
    /\ WF_vars(Expire("look"))
    /\ WF_vars(Upload)
    /\ SF_vars(\E n \in 1..(MaxSeq + MaxWindows + MaxRestarts) :
                 /\ EngineTakes([from |-> upload.from, to |-> upload.to], n)
                 /\ upload'.state = "answered")
    /\ WF_vars(UploadFails)
    /\ WF_vars(SettleAccepted)

FairSpec == Spec /\ Fairness

-----------------------------------------------------------------------------
(* What holds.                                                             *)

Chain == head.hash
FileChain == HeadOf(LoadedBase(file), LoadedEntries(file)).hash

WindowRecord == [id: 0..MaxWindows, opened: Times, until: Times,
                 writes: 0..(MaxSeq + 1)]

GlassTypeOK ==
    /\ JournalTypeOK
    /\ {window, windowFile, draft} \subseteq WindowRecord
    /\ left \in Times
    /\ now \in Times
    /\ op \in {Free} \cup [name: Names, at: {"body", "ending", "saving"}]
    /\ upload \in [state: {"idle", "sent", "answered"}, from: Hash, to: Hash, accepted: Nat]
    /\ wire \subseteq [from: Hash, to: Hash]
    /\ taken \in Hash
    /\ allowed \subseteq Nat
    /\ ended \subseteq Windows
    /\ age \in [Windows -> 0..Minutes]
    /\ gone \in Hash
    /\ clockOf \in [Windows -> {"steady", "set back", "trusted"}]

\* A write the gateway was told to go on with is an entry of the file, with
\* its window's opening before it, and stays in the chain: no failed save,
\* upload or restart takes it out.  What went with a journal that a start
\* could not read was recorded there.
AllowedAreRecorded ==
    LET recorded == gone \o FileChain
    IN  \A s \in allowed :
            /\ s \in 1..Len(recorded)
            /\ recorded[s][2].kind = "write"
            /\ \E i \in 1..(s - 1) : recorded[i][2] = OpenBody(recorded[s][2].window)

\* Every request the engine may still get continues from what it took, late,
\* repeated or cut short as it may be, and no entry that it took is taken
\* back or settled too early, as long as every start could read the journal.
UploadsContinue ==
    gone = GENESIS =>
        /\ \A r \in wire : Continues(r)
        /\ IsPrefix(base.hash, taken)
        /\ IsPrefix(taken, Chain)

\* A window's count of writes is never more than the entries there are for
\* it, nor is the one its close reports.
CountsAreJournaled ==
    LET Writes(w, to) == {i \in 1..to : Log[i][2] = WriteBody(w)}
    IN  /\ \A w \in {window, windowFile} : w.writes <= Cardinality(Writes(w.id, Len(Log)))
        /\ \A i \in 1..Len(Log) :
              Log[i][2].writes <= Cardinality(Writes(Log[i][2].window, i))

\* No write starts later after the opening than the window lasts, whatever
\* the wall clock is set to, unless it was set back and the process then
\* started again on it.
WindowIsBounded ==
    [][op = Free /\ op' = At("write", "saving") =>
          age[window.id] < Minutes \/ clockOf[window.id] = "trusted"]_vars

\* Once the end of a window is in the window file, no entry of it follows.
EndedForGood ==
    [][\A w \in ended : \A i \in (Len(Log) + 1)..Len(Log') : Log'[i][2].window # w]_vars

\* Nothing that was journaled is out of the chain again, but by a start that
\* cannot read the journal.
NothingIsForgotten == [][gone' = gone => IsPrefix(Chain, Chain')]_vars

\* The chain reaches the engine as it is: it only grows, the engine takes it
\* from the front and never twice, and the journal settles only what the
\* engine took, whatever fails, is lost, comes late or starts again, as long
\* as every start can read the journal.
Delivery == INSTANCE Relay WITH log <- Chain, taken <- taken, settled <- base.hash
ImplementsRelay ==
    /\ Delivery!Init
    /\ [][gone' = GENESIS => Delivery!Next]_(Delivery!vars)

\* The journal in its place keeps all of its outbox's promise: operations,
\* clocks, uploads and stops lose nothing that was safe, but for a start that
\* cannot read it.
KeepsJournal ==
    /\ Promise!Init
    /\ [][gone' = gone => Promise!Undamaged]_(Promise!vars)

\* A window ends on its own.
WindowEnds == IsOpen ~> ~IsOpen

\* What was journaled reaches the engine.
EverythingIsTaken ==
    \A s \in 1..MaxSeq : Len(Chain) >= s ~> Len(taken) >= s
=============================================================================
