------------------------------- MODULE Journal -------------------------------
(***************************************************************************)
(* The ordered, hash-chained, bounded list of what the sidecar owes the    *)
(* engine: class Journal of openshell/journal.py.  One instance keeps the  *)
(* projection reports, another the break-glass entries; both live in this  *)
(* module's four variables.                                                *)
(*                                                                         *)
(* Every method runs under the instance's lock and is one action here.     *)
(* What the disk does to a save is a choice inside the action: the rename  *)
(* happened or the save raised OSError, and a crash falls before or after  *)
(* the action, never inside the rename.                                    *)
(*                                                                         *)
(* SHA-256 is abstracted by an injective chain: the hash of an entry is    *)
(* the sequence of all <<seq, body>> pairs from the start of its chain     *)
(* up to itself.  Two hashes are equal exactly when everything they bind   *)
(* is.  at_ms and kind are part of Body.                                   *)
(***************************************************************************)
EXTENDS Naturals, Sequences, SequencesExt

CONSTANTS
    Body,        \* what an entry may carry
    MaxPending,  \* entries that may wait at once
    HasFile,     \* whether the journal was given a path
    MaxSeq       \* bound of the model: the last seq JournalNext appends

ASSUME MaxPendingAssumption == MaxPending \in Nat \ {0}
ASSUME HasFileAssumption == HasFile \in BOOLEAN

VARIABLES
    base,        \* the entry just before the oldest one that waits
    entries,     \* the entries that wait, oldest first
    saveFailed,  \* whether the last save raised OSError
    file         \* what is on disk under the journal's name

journalVars == <<base, entries, saveFailed, file>>

Hash == Seq(Nat \X Body)
GENESIS == <<>>

entry_hash(seq, body, prev) == Append(prev, <<seq, body>>)

Point == [seq: Nat, hash: Hash]
Entry == [seq: Nat, body: Body, prev: Hash, hash: Hash]

PointOf(e) == [seq |-> e.seq, hash |-> e.hash]
Origin == [seq |-> 0, hash |-> GENESIS]

\* The newest entry ever appended.
HeadOf(b, es) == IF es = <<>> THEN b ELSE PointOf(Last(es))
head == HeadOf(base, entries)

NewEntry(body) ==
    [seq  |-> head.seq + 1,
     body |-> body,
     prev |-> head.hash,
     hash |-> entry_hash(head.seq + 1, body, head.hash)]

-----------------------------------------------------------------------------
(* The file.  "missing": there is none.  "foreign": it names another       *)
(* gateway.  "unreadable": not JSON, too large, another version, or the    *)
(* read raised OSError.  "ours": a document of this gateway.               *)

FileKinds == {"missing", "foreign", "unreadable", "ours"}
Document == [kind: FileKinds, base: Point, entries: Seq(Entry)]

NoDocument(kind) == [kind |-> kind, base |-> Origin, entries |-> <<>>]
Saved(b, es) == [kind |-> "ours", base |-> b, entries |-> es]

\* The save after a change: replaced whole by a rename, or not at all.
Save(b, es, ok) ==
    IF HasFile
    THEN /\ saveFailed' = ~ok
         /\ file' = IF ok THEN Saved(b, es) ELSE file
    ELSE UNCHANGED <<saveFailed, file>>

\* Whether each entry follows the one before it and matches its own hash.
Verified(b, es) ==
    \A i \in 1..Len(es) :
        LET before == IF i = 1 THEN b ELSE PointOf(es[i - 1])
        IN  /\ es[i].seq = before.seq + 1
            /\ es[i].prev = before.hash
            /\ es[i].hash = entry_hash(es[i].seq, es[i].body, es[i].prev)

\* Mutant: the file is trusted.
Readable(doc) == doc.kind = "ours"

Replayable(doc) == doc.kind = "ours" /\ Verified(doc.base, doc.entries)

\* Mutant: an empty journal starts a new chain.
BaseOfEntries(doc) == IF Replayable(doc) /\ doc.entries # <<>> THEN doc.base ELSE Origin

LoadedBase(doc) == IF Replayable(doc) THEN doc.base ELSE Origin
LoadedEntries(doc) == IF Replayable(doc) THEN doc.entries ELSE <<>>

\* A document that does not hold is set aside under another name; that
\* rename may fail too.  Another gateway's is left in place.
AfterLoad(doc) ==
    IF doc.kind = "unreadable" \/ (doc.kind = "ours" /\ ~Replayable(doc))
    THEN {NoDocument("missing"), doc}
    ELSE {doc}

-----------------------------------------------------------------------------
(* append.  NewEntry is the entry it makes; its seq is what the caller     *)
(* gets.  A body that is too large or not JSON is refused like a full      *)
(* journal; no caller of the sidecar makes one.                            *)

\* Mutant: one entry too many.
CanAppendOneMore(durable) ==
    /\ Len(entries) <= MaxPending
    /\ durable => HasFile

CanAppend(durable) ==
    /\ Len(entries) < MaxPending
    /\ durable => HasFile

\* The entry stays: saved, or in memory only when it need not be durable.
AppendKept(body, durable) ==
    /\ CanAppend(durable)
    /\ entries' = Append(entries, NewEntry(body))
    /\ UNCHANGED base
    /\ \E ok \in BOOLEAN :
          /\ durable => ok
          /\ Save(base, entries', ok)

\* Mutant: the entry before it is taken off too.
AppendUndoneTwice ==
    /\ CanAppend(TRUE)
    /\ UNCHANGED base
    /\ entries' = IF entries = <<>> THEN entries ELSE Front(entries)
    /\ \E ok \in BOOLEAN : Save(base, entries', ok)

\* A durable entry whose save failed is taken off again, and what is left
\* saved a second time.
AppendUndone ==
    /\ CanAppend(TRUE)
    /\ UNCHANGED <<base, entries>>
    /\ \E ok \in BOOLEAN : Save(base, entries, ok)

AppendRefused(durable) ==
    /\ ~CanAppend(durable)
    /\ UNCHANGED journalVars

\* Mutant: what is settled is not saved.
TakeUnsaved(n) ==
    /\ n \in 1..Len(entries)
    /\ base' = PointOf(entries[n])
    /\ entries' = SubSeq(entries, n + 1, Len(entries))
    /\ UNCHANGED <<saveFailed, file>>

\* The n oldest entries leave.
Take(n) ==
    /\ n \in 1..Len(entries)
    /\ base' = PointOf(entries[n])
    /\ entries' = SubSeq(entries, n + 1, Len(entries))
    /\ \E ok \in BOOLEAN : Save(base', entries', ok)

settle(seq) ==
    /\ entries # <<>>
    /\ entries[1].seq = seq
    /\ Take(1)

settle_through(seq) ==
    /\ entries # <<>>
    /\ entries[1].seq <= seq
    /\ seq <= Last(entries).seq
    /\ \E n \in 1..Len(entries) :
          /\ \A i \in 1..Len(entries) : entries[i].seq <= seq <=> i <= n
          /\ Take(n)

\* The process starts on the document it finds.
Load(doc) ==
    /\ base' = LoadedBase(doc)
    /\ entries' = LoadedEntries(doc)
    /\ saveFailed' = FALSE
    /\ file' \in AfterLoad(doc)

-----------------------------------------------------------------------------
JournalInit ==
    /\ base = Origin
    /\ entries = <<>>
    /\ saveFailed = FALSE
    /\ file = NoDocument("missing")

JournalTypeOK ==
    /\ base \in Point
    /\ entries \in Seq(Entry)
    /\ Len(entries) <= MaxPending
    /\ saveFailed \in BOOLEAN
    /\ file \in Document

-----------------------------------------------------------------------------
(* The journal by itself: any caller, any order of calls, and a restart at *)
(* any moment.  While the process is down the file may be lost or damaged. *)

\* A document with an entry edited, or taken out before another one.
Edited(doc) ==
    {[doc EXCEPT !.entries[i].body = b] : i \in 1..Len(doc.entries), b \in Body}
        \cup {[doc EXCEPT !.entries = RemoveAt(@, i)] : i \in 1..(Len(doc.entries) - 1)}

\* A document the chain says nothing against: the last entry, which no other
\* one binds, is off; or there is none, and the base, which no entry binds, is
\* an earlier one.  (A base that never was in the chain is left out.)
Shortened(doc) ==
    IF doc.entries # <<>>
    THEN {[doc EXCEPT !.entries = Front(@)]}
    ELSE {[doc EXCEPT !.base = [seq |-> n, hash |-> SubSeq(@.hash, 1, n)]] :
             n \in 0..(doc.base.seq - 1)}

\* One damage is not undone by a second one.
Found(doc) ==
    IF Replayable(doc)
    THEN {doc, NoDocument("foreign"), NoDocument("unreadable")}
             \cup Edited(doc) \cup Shortened(doc)
    ELSE {doc}

Restart == \E doc \in Found(file) : Load(doc)

JournalNext ==
    \/ \E body \in Body, durable \in BOOLEAN :
          /\ head.seq < MaxSeq
          /\ AppendKept(body, durable)
    \/ AppendUndone
    \/ \E seq \in 1..MaxSeq : settle(seq)
    \/ \E seq \in 1..MaxSeq : settle_through(seq)
    \/ Restart

JournalSpec == JournalInit /\ [][JournalNext]_journalVars

-----------------------------------------------------------------------------
(* What holds.                                                             *)

\* The entries in memory, and those of the file as a restart would read
\* them, form one unbroken chain behind their base, whatever was appended,
\* taken back, settled, saved or not saved before.
ChainHolds ==
    /\ Verified(base, entries)
    /\ Verified(LoadedBase(file), LoadedEntries(file))

\* When the last save did not fail, a restart finds exactly what memory
\* holds.  It is why append may trust _save_failed to say whether a durable
\* entry is in the file.
FileIsCurrent ==
    (HasFile /\ ~saveFailed) =>
        /\ LoadedBase(file) = base
        /\ LoadedEntries(file) = entries

\* The journal implements the outbox: its head's hash is the whole log, its
\* base's hash the settled part, and the file is what is safe.
Promise ==
    INSTANCE Outbox WITH
        log <- head.hash,
        settled <- base.hash,
        safe <- HeadOf(LoadedBase(file), LoadedEntries(file)).hash,
        safeSettled <- LoadedBase(file).hash

\* The journal keeps the outbox's promise: order, no gap, nothing invented,
\* a restart that loses only what no save had secured, and a damaged file that
\* loses the end of it and changes nothing else.
ImplementsOutbox == Promise!Spec

\* The same in its place in the sidecar, where the file is what the journal
\* saved: no restart finds less than what was safe.
KeepsOutbox == Promise!UndamagedSpec
=============================================================================
