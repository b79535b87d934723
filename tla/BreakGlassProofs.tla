-------------------------- MODULE BreakGlassProofs --------------------------
(***************************************************************************)
(* Proofs about BreakGlass.tla, for any number of windows, restarts and    *)
(* entries, any length of a window and any way the clock is set.  What the *)
(* journal does is proved in JournalProofs.tla.                            *)
(***************************************************************************)
EXTENDS BreakGlass, JournalProofs, FiniteSetTheorems

(***************************************************************************)
(* The invariant, in parts.  History is what the chain's hash holds, after *)
(* what went with journals that could not be read: every append is         *)
(* durable, so what the file would be read as ends where memory ends, and  *)
(* no step shortens it.                                                    *)
(***************************************************************************)
FileHead == HeadOf(LoadedBase(file), LoadedEntries(file))

JournalPart ==
    /\ JournalInv
    /\ FileHead = head

Item == Nat \X Body

\* The entries of a history that journal a write of window w.
WritesIn(h, w) == {i \in 1..Len(h) : h[i][2] = WriteBody(w)}

\* What a history holds: bodies of this program, none before its window's
\* opening, and closes that count no more writes than there are.
GoodAt(h, i) ==
    /\ h[i][2] \in GlassBody
    /\ \E j \in 1..i : h[j][2] = OpenBody(h[i][2].window)
    /\ h[i][2].writes <= Cardinality({j \in 1..i : h[j][2] = WriteBody(h[i][2].window)})

GoodHistory(h) == \A i \in 1..Len(h) : GoodAt(h, i)

Form == [id: 0..MaxWindows, opened: Times, until: Times, writes: 0..MaxSeq]

\* A window in memory, in its file or about to be set is one that was
\* journaled.
GoodWindow(w) ==
    /\ w \in Form
    /\ w # NoWindow =>
          /\ w.id \in Known
          /\ w.until = w.opened + Minutes
    /\ w.writes <= Cardinality(WritesIn(Log, w.id))

Held == {window, windowFile, draft}

\* Where the operation that holds the lock is.
Phases ==
    /\ op \in {Free, At("open", "body"), At("open", "saving"), At("write", "saving")}
                 \cup [name: Names, at: {"ending"}]
    /\ op.at = "ending" => IsOpen
    /\ draft # NoWindow => op = At("open", "saving")
    /\ op = At("open", "saving") => draft # NoWindow
    /\ op = At("write", "saving") =>
          /\ IsOpen
          /\ Len(Log) \in 1..MaxSeq
          /\ Log[Len(Log)][2] = WriteBody(window.id)
          /\ window.writes < Cardinality(WritesIn(Log, window.id))

GlassInv ==
    /\ JournalPart
    /\ gone \in Seq(Item)
    /\ GoodHistory(Log)
    /\ \E k \in 0..MaxWindows : Known = 1..k
    /\ \A w \in Held : GoodWindow(w)
    /\ Phases
    /\ now \in Times

AllowedInv ==
    \A s \in allowed : s \in 1..Len(Log) /\ Log[s][2].kind = "write"

\* A window whose end is in the file is nowhere any more.
EndedInv ==
    /\ ended \subseteq Known
    /\ \A w \in Held : w # NoWindow => w.id \notin ended

Levels == {"steady", "set back", "trusted"}

\* The monotonic time left bounds the age; after a restart the wall clock
\* gives it, and unless that was set back it has seen at least the age.
ClockInv ==
    /\ left \in Times
    /\ age \in [Windows -> 0..Minutes]
    /\ clockOf \in [Windows -> Levels]
    /\ \A w \in Windows \ Known : age[w] = 0
    /\ IsOpen /\ clockOf[window.id] # "trusted" => left <= Minutes - age[window.id]
    /\ \A w \in Held :
          w # NoWindow /\ clockOf[w.id] = "steady" => age[w.id] <= now - w.opened

\* An initial segment of the chain.
Segment(h) ==
    /\ Len(h) \in 0..Len(Chain)
    /\ h = SubSeq(Chain, 1, Len(h))

\* While every start could read the journal.
UploadInv ==
    /\ Segment(taken)
    /\ Len(base.hash) <= Len(taken)
    /\ Len(LoadedBase(file).hash) <= Len(taken)
    /\ wire \subseteq [from: Hash, to: Hash]
    /\ \A r \in wire : Segment(r.from) /\ Segment(r.to) /\ Len(r.from) <= Len(taken)
    /\ upload \in [state: {"idle", "sent", "answered"}, from: Hash, to: Hash, accepted: Nat]
    /\ upload.state = "answered" => upload.accepted <= Len(taken)

UploadKept == gone = GENESIS => UploadInv

\* In any case.
UploadTypes ==
    /\ taken \in Hash
    /\ wire \subseteq [from: Hash, to: Hash]
    /\ upload \in [state: {"idle", "sent", "answered"}, from: Hash, to: Hash, accepted: Nat]

-----------------------------------------------------------------------------
(* Histories.                                                              *)

LEMMA Constants ==
    /\ MaxWindows \in Nat /\ MaxSeq \in Nat /\ MaxTime \in Nat
    /\ Minutes \in Nat /\ Minutes > 0
    /\ GlassBody \subseteq Body /\ HasFile
BY GlassAssumption

LEMMA WritesAreFinite ==
    ASSUME NEW h \in Seq(Item), NEW w, NEW to \in 0..Len(h)
    PROVE  /\ IsFiniteSet({i \in 1..to : h[i][2] = WriteBody(w)})
           /\ Cardinality({i \in 1..to : h[i][2] = WriteBody(w)}) \in 0..to
<1> DEFINE S == {i \in 1..to : h[i][2] = WriteBody(w)}
<1>1. to \in Nat
  BY LenProperties
<1>2. IsFiniteSet(1..to) /\ Cardinality(1..to) = to
  <2>1. IsFiniteSet(1..to) /\ Cardinality(1..to) = IF 1 > to THEN 0 ELSE to - 1 + 1
    BY <1>1, FS_Interval
  <2> QED
    BY <1>1, <2>1
<1>3. IsFiniteSet(S) /\ Cardinality(S) <= to
  <2>1. S \in SUBSET (1..to)
    OBVIOUS
  <2> HIDE DEF S
  <2> QED
    BY <1>2, <2>1, FS_Subset
<1> HIDE DEF S
<1>4. Cardinality(S) \in Nat
  BY <1>3, FS_CardinalityType
<1> QED
  BY <1>1, <1>3, <1>4 DEF S

LEMMA WritesCounted ==
    ASSUME NEW h \in Seq(Item), NEW w
    PROVE  /\ IsFiniteSet(WritesIn(h, w))
           /\ Cardinality(WritesIn(h, w)) \in 0..Len(h)
<1>1. Len(h) \in 0..Len(h)
  BY LenProperties
<1> QED
  BY <1>1, WritesAreFinite DEF WritesIn

LEMMA AppendFacts ==
    ASSUME NEW h \in Seq(Item), NEW x \in Item
    PROVE  /\ Append(h, x) \in Seq(Item)
           /\ Len(h) \in Nat /\ Len(Append(h, x)) = Len(h) + 1
           /\ \A i \in 1..Len(h) : Append(h, x)[i] = h[i]
           /\ Append(h, x)[Len(h) + 1] = x
<1>1. Len(h) \in Nat
  BY LenProperties
<1> QED
  BY <1>1, AppendProperties

\* An entry more counts as one write more of its window, or as none.
LEMMA WritesOfAppend ==
    ASSUME NEW h \in Seq(Item), NEW x \in Item, NEW w
    PROVE  Cardinality(WritesIn(Append(h, x), w)) =
              IF x[2] = WriteBody(w) THEN Cardinality(WritesIn(h, w)) + 1
                                     ELSE Cardinality(WritesIn(h, w))
<1> DEFINE n == Len(h)
           g == Append(h, x)
<1>1. /\ n \in Nat /\ Len(g) = n + 1
      /\ \A i \in 1..n : g[i] = h[i]
      /\ g[n + 1] = x
  BY AppendFacts
<1> HIDE DEF g
<1>2. CASE x[2] = WriteBody(w)
  <2>1. WritesIn(g, w) = WritesIn(h, w) \cup {n + 1}
    BY <1>1, <1>2 DEF WritesIn
  <2>2. n + 1 \notin WritesIn(h, w)
    BY <1>1 DEF WritesIn
  <2>3. IsFiniteSet(WritesIn(h, w))
    BY WritesCounted
  <2> QED
    BY <1>2, <2>1, <2>2, <2>3, FS_AddElement DEF g
<1>3. CASE x[2] # WriteBody(w)
  <2>1. WritesIn(g, w) = WritesIn(h, w)
    BY <1>1, <1>3 DEF WritesIn
  <2> QED
    BY <1>3, <2>1 DEF g
<1> QED
  BY <1>2, <1>3

\* A history stays good with one more entry that opens a window, or that
\* belongs to one opened before and counts no more writes than there are.
LEMMA GoodAppend ==
    ASSUME NEW h \in Seq(Item), GoodHistory(h), NEW x \in Item,
           x[2] \in GlassBody,
           \/ x[2] = OpenBody(x[2].window)
           \/ \E j \in 1..Len(h) : h[j][2] = OpenBody(x[2].window),
           x[2].writes <= Cardinality(WritesIn(h, x[2].window))
    PROVE  GoodHistory(Append(h, x))
<1> DEFINE n == Len(h)
           g == Append(h, x)
<1>1. /\ n \in Nat /\ Len(g) = n + 1 /\ g \in Seq(Item)
      /\ \A i \in 1..n : g[i] = h[i]
      /\ g[n + 1] = x
  BY AppendFacts
<1> HIDE DEF g
<1>2. ASSUME NEW i \in 1..n
      PROVE  GoodAt(g, i)
  <2>1. \A j \in 1..i : g[j] = h[j]
    BY <1>1
  <2>2. {j \in 1..i : g[j][2] = WriteBody(h[i][2].window)}
          = {j \in 1..i : h[j][2] = WriteBody(h[i][2].window)}
    BY <2>1
  <2>3. g[i] = h[i]
    BY <1>1
  <2> QED
    BY <2>1, <2>2, <2>3 DEF GoodHistory, GoodAt
<1>3. \E j \in 1..(n + 1) : g[j][2] = OpenBody(g[n + 1][2].window)
  BY <1>1
<1>4. x[2].writes <= Cardinality({j \in 1..(n + 1) : g[j][2] = WriteBody(x[2].window)})
  <2> DEFINE v == x[2].window
             c == Cardinality(WritesIn(h, v))
  <2>1. Cardinality(WritesIn(g, v)) \in {c, c + 1}
    BY WritesOfAppend DEF g
  <2>2. WritesIn(g, v) = {j \in 1..(n + 1) : g[j][2] = WriteBody(v)}
    BY <1>1 DEF WritesIn
  <2>3. c \in Nat
    BY WritesCounted
  <2>4. x[2].writes \in Nat
    BY Constants DEF GlassBody
  <2>5. x[2].writes <= c
    OBVIOUS
  <2> HIDE DEF c, v
  <2>6. x[2].writes <= Cardinality(WritesIn(g, v))
    BY <2>1, <2>3, <2>4, <2>5
  <2> QED
    BY <2>2, <2>6 DEF v
<1>5. \A i \in 1..(n + 1) : i \in 1..n \/ i = n + 1
  BY <1>1
<1>6. GoodAt(g, n + 1)
  BY <1>1, <1>3, <1>4 DEF GoodAt
<1> QED
  BY <1>1, <1>2, <1>5, <1>6 DEF GoodHistory, g

-----------------------------------------------------------------------------
(* What the steps do to the journal.                                       *)

LEMMA GlassHead ==
    ASSUME JournalInv
    PROVE  /\ Chain \in Seq(Item) /\ head.seq \in Nat /\ Len(Chain) = head.seq
           /\ base \in Point /\ base.seq \in Nat
           /\ entries \in Seq(Entry) /\ Len(entries) \in Nat
           /\ head.seq = base.seq + Len(entries)
           /\ head = [seq |-> head.seq, hash |-> Chain]
BY HeadIsPoint DEF JournalInv, JournalTypeOK, Point, Hash, Chain, Item

\* A durable append that returned its seq.
LEMMA JournaledStep ==
    ASSUME JournalPart, NEW body \in GlassBody, Journaled(body)
    PROVE  /\ JournalPart'
           /\ head.seq' = head.seq + 1
           /\ Chain' = Append(Chain, <<head.seq + 1, body>>)
           /\ base' = base
           /\ LoadedBase(file') = base
<1>1. AppendKept(body, TRUE) /\ JournalInv /\ body \in Body
  BY Constants DEF Journaled, JournalPart
<1>2. JournalInv' /\ head' = PointOf(NewEntry(body))
  BY <1>1, AppendKeptInv
<1>3. head'.seq = head.seq + 1 /\ head'.hash = Append(head.hash, <<head.seq + 1, body>>)
  BY <1>2 DEF PointOf, NewEntry, entry_hash
<1>4. UNCHANGED base /\ Save(base, entries', TRUE)
  BY <1>1 DEF AppendKept
<1>5. file' = Saved(base', entries')
  BY <1>4, Constants DEF Save
<1>6. Verified(base', entries')
  BY <1>2 DEF JournalInv
<1>7. LoadedBase(file') = base' /\ LoadedEntries(file') = entries'
  BY <1>5, <1>6 DEF Saved, LoadedBase, LoadedEntries, Replayable
<1>8. FileHead' = head'
  BY <1>7 DEF FileHead, head
<1> QED
  BY <1>2, <1>3, <1>4, <1>7, <1>8 DEF JournalPart, Chain

\* One that returned None.
LEMMA NotJournaledStep ==
    ASSUME JournalPart, NotJournaled
    PROVE  /\ JournalPart'
           /\ head' = head
           /\ base' = base
           /\ LoadedBase(file') \in {base, LoadedBase(file)}
<1>1. JournalInv
  BY DEF JournalPart
<1>2. CASE AppendUndone
  <2>1. JournalInv' /\ UNCHANGED <<base, entries>>
    BY <1>1, <1>2, AppendUndoneInv
  <2>2. PICK ok \in BOOLEAN : Save(base, entries, ok)
    BY <1>2 DEF AppendUndone
  <2>3. Verified(base, entries)
    BY <1>1 DEF JournalInv
  <2>4. \/ LoadedBase(file') = base /\ LoadedEntries(file') = entries
        \/ UNCHANGED file
    BY <2>2, <2>3, SaveSecures
  <2>5. FileHead' = head'
    BY <2>1, <2>4 DEF FileHead, head, JournalPart, LoadedBase, LoadedEntries, Replayable
  <2>6. LoadedBase(file') \in {base, LoadedBase(file)}
    BY <2>4 DEF LoadedBase, Replayable
  <2> QED
    BY <2>1, <2>5, <2>6 DEF JournalPart, head
<1>3. CASE UNCHANGED journalVars
  <2>1. JournalInv'
    BY <1>1, <1>3, NextInv
  <2>2. UNCHANGED <<base, entries, file>>
    BY <1>3 DEF journalVars
  <2> QED
    BY <2>1, <2>2 DEF JournalPart, FileHead, head, HeadOf, LoadedBase, LoadedEntries, Replayable
<1> QED
  BY <1>2, <1>3 DEF NotJournaled, AppendRefused

LEMMA JournalRests ==
    ASSUME JournalPart, UNCHANGED journalVars
    PROVE  JournalPart' /\ head' = head /\ UNCHANGED <<base, entries, file>>
<1>1. JournalInv'
  BY NextInv DEF JournalPart
<1>2. UNCHANGED <<base, entries, file>>
  BY DEF journalVars
<1> QED
  BY <1>1, <1>2 DEF JournalPart, FileHead, head, HeadOf, LoadedBase, LoadedEntries, Replayable

\* Settling takes from the front, in memory and perhaps in the file.
LEMMA SettledStep ==
    ASSUME JournalPart, NEW seq, settle_through(seq)
    PROVE  /\ JournalPart'
           /\ head' = head
           /\ \E n \in 1..Len(entries) :
                 /\ base' = PointOf(entries[n])
                 /\ entries[n].seq <= seq
           /\ LoadedBase(file') \in {base', LoadedBase(file)}
<1>1. PICK n \in 1..Len(entries) :
         /\ \A i \in 1..Len(entries) : entries[i].seq <= seq <=> i <= n
         /\ Take(n)
  BY DEF settle_through
<1>2. JournalInv /\ n \in Nat
  BY GlassHead DEF JournalPart
<1>3. JournalInv' /\ head' = head
  BY <1>1, <1>2, TakeInv
<1>4. base' = PointOf(entries[n]) /\ entries[n].seq <= seq
  <2>1. n <= n
    BY <1>2
  <2> QED
    BY <1>1, <2>1 DEF Take
<1>5. PICK ok \in BOOLEAN : Save(base', entries', ok)
  BY <1>1 DEF Take
<1>6. Verified(base', entries')
  BY <1>3 DEF JournalInv
<1>7. \/ LoadedBase(file') = base' /\ LoadedEntries(file') = entries'
      \/ UNCHANGED file
  BY <1>5, <1>6, SaveSecures
<1>8. FileHead' = head'
  <2>1. CASE LoadedBase(file') = base' /\ LoadedEntries(file') = entries'
    BY <2>1 DEF FileHead, head
  <2>2. CASE UNCHANGED file
    BY <1>3, <2>2 DEF FileHead, JournalPart, LoadedBase, LoadedEntries, Replayable
  <2> QED
    BY <1>7, <2>1, <2>2
<1>9. LoadedBase(file') \in {base', LoadedBase(file)}
  BY <1>7 DEF LoadedBase, Replayable
<1> QED
  BY <1>3, <1>4, <1>8, <1>9 DEF JournalPart

\* What was ever journaled is a history too.
LEMMA LogFacts ==
    ASSUME JournalInv, gone \in Seq(Item)
    PROVE  /\ Log \in Seq(Item)
           /\ Len(Log) \in Nat
           /\ Len(Log) = Len(gone) + Len(Chain)
           /\ gone = <<>> => Log = Chain
           /\ Log = <<>> => gone = <<>> /\ Chain = <<>>
           /\ Log = gone => Chain = <<>>
<1>1. Chain \in Seq(Item) /\ Log = gone \o Chain
  BY GlassHead DEF Log, Chain
<1> HIDE DEF Chain, Log
<1>2. /\ gone \o Chain \in Seq(Item)
      /\ Len(gone \o Chain) = Len(gone) + Len(Chain)
  BY <1>1, ConcatProperties
<1>3. Len(Log) \in Nat
  BY <1>1, <1>2, LenProperties
<1>4. <<>> \o Chain = Chain
  BY <1>1, ConcatEmptySeq
<1>5. /\ gone \o Chain = gone <=> Chain = <<>>
      /\ gone \o Chain = <<>> <=> gone = <<>> /\ Chain = <<>>
  BY <1>1, ConcatEqualIffEmpty
<1> QED
  BY <1>1, <1>2, <1>3, <1>4, <1>5

LEMMA LogRests ==
    ASSUME head' = head, gone' = gone
    PROVE  Chain' = Chain /\ Log' = Log /\ Known' = Known
BY DEF Chain, Log, Known

\* It grows as the chain does.
LEMMA LogGrows ==
    ASSUME JournalPart, gone \in Seq(Item), UNCHANGED gone,
           NEW body \in GlassBody, Journaled(body)
    PROVE  /\ Log' = Append(Log, <<head.seq + 1, body>>)
           /\ <<head.seq + 1, body>> \in Item
<1> DEFINE x == <<head.seq + 1, body>>
<1>1. Chain \in Seq(Item) /\ x \in Item
  BY GlassHead, Constants DEF JournalPart, Item
<1>2. Chain' = Append(Chain, x)
  BY JournaledStep
<1>3. Log = gone \o Chain /\ Log' = gone \o Chain'
  BY DEF Log, Chain
<1> HIDE DEF x
<1>4. <<x>> \in Seq(Item)
  BY <1>1
<1>5. Append(Chain, x) = Chain \o <<x>>
  BY <1>1, AppendIsConcat
<1>6. gone \o Chain \in Seq(Item)
  BY <1>1, ConcatProperties
<1>7. Append(gone \o Chain, x) = (gone \o Chain) \o <<x>>
  BY <1>1, <1>6, AppendIsConcat
<1>8. (gone \o Chain) \o <<x>> = gone \o (Chain \o <<x>>)
  BY <1>1, <1>4, ConcatAssociative
<1> QED
  BY <1>1, <1>2, <1>3, <1>5, <1>7, <1>8 DEF x

\* A restart finds the whole history again.
LEMMA RestartStep ==
    ASSUME JournalPart, Load(file)
    PROVE  /\ JournalPart'
           /\ head' = head
           /\ base' = LoadedBase(file)
           /\ LoadedBase(file') = base'
<1>1. JournalInv /\ Restart
  BY DEF JournalPart, Restart, Found
<1>2. /\ JournalInv'
      /\ LoadedBase(file') = base' /\ LoadedEntries(file') = entries'
  BY <1>1, RestartInv
<1>3. base' = LoadedBase(file) /\ entries' = LoadedEntries(file)
  BY DEF Load
<1>4. head' = head
  BY <1>3 DEF JournalPart, FileHead, head
<1>5. FileHead' = head'
  BY <1>2 DEF FileHead, head
<1> QED
  BY <1>2, <1>3, <1>4, <1>5 DEF JournalPart

\* One that cannot read the journal starts from nothing, and all of the
\* history is gone.
LEMMA LostStep ==
    ASSUME JournalPart, gone \in Seq(Item), Load(NoDocument("unreadable")), gone' = Log
    PROVE  /\ JournalPart'
           /\ base' = Origin /\ LoadedBase(file') = Origin
           /\ Chain' = <<>> /\ Log' = Log /\ Known' = Known
           /\ FileHead' = Origin
           /\ gone' \in Seq(Item)
           /\ gone' = GENESIS => gone = GENESIS /\ Chain = <<>>
<1>1. /\ base' = Origin /\ entries' = <<>> /\ saveFailed' = FALSE
      /\ file' \in {NoDocument("missing"), NoDocument("unreadable")}
  BY DEF Load, LoadedBase, LoadedEntries, Replayable, AfterLoad, NoDocument
<1>2. LoadedBase(file') = Origin /\ LoadedEntries(file') = <<>> /\ file' \in Document
  <2>1. \A kind \in {"missing", "unreadable"} :
           /\ LoadedBase(NoDocument(kind)) = Origin /\ LoadedEntries(NoDocument(kind)) = <<>>
           /\ NoDocument(kind) \in Document
    BY EmptyChains DEF LoadedBase, LoadedEntries, Replayable, NoDocument, Document, FileKinds
  <2>2. PICK kind \in {"missing", "unreadable"} : file' = NoDocument(kind)
    BY <1>1
  <2> HIDE DEF NoDocument
  <2>3. LoadedBase(NoDocument(kind)) = LoadedBase(file') /\ LoadedEntries(NoDocument(kind)) = LoadedEntries(file')
    BY <2>2 DEF LoadedBase, LoadedEntries, Replayable
  <2> QED
    BY <2>1, <2>2, <2>3
<1>3. Len(<<>>) <= MaxPending
  BY MaxPendingAssumption
<1>4. JournalInv'
  BY <1>1, <1>2, <1>3, EmptyChains
     DEF JournalInv, JournalTypeOK, FileInv, FileIsCurrent
<1>5. head' = Origin /\ FileHead' = Origin
  BY <1>1, <1>2 DEF head, FileHead, HeadOf
<1>6. Chain' = <<>>
  BY <1>5 DEF Chain, Origin, GENESIS
<1>7. Log \in Seq(Item) /\ (Log = <<>> => gone = <<>> /\ Chain = <<>>)
  BY LogFacts DEF JournalPart
<1>8. Log' = Log
  <2>1. Log' = gone' \o Chain'
    BY DEF Log, Chain
  <2>2. Log \o <<>> = Log
    BY <1>7, ConcatEmptySeq
  <2> QED
    BY <1>6, <2>1, <2>2
<1>9. Known' = Known
  BY <1>8 DEF Known
<1> QED
  BY <1>1, <1>2, <1>4, <1>5, <1>6, <1>7, <1>8, <1>9 DEF JournalPart, GENESIS

-----------------------------------------------------------------------------
(* The history and the windows in memory.                                  *)

LEMMA NoWindowIsGood ==
    ASSUME Log \in Seq(Item)
    PROVE  GoodWindow(NoWindow)
<1>1. Cardinality(WritesIn(Log, 0)) \in Nat
  BY WritesCounted
<1>2. NoWindow \in Form
  BY Constants DEF NoWindow, Form, Times
<1> QED
  BY <1>1, <1>2 DEF GoodWindow, NoWindow

\* An open window belongs to the history, which has its opening.
LEMMA WindowFacts ==
    ASSUME GlassInv, NEW w \in Held, w # NoWindow
    PROVE  /\ w.id \in Known /\ w.id \in Windows
           /\ w.writes \in 0..MaxSeq
           /\ \E j \in 1..Len(Log) : Log[j][2] = OpenBody(w.id)
           /\ w.writes <= Cardinality(WritesIn(Log, w.id))
<1>1. GoodWindow(w) /\ GoodHistory(Log) /\ JournalInv /\ gone \in Seq(Item)
  BY DEF GlassInv, JournalPart
<1>2. w.id \in Known /\ w.writes \in 0..MaxSeq /\ w.writes <= Cardinality(WritesIn(Log, w.id))
  BY <1>1 DEF GoodWindow, Form
<1>3. w.id \in Windows
  <2>1. PICK k \in 0..MaxWindows : Known = 1..k
    BY DEF GlassInv
  <2> QED
    BY <1>2, <2>1, Constants DEF Windows
<1>4. PICK i \in 1..Len(Log) : w.id = Log[i][2].window
  BY <1>2 DEF Known
<1>5. PICK j \in 1..i : Log[j][2] = OpenBody(w.id)
  BY <1>1, <1>4 DEF GoodHistory, GoodAt
<1>6. Len(Log) \in Nat
  BY <1>1, LogFacts
<1>7. j \in 1..Len(Log)
  BY <1>4, <1>5, <1>6
<1> QED
  BY <1>2, <1>3, <1>5, <1>7

LEMMA KnownGrows ==
    ASSUME Log \in Seq(Item), NEW x \in Item, Log' = Append(Log, x)
    PROVE  Known' = Known \cup {x[2].window}
<1>2. /\ Len(Log) \in Nat /\ Len(Log') = Len(Log) + 1
      /\ \A i \in 1..Len(Log) : Log'[i] = Log[i]
      /\ Log'[Len(Log) + 1] = x
  BY AppendFacts
<1>3. Known = {Log[i][2].window : i \in 1..Len(Log)}
  BY DEF Known
<1>4. Known' = {Log'[i][2].window : i \in 1..Len(Log')}
  BY DEF Known
<1>5. \A v \in Known' : v \in Known \cup {x[2].window}
  <2> SUFFICES ASSUME NEW i \in 1..Len(Log') PROVE Log'[i][2].window \in Known \cup {x[2].window}
    BY <1>4
  <2>1. i \in 1..Len(Log) \/ i = Len(Log) + 1
    BY <1>2
  <2> QED
    BY <1>2, <1>3, <2>1
<1>6. Known \subseteq Known'
  <2> SUFFICES ASSUME NEW i \in 1..Len(Log) PROVE Log[i][2].window \in Known'
    BY <1>3
  <2>1. i \in 1..Len(Log') /\ Log'[i] = Log[i]
    BY <1>2
  <2> QED
    BY <1>4, <2>1
<1>7. x[2].window \in Known'
  <2>1. Len(Log) + 1 \in 1..Len(Log')
    BY <1>2
  <2> QED
    BY <1>2, <1>4, <2>1
<1> QED
  BY <1>5, <1>6, <1>7

LEMMA GoodWindowGrows ==
    ASSUME Log \in Seq(Item), NEW w, GoodWindow(w), NEW x \in Item, Log' = Append(Log, x)
    PROVE  GoodWindow(w)'
<1>1. Known' = Known \cup {x[2].window}
  BY KnownGrows
<1>3. PICK c \in Nat : c = Cardinality(WritesIn(Log, w.id))
  BY WritesCounted
<1>4. Cardinality(WritesIn(Log', w.id)) \in {c, c + 1}
  BY <1>3, WritesOfAppend
<1>5. w \in Form /\ w.writes <= c /\ w.writes \in Nat
  BY <1>3, Constants DEF GoodWindow, Form
<1>6. w.writes <= Cardinality(WritesIn(Log', w.id))
  BY <1>3, <1>4, <1>5
<1> QED
  BY <1>1, <1>5, <1>6 DEF GoodWindow

\* A step that leaves the history as it is.
LEMMA HistoryRests ==
    ASSUME GlassInv, JournalPart', gone' \in Seq(Item), Log' = Log,
           Held' \subseteq Held \cup {NoWindow}, Phases', now' \in Times
    PROVE  GlassInv'
<1>1. Known' = Known
  BY DEF Known
<1>2. Log \in Seq(Item)
  BY LogFacts DEF GlassInv, JournalPart
<1>3. ASSUME NEW w \in Held' PROVE GoodWindow(w)'
  <2>1. GoodWindow(w)
    BY <1>2, <1>3, NoWindowIsGood DEF GlassInv
  <2> QED
    BY <1>1, <2>1 DEF GoodWindow
<1>4. \A w \in Held' : GoodWindow(w)'
  BY <1>3
<1> QED
  BY <1>1, <1>4 DEF GlassInv

\* One that adds an entry of an open window.
LEMMA HistoryGrows ==
    ASSUME GlassInv, IsOpen, NEW body \in GlassBody, body.window = window.id,
           body.writes = 0 \/ body.writes = window.writes,
           Journaled(body),
           UNCHANGED <<window, windowFile, draft, gone>>
    PROVE  /\ JournalPart' /\ Log' = Append(Log, <<head.seq + 1, body>>)
           /\ head.seq' = head.seq + 1 /\ Known' = Known
           /\ Phases' /\ UNCHANGED now => GlassInv'
<1> DEFINE x == <<head.seq + 1, body>>
<1>0. JournalPart /\ JournalInv /\ gone \in Seq(Item) /\ UNCHANGED gone
  BY DEF GlassInv, JournalPart
<1>1. /\ JournalPart' /\ Log' = Append(Log, x)
      /\ head.seq' = head.seq + 1
  BY <1>0, JournaledStep, LogGrows
<1>2. Log \in Seq(Item) /\ head.seq \in Nat
  BY <1>0, GlassHead, LogFacts
<1>3. x \in Item /\ x[2] = body
  BY <1>2, Constants DEF Item
<1> HIDE DEF x
<1>4. window \in Held /\ window # NoWindow
  BY DEF Held, IsOpen
<1>5. /\ window.id \in Known
      /\ window.writes <= Cardinality(WritesIn(Log, window.id))
      /\ \E j \in 1..Len(Log) : Log[j][2] = OpenBody(window.id)
  BY <1>4, WindowFacts
<1>6. x[2].writes <= Cardinality(WritesIn(Log, x[2].window))
  <2>1. Cardinality(WritesIn(Log, window.id)) \in Nat /\ Cardinality(WritesIn(Log, window.id)) >= 0
    BY <1>2, WritesCounted
  <2> QED
    BY <1>3, <1>5, <2>1
<1>7. GoodHistory(Log')
  BY <1>1, <1>2, <1>3, <1>5, <1>6, GoodAppend DEF GlassInv
<1>8. Known' = Known
  BY <1>1, <1>2, <1>3, <1>5, KnownGrows
<1>9. ASSUME NEW w \in Held' PROVE GoodWindow(w)'
  <2>1. w \in Held
    BY <1>9 DEF Held
  <2>2. GoodWindow(w)
    BY <2>1 DEF GlassInv
  <2> QED
    BY <1>1, <1>2, <1>3, <2>2, GoodWindowGrows
<1>10. \A w \in Held' : GoodWindow(w)'
  BY <1>9
<1> QED
  BY <1>0, <1>1, <1>7, <1>8, <1>10 DEF GlassInv, x

LEMMA GlassInvInit == Init => GlassInv
<1> SUFFICES ASSUME Init PROVE GlassInv
  OBVIOUS
<1>1. JournalInv /\ JournalInit
  BY InitInv DEF Init
<1>2. head = Origin /\ gone = <<>> /\ gone \in Seq(Item) /\ Log = <<>>
  <2>1. head = Origin /\ gone = <<>> /\ Chain = <<>>
    BY <1>1 DEF Init, JournalInit, head, HeadOf, Chain, Origin, GENESIS
  <2>2. gone \in Seq(Item)
    BY <2>1, EmptySeq
  <2> QED
    BY <1>1, <2>1, <2>2, LogFacts
<1>3. FileHead = head
  BY <1>1 DEF JournalInit, FileHead, head, HeadOf, LoadedBase, LoadedEntries, Replayable, NoDocument
<1>4. Known = 1..0 /\ 0 \in 0..MaxWindows
  BY <1>2, Constants DEF Known
<1>5. Held = {NoWindow}
  BY DEF Init, Held
<1>6. GoodWindow(NoWindow)
  BY <1>2, NoWindowIsGood
<1>7. GoodHistory(Log)
  BY <1>2 DEF GoodHistory
<1>8. Phases /\ now \in Times
  BY Constants DEF Phases, Init, Free, At, Times
<1> QED
  BY <1>1, <1>2, <1>3, <1>4, <1>5, <1>6, <1>7, <1>8 DEF GlassInv, JournalPart

\* Another open window joins the history.
LEMMA OpenStep ==
    ASSUME GlassInv, ~IsOpen, Open, Journaled(OpenBody(NextWindow)),
           draft' = [id |-> NextWindow, opened |-> now, until |-> now + Minutes, writes |-> 0],
           op' = At("open", "saving")
    PROVE  /\ GlassInv' /\ NextWindow \notin Known /\ NextWindow \in Windows
           /\ Known' = Known \cup {NextWindow}
           /\ Log' = Append(Log, <<head.seq + 1, OpenBody(NextWindow)>>)
<1> DEFINE body == OpenBody(NextWindow)
           x == <<head.seq + 1, body>>
<1>1. PICK k \in 0..MaxWindows : Known = 1..k
  BY DEF GlassInv
<1>2. k \in Nat /\ NextWindow = k + 1
  <2>1. Cardinality(1..k) = IF 1 > k THEN 0 ELSE k - 1 + 1
    BY <1>1, FS_Interval
  <2> QED
    BY <1>1, <2>1, Constants DEF NextWindow
<1>3. NextWindow \in Windows /\ NextWindow \notin Known /\ now + Minutes <= MaxTime
  BY <1>1, <1>2 DEF Open
<1>4. body \in GlassBody /\ body.window = NextWindow /\ body.writes = 0
  BY <1>3, Constants DEF OpenBody, GlassBody
<1> HIDE DEF body
<1>0. JournalPart /\ JournalInv /\ gone \in Seq(Item) /\ UNCHANGED gone
  BY DEF GlassInv, JournalPart, Open, historyVars
<1>5. /\ JournalPart' /\ Log' = Append(Log, x)
      /\ head.seq' = head.seq + 1
  BY <1>0, <1>4, JournaledStep, LogGrows DEF body
<1>6. Log \in Seq(Item) /\ head.seq \in Nat
  BY <1>0, GlassHead, LogFacts
<1>7. x \in Item /\ x[2] = body
  BY <1>4, <1>6, Constants DEF Item
<1> HIDE DEF x
<1>8. GoodHistory(Log')
  <2>1. x[2] = OpenBody(x[2].window)
    BY <1>4, <1>7 DEF body
  <2>2. x[2].writes <= Cardinality(WritesIn(Log, x[2].window))
    <3>1. Cardinality(WritesIn(Log, NextWindow)) \in Nat /\ Cardinality(WritesIn(Log, NextWindow)) >= 0
      BY <1>6, WritesCounted
    <3> QED
      BY <1>4, <1>7, <3>1
  <2> QED
    BY <1>4, <1>5, <1>6, <1>7, <2>1, <2>2, GoodAppend DEF GlassInv
<1>9. Known' = Known \cup {NextWindow}
  BY <1>4, <1>5, <1>6, <1>7, KnownGrows
<1>10. Known' = 1..(k + 1) /\ k + 1 \in 0..MaxWindows
  BY <1>1, <1>2, <1>3, <1>9, Constants DEF Windows
<1>11. /\ draft'.id = NextWindow /\ draft'.writes = 0 /\ draft' # NoWindow
       /\ draft'.until = draft'.opened + Minutes
  BY <1>2 DEF NoWindow
<1>12. GoodWindow(draft)'
  <2>1. draft' \in Form
    <3>1. now + Minutes \in Times /\ now \in Times
      BY <1>3, Constants DEF Times, GlassInv
    <3>2. NextWindow \in 0..MaxWindows /\ 0 \in 0..MaxSeq
      BY <1>1, <1>2, <1>10, Constants
    <3> QED
      BY <3>1, <3>2 DEF Form
  <2>2. Log' \in Seq(Item)
    BY <1>5, <1>6, <1>7, AppendFacts
  <2>3. Cardinality(WritesIn(Log', NextWindow)) \in Nat /\ Cardinality(WritesIn(Log', NextWindow)) >= 0
    BY <2>2, WritesCounted
  <2> QED
    BY <1>9, <1>11, <2>1, <2>3 DEF GoodWindow
<1>13. UNCHANGED <<window, windowFile, now>>
  BY DEF Open
<1>14. ASSUME NEW w \in {window, windowFile} PROVE GoodWindow(w)'
  <2>1. GoodWindow(w)
    BY <1>14 DEF GlassInv, Held
  <2> QED
    BY <1>5, <1>6, <1>7, <2>1, GoodWindowGrows
<1>15. \A w \in Held' : GoodWindow(w)'
  <2> SUFFICES ASSUME NEW w \in Held' PROVE GoodWindow(w)'
    OBVIOUS
  <2>1. w \in {window, windowFile} \/ w = draft'
    BY <1>13 DEF Held
  <2>2. CASE w = draft'
    BY <1>12, <2>2 DEF GoodWindow
  <2> QED
    BY <1>14, <2>1, <2>2
<1>16. Phases'
  BY <1>11, <1>13 DEF Phases, At, Free
<1> QED
  BY <1>0, <1>3, <1>5, <1>8, <1>9, <1>10, <1>13, <1>15, <1>16 DEF GlassInv, x, body

LEMMA GlassInvNext == GlassInv /\ [Next]_vars => GlassInv'
<1> SUFFICES ASSUME GlassInv, [Next]_vars PROVE GlassInv'
  OBVIOUS
<1>a. JournalPart /\ JournalInv /\ Phases /\ now \in Times /\ gone \in Seq(Item)
  BY DEF GlassInv, JournalPart
<1>b. ASSUME JournalPart', head' = head, UNCHANGED <<window, windowFile, op, draft, gone>>,
             now' \in Times
      PROVE  GlassInv'
  <2>1. Held' = Held
    BY <1>b DEF Held
  <2>2. Log' = Log /\ gone' \in Seq(Item)
    BY <1>a, <1>b, LogRests
  <2>3. Phases'
    BY <1>a, <1>b, <2>2 DEF Phases, IsOpen
  <2> QED
    BY <1>b, <2>1, <2>2, <2>3, HistoryRests
<1>c. ASSUME IsOpen, NEW name \in Names, op' = At(name, "ending"),
             Journaled(CloseBody(window.id, window.writes)) \/ NotJournaled,
             UNCHANGED <<window, windowFile, draft, now, gone>>, draft = NoWindow
      PROVE  GlassInv'
  <2>1. Phases'
    BY <1>c DEF Phases, IsOpen, Free, At
  <2>2. CASE Journaled(CloseBody(window.id, window.writes))
    <3> DEFINE body == CloseBody(window.id, window.writes)
    <3>1. window.id \in Windows /\ window.writes \in 0..MaxSeq
      BY <1>c, WindowFacts DEF Held, IsOpen
    <3>2. body \in GlassBody /\ body.window = window.id /\ body.writes = window.writes
      BY <3>1, Constants DEF CloseBody, GlassBody
    <3> HIDE DEF body
    <3> QED
      BY <1>c, <2>1, <2>2, <3>2, HistoryGrows DEF body
  <2>3. CASE NotJournaled
    BY <1>a, <1>c, <2>1, <2>3, NotJournaledStep, LogRests, HistoryRests DEF Held
  <2> QED
    BY <1>c, <2>2, <2>3
<1>1. ASSUME NEW name \in Names, Expire(name)
      PROVE  GlassInv'
  <2>1. IsOpen /\ op = Free /\ draft = NoWindow
    BY <1>1, <1>a DEF Expire, Over, Phases, Free, At
  <2> QED
    BY <1>1, <1>c, <2>1 DEF Expire, historyVars
<1>2. ASSUME Close
      PROVE  GlassInv'
  <2>1. op = Free /\ draft = NoWindow
    BY <1>2, <1>a DEF Close, Phases, Free, At
  <2> QED
    BY <1>2, <1>c, <2>1 DEF Close, Names, historyVars
<1>3. ASSUME EndWindow
      PROVE  GlassInv'
  <2>1. JournalPart' /\ gone' \in Seq(Item) /\ Log' = Log
    BY <1>3, <1>a, JournalRests, LogRests DEF EndWindow
  <2>2. Held' \subseteq Held \cup {NoWindow} /\ UNCHANGED now
    BY <1>3 DEF EndWindow, SaveWindow, Held
  <2>3. draft = NoWindow
    BY <1>3, <1>a DEF EndWindow, Phases, At
  <2>4. draft' = NoWindow /\ op' \in {Free, At("open", "body")}
    BY <1>3, <2>3 DEF EndWindow
  <2>5. Phases'
    BY <2>4 DEF Phases, Free, At
  <2> QED
    BY <1>a, <2>1, <2>2, <2>5, HistoryRests
<1>4. ASSUME Open
      PROVE  GlassInv'
  <2>1. draft = NoWindow /\ ~IsOpen
    BY <1>4, <1>a DEF Open, Phases, Free, At
  <2>2. CASE NotJournaled /\ op' = Free /\ UNCHANGED draft
    <3>1. JournalPart' /\ gone' \in Seq(Item) /\ Log' = Log
      BY <1>4, <1>a, <2>2, NotJournaledStep, LogRests DEF Open, historyVars
    <3>2. Held' = Held /\ UNCHANGED now
      BY <1>4, <2>2 DEF Open, Held
    <3>3. Phases'
      BY <2>1, <2>2 DEF Phases, Free, At
    <3> QED
      BY <1>a, <3>1, <3>2, <3>3, HistoryRests
  <2> QED
    BY <1>4, <2>1, <2>2, OpenStep DEF Open
<1>5. ASSUME SaveOpened
      PROVE  GlassInv'
  <2>1. JournalPart' /\ gone' \in Seq(Item) /\ Log' = Log
    BY <1>5, <1>a, JournalRests, LogRests DEF SaveOpened
  <2>2. Held' \subseteq Held \cup {NoWindow} /\ UNCHANGED now
    BY <1>5 DEF SaveOpened, SaveWindow, Held
  <2>3. Phases'
    BY <1>5 DEF SaveOpened, Phases, Free, At
  <2> QED
    BY <1>a, <2>1, <2>2, <2>3, HistoryRests
<1>6. ASSUME Write
      PROVE  GlassInv'
  <2>1. IsOpen /\ op = Free /\ draft = NoWindow
    BY <1>6, <1>a DEF Write, Phases, Free, At
  <2>2. UNCHANGED <<window, windowFile, draft, now, gone>>
    BY <1>6 DEF Write, historyVars
  <2>3. CASE NotJournaled /\ UNCHANGED op
    BY <1>a, <1>b, <2>2, <2>3, NotJournaledStep
  <2>4. CASE Journaled(WriteBody(window.id)) /\ op' = At("write", "saving")
    <3> DEFINE body == WriteBody(window.id)
               x == <<head.seq + 1, body>>
    <3>1. window.id \in Windows /\ window.writes <= Cardinality(WritesIn(Log, window.id))
          /\ window.writes \in Nat
      BY <2>1, WindowFacts, Constants DEF Held, IsOpen
    <3>2. body \in GlassBody /\ body.window = window.id /\ body.writes = 0
      BY <3>1, Constants DEF WriteBody, GlassBody
    <3> HIDE DEF body
    <3>3. /\ Log' = Append(Log, x)
          /\ Phases' /\ UNCHANGED now => GlassInv'
      BY <2>1, <2>2, <2>4, <3>2, HistoryGrows DEF body
    <3>4. Log \in Seq(Item) /\ head.seq \in Nat /\ Len(Log) \in Nat
      BY <1>a, GlassHead, LogFacts
    <3>5. x \in Item /\ x[2] = body
      BY <3>2, <3>4, Constants DEF Item
    <3> HIDE DEF x
    <3>6. Len(Log') = Len(Log) + 1 /\ Log'[Len(Log')] = x
      BY <3>3, <3>4, <3>5, AppendFacts
    <3>7. window.writes < Cardinality(WritesIn(Log', window.id))
      <4>1. PICK c \in Nat : c = Cardinality(WritesIn(Log, window.id))
        BY <3>4, WritesCounted
      <4>2. Cardinality(WritesIn(Log', window.id)) = c + 1
        BY <3>3, <3>4, <3>5, <4>1, WritesOfAppend DEF body
      <4> QED
        BY <3>1, <4>1, <4>2
    <3>8. Len(Log') \in 1..MaxSeq
      BY <1>6, <3>4, <3>6, Constants DEF Write
    <3>9. Phases'
      BY <2>1, <2>2, <2>4, <3>5, <3>6, <3>7, <3>8 DEF Phases, IsOpen, At, Free, body
    <3> QED
      BY <2>2, <3>3, <3>9
  <2> QED
    BY <1>6, <2>3, <2>4 DEF Write
<1>7. ASSUME SaveWrite
      PROVE  GlassInv'
  <2>1. JournalPart' /\ gone' \in Seq(Item) /\ Log' = Log /\ Known' = Known
    BY <1>7, <1>a, JournalRests, LogRests DEF SaveWrite
  <2>2. /\ IsOpen /\ draft = NoWindow /\ window \in Held /\ window # NoWindow
        /\ window.writes < Cardinality(WritesIn(Log, window.id))
        /\ Len(Log) \in 1..MaxSeq
    BY <1>7, <1>a DEF SaveWrite, Phases, IsOpen, Held, At
  <2>3. GoodWindow(window) /\ window.id \in Known
    BY <2>2, WindowFacts DEF GlassInv
  <2>4. PICK c \in Nat : c = Cardinality(WritesIn(Log, window.id)) /\ c <= Len(Log)
    BY <1>a, LogFacts, WritesCounted
  <2>5. window \in Form /\ window.writes \in 0..MaxSeq
    BY <2>3 DEF GoodWindow, Form
  <2>6. window.writes + 1 \in 0..MaxSeq /\ window.writes + 1 <= c
    BY <2>2, <2>4, <2>5, Constants
  <2>7. /\ window' \in Form /\ window'.id = window.id /\ window'.writes = window.writes + 1
        /\ window'.opened = window.opened /\ window'.until = window.until
    BY <1>7, <2>5, <2>6 DEF SaveWrite, Form
  <2>8. window'.until = window'.opened + Minutes
    BY <2>2, <2>3, <2>7 DEF GoodWindow
  <2>9. GoodWindow(window)'
    BY <2>1, <2>3, <2>4, <2>6, <2>7, <2>8 DEF GoodWindow
  <2>10. windowFile' \in {window', windowFile} /\ UNCHANGED <<draft, now>> /\ op' = Free
    BY <1>7 DEF SaveWrite, SaveWindow
  <2>11. ASSUME NEW w \in Held' PROVE GoodWindow(w)'
    <3>1. w = window' \/ w \in Held
      BY <2>10, <2>11 DEF Held
    <3>2. CASE w = window'
      BY <2>9, <3>2 DEF GoodWindow
    <3>3. CASE w \in Held
      <4>1. GoodWindow(w)
        BY <3>3 DEF GlassInv
      <4> QED
        BY <2>1, <4>1 DEF GoodWindow
    <3> QED
      BY <3>1, <3>2, <3>3
  <2>12. \A w \in Held' : GoodWindow(w)'
    BY <2>11
  <2>13. Phases'
    BY <2>2, <2>10 DEF Phases, Free, At
  <2> QED
    BY <1>a, <2>1, <2>10, <2>12, <2>13 DEF GlassInv
<1>8. ASSUME Tick
      PROVE  GlassInv'
  <2>1. now' \in Times
    BY <1>8, <1>a, Constants DEF Tick, Times
  <2> QED
    BY <1>8, <1>a, <1>b, <2>1, JournalRests DEF Tick
<1>9. ASSUME NEW t \in Times, SetClock(t)
      PROVE  GlassInv'
  BY <1>9, <1>a, <1>b, JournalRests DEF SetClock
<1>10. ASSUME NEW journalReadable \in BOOLEAN, NEW windowReadable \in BOOLEAN,
              GlassRestart(journalReadable, windowReadable)
       PROVE  GlassInv'
  <2>1. JournalPart' /\ gone' \in Seq(Item) /\ Log' = Log
    BY <1>10, <1>a, RestartStep, LogRests, LostStep DEF GlassRestart
  <2>2. Held' \subseteq Held \cup {NoWindow} /\ UNCHANGED now
    BY <1>10 DEF GlassRestart, Held
  <2>3. Phases'
    BY <1>10 DEF GlassRestart, Phases, Free, At
  <2> QED
    BY <1>a, <2>1, <2>2, <2>3, HistoryRests
<1>11. ASSUME UNCHANGED <<journalVars, glassVars, gone>>
       PROVE  GlassInv'
  BY <1>11, <1>a, <1>b, JournalRests DEF glassVars
<1>12. ASSUME SettleAccepted
       PROVE  GlassInv'
  BY <1>12, <1>a, <1>b, SettledStep DEF SettleAccepted, glassVars, historyVars
<1>13. CASE UNCHANGED vars
  BY <1>11, <1>13 DEF vars, historyVars
<1>14. \A readable \in {TRUE, ~ReadMayFail} : readable \in BOOLEAN
  BY GlassAssumption
<1> QED
  BY <1>1, <1>2, <1>3, <1>4, <1>5, <1>6, <1>7, <1>8, <1>9, <1>10, <1>11, <1>12, <1>13, <1>14
     DEF Next, Upload, EngineTakes, UploadFails, LoseRequest, historyVars

LEMMA GlassInvHolds == Spec => []GlassInv
<1> QED
  BY GlassInvInit, GlassInvNext, PTL DEF Spec

-----------------------------------------------------------------------------
(* What is journaled stays journaled.                                      *)

\* The history grows by an entry of the open window, or of one never seen.
LEMMA ChainSteps ==
    ASSUME GlassInv, [Next]_vars
    PROVE  \/ /\ Log' = Log /\ Known' = Known
              /\ gone' \in {gone, GENESIS} => Chain' = Chain
              /\ gone' = GENESIS => gone = GENESIS
           \/ \E body \in GlassBody :
                 /\ Log' = Append(Log, <<head.seq + 1, body>>)
                 /\ Chain' = Append(Chain, <<head.seq + 1, body>>)
                 /\ UNCHANGED <<window, windowFile, allowed, ended, age, clockOf, left, now,
                                gone, uploadVars, base>>
                 /\ \/ IsOpen /\ body.window = window.id /\ Known' = Known /\ UNCHANGED draft
                    \/ /\ body.window \notin Known /\ Known' = Known \cup {body.window}
                       /\ draft' = [id |-> body.window, opened |-> now,
                                    until |-> now + Minutes, writes |-> 0]
<1>a. JournalPart /\ JournalInv /\ Phases /\ gone \in Seq(Item)
  BY DEF GlassInv, JournalPart
<1> DEFINE Rests == Log' = Log /\ Known' = Known /\ Chain' = Chain /\ gone' = gone
<1>b. ASSUME head' = head, UNCHANGED gone PROVE Rests
  BY <1>b, LogRests
<1>c. ASSUME NotJournaled, UNCHANGED gone PROVE Rests
  BY <1>a, <1>b, <1>c, NotJournaledStep
<1>d. ASSUME UNCHANGED journalVars, UNCHANGED gone PROVE Rests
  BY <1>a, <1>b, <1>d, JournalRests
<1>e. ASSUME IsOpen, NEW body \in GlassBody, body.window = window.id,
             body.writes = 0 \/ body.writes = window.writes, Journaled(body),
             UNCHANGED <<window, windowFile, draft, gone>>
      PROVE  /\ Log' = Append(Log, <<head.seq + 1, body>>)
             /\ Chain' = Append(Chain, <<head.seq + 1, body>>)
             /\ Known' = Known /\ UNCHANGED base
  BY <1>a, <1>e, HistoryGrows, JournaledStep
<1>f. ASSUME IsOpen
      PROVE  /\ CloseBody(window.id, window.writes) \in GlassBody
             /\ WriteBody(window.id) \in GlassBody
  <2>1. window.id \in Windows /\ window.writes \in 0..MaxSeq
    BY <1>f, WindowFacts DEF Held, IsOpen
  <2> QED
    BY <2>1, Constants DEF CloseBody, WriteBody, GlassBody
<1>1. CASE (\E name \in Names : Expire(name)) \/ Close
  <2>1. /\ IsOpen /\ UNCHANGED <<window, windowFile, draft, left, now, uploadVars, historyVars>>
        /\ Journaled(CloseBody(window.id, window.writes)) \/ NotJournaled
    BY <1>1 DEF Expire, Close, Over
  <2> DEFINE body == CloseBody(window.id, window.writes)
  <2>2. body \in GlassBody /\ body.window = window.id /\ body.writes = window.writes
    BY <1>f, <2>1 DEF CloseBody
  <2> HIDE DEF body
  <2>3. UNCHANGED <<allowed, ended, age, gone, clockOf>>
    BY <2>1 DEF historyVars
  <2> QED
    BY <1>c, <1>e, <2>1, <2>2, <2>3 DEF body
<1>2. CASE Open
  <2>1. ~IsOpen /\ UNCHANGED <<window, windowFile, left, now, uploadVars, historyVars>>
    BY <1>2, <1>a DEF Open, Phases, Free, At
  <2>2. UNCHANGED <<allowed, ended, age, gone, clockOf>>
    BY <2>1 DEF historyVars
  <2>3. CASE Journaled(OpenBody(NextWindow)) /\ op' = At("open", "saving")
             /\ draft' = [id |-> NextWindow, opened |-> now, until |-> now + Minutes,
                          writes |-> 0]
    <3>1. /\ NextWindow \notin Known /\ NextWindow \in Windows
          /\ Known' = Known \cup {NextWindow}
          /\ Log' = Append(Log, <<head.seq + 1, OpenBody(NextWindow)>>)
      BY <1>2, <2>1, <2>3, OpenStep
    <3>2. OpenBody(NextWindow) \in GlassBody /\ OpenBody(NextWindow).window = NextWindow
      BY <3>1, Constants DEF OpenBody, GlassBody
    <3>3. UNCHANGED base /\ Chain' = Append(Chain, <<head.seq + 1, OpenBody(NextWindow)>>)
      BY <1>a, <2>3, <3>2, JournaledStep
    <3> QED
      BY <2>1, <2>2, <2>3, <3>1, <3>2, <3>3
  <2> QED
    BY <1>2, <1>c, <2>2, <2>3 DEF Open
<1>3. CASE Write
  <2>1. /\ IsOpen /\ UNCHANGED <<window, windowFile, draft, left, now, uploadVars, historyVars>>
        /\ Journaled(WriteBody(window.id)) \/ NotJournaled
    BY <1>3 DEF Write
  <2> DEFINE body == WriteBody(window.id)
  <2>2. body \in GlassBody /\ body.window = window.id /\ body.writes = 0
    BY <1>f, <2>1 DEF WriteBody
  <2> HIDE DEF body
  <2>3. UNCHANGED <<allowed, ended, age, gone, clockOf>>
    BY <2>1 DEF historyVars
  <2> QED
    BY <1>c, <1>e, <2>1, <2>2, <2>3 DEF body
<1>4. ASSUME NEW journalReadable, NEW windowReadable,
             GlassRestart(journalReadable, windowReadable)
      PROVE  /\ Log' = Log /\ Known' = Known
             /\ gone' \in {gone, GENESIS} => Chain' = Chain
             /\ gone' = GENESIS => gone = GENESIS
  <2>1. CASE Load(file) /\ UNCHANGED gone
    BY <1>a, <1>b, <2>1, RestartStep
  <2>2. CASE Load(NoDocument("unreadable")) /\ gone' = Log
    <3>1. /\ Log' = Log /\ Known' = Known /\ Chain' = <<>>
          /\ gone' = GENESIS => gone = GENESIS /\ Chain = <<>>
      BY <1>a, <2>2, LostStep
    <3>2. Log = gone => Chain = <<>>
      BY <1>a, LogFacts
    <3> QED
      BY <2>2, <3>1, <3>2
  <2> QED
    BY <1>4, <2>1, <2>2 DEF GlassRestart
<1>5. CASE SettleAccepted
  BY <1>5, <1>a, <1>b, SettledStep DEF SettleAccepted, historyVars
<1>6. CASE EndWindow \/ SaveOpened \/ SaveWrite \/ Tick \/ (\E t \in Times : SetClock(t))
           \/ Upload \/ UploadFails \/ UNCHANGED vars
  BY <1>6, <1>d DEF EndWindow, SaveOpened, SaveWrite, Tick, SetClock, Upload, UploadFails, vars,
                   historyVars
<1>7. CASE (\E r \in wire : LoseRequest(r))
           \/ (\E r \in wire, n \in 1..(MaxSeq + MaxWindows + MaxRestarts) : EngineTakes(r, n))
  BY <1>7, <1>d DEF LoseRequest, EngineTakes, historyVars
<1> QED
  BY <1>1, <1>2, <1>3, <1>4, <1>5, <1>6, <1>7 DEF Next

\* An entry more leaves the entries before it.
LEMMA PrefixOfAppend ==
    ASSUME NEW h \in Seq(Item), NEW x \in Item
    PROVE  IsPrefix(h, Append(h, x))
<1> DEFINE g == Append(h, x)
<1>1. /\ g \in Seq(Item) /\ Len(h) \in Nat /\ Len(g) = Len(h) + 1
      /\ \A i \in 1..Len(h) : g[i] = h[i]
  BY AppendFacts
<1> HIDE DEF g
<1>2. Len(h) \in 0..Len(g) /\ Len(g) \in 0..Len(g) /\ Len(h) <= Len(g)
  BY <1>1
<1>3. SubSeq(g, 1, Len(h)) = h
  <2>1. \A i \in 1..Len(h) : g[i] = h[i] /\ g[i] \in Item
    BY <1>1, ElementOfSeq
  <2>2. Len(h) \in Int /\ 1 \in Int /\ Len(h) \in Nat
    BY <1>1
  <2>3. /\ SubSeq(g, 1, Len(h)) \in Seq(Item)
        /\ Len(SubSeq(g, 1, Len(h))) = Len(h)
        /\ \A i \in 1..Len(h) : SubSeq(g, 1, Len(h))[i] = g[i]
    BY <2>1, <2>2, SubSeqProperties
  <2> QED
    BY <2>1, <2>3, SeqEqual
<1>4. IsPrefix(SubSeq(g, 1, Len(h)), SubSeq(g, 1, Len(g)))
  BY <1>1, <1>2, SegmentsArePrefixes
<1>5. SubSeq(g, 1, Len(g)) = g
  BY <1>1, WholeSegment
<1> QED
  BY <1>3, <1>4, <1>5 DEF g

LEMMA LogKeeps ==
    ASSUME GlassInv, [Next]_vars
    PROVE  /\ Len(Log) \in Nat /\ Len(Log') \in {Len(Log), Len(Log) + 1}
           /\ \A i \in 1..Len(Log) : Log'[i] = Log[i]
           /\ Known \subseteq Known'
<1>1. Log \in Seq(Item) /\ Len(Log) \in Nat /\ head.seq \in Nat
  BY GlassHead, LogFacts DEF GlassInv, JournalPart
<1>2. CASE Log' = Log /\ Known' = Known
  BY <1>1, <1>2
<1>3. CASE \E body \in GlassBody : /\ Log' = Append(Log, <<head.seq + 1, body>>)
                                   /\ Known \subseteq Known'
  <2>1. PICK body \in GlassBody : /\ Log' = Append(Log, <<head.seq + 1, body>>)
                                  /\ Known \subseteq Known'
    BY <1>3
  <2> DEFINE x == <<head.seq + 1, body>>
  <2>2. x \in Item
    BY <1>1, Constants DEF Item
  <2> HIDE DEF x
  <2> QED
    BY <1>1, <2>1, <2>2, AppendFacts DEF x
<1> QED
  BY <1>2, <1>3, ChainSteps

\* The chain too only grows, as long as it is read.
LEMMA ChainKeeps ==
    ASSUME GlassInv, [Next]_vars, gone' \in {gone, GENESIS}
    PROVE  /\ IsPrefix(Chain, Chain')
           /\ gone' = GENESIS => gone = GENESIS
<1>1. Chain \in Seq(Item) /\ head.seq \in Nat
  BY GlassHead DEF GlassInv, JournalPart
<1>2. ASSUME Chain' = Chain PROVE IsPrefix(Chain, Chain')
  <2>1. SubSeq(Chain, 1, Len(Chain)) = Chain /\ Len(Chain) \in Nat
    BY <1>1, WholeSegment, LenProperties
  <2> QED
    BY <1>1, <1>2, <2>1 DEF IsPrefix
<1>3. ASSUME \E body \in GlassBody : Chain' = Append(Chain, <<head.seq + 1, body>>)
      PROVE  IsPrefix(Chain, Chain')
  <2>1. PICK body \in GlassBody : Chain' = Append(Chain, <<head.seq + 1, body>>)
    BY <1>3
  <2>2. <<head.seq + 1, body>> \in Item
    BY <1>1, Constants DEF Item
  <2> QED
    BY <1>1, <2>1, <2>2, PrefixOfAppend
<1>4. gone' = GENESIS => gone = GENESIS
  BY ChainSteps
<1> QED
  BY <1>2, <1>3, <1>4, ChainSteps

(***************************************************************************)
(* Nothing that was journaled leaves the chain: not by a failed save, an   *)
(* upload, a stop between the journal's save and the window's, or a        *)
(* restart that can read the journal.                                      *)
(***************************************************************************)
THEOREM NothingEverForgotten == Spec => NothingIsForgotten
<1> DEFINE Q == gone' = gone => IsPrefix(Chain, Chain')
<1>1. GlassInv /\ [Next]_vars => [Q]_vars
  BY ChainKeeps
<1> QED
  BY <1>1, GlassInvHolds, PTL DEF Spec, NothingIsForgotten

(***************************************************************************)
(* No count of a window, in memory, in the file or in a close, is more     *)
(* than the writes that are journaled for it.                              *)
(***************************************************************************)
THEOREM CountsAlwaysJournaled == Spec => []CountsAreJournaled
<1>1. GlassInv => CountsAreJournaled
  <2> SUFFICES ASSUME GlassInv PROVE CountsAreJournaled
    OBVIOUS
  <2>1. \A w \in {window, windowFile} : GoodWindow(w)
    BY DEF GlassInv, Held
  <2>2. \A i \in 1..Len(Log) : GoodAt(Log, i)
    BY DEF GlassInv, GoodHistory
  <2> QED
    BY <2>1, <2>2 DEF CountsAreJournaled, GoodWindow, GoodAt, WritesIn
<1> QED
  BY <1>1, GlassInvHolds, PTL

LEMMA AllowedInvHolds == Spec => []AllowedInv
<1>1. Init => AllowedInv
  BY DEF Init, AllowedInv
<1>2. GlassInv /\ AllowedInv /\ [Next]_vars => AllowedInv'
  <2> SUFFICES ASSUME GlassInv, AllowedInv, [Next]_vars PROVE AllowedInv'
    OBVIOUS
  <2>1. ASSUME NEW s \in 1..Len(Log), Log[s][2].kind = "write"
        PROVE  s \in 1..Len(Log') /\ Log'[s][2].kind = "write"
    BY <2>1, LogKeeps
  <2>2. CASE UNCHANGED allowed
    BY <2>1, <2>2 DEF AllowedInv
  <2>3. CASE SaveWrite
    <3>1. Len(Log) \in Nat
      BY LogFacts DEF GlassInv, JournalPart
    <3>2. Len(Log) \in 1..Len(Log) /\ Log[Len(Log)][2].kind = "write"
      BY <2>3, <3>1 DEF SaveWrite, GlassInv, Phases, WriteBody, At
    <3>3. allowed' = allowed \cup {Len(Log)}
      BY <2>3 DEF SaveWrite
    <3> QED
      BY <2>1, <3>2, <3>3 DEF AllowedInv
  <2> QED
    BY <2>2, <2>3 DEF Next, vars, historyVars, Expire, Close, EndWindow, Open, SaveOpened,
                      Write, Tick, SetClock, GlassRestart, Upload, EngineTakes,
                      UploadFails, LoseRequest, SettleAccepted
<1> QED
  BY <1>1, <1>2, GlassInvHolds, PTL DEF Spec

(***************************************************************************)
(* A write the gateway was told to go on with is in the file's chain, with *)
(* the opening of its window before it.                                    *)
(***************************************************************************)
THEOREM AllowedAlwaysRecorded == Spec => []AllowedAreRecorded
<1>1. GlassInv /\ AllowedInv => AllowedAreRecorded
  <2> SUFFICES ASSUME GlassInv, AllowedInv, NEW s \in allowed
               PROVE  /\ s \in 1..Len(Log)
                      /\ Log[s][2].kind = "write"
                      /\ \E i \in 1..(s - 1) : Log[i][2] = OpenBody(Log[s][2].window)
    <3>1. GlassInv => gone \o FileChain = Log
      BY DEF GlassInv, JournalPart, FileHead, FileChain, Log
    <3> QED
      BY <3>1 DEF AllowedAreRecorded
  <2>1. s \in 1..Len(Log) /\ Log[s][2].kind = "write" /\ Len(Log) \in Nat
    BY LogFacts DEF AllowedInv, GlassInv, JournalPart
  <2>2. PICK j \in 1..s : Log[j][2] = OpenBody(Log[s][2].window)
    BY <2>1 DEF GlassInv, GoodHistory, GoodAt
  <2>3. Log[j][2].kind = "open"
    BY <2>2 DEF OpenBody
  <2>4. j # s
    BY <2>1, <2>3
  <2>5. j \in 1..(s - 1)
    BY <2>1, <2>4
  <2> QED
    BY <2>1, <2>2, <2>5
<1> QED
  BY <1>1, GlassInvHolds, AllowedInvHolds, PTL

-----------------------------------------------------------------------------
(* A window that ended is over for good.                                   *)

LEMMA EndedInvNext ==
    ASSUME GlassInv, EndedInv, [Next]_vars
    PROVE  EndedInv'
<1>a. JournalPart /\ JournalInv /\ Phases
  BY DEF GlassInv, JournalPart
<1>b. Known \subseteq Known'
  BY LogKeeps
<1>c. ASSUME UNCHANGED ended, \A w \in Held' : w # NoWindow => \E v \in Held : v # NoWindow /\ v.id = w.id
      PROVE  EndedInv'
  BY <1>b, <1>c DEF EndedInv
<1>1. CASE UNCHANGED <<window, windowFile, draft, ended>>
  <2>1. Held' = Held
    BY <1>1 DEF Held
  <2> QED
    BY <1>1, <1>c, <2>1
<1>2. CASE (\E name \in Names : Expire(name)) \/ Close \/ Write
           \/ Tick \/ (\E t \in Times : SetClock(t)) \/ Upload \/ UploadFails
           \/ SettleAccepted \/ UNCHANGED vars
  BY <1>1, <1>2 DEF Expire, Close, Write, Tick, SetClock, Upload, UploadFails, SettleAccepted,
                    vars, glassVars, historyVars
<1>3. CASE (\E r \in wire : LoseRequest(r))
           \/ (\E r \in wire, n \in 1..(MaxSeq + MaxWindows + MaxRestarts) : EngineTakes(r, n))
  BY <1>1, <1>3 DEF LoseRequest, EngineTakes, glassVars, historyVars
<1>4. CASE EndWindow
  <2>1. /\ window' = NoWindow /\ UNCHANGED draft /\ windowFile' \in {NoWindow, windowFile}
        /\ ended' = IF windowFile' = NoWindow THEN ended \cup {window.id} ELSE ended
        /\ IsOpen /\ draft = NoWindow
    BY <1>4, <1>a DEF EndWindow, SaveWindow, Phases, At
  <2>2. CASE windowFile' = NoWindow
    <3>1. window.id \in Known
      BY <2>1, WindowFacts DEF Held, IsOpen
    <3>2. \A w \in Held' : w = NoWindow
      BY <2>1, <2>2 DEF Held
    <3> QED
      BY <1>b, <2>1, <2>2, <3>1, <3>2 DEF EndedInv
  <2>3. CASE windowFile' # NoWindow
    <3>1. UNCHANGED ended /\ \A w \in Held' : w = NoWindow \/ w \in Held
      BY <2>1, <2>3 DEF Held
    <3> QED
      BY <1>c, <3>1
  <2> QED
    BY <2>2, <2>3
<1>5. CASE Open
  <2>1. UNCHANGED <<window, windowFile, ended>>
    BY <1>5 DEF Open, historyVars
  <2>2. CASE UNCHANGED draft
    BY <1>1, <2>1, <2>2
  <2>3. CASE ~UNCHANGED draft
    <3>1. NextWindow \notin Known /\ draft'.id = NextWindow
      BY <1>5, <1>a, <2>3, OpenStep DEF Open, Phases, Free, At
    <3>2. \A w \in Held' : w \in Held \/ w = draft'
      BY <2>1 DEF Held
    <3> QED
      BY <1>b, <2>1, <3>1, <3>2 DEF EndedInv
  <2> QED
    BY <2>2, <2>3
<1>6. CASE SaveOpened
  <2>1. UNCHANGED ended /\ \A w \in Held' : w = NoWindow \/ w \in Held
    BY <1>6 DEF SaveOpened, SaveWindow, Held
  <2> QED
    BY <1>c, <2>1
<1>7. CASE SaveWrite
  <2>1. window \in Held /\ window # NoWindow
    BY <1>7, <1>a DEF SaveWrite, Phases, IsOpen, Held, At
  <2>2. window \in Form
    BY <2>1 DEF GlassInv, GoodWindow
  <2>3. window'.id = window.id
    BY <1>7, <2>2 DEF SaveWrite, Form
  <2>4. UNCHANGED ended /\ \A w \in Held' : w \in Held \/ w = window'
    BY <1>7 DEF SaveWrite, SaveWindow, Held
  <2> QED
    BY <1>c, <2>1, <2>3, <2>4
<1>8. CASE \E journalReadable, windowReadable \in {TRUE, ~ReadMayFail} :
               GlassRestart(journalReadable, windowReadable)
  <2>1. UNCHANGED ended /\ \A w \in Held' : w = NoWindow \/ w \in Held
    BY <1>8 DEF GlassRestart, Held
  <2> QED
    BY <1>c, <2>1
<1> QED
  BY <1>2, <1>3, <1>4, <1>5, <1>6, <1>7, <1>8 DEF Next

LEMMA EndedInvHolds == Spec => []EndedInv
<1>1. Init => EndedInv
  BY DEF Init, EndedInv, Held
<1>2. GlassInv /\ EndedInv /\ [Next]_vars => EndedInv'
  BY EndedInvNext
<1> QED
  BY <1>1, <1>2, GlassInvHolds, PTL DEF Spec

(***************************************************************************)
(* Once a window's end is in the window file, no entry of it is journaled  *)
(* any more, whatever is restarted, even on a journal that cannot be read. *)
(***************************************************************************)
THEOREM EndedStaysEnded == Spec => EndedForGood
<1> DEFINE Q == \A w \in ended : \A i \in (Len(Log) + 1)..Len(Log') : Log'[i][2].window # w
<1>1. GlassInv /\ EndedInv /\ [Next]_vars => Q
  <2> SUFFICES ASSUME GlassInv, EndedInv, [Next]_vars,
                      NEW w \in ended, NEW i \in (Len(Log) + 1)..Len(Log')
               PROVE  Log'[i][2].window # w
    OBVIOUS
  <2>1. Log \in Seq(Item) /\ Len(Log) \in Nat /\ head.seq \in Nat
    BY GlassHead, LogFacts DEF GlassInv, JournalPart
  <2>2. PICK body \in GlassBody :
           /\ Log' = Append(Log, <<head.seq + 1, body>>)
           /\ (IsOpen /\ body.window = window.id) \/ body.window \notin Known
    BY <2>1, ChainSteps
  <2> DEFINE x == <<head.seq + 1, body>>
  <2>3. x \in Item /\ x[2] = body
    BY <2>1, Constants DEF Item
  <2> HIDE DEF x
  <2>4. Len(Log') = Len(Log) + 1 /\ Log'[Len(Log) + 1] = x
    BY <2>1, <2>2, <2>3, AppendFacts DEF x
  <2>5. i = Len(Log) + 1
    BY <2>1, <2>4
  <2>6. w \in Known /\ (IsOpen => window.id \notin ended)
    BY DEF EndedInv, Held, IsOpen
  <2> QED
    BY <2>2, <2>3, <2>4, <2>5, <2>6
<1>2. GlassInv /\ EndedInv /\ [Next]_vars => [Q]_vars
  BY <1>1
<1> QED
  BY <1>2, GlassInvHolds, EndedInvHolds, PTL DEF Spec, EndedForGood

-----------------------------------------------------------------------------
(* The clocks.                                                             *)

LEMMA ClockInvNext ==
    ASSUME GlassInv, ClockInv, [Next]_vars
    PROVE  ClockInv'
<1>a. JournalPart /\ JournalInv /\ Phases /\ now \in Nat /\ now \in Times
  BY Constants DEF GlassInv, JournalPart, Times
<1>b. Known \subseteq Known'
  BY LogKeeps
<1>c. /\ left \in Nat /\ age \in [Windows -> 0..Minutes] /\ clockOf \in [Windows -> Levels]
      /\ Minutes \in Nat /\ MaxTime \in Nat /\ left <= MaxTime
  <2>1. left \in Times /\ age \in [Windows -> 0..Minutes] /\ clockOf \in [Windows -> Levels]
    BY DEF ClockInv
  <2>2. left \in Nat /\ left <= MaxTime
    BY <2>1, Constants DEF Times
  <2> QED
    BY <2>1, <2>2, Constants
<1>d. \A w \in Held : w # NoWindow => /\ w.id \in Known /\ w.id \in Windows
                                     /\ w.opened \in Nat
                                     /\ w.until = w.opened + Minutes
                                     /\ w.opened + Minutes <= MaxTime
  <2> SUFFICES ASSUME NEW w \in Held, w # NoWindow
               PROVE  /\ w.id \in Known /\ w.id \in Windows
                      /\ w.opened \in Nat
                      /\ w.until = w.opened + Minutes
                      /\ w.opened + Minutes <= MaxTime
    OBVIOUS
  <2>1. GoodWindow(w)
    BY DEF GlassInv
  <2> QED
    BY <2>1, WindowFacts, Constants DEF GoodWindow, Form, Times
<1>e. \A w \in Windows : age[w] \in Nat /\ age[w] <= Minutes
  BY <1>c
\* A step that leaves the clocks, and only moves windows that there are.
<1>f. ASSUME UNCHANGED <<left, now, age, clockOf>>,
             \A w \in Held' : w # NoWindow =>
                \E v \in Held : v # NoWindow /\ v.id = w.id /\ v.opened = w.opened,
             window' # NoWindow => IsOpen /\ window'.id = window.id
      PROVE  ClockInv'
  <2>1. \A w \in Windows \ Known' : age'[w] = 0
    BY <1>b, <1>f DEF ClockInv
  <2>2. ASSUME IsOpen', clockOf'[window'.id] # "trusted"
        PROVE  left' <= Minutes - age'[window'.id]
    BY <1>f, <2>2 DEF ClockInv, IsOpen
  <2>3. \A w \in Held' : w # NoWindow /\ clockOf'[w.id] = "steady" => age'[w.id] <= now' - w.opened
    BY <1>f DEF ClockInv
  <2> QED
    BY <1>f, <2>1, <2>2, <2>3 DEF ClockInv
<1>g. ASSUME UNCHANGED <<left, now, age, clockOf, window, windowFile, draft>>
      PROVE  ClockInv'
  BY <1>f, <1>g DEF Held, IsOpen
<1>1. CASE (\E name \in Names : Expire(name)) \/ Close \/ Write
           \/ Upload \/ UploadFails \/ SettleAccepted \/ UNCHANGED vars
  BY <1>g, <1>1 DEF Expire, Close, Write, Upload, UploadFails, SettleAccepted,
                    vars, glassVars, historyVars
<1>2. CASE (\E r \in wire : LoseRequest(r))
           \/ (\E r \in wire, n \in 1..(MaxSeq + MaxWindows + MaxRestarts) : EngineTakes(r, n))
  BY <1>g, <1>2 DEF LoseRequest, EngineTakes, glassVars, historyVars
<1>3. CASE EndWindow
  <2>1. /\ window' = NoWindow /\ left' = 0 /\ UNCHANGED <<now, age, clockOf>>
        /\ \A w \in Held' : w = NoWindow \/ w \in Held
    BY <1>3 DEF EndWindow, SaveWindow, Held
  <2>2. left' \in Times
    BY <2>1, Constants DEF Times
  <2> QED
    BY <1>b, <2>1, <2>2 DEF ClockInv, IsOpen
<1>4. CASE Open
  <2>1. UNCHANGED <<window, windowFile, left, now, age, clockOf>>
    BY <1>4 DEF Open, historyVars
  <2>2. CASE UNCHANGED draft
    BY <1>g, <2>1, <2>2
  <2>3. CASE ~UNCHANGED draft
    <3>1. /\ NextWindow \notin Known /\ NextWindow \in Windows
          /\ draft'.id = NextWindow /\ draft'.opened = now
      BY <1>4, <1>a, <2>3, OpenStep DEF Open, Phases, Free, At
    <3>2. \A w \in Held' : w \in Held \/ w = draft'
      BY <2>1 DEF Held
    <3>3. age[NextWindow] = 0 /\ 0 <= now - now
      <4>1. age[NextWindow] = 0
        BY <3>1 DEF ClockInv
      <4> QED
        BY <1>a, <4>1
    <3>4. \A w \in Held' : w # NoWindow /\ clockOf[w.id] = "steady" => age[w.id] <= now - w.opened
      BY <3>1, <3>2, <3>3 DEF ClockInv
    <3> QED
      BY <1>b, <2>1, <3>4 DEF ClockInv, IsOpen
  <2> QED
    BY <2>2, <2>3
<1>5. CASE SaveOpened
  <2>1. /\ window' = draft /\ draft # NoWindow /\ left' = Minutes
        /\ age' = [age EXCEPT ![draft.id] = 0] /\ UNCHANGED <<now, clockOf>>
        /\ \A w \in Held' : w = NoWindow \/ w \in Held
        /\ draft \in Held
    BY <1>5, <1>a DEF SaveOpened, SaveWindow, Held, Phases, At
  <2>2. draft.id \in Windows /\ draft.id \in Known /\ Minutes <= MaxTime
    BY <1>c, <1>d, <2>1
  <2>3. /\ age' \in [Windows -> 0..Minutes] /\ age'[draft.id] = 0
        /\ \A w \in Windows \ {draft.id} : age'[w] = age[w]
    BY <1>c, <2>1, <2>2
  <2>4. left' \in Times /\ left' <= Minutes - age'[window'.id]
    BY <1>c, <2>1, <2>2, <2>3 DEF Times
  <2>5. ASSUME NEW w \in Held', w # NoWindow, clockOf[w.id] = "steady"
        PROVE  age'[w.id] <= now - w.opened
    <3>1. w \in Held /\ w.id \in Windows /\ w.opened \in Nat /\ age[w.id] <= now - w.opened
          /\ age[w.id] \in Nat
      BY <1>d, <1>e, <2>1, <2>5 DEF ClockInv
    <3>2. age'[w.id] <= age[w.id] /\ age'[w.id] \in Nat
      BY <1>c, <2>3, <3>1
    <3> QED
      BY <1>a, <3>1, <3>2
  <2>6. \A w \in Windows \ Known' : age'[w] = 0
    BY <1>b, <2>3 DEF ClockInv
  <2> QED
    BY <2>1, <2>3, <2>4, <2>5, <2>6 DEF ClockInv
<1>6. CASE SaveWrite
  <2>1. window \in Held /\ window # NoWindow
    BY <1>6, <1>a DEF SaveWrite, Phases, IsOpen, Held, At
  <2>2. window \in Form
    BY <2>1 DEF GlassInv, GoodWindow
  <2>3. window'.id = window.id /\ window'.opened = window.opened
    BY <1>6, <2>2 DEF SaveWrite, Form
  <2>4. UNCHANGED <<left, now, age, clockOf>> /\ \A w \in Held' : w \in Held \/ w = window'
    BY <1>6 DEF SaveWrite, SaveWindow, Held
  <2> QED
    BY <1>f, <2>1, <2>3, <2>4 DEF IsOpen
<1>7. CASE Tick
  <2>1. /\ now' = now + 1 /\ now < MaxTime
        /\ left' = IF left > 0 THEN left - 1 ELSE 0
        /\ age' = [w \in Windows |-> IF w \in Known /\ age[w] < Minutes THEN age[w] + 1 ELSE age[w]]
        /\ UNCHANGED <<journalVars, window, windowFile, draft, gone, clockOf>>
    BY <1>7 DEF Tick
  <2>2. Known' = Known /\ Held' = Held
    BY <1>a, <2>1, JournalRests, LogRests DEF Held
  <2>3. left' \in Times
    <3>1. PICK k \in Nat : k = left /\ k <= MaxTime
      BY <1>c
    <3>2. (IF k > 0 THEN k - 1 ELSE 0) \in 0..MaxTime
      BY <3>1, Constants
    <3> QED
      BY <2>1, <3>1, <3>2 DEF Times
  <2>4. \A w \in Windows : age'[w] \in 0..Minutes /\ age'[w] <= age[w] + 1
                           /\ (w \notin Known => age'[w] = age[w])
    BY <1>c, <1>e, <2>1
  <2>5. age' \in [Windows -> 0..Minutes]
    BY <2>1, <2>4
  <2>6. ASSUME NEW w \in Held, w # NoWindow, clockOf[w.id] = "steady"
        PROVE  age'[w.id] <= now' - w.opened
    <3>1. w.id \in Windows /\ w.opened \in Nat /\ age[w.id] <= now - w.opened
      BY <1>d, <2>6 DEF ClockInv
    <3>2. age[w.id] \in Nat /\ age'[w.id] \in Nat /\ age'[w.id] <= age[w.id] + 1
      BY <1>c, <1>e, <2>4, <3>1
    <3> QED
      BY <1>a, <2>1, <3>1, <3>2
  <2>7. ASSUME IsOpen, clockOf[window.id] # "trusted"
        PROVE  left' <= Minutes - age'[window.id]
    <3>1. window.id \in Windows
      BY <1>d, <2>7 DEF Held, IsOpen
    <3>2. left <= Minutes - age[window.id]
      BY <2>7 DEF ClockInv
    <3>3. /\ age[window.id] \in Nat /\ age'[window.id] \in Nat
          /\ age'[window.id] <= age[window.id] + 1 /\ age'[window.id] <= Minutes
      BY <1>c, <1>e, <2>4, <3>1
    <3> QED
      BY <1>c, <2>1, <3>2, <3>3
  <2>8. \A w \in Windows \ Known : age'[w] = 0
    BY <2>4 DEF ClockInv
  <2> QED
    BY <2>1, <2>2, <2>3, <2>5, <2>6, <2>7, <2>8, <1>c DEF ClockInv, IsOpen, Levels
<1>8. ASSUME NEW t \in Times, SetClock(t)
      PROVE  ClockInv'
  <2>1. /\ now' = t
        /\ clockOf' = [w \in Windows |-> IF w \in Known /\ clockOf[w] = "steady" /\ t < now
                                         THEN "set back" ELSE clockOf[w]]
        /\ UNCHANGED <<journalVars, window, windowFile, draft, left, age, gone>>
    BY <1>8 DEF SetClock
  <2>2. Known' = Known /\ Held' = Held
    BY <1>a, <2>1, JournalRests, LogRests DEF Held
  <2>3. clockOf' \in [Windows -> Levels]
    BY <1>c, <2>1 DEF Levels
  <2>4. ASSUME NEW w \in Held, w # NoWindow, clockOf'[w.id] = "steady"
        PROVE  age[w.id] <= t - w.opened
    <3>1. w.id \in Windows /\ w.id \in Known /\ w.opened \in Nat /\ age[w.id] \in Nat
      BY <1>d, <1>e, <2>4
    <3>2. clockOf[w.id] = "steady" /\ ~(t < now)
      BY <2>1, <2>4, <3>1
    <3>3. age[w.id] <= now - w.opened
      BY <2>4, <3>2 DEF ClockInv
    <3>4. t \in Nat
      BY Constants DEF Times
    <3> QED
      BY <1>a, <3>1, <3>2, <3>3, <3>4
  <2>5. ASSUME IsOpen, clockOf'[window.id] # "trusted"
        PROVE  left <= Minutes - age[window.id]
    <3>1. window.id \in Windows
      BY <1>d, <2>5 DEF Held, IsOpen
    <3>2. clockOf[window.id] # "trusted"
      BY <2>1, <2>5, <3>1
    <3> QED
      BY <2>5, <3>2 DEF ClockInv
  <2> QED
    BY <2>1, <2>2, <2>3, <2>4, <2>5 DEF ClockInv, IsOpen, Levels
<1>9. ASSUME NEW journalReadable, NEW windowReadable,
             GlassRestart(journalReadable, windowReadable)
      PROVE  ClockInv'
  <2>1. /\ window' = (IF windowReadable THEN windowFile ELSE NoWindow)
        /\ left' = IF window'.until > now THEN window'.until - now ELSE 0
        /\ clockOf' = [w \in Windows |-> IF clockOf[w] = "set back" THEN "trusted" ELSE clockOf[w]]
        /\ UNCHANGED <<windowFile, now, age>> /\ draft' = NoWindow
    BY <1>9 DEF GlassRestart, Remaining
  <2>2. \A w \in Held' : w = NoWindow \/ w \in Held
    BY <2>1 DEF Held
  <2>3. window' = NoWindow \/ (window' \in Held /\ window' # NoWindow)
    BY <2>1 DEF Held
  <2>4. left' \in Times
    <3>1. window'.until \in Nat /\ window'.until <= MaxTime
      <4>1. CASE window' = NoWindow
        BY <4>1, Constants DEF NoWindow
      <4>2. CASE window' \in Held /\ window' # NoWindow
        BY <1>c, <1>d, <4>2
      <4> QED
        BY <2>3, <4>1, <4>2
    <3>2. PICK u \in Nat : u = window'.until /\ u <= MaxTime
      BY <3>1
    <3>3. PICK n \in Nat : n = now
      BY <1>a
    <3>4. (IF u > n THEN u - n ELSE 0) \in 0..MaxTime
      BY <3>2, <3>3, Constants
    <3> QED
      BY <2>1, <3>2, <3>3, <3>4 DEF Times
  <2>5. clockOf' \in [Windows -> Levels]
    BY <1>c, <2>1 DEF Levels
  <2>6. ASSUME NEW w \in Held, w # NoWindow, clockOf'[w.id] = "steady"
        PROVE  clockOf[w.id] = "steady" /\ age[w.id] <= now - w.opened
    <3>1. w.id \in Windows
      BY <1>d, <2>6
    <3>2. clockOf[w.id] = "steady"
      BY <2>1, <2>6, <3>1
    <3> QED
      BY <2>6, <3>2 DEF ClockInv
  <2>7. ASSUME window' # NoWindow, clockOf'[window'.id] # "trusted"
        PROVE  left' <= Minutes - age[window'.id]
    <3>1. window' \in Held /\ window'.id \in Windows /\ window'.opened \in Nat
          /\ window'.until = window'.opened + Minutes
      BY <1>d, <2>3, <2>7
    <3>2. clockOf'[window'.id] = "steady"
      BY <1>c, <2>1, <2>7, <3>1 DEF Levels
    <3>3. age[window'.id] <= now - window'.opened
      BY <2>6, <2>7, <3>1, <3>2
    <3>4. age[window'.id] \in Nat /\ age[window'.id] <= Minutes
      BY <1>e, <3>1
    <3> DEFINE a == age[window'.id]
               o == window'.opened
               u == window'.until
    <3>5. a \in Nat /\ o \in Nat /\ a <= Minutes /\ u = o + Minutes /\ a <= now - o
      BY <3>1, <3>3, <3>4
    <3> HIDE DEF a, o, u
    <3>6. (IF u > now THEN u - now ELSE 0) <= Minutes - a
      BY <1>a, <1>c, <3>5
    <3> QED
      BY <2>1, <3>6 DEF a, u
  <2>8. \A w \in Windows \ Known' : age[w] = 0
    BY <1>b DEF ClockInv
  <2>9. \A w \in Held' : w # NoWindow /\ clockOf'[w.id] = "steady" => age[w.id] <= now - w.opened
    BY <2>2, <2>6
  <2> QED
    BY <2>1, <2>4, <2>5, <2>7, <2>8, <2>9 DEF ClockInv, IsOpen, Levels
<1> QED
  BY <1>1, <1>2, <1>3, <1>4, <1>5, <1>6, <1>7, <1>8, <1>9 DEF Next

LEMMA ClockInvHolds == Spec => []ClockInv
<1>1. Init => ClockInv
  <2> SUFFICES ASSUME Init PROVE ClockInv
    OBVIOUS
  <2>1. /\ left = 0 /\ Held = {NoWindow} /\ ~IsOpen
        /\ age = [w \in Windows |-> 0] /\ clockOf = [w \in Windows |-> "steady"]
    BY DEF Init, Held, IsOpen
  <2>2. 0 \in Times /\ 0 \in 0..Minutes /\ "steady" \in Levels
    BY Constants DEF Times, Levels
  <2>3. age \in [Windows -> 0..Minutes] /\ clockOf \in [Windows -> Levels]
    BY <2>1, <2>2
  <2> QED
    BY <2>1, <2>2, <2>3 DEF ClockInv
<1>2. GlassInv /\ ClockInv /\ [Next]_vars => ClockInv'
  BY ClockInvNext
<1> QED
  BY <1>1, <1>2, GlassInvHolds, PTL DEF Spec

(***************************************************************************)
(* No write starts in a window longer after its opening than the window    *)
(* lasts, whatever the wall clock is set to, unless that was set back and  *)
(* a restart then trusted it.                                              *)
(***************************************************************************)
THEOREM WindowAlwaysBounded == Spec => WindowIsBounded
<1> DEFINE Q == op = Free /\ op' = At("write", "saving") =>
                   age[window.id] < Minutes \/ clockOf[window.id] = "trusted"
<1>1. GlassInv /\ ClockInv /\ [Next]_vars => [Q]_vars
  <2> SUFFICES ASSUME GlassInv, ClockInv, Next, op = Free, op' = At("write", "saving"),
                      clockOf[window.id] # "trusted"
               PROVE  age[window.id] < Minutes
    OBVIOUS
  <2>1. Write
    BY DEF Next, Expire, Close, EndWindow, Open, SaveOpened, Write, SaveWrite, Tick, SetClock,
           GlassRestart, Upload, EngineTakes, UploadFails, LoseRequest, SettleAccepted,
           glassVars, Free, At
  <2>2. IsOpen /\ left # 0
    BY <2>1 DEF Write, Over
  <2>3. window.id \in Windows
    BY <2>2, WindowFacts DEF Held, IsOpen
  <2>4. left <= Minutes - age[window.id] /\ left \in Nat /\ age[window.id] \in Nat
    <3>1. left \in Times /\ left <= Minutes - age[window.id] /\ age[window.id] \in 0..Minutes
      BY <2>2, <2>3 DEF ClockInv
    <3> QED
      BY <3>1, Constants DEF Times
  <2> QED
    BY <2>2, <2>4, Constants
<1> QED
  BY <1>1, GlassInvHolds, ClockInvHolds, PTL DEF Spec, WindowIsBounded

-----------------------------------------------------------------------------
(* The upload.                                                             *)

\* Of two initial segments one is a prefix of the other, by their lengths.
LEMMA SegmentOrder ==
    ASSUME Chain \in Seq(Item), NEW g, NEW h, Segment(g), Segment(h), Len(g) <= Len(h)
    PROVE  IsPrefix(g, h) /\ IsPrefix(g, Chain) /\ g \in Seq(Item)
<1>1. PICK m \in 0..Len(Chain), n \in 0..Len(Chain) :
         m = Len(g) /\ n = Len(h) /\ m <= n /\ g = SubSeq(Chain, 1, m) /\ h = SubSeq(Chain, 1, n)
  BY DEF Segment
<1>2. IsPrefix(g, h) /\ IsPrefix(g, Chain)
  BY <1>1, SegmentsArePrefixes
<1>3. \A i \in 1..m : Chain[i] \in Item
  <2>1. Len(Chain) \in Nat
    BY LenProperties
  <2>2. \A i \in 1..m : i \in 1..Len(Chain)
    BY <1>1, <2>1
  <2> QED
    BY <2>2, ElementOfSeq
<1>4. g \in Seq(Item)
  <2>1. m \in Int /\ 1 \in Int
    BY <1>1
  <2> QED
    BY <1>1, <1>3, <2>1, SubSeqProperties
<1> QED
  BY <1>2, <1>4

\* Any length gives one.
LEMMA SegmentOfLength ==
    ASSUME Chain \in Seq(Item), NEW m \in 0..Len(Chain)
    PROVE  /\ Len(SubSeq(Chain, 1, m)) = m
           /\ Segment(SubSeq(Chain, 1, m))
<1>1. m <= m
  BY LenProperties
<1>2. Len(SubSeq(Chain, 1, m)) = m
  BY <1>1, SegmentsArePrefixes
<1> QED
  BY <1>2 DEF Segment

\* A part of one from the start is one.
LEMMA PartOfSegment ==
    ASSUME Chain \in Seq(Item), NEW h, Segment(h), NEW n \in 0..Len(h)
    PROVE  SubSeq(h, 1, n) = SubSeq(Chain, 1, n) /\ n \in 0..Len(Chain)
<1>1. PICK m \in 0..Len(Chain) : m = Len(h) /\ h = SubSeq(Chain, 1, m)
  BY DEF Segment
<1>2. /\ Len(Chain) \in Nat /\ m \in Nat /\ n \in Nat /\ n <= m /\ m <= Len(Chain)
      /\ n \in 0..Len(Chain)
  BY <1>1, LenProperties
<1>3. \A i \in 1..Len(Chain) : Chain[i] \in Item
  BY ElementOfSeq
<1>4. \A i \in 1..m : Chain[i] \in Item
  BY <1>2, <1>3
<1>5. \A i \in 1..m : h[i] = Chain[i]
  <2>1. m \in Int /\ 1 \in Int
    BY <1>2
  <2>2. \A i \in 1..(m - 1 + 1) : SubSeq(Chain, 1, m)[i] = Chain[1 + i - 1]
    BY <1>4, <2>1, SubSeqProperties
  <2>3. \A i \in 1..m : i \in 1..(m - 1 + 1) /\ 1 + i - 1 = i
    BY <1>2
  <2> QED
    BY <1>1, <2>2, <2>3
<1>6. ASSUME NEW s, \A i \in 1..n : s[i] \in Item
      PROVE  /\ SubSeq(s, 1, n) \in Seq(Item) /\ Len(SubSeq(s, 1, n)) = n
             /\ \A i \in 1..n : SubSeq(s, 1, n)[i] = s[i]
  <2>1. n \in Int /\ 1 \in Int
    BY <1>2
  <2>2. /\ SubSeq(s, 1, n) \in Seq(Item)
        /\ Len(SubSeq(s, 1, n)) = (IF 1 <= n THEN n - 1 + 1 ELSE 0)
        /\ \A i \in 1..(n - 1 + 1) : SubSeq(s, 1, n)[i] = s[1 + i - 1]
    BY <1>6, <2>1, SubSeqProperties
  <2>3. \A i \in 1..n : i \in 1..(n - 1 + 1) /\ 1 + i - 1 = i
    BY <1>2
  <2> QED
    BY <1>2, <2>2, <2>3
<1>7. \A i \in 1..n : h[i] = Chain[i] /\ Chain[i] \in Item /\ h[i] \in Item
  BY <1>2, <1>4, <1>5
<1>8. SubSeq(h, 1, n) = SubSeq(Chain, 1, n)
  <2> DEFINE a == SubSeq(h, 1, n)
             b == SubSeq(Chain, 1, n)
  <2>1. a \in Seq(Item) /\ Len(a) = n /\ \A i \in 1..n : a[i] = h[i]
    BY <1>6, <1>7
  <2>2. b \in Seq(Item) /\ Len(b) = n /\ \A i \in 1..n : b[i] = Chain[i]
    BY <1>6, <1>7
  <2> HIDE DEF a, b
  <2>3. a = b
    BY <1>7, <2>1, <2>2, SeqEqual
  <2> QED
    BY <2>3 DEF a, b
<1> QED
  BY <1>2, <1>8

\* What was one stays one.
LEMMA SegmentKept ==
    ASSUME GlassInv, [Next]_vars, gone' = GENESIS, NEW h, Segment(h)
    PROVE  Segment(h)'
<1>1. Chain \in Seq(Item) /\ Len(Chain) \in Nat /\ head.seq \in Nat
  BY GlassHead DEF GlassInv, JournalPart
<1>2. Len(h) \in 0..Len(Chain) /\ h = SubSeq(Chain, 1, Len(h))
  BY DEF Segment
<1>3. CASE Chain' = Chain
  BY <1>2, <1>3 DEF Segment
<1>4. CASE \E body \in GlassBody : Chain' = Append(Chain, <<head.seq + 1, body>>)
  <2>1. PICK body \in GlassBody : Chain' = Append(Chain, <<head.seq + 1, body>>)
    BY <1>4
  <2>a. <<head.seq + 1, body>> \in Item
    BY <1>1, Constants DEF Item
  <2>2. PICK x \in Item : x = <<head.seq + 1, body>>
    BY <2>a
  <2>3. Chain' = Append(Chain, x) /\ Len(Chain') = Len(Chain) + 1
    BY <1>1, <2>1, <2>2, AppendFacts
  <2>4. SubSeq(Append(Chain, x), 1, Len(h)) = SubSeq(Chain, 1, Len(h))
    BY <1>1, <1>2, SegmentOfAppend
  <2> QED
    BY <1>1, <1>2, <2>3, <2>4 DEF Segment
<1> QED
  BY <1>3, <1>4, ChainSteps

\* The journal's base, its entries and the file's base are where the chain
\* has them.
LEMMA JournalSegments ==
    ASSUME JournalPart
    PROVE  /\ Segment(base.hash) /\ Len(base.hash) = base.seq
           /\ \A i \in 1..Len(entries) :
                 /\ entries[i].hash = SubSeq(Chain, 1, entries[i].seq)
                 /\ entries[i].seq \in 1..Len(Chain)
                 /\ entries[i].seq = base.seq + i
           /\ Len(LoadedBase(file).hash) \in Nat
<1>1. JournalInv
  BY DEF JournalPart
<1>2. /\ Chain \in Seq(Item) /\ Len(Chain) = base.seq + Len(entries)
      /\ base.seq \in Nat /\ Len(entries) \in Nat
  BY <1>1, GlassHead
<1>3. /\ base.hash = SubSeq(Chain, 1, base.seq)
      /\ \A i \in 1..Len(entries) :
            /\ entries[i].seq = base.seq + i
            /\ entries[i].hash = SubSeq(Chain, 1, base.seq + i)
  BY <1>1 DEF JournalInv, Chained, head, Chain
<1>4. Segment(base.hash) /\ Len(base.hash) = base.seq
  <2>1. base.seq \in 0..Len(Chain)
    BY <1>2
  <2> QED
    BY <1>2, <1>3, <2>1, SegmentOfLength
<1>5. Len(LoadedBase(file).hash) \in Nat
  <2>1. file.base \in Point
    BY <1>1 DEF JournalInv, JournalTypeOK, Document
  <2>2. Origin \in Point
    BY EmptyChains
  <2> QED
    BY <2>1, <2>2 DEF LoadedBase, Point, Hash
<1> QED
  BY <1>2, <1>3, <1>4, <1>5

LEMMA UploadInvNext ==
    ASSUME GlassInv, UploadInv, [Next]_vars, gone' = GENESIS
    PROVE  UploadInv'
<1>a. JournalPart /\ JournalInv /\ Chain \in Seq(Item) /\ Len(Chain) \in Nat
  BY GlassHead DEF GlassInv, JournalPart
<1>b. /\ Len(taken) \in Nat /\ Len(base.hash) \in Nat /\ Len(LoadedBase(file).hash) \in Nat
      /\ Len(base.hash) <= Len(taken) /\ Len(LoadedBase(file).hash) <= Len(taken)
  BY <1>a, JournalSegments, GlassHead DEF UploadInv, Segment
<1>c. NoUpload \in [state: {"idle", "sent", "answered"}, from: Hash, to: Hash, accepted: Nat]
      /\ NoUpload.state = "idle"
  BY DEF NoUpload, Hash, GENESIS
<1>d. ASSUME UNCHANGED taken, wire' \subseteq wire, upload' \in {upload, NoUpload},
             Len(base'.hash) <= Len(taken), Len(LoadedBase(file').hash) <= Len(taken)
      PROVE  UploadInv'
  <2>1. Segment(taken)'
    <3>1. PICK t : t = taken /\ t = taken'
      BY <1>d
    <3>2. Segment(t)'
      BY <3>1, SegmentKept DEF UploadInv
    <3> QED
      BY <3>1, <3>2 DEF Segment
  <2>2. ASSUME NEW r \in wire' PROVE Segment(r.from)' /\ Segment(r.to)' /\ Len(r.from) <= Len(taken')
    <3>1. r \in wire
      BY <1>d, <2>2
    <3> QED
      BY <1>d, <3>1, SegmentKept DEF UploadInv
  <2>3. wire' \subseteq [from: Hash, to: Hash]
    BY <1>d DEF UploadInv
  <2> QED
    BY <1>c, <1>d, <2>1, <2>2, <2>3 DEF UploadInv
<1>e. ASSUME UNCHANGED journalVars
      PROVE  base' = base /\ LoadedBase(file') = LoadedBase(file)
  BY <1>a, <1>e, JournalRests DEF LoadedBase, Replayable
<1>f. ASSUME UNCHANGED <<taken, wire>>, upload' \in {upload, NoUpload}, UNCHANGED journalVars
      PROVE  UploadInv'
  BY <1>b, <1>d, <1>e, <1>f
<1>g. ASSUME UNCHANGED <<taken, wire>>, upload' \in {upload, NoUpload},
             base' = base, LoadedBase(file') \in {base, LoadedBase(file)}
      PROVE  UploadInv'
  BY <1>b, <1>d, <1>g
<1>h. ASSUME UNCHANGED uploadVars, NotJournaled \/ (\E body \in GlassBody : Journaled(body))
      PROVE  UploadInv'
  BY <1>a, <1>g, <1>h, JournaledStep, NotJournaledStep DEF uploadVars
<1>i. ASSUME IsOpen
      PROVE  /\ CloseBody(window.id, window.writes) \in GlassBody
             /\ WriteBody(window.id) \in GlassBody
  <2>1. window.id \in Windows /\ window.writes \in 0..MaxSeq
    BY <1>i, WindowFacts DEF Held, IsOpen
  <2> QED
    BY <2>1, Constants DEF CloseBody, WriteBody, GlassBody
<1>1. CASE (\E name \in Names : Expire(name)) \/ Close \/ Write
  <2>1. IsOpen /\ UNCHANGED uploadVars
    BY <1>1 DEF Expire, Close, Write, Over
  <2>2. CloseBody(window.id, window.writes) \in GlassBody /\ WriteBody(window.id) \in GlassBody
    BY <1>i, <2>1
  <2>3. NotJournaled \/ (\E body \in GlassBody : Journaled(body))
    BY <1>1, <2>2 DEF Expire, Close, Write
  <2> QED
    BY <1>h, <2>1, <2>3
<1>2. CASE Open
  <2>1. UNCHANGED uploadVars
    BY <1>2 DEF Open
  <2>2. OpenBody(NextWindow) \in GlassBody
    BY <1>2, Constants DEF Open, OpenBody, GlassBody
  <2> QED
    BY <1>2, <1>h, <2>1, <2>2 DEF Open
<1>3. CASE EndWindow \/ SaveOpened \/ SaveWrite \/ Tick \/ (\E t \in Times : SetClock(t))
           \/ UploadFails \/ UNCHANGED vars
  BY <1>3, <1>f DEF EndWindow, SaveOpened, SaveWrite, Tick, SetClock, UploadFails, vars, uploadVars
<1>4. ASSUME NEW journalReadable, NEW windowReadable,
             GlassRestart(journalReadable, windowReadable)
      PROVE  UploadInv'
  <2>1. base' \in {LoadedBase(file), Origin} /\ LoadedBase(file') = base'
    BY <1>4, <1>a, RestartStep, LostStep DEF GlassRestart, GlassInv
  <2>a. Len(Origin.hash) = 0 /\ 0 <= Len(taken)
    BY <1>b, EmptySeq DEF Origin, GENESIS
  <2>2. UNCHANGED <<taken, wire>> /\ upload' = NoUpload
    BY <1>4 DEF GlassRestart
  <2> QED
    BY <1>b, <1>d, <2>1, <2>2, <2>a
<1>5. CASE Upload
  <2>1. /\ UNCHANGED <<journalVars, taken>> /\ entries # <<>>
        /\ wire' = wire \cup {[from |-> upload'.from, to |-> upload'.to]}
    BY <1>5 DEF Upload
  <2>2. PICK n \in 1..Len(entries) :
           upload' = [state |-> "sent", from |-> base.hash, to |-> entries[n].hash, accepted |-> 0]
    <3> DEFINE n == IF Len(entries) < UploadBatch THEN Len(entries) ELSE UploadBatch
    <3>1. Len(entries) \in Nat /\ Len(entries) > 0 /\ UploadBatch \in Nat /\ UploadBatch > 0
      BY <1>a, <2>1, GlassHead, EmptySeq, GlassAssumption
    <3>2. n \in 1..Len(entries)
      BY <3>1
    <3> QED
      BY <1>5, <3>2 DEF Upload
  <2>3. upload'.from = base.hash /\ upload'.to = entries[n].hash /\ upload'.state = "sent"
    BY <2>2
  <2>4. Segment(base.hash) /\ Segment(entries[n].hash)
    <3>1. /\ entries[n].hash = SubSeq(Chain, 1, entries[n].seq)
          /\ entries[n].seq \in 0..Len(Chain)
      BY <1>a, JournalSegments
    <3> QED
      BY <1>a, <3>1, JournalSegments, SegmentOfLength
  <2>5. base.hash \in Hash /\ entries[n].hash \in Hash
    <3>1. entries[n] \in Entry
      BY <1>a, GlassHead, ElementOfSeq
    <3> QED
      BY <1>a, <3>1, GlassHead DEF Point, Entry
  <2>6. upload' \in [state: {"idle", "sent", "answered"}, from: Hash, to: Hash, accepted: Nat]
    BY <2>2, <2>5
  <2>7. PICK f, g, t : f = base.hash /\ g = entries[n].hash /\ t = taken
    OBVIOUS
  <2>8. Segment(f)' /\ Segment(g)' /\ Segment(t)' /\ Len(f) <= Len(t)
    BY <1>b, <2>4, <2>7, SegmentKept DEF UploadInv
  <2>9. taken' = t /\ Segment(taken)'
    BY <2>1, <2>7, <2>8 DEF Segment
  <2>10. ASSUME NEW r \in wire' PROVE Segment(r.from)' /\ Segment(r.to)' /\ Len(r.from) <= Len(taken')
    <3>1. r \in wire \/ (r.from = f /\ r.to = g)
      BY <2>1, <2>3, <2>7, <2>10
    <3>2. CASE r \in wire
      BY <2>7, <2>9, <3>2, SegmentKept DEF UploadInv
    <3>3. CASE r.from = f /\ r.to = g
      BY <2>8, <2>9, <3>3 DEF Segment
    <3> QED
      BY <3>1, <3>2, <3>3
  <2>11. Len(base'.hash) <= Len(taken') /\ Len(LoadedBase(file').hash) <= Len(taken')
    BY <1>b, <1>e, <2>1
  <2>12. wire' \subseteq [from: Hash, to: Hash]
    BY <2>1, <2>3, <2>5 DEF UploadInv
  <2> QED
    BY <2>3, <2>6, <2>9, <2>10, <2>11, <2>12 DEF UploadInv
<1>6. ASSUME NEW r \in wire, LoseRequest(r)
      PROVE  UploadInv'
  BY <1>6, <1>b, <1>d, <1>e DEF LoseRequest
<1>7. ASSUME NEW r \in wire, NEW n \in Nat, EngineTakes(r, n)
      PROVE  UploadInv'
  <2>1. /\ wire' = wire \ {r} /\ UNCHANGED journalVars
        /\ n \in (Len(r.from) + 1)..Len(r.to)
        /\ taken' = IF Continues(r) /\ n > Len(taken) THEN SubSeq(r.to, 1, n) ELSE taken
        /\ \/ /\ Continues(r)
              /\ upload' = [upload EXCEPT !.state = "answered", !.accepted = n]
           \/ UNCHANGED upload
    BY <1>7 DEF EngineTakes
  <2>2. Segment(r.to) /\ Segment(r.from) /\ Segment(taken)
    BY DEF UploadInv
  <2>3. /\ Chain' = Chain /\ Len(r.to) \in Nat /\ Len(r.from) \in Nat /\ n \in 0..Len(r.to)
    <3>1. Len(r.to) \in Nat /\ Len(r.from) \in Nat
      BY <1>a, <2>2 DEF Segment
    <3>2. n \in 0..Len(r.to)
      BY <2>1, <3>1
    <3> QED
      BY <1>a, <2>1, <3>1, <3>2, JournalRests DEF Chain
  <2>4. \A h : Segment(h)' <=> Segment(h)
    BY <2>3 DEF Segment
  <2>5. /\ Segment(taken') /\ Len(taken') \in Nat /\ Len(taken) <= Len(taken')
        /\ Continues(r) => n <= Len(taken')
    <3>1. CASE Continues(r) /\ n > Len(taken)
      <4>1. SubSeq(r.to, 1, n) = SubSeq(Chain, 1, n) /\ n \in 0..Len(Chain)
        BY <1>a, <2>2, <2>3, PartOfSegment
      <4>2. Segment(SubSeq(Chain, 1, n)) /\ Len(SubSeq(Chain, 1, n)) = n
        BY <1>a, <4>1, SegmentOfLength
      <4>3. taken' = SubSeq(Chain, 1, n)
        BY <2>1, <3>1, <4>1
      <4> QED
        BY <1>b, <3>1, <4>2, <4>3
    <3>2. CASE ~(Continues(r) /\ n > Len(taken))
      BY <1>b, <2>1, <2>2, <3>2
    <3> QED
      BY <3>1, <3>2
  <2>6. ASSUME NEW q \in wire' PROVE Segment(q.from)' /\ Segment(q.to)' /\ Len(q.from) <= Len(taken')
    <3>1. Segment(q.from) /\ Segment(q.to) /\ Len(q.from) <= Len(taken)
      BY <2>1, <2>6 DEF UploadInv
    <3>2. Len(q.from) \in Nat
      BY <1>a, <3>1 DEF Segment
    <3> QED
      BY <1>b, <2>4, <2>5, <3>1, <3>2
  <2>7. /\ upload' \in [state: {"idle", "sent", "answered"}, from: Hash, to: Hash, accepted: Nat]
        /\ upload'.state = "answered" => upload'.accepted <= Len(taken')
    <3>1. /\ upload \in [state: {"idle", "sent", "answered"}, from: Hash, to: Hash, accepted: Nat]
          /\ upload.state = "answered" => upload.accepted <= Len(taken)
      BY DEF UploadInv
    <3>2. CASE UNCHANGED upload
      <4>1. upload.accepted \in Nat
        BY <3>1
      <4> QED
        BY <1>b, <2>5, <3>1, <3>2, <4>1
    <3>3. CASE Continues(r) /\ upload' = [upload EXCEPT !.state = "answered", !.accepted = n]
      <4>1. /\ upload' \in [state: {"idle", "sent", "answered"}, from: Hash, to: Hash, accepted: Nat]
            /\ upload'.accepted = n
        BY <3>1, <3>3
      <4> QED
        BY <2>5, <3>3, <4>1
    <3> QED
      BY <2>1, <3>2, <3>3
  <2>8. Len(base'.hash) <= Len(taken') /\ Len(LoadedBase(file').hash) <= Len(taken')
    BY <1>b, <1>e, <2>1, <2>5
  <2>9. Segment(taken)'
    BY <2>3, <2>5 DEF Segment
  <2>10. wire' \subseteq [from: Hash, to: Hash]
    BY <2>1 DEF UploadInv
  <2> QED
    BY <2>6, <2>7, <2>8, <2>9, <2>10 DEF UploadInv
<1>8. CASE SettleAccepted
  <2>1. /\ settle_through(upload.accepted) /\ upload' = NoUpload /\ UNCHANGED <<wire, taken>>
        /\ upload.accepted <= Len(taken) /\ upload.accepted \in Nat
    BY <1>8 DEF SettleAccepted, UploadInv
  <2>2. /\ LoadedBase(file') \in {base', LoadedBase(file)}
        /\ \E n \in 1..Len(entries) : base' = PointOf(entries[n]) /\ entries[n].seq <= upload.accepted
    BY <1>a, <2>1, SettledStep
  <2>3. PICK n \in 1..Len(entries) : base' = PointOf(entries[n]) /\ entries[n].seq <= upload.accepted
    BY <2>2
  <2>4. /\ entries[n].hash = SubSeq(Chain, 1, entries[n].seq)
        /\ entries[n].seq \in 1..Len(Chain)
    BY <1>a, JournalSegments
  <2>5. Len(base'.hash) = entries[n].seq
    <3>1. entries[n].seq \in 0..Len(Chain)
      BY <1>a, <2>4
    <3>2. Len(SubSeq(Chain, 1, entries[n].seq)) = entries[n].seq
      BY <1>a, <3>1, SegmentOfLength
    <3> QED
      BY <2>3, <2>4, <3>2 DEF PointOf
  <2>6. Len(base'.hash) <= Len(taken)
    BY <1>a, <1>b, <2>1, <2>3, <2>4, <2>5
  <2> QED
    BY <1>b, <1>d, <2>1, <2>2, <2>6
<1>9. \A n \in 1..(MaxSeq + MaxWindows + MaxRestarts) : n \in Nat
  OBVIOUS
<1> QED
  BY <1>1, <1>2, <1>3, <1>4, <1>5, <1>6, <1>7, <1>8, <1>9 DEF Next

\* The hashes of what waits are hashes.
LEMMA UploadTypesNext ==
    ASSUME GlassInv, UploadTypes, [Next]_vars
    PROVE  UploadTypes'
<1>a. JournalInv /\ base.hash \in Hash /\ entries \in Seq(Entry) /\ Len(entries) \in Nat
  BY GlassHead DEF GlassInv, JournalPart, Point
<1>b. NoUpload \in [state: {"idle", "sent", "answered"}, from: Hash, to: Hash, accepted: Nat]
  BY DEF NoUpload, Hash, GENESIS
<1>c. ASSUME UNCHANGED taken, wire' \subseteq wire, upload' \in {upload, NoUpload}
      PROVE  UploadTypes'
  BY <1>b, <1>c DEF UploadTypes
<1>1. CASE Upload
  <2>1. UNCHANGED taken /\ wire' = wire \cup {[from |-> upload'.from, to |-> upload'.to]}
    BY <1>1 DEF Upload
  <2>2. PICK n \in 1..Len(entries) :
           upload' = [state |-> "sent", from |-> base.hash, to |-> entries[n].hash, accepted |-> 0]
    <3> DEFINE n == IF Len(entries) < UploadBatch THEN Len(entries) ELSE UploadBatch
    <3>1. Len(entries) > 0 /\ UploadBatch \in Nat /\ UploadBatch > 0
      BY <1>a, <1>1, EmptySeq, GlassAssumption DEF Upload
    <3>2. n \in 1..Len(entries)
      BY <1>a, <3>1
    <3> QED
      BY <1>1, <3>2 DEF Upload
  <2>3. entries[n].hash \in Hash
    <3>1. entries[n] \in Entry
      BY <1>a, ElementOfSeq
    <3> QED
      BY <3>1 DEF Entry
  <2> QED
    BY <1>a, <2>1, <2>2, <2>3 DEF UploadTypes
<1>2. ASSUME NEW r \in wire, NEW n \in Nat, EngineTakes(r, n)
      PROVE  UploadTypes'
  <2>1. /\ wire' = wire \ {r}
        /\ n \in (Len(r.from) + 1)..Len(r.to)
        /\ taken' = IF Continues(r) /\ n > Len(taken) THEN SubSeq(r.to, 1, n) ELSE taken
        /\ \/ upload' = [upload EXCEPT !.state = "answered", !.accepted = n]
           \/ UNCHANGED upload
    BY <1>2 DEF EngineTakes
  <2>2. r.to \in Seq(Item) /\ r.from \in Seq(Item)
    BY DEF UploadTypes, Hash, Item
  <2>3. SubSeq(r.to, 1, n) \in Seq(Item)
    <3>1. Len(r.to) \in Nat /\ Len(r.from) \in Nat
      BY <2>2, LenProperties
    <3>2. n \in 1..Len(r.to)
      BY <2>1, <3>1
    <3>3. \A i \in 1..n : r.to[i] \in Item
      BY <2>2, <3>1, <3>2, ElementOfSeq
    <3>4. n \in Int /\ 1 \in Int
      BY <3>2
    <3> QED
      BY <3>3, <3>4, SubSeqProperties
  <2>4. taken' \in Hash
    BY <2>1, <2>3 DEF UploadTypes, Hash, Item
  <2>5. upload' \in [state: {"idle", "sent", "answered"}, from: Hash, to: Hash, accepted: Nat]
    BY <2>1 DEF UploadTypes
  <2> QED
    BY <2>1, <2>4, <2>5 DEF UploadTypes
<1>3. CASE (\E name \in Names : Expire(name)) \/ Close \/ Write \/ Open \/ EndWindow
           \/ SaveOpened \/ SaveWrite \/ Tick \/ (\E t \in Times : SetClock(t))
           \/ UploadFails \/ SettleAccepted \/ UNCHANGED vars
  BY <1>3, <1>c DEF Expire, Close, Write, Open, EndWindow, SaveOpened, SaveWrite, Tick, SetClock,
                    UploadFails, SettleAccepted, vars, uploadVars
<1>4. ASSUME NEW journalReadable, NEW windowReadable,
             GlassRestart(journalReadable, windowReadable)
      PROVE  UploadTypes'
  BY <1>4, <1>c DEF GlassRestart
<1>5. ASSUME NEW r \in wire, LoseRequest(r)
      PROVE  UploadTypes'
  BY <1>5, <1>c DEF LoseRequest
<1>6. \A n \in 1..(MaxSeq + MaxWindows + MaxRestarts) : n \in Nat
  OBVIOUS
<1> QED
  BY <1>1, <1>2, <1>3, <1>4, <1>5, <1>6 DEF Next

LEMMA UploadTypesHold == Spec => []UploadTypes
<1>1. Init => UploadTypes
  BY DEF Init, UploadTypes, NoUpload, Hash, GENESIS
<1>2. GlassInv /\ UploadTypes /\ [Next]_vars => UploadTypes'
  BY UploadTypesNext
<1> QED
  BY <1>1, <1>2, GlassInvHolds, PTL DEF Spec

LEMMA UploadKeptHolds == Spec => []UploadKept
<1>1. Init => UploadInv
  <2> SUFFICES ASSUME Init PROVE UploadInv
    OBVIOUS
  <2>1. /\ JournalInit /\ taken = <<>> /\ wire = {} /\ upload = NoUpload
    BY DEF Init, GENESIS
  <2>2. base.hash = <<>> /\ LoadedBase(file).hash = <<>> /\ Chain = <<>>
    BY <2>1 DEF JournalInit, LoadedBase, Replayable, NoDocument, Chain, head, HeadOf, Origin, GENESIS
  <2>3. Len(<<>>) = 0 /\ SubSeq(<<>>, 1, 0) = <<>>
    OBVIOUS
  <2>4. Segment(taken)
    BY <2>1, <2>2, <2>3 DEF Segment
  <2>5. upload \in [state: {"idle", "sent", "answered"}, from: Hash, to: Hash, accepted: Nat]
        /\ upload.state = "idle"
    BY <2>1 DEF NoUpload, Hash, GENESIS
  <2> QED
    BY <2>1, <2>2, <2>3, <2>4, <2>5 DEF UploadInv
<1>2. GlassInv /\ UploadKept /\ [Next]_vars => UploadKept'
  <2> SUFFICES ASSUME GlassInv, UploadKept, [Next]_vars, gone' = GENESIS PROVE UploadInv'
    BY DEF UploadKept
  <2>1. UploadInv
    BY ChainKeeps DEF UploadKept
  <2> QED
    BY <2>1, UploadInvNext
<1>3. Init => UploadKept
  BY <1>1 DEF UploadKept
<1> QED
  BY <1>2, <1>3, GlassInvHolds, PTL DEF Spec

(***************************************************************************)
(* Every request that the engine may still get continues from what it took *)
(* however late, repeated or cut short it is, and the journal settles only *)
(* what the engine holds, through every failed save and restart, as long   *)
(* as every start could read the journal.                                  *)
(***************************************************************************)
THEOREM UploadsAlwaysContinue == Spec => []UploadsContinue
<1>1. GlassInv /\ UploadKept => UploadsContinue
  <2> SUFFICES ASSUME GlassInv, UploadKept, gone = GENESIS
               PROVE  /\ \A r \in wire : Continues(r)
                      /\ IsPrefix(base.hash, taken)
                      /\ IsPrefix(taken, Chain)
    BY DEF UploadsContinue
  <2>0. UploadInv
    BY DEF UploadKept
  <2>1. JournalPart /\ Chain \in Seq(Item) /\ Len(Chain) \in Nat
    BY GlassHead DEF GlassInv, JournalPart
  <2>2. Segment(taken) /\ Len(taken) \in Nat /\ Len(taken) <= Len(taken)
    BY <2>0, <2>1 DEF UploadInv, Segment
  <2>3. ASSUME NEW r \in wire PROVE Continues(r)
    <3>1. Segment(r.from) /\ Segment(r.to) /\ Len(r.from) <= Len(taken)
      BY <2>0 DEF UploadInv
    <3>2. Len(r.to) \in Nat
      BY <2>1, <3>1 DEF Segment
    <3>3. Len(r.to) <= Len(taken) \/ Len(taken) <= Len(r.to)
      BY <2>2, <3>2
    <3> QED
      BY <2>1, <2>2, <3>1, <3>3, SegmentOrder DEF Continues
  <2>4. IsPrefix(base.hash, taken)
    BY <2>0, <2>1, <2>2, JournalSegments, SegmentOrder DEF UploadInv
  <2>5. IsPrefix(taken, Chain)
    BY <2>1, <2>2, SegmentOrder
  <2> QED
    BY <2>3, <2>4, <2>5
<1> QED
  BY <1>1, GlassInvHolds, UploadKeptHolds, PTL

-----------------------------------------------------------------------------
(* The abstract specifications: the chain and the engine's copy of it, and *)
(* the journal's own promise, which holds of the journal in its place.     *)

\* Only the engine's answer to a request changes what it took.
LEMMA TakenSteps ==
    ASSUME GlassInv, [Next]_vars
    PROVE  \/ UNCHANGED taken
           \/ UNCHANGED journalVars /\ Len(taken') > Len(taken)
<1>1. CASE \E r \in wire, n \in 1..(MaxSeq + MaxWindows + MaxRestarts) : EngineTakes(r, n)
  <2>1. PICK r \in wire, n \in 1..(MaxSeq + MaxWindows + MaxRestarts) : EngineTakes(r, n)
    BY <1>1
  <2>2. /\ UNCHANGED journalVars
        /\ n \in (Len(r.from) + 1)..Len(r.to)
        /\ taken' = IF Continues(r) /\ n > Len(taken) THEN SubSeq(r.to, 1, n) ELSE taken
    BY <2>1 DEF EngineTakes
  <2> QED
    BY <2>2
<1>2. CASE ~\E r \in wire, n \in 1..(MaxSeq + MaxWindows + MaxRestarts) : EngineTakes(r, n)
  BY <1>2 DEF Next, vars, uploadVars, Expire, Close, EndWindow, Open, SaveOpened, Write,
              SaveWrite, Tick, SetClock, GlassRestart, Upload, UploadFails, LoseRequest,
              SettleAccepted
<1> QED
  BY <1>1, <1>2

\* The settled part is where the chain has it, before a step and after it.
LEMMA SettledSegment ==
    (JournalPart => Segment(base.hash)) /\ (JournalPart => Segment(base.hash))'
<1>1. JournalPart => Segment(base.hash)
  BY JournalSegments
<1> QED
  BY <1>1, PTL

\* Every step puts one entry in, or is the engine's, or moves what is settled
\* along what the engine took, or leaves all three alone.
LEMMA RelayStep ==
    ASSUME GlassInv, UploadInv, [Next]_vars, gone' = GENESIS
    PROVE  [Delivery!Next]_(Delivery!vars)
<1>1. GlassInv' /\ UploadInv'
  BY GlassInvNext, UploadInvNext
<1>2. /\ Chain \in Seq(Item) /\ Len(Chain) \in Nat
      /\ Segment(base.hash) /\ Segment(base.hash)'
  <2>1. JournalPart /\ JournalInv /\ JournalPart'
    BY <1>1 DEF GlassInv, JournalPart
  <2> QED
    BY <2>1, SettledSegment, GlassHead
<1>3. /\ Segment(taken) /\ Segment(taken)'
      /\ Len(base'.hash) <= Len(taken')
  BY <1>1 DEF UploadInv
<1>4. CASE \E body \in GlassBody : /\ Chain' = Append(Chain, <<head.seq + 1, body>>)
                                   /\ UNCHANGED <<uploadVars, base>>
  <2>1. IsPrefix(Chain, Chain')
    BY ChainKeeps
  <2>2. Len(Chain') = Len(Chain) + 1
    BY <1>2, <1>4, AppendFacts, GlassHead, Constants DEF Item, GlassInv, JournalPart
  <2>3. UNCHANGED <<taken, base.hash>>
    BY <1>4 DEF uploadVars
  <2> QED
    BY <2>1, <2>2, <2>3 DEF Delivery!Next, Delivery!Put, Delivery!IsPrefix, IsPrefix
<1>5. CASE Chain' = Chain
  <2> DEFINE a == base.hash
             b == base'.hash
             t == taken
             u == taken'
  <2>1. /\ Segment(a) /\ Segment(b) /\ Segment(t) /\ Segment(u)
        /\ {Len(a), Len(b), Len(t), Len(u)} \subseteq Nat
    BY <1>2, <1>3, <1>5 DEF Segment
  <2>2. \A g, h : Segment(g) /\ Segment(h) /\ Len(g) <= Len(h)
                    => IsPrefix(g, h) /\ IsPrefix(g, Chain)
    BY <1>2, SegmentOrder
  <2>3. CASE UNCHANGED journalVars /\ Len(u) > Len(t)
    <3>1. UNCHANGED a
      BY <2>3 DEF journalVars
    <3>2. Len(t) <= Len(u) /\ Len(u) <= Len(u)
      BY <2>1, <2>3
    <3>3. IsPrefix(t, u) /\ t # u /\ IsPrefix(u, Chain)
      BY <2>1, <2>2, <2>3, <3>2
    <3> QED
      BY <1>5, <3>1, <3>3
         DEF Delivery!Next, Delivery!Take, Delivery!IsPrefix, IsPrefix,
             Delivery!IsStrictPrefix
  <2>4. CASE UNCHANGED taken /\ Len(a) <= Len(b)
    <3>1. IsPrefix(a, b) /\ IsPrefix(b, t)
      BY <1>3, <2>1, <2>2, <2>4
    <3> QED
      BY <1>5, <2>4, <3>1 DEF Delivery!Next, Delivery!Settle, Delivery!IsPrefix, IsPrefix
  <2>5. CASE UNCHANGED taken /\ Len(b) <= Len(a)
    <3>1. IsPrefix(b, a)
      BY <2>1, <2>2, <2>5
    <3> QED
      BY <1>5, <2>5, <3>1 DEF Delivery!Next, Delivery!Reoffer, Delivery!IsPrefix, IsPrefix
  <2> QED
    BY <2>1, <2>3, <2>4, <2>5, TakenSteps
<1> QED
  BY <1>4, <1>5, ChainSteps

(***************************************************************************)
(* Break-glass implements the relay, as long as every start can read the   *)
(* journal: whatever the windows, the upload, the network, failed saves    *)
(* and restarts do, all the rest of the system sees is a log that only     *)
(* grows, of which the engine takes more and more from the front, each     *)
(* entry once, and nothing that is settled untaken.                        *)
(***************************************************************************)
THEOREM GlassImplementsRelay == Spec => ImplementsRelay
<1> DEFINE Q == gone' = GENESIS => Delivery!Next
<1>1. Init => Delivery!Init
  BY DEF Init, JournalInit, Delivery!Init, Chain, head, HeadOf, Origin, GENESIS
<1>2. GlassInv /\ UploadKept /\ [Next]_vars => [Q]_(Delivery!vars)
  <2> SUFFICES ASSUME GlassInv, UploadKept, [Next]_vars, gone' = GENESIS
               PROVE  [Delivery!Next]_(Delivery!vars)
    OBVIOUS
  <2>1. UploadInv
    BY ChainKeeps DEF UploadKept
  <2> QED
    BY <2>1, RelayStep
<1> QED
  BY <1>1, <1>2, GlassInvHolds, UploadKeptHolds, PTL DEF Spec, ImplementsRelay

\* A durable append keeps its entry, or at most saves what there was.
LEMMA JournalingPromise ==
    ASSUME JournalInv, NEW body \in GlassBody, Journaled(body) \/ NotJournaled
    PROVE  [Promise!Undamaged]_(Promise!vars)
<1>a. body \in Body
  BY Constants
<1>1. CASE AppendKept(body, TRUE)
  BY <1>1, <1>a, AppendPromise DEF Promise!Undamaged
<1>2. CASE AppendUndone
  BY <1>2, UndonePromise DEF Promise!Undamaged
<1>3. CASE UNCHANGED journalVars
  BY <1>3, RestPromise
<1> QED
  BY <1>1, <1>2, <1>3 DEF Journaled, NotJournaled, AppendRefused

\* A start that cannot read the journal loses all of it, and nothing where
\* there was nothing.
LEMMA LostPromise ==
    ASSUME JournalPart, gone \in Seq(Item), Load(NoDocument("unreadable")), gone' = Log
    PROVE  /\ Promise!Lose
           /\ gone' = gone => UNCHANGED Promise!vars
<1> DEFINE safe == FileHead.hash
           ssafe == LoadedBase(file).hash
<1>1. /\ Chain' = <<>> /\ base'.hash = <<>>
      /\ FileHead'.hash = <<>> /\ LoadedBase(file').hash = <<>>
  BY LostStep DEF Origin, GENESIS
<1>2. /\ JournalInv /\ FileHead = head /\ Chain \in Seq(Item)
      /\ base \in Point /\ entries \in Seq(Entry) /\ Chained(base, entries)
      /\ file \in Document /\ Chained(LoadedBase(file), LoadedEntries(file))
  BY GlassHead DEF JournalPart, JournalInv, FileInv, JournalTypeOK
<1>3. /\ ssafe \in Seq(Item) /\ LoadedBase(file) \in Point /\ LoadedEntries(file) \in Seq(Entry)
  BY <1>2, LoadedHashes DEF Hash, Item
<1>4. \A h \in Seq(Item) : IsPrefix(<<>>, h)
  <2> SUFFICES ASSUME NEW h \in Seq(Item) PROVE IsPrefix(<<>>, h)
    OBVIOUS
  <2>1. 0 \in 0..Len(h) /\ 0 <= 0 /\ SubSeq(h, 1, 0) = <<>>
    BY LenProperties, SubSeqEmpty
  <2> QED
    BY <2>1, SegmentsArePrefixes
<1>5. Promise!Lose
  <2>1. safe \in Seq(Item) /\ safe = HeadOf(LoadedBase(file), LoadedEntries(file)).hash
    BY <1>2 DEF FileHead, Chain
  <2>2. IsPrefix(<<>>, safe) /\ IsPrefix(<<>>, ssafe) /\ IsPrefix(<<>>, <<>>)
    BY <1>3, <1>4, <2>1, EmptySeq
  <2> QED
    BY <1>1, <2>1, <2>2 DEF Promise!Lose, Promise!IsPrefix, IsPrefix, Chain, FileHead
<1>6. ASSUME gone' = gone PROVE UNCHANGED Promise!vars
  <2>1. Chain = <<>>
    BY <1>2, <1>6, LogFacts
  <2>2. IsPrefix(base.hash, Chain) /\ IsPrefix(ssafe, Chain)
    <3>1. IsPrefix(base.hash, HeadOf(base, entries).hash)
      BY <1>2, BaseBeforeHead
    <3>2. IsPrefix(ssafe, HeadOf(LoadedBase(file), LoadedEntries(file)).hash)
      BY <1>2, <1>3, BaseBeforeHead
    <3> QED
      BY <1>2, <3>1, <3>2 DEF FileHead, head, Chain
  <2>3. base.hash = <<>> /\ ssafe = <<>>
    <3>1. base.hash \in Seq(Item)
      BY <1>2 DEF Point, Hash, Item
    <3>2. \A h \in Seq(Item) : IsPrefix(h, <<>>) => h = <<>>
      <4> SUFFICES ASSUME NEW h \in Seq(Item), IsPrefix(h, <<>>) PROVE h = <<>>
        OBVIOUS
      <4>1. Len(h) <= 0 /\ Len(h) \in Nat
        BY LenProperties, EmptySeq DEF IsPrefix
      <4> QED
        BY <4>1, EmptySeq
    <3> QED
      BY <1>3, <2>1, <2>2, <3>1, <3>2
  <2> QED
    BY <1>1, <1>2, <2>1, <2>3 DEF Promise!vars, Chain, FileHead
<1> QED
  BY <1>5, <1>6

LEMMA GlassPromise ==
    ASSUME GlassInv, [Next]_vars
    PROVE  /\ [gone' = gone => Promise!Undamaged]_(Promise!vars)
           /\ [Promise!Next]_(Promise!vars)
<1>a. JournalPart /\ JournalInv /\ gone \in Seq(Item)
  BY DEF GlassInv, JournalPart
<1>b. Promise!Undamaged => Promise!Next
  BY DEF Promise!Undamaged, Promise!Next
<1>1. CASE (\E name \in Names : Expire(name)) \/ Close \/ Write
  <2>1. IsOpen
    BY <1>1 DEF Expire, Over, Close, Write
  <2>2. window.id \in Windows /\ window.writes \in 0..MaxSeq
    BY <2>1, WindowFacts DEF Held, IsOpen
  <2>3. /\ CloseBody(window.id, window.writes) \in GlassBody
        /\ WriteBody(window.id) \in GlassBody
    BY <2>2, Constants DEF CloseBody, WriteBody, GlassBody
  <2>4. \/ Journaled(CloseBody(window.id, window.writes)) \/ NotJournaled
        \/ Journaled(WriteBody(window.id))
    BY <1>1 DEF Expire, Close, Write
  <2> QED
    BY <1>a, <1>b, <2>3, <2>4, JournalingPromise
<1>2. CASE Open
  <2>1. NextWindow \in Windows /\ (Journaled(OpenBody(NextWindow)) \/ NotJournaled)
    BY <1>2 DEF Open
  <2>2. OpenBody(NextWindow) \in GlassBody
    BY <2>1, Constants DEF OpenBody, GlassBody
  <2> QED
    BY <1>a, <1>b, <2>1, <2>2, JournalingPromise
<1>3. CASE SettleAccepted
  <2>1. \E n \in 1..Len(entries) : Take(n)
    BY <1>3 DEF SettleAccepted, settle_through
  <2> QED
    BY <1>a, <1>b, <2>1, TakePromise DEF Promise!Undamaged
<1>4. ASSUME NEW journalReadable, NEW windowReadable,
             GlassRestart(journalReadable, windowReadable)
      PROVE  /\ [gone' = gone => Promise!Undamaged]_(Promise!vars)
             /\ [Promise!Next]_(Promise!vars)
  <2>1. CASE Load(file)
    BY <1>a, <1>b, <2>1, LoadPromise DEF Promise!Undamaged
  <2>2. CASE Load(NoDocument("unreadable")) /\ gone' = Log
    BY <1>a, <2>2, LostPromise DEF Promise!Next
  <2> QED
    BY <1>4, <2>1, <2>2 DEF GlassRestart
<1>5. CASE \/ EndWindow \/ SaveOpened \/ SaveWrite \/ Tick \/ (\E t \in Times : SetClock(t))
           \/ Upload \/ UploadFails \/ (\E r \in wire : LoseRequest(r))
           \/ \E r \in wire, n \in 1..(MaxSeq + MaxWindows + MaxRestarts) : EngineTakes(r, n)
           \/ UNCHANGED vars
  <2>1. UNCHANGED journalVars
    BY <1>5 DEF EndWindow, SaveOpened, SaveWrite, Tick, SetClock, Upload, UploadFails,
                LoseRequest, EngineTakes, vars
  <2> QED
    BY <2>1, RestPromise
<1> QED
  BY <1>1, <1>2, <1>3, <1>4, <1>5 DEF Next

\* The journal in its place under the window: what operations, clocks, uploads
\* and stops ask of it, it stays an outbox, and loses what was safe only at a
\* start that cannot read it.
THEOREM GlassKeepsOutbox == Spec => KeepsJournal /\ ImplementsOutbox
<1> DEFINE Q == gone' = gone => Promise!Undamaged
<1>1. Init => Promise!Init
  BY InitPromise DEF Init
<1>2. GlassInv /\ [Next]_vars => [Q]_(Promise!vars)
  BY GlassPromise
<1>3. GlassInv /\ [Next]_vars => [Promise!Next]_(Promise!vars)
  BY GlassPromise
<1>4. Spec => KeepsJournal
  BY <1>1, <1>2, GlassInvHolds, PTL DEF Spec, KeepsJournal
<1>5. Spec => ImplementsOutbox
  BY <1>1, <1>3, GlassInvHolds, PTL DEF Spec, ImplementsOutbox, Promise!Spec
<1> QED
  BY <1>4, <1>5

(***************************************************************************)
(* Every variable keeps its type: counts, times and hashes stay in their   *)
(* range through every order of operations, clock changes and restarts.    *)
(***************************************************************************)
THEOREM GlassTypeCorrect == Spec => []GlassTypeOK
<1>1. GlassInv /\ AllowedInv /\ EndedInv /\ ClockInv /\ UploadTypes => GlassTypeOK
  <2> SUFFICES ASSUME GlassInv, AllowedInv, EndedInv, ClockInv, UploadTypes PROVE GlassTypeOK
    OBVIOUS
  <2>1. JournalTypeOK /\ JournalPart /\ JournalInv /\ gone \in Seq(Item)
    BY DEF GlassInv, JournalPart, JournalInv
  <2>2. {window, windowFile, draft} \subseteq WindowRecord
    <3>1. {window, windowFile, draft} \subseteq Form
      BY DEF GlassInv, GoodWindow, Held
    <3>2. 0..MaxSeq \subseteq 0..(MaxSeq + 1)
      BY Constants
    <3> QED
      BY <3>1, <3>2 DEF Form, WindowRecord
  <2>3. op \in {Free} \cup [name: Names, at: {"body", "ending", "saving"}]
    BY DEF GlassInv, Phases, At, Names
  <2>4. gone \in Hash
    BY <2>1 DEF Hash, Item
  <2>5. allowed \subseteq Nat
    <3>1. Len(Log) \in Nat
      BY <2>1, LogFacts
    <3> QED
      BY <3>1 DEF AllowedInv
  <2>6. ended \subseteq Windows
    <3>1. PICK k \in 0..MaxWindows : Known = 1..k
      BY DEF GlassInv
    <3> QED
      BY <3>1, Constants DEF EndedInv, Windows
  <2> QED
    BY <2>1, <2>2, <2>3, <2>4, <2>5, <2>6 DEF GlassTypeOK, GlassInv, ClockInv, UploadTypes, Levels
<1> QED
  BY <1>1, GlassInvHolds, AllowedInvHolds, EndedInvHolds, ClockInvHolds, UploadTypesHold, PTL
=============================================================================
