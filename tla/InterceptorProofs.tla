-------------------------- MODULE InterceptorProofs --------------------------
(***************************************************************************)
(* Proofs about Interceptor.tla, for every number of writes, every ledger  *)
(* bound, every set of kinds, contents and base policy states; and, at the *)
(* end, about BasePolicy.tla.                                              *)
(***************************************************************************)
EXTENDS BasePolicy, SequenceTheorems, TLAPS

(***************************************************************************)
(* The types, with the records written out.                                *)
(***************************************************************************)
Phases == {"unused", "sent", "modify asked", "modified", "validate asked",
           "committed", "denied"}
Answer == [outcome : {"none", "allow", "review", "deny", "down"}, id : 0..MaxId]
Write == [kind : AllKinds \cup {"none"}, content : Contents \cup {"none"},
          policy : {"none", "own", "base"}, stamp : 0..MaxId, pc : Phases,
          base : Bases \cup {"none"}, seen : Bases \cup {"none"}, cited : 0..MaxId,
          answer : Answer, unanswered : BOOLEAN, brought : BOOLEAN]
Decision == [id : 1..MaxId, kind : AllKinds \cup {"none"},
             digest : [content : Contents \cup {"none"}, policy : {"none", "own", "base"}],
             applied : BOOLEAN]
Review == [key : Writes, id : 1..MaxId]
Opened == [state : {"none", "open", "approved", "used"}, written : Writes]

Typed ==
    /\ ops \in [1..MaxOps -> Write]
    /\ decisions \in Seq(Decision)
    /\ reviews \in Seq(Review)
    /\ opened \in [1..MaxId -> Opened]
    /\ base \in Bases
    /\ nextId \in 1..(MaxId + 1)
    /\ refused \subseteq 1..MaxOps
    /\ journaled \subseteq 1..MaxOps

Asked(o) == o.pc \in {"modify asked", "validate asked"}

(***************************************************************************)
(* The maps: the bounds, one entry for a key, and every entry stands for   *)
(* something the engine said: a decision was granted for what it names, a  *)
(* review was opened for its key.                                          *)
(***************************************************************************)
IdsDiffer(ds) == \A i, j \in 1..Len(ds) : ds[i].id = ds[j].id => i = j
KeysDiffer(rs) == \A i, j \in 1..Len(rs) : rs[i].key = rs[j].key => i = j

GrantedDecision(d, grants) ==
    \E w \in grants :
        /\ w.kind = d.kind
        /\ w.content = d.digest.content
        /\ w.policy = d.digest.policy

DecisionsOK ==
    /\ Len(decisions) <= MaxDecisions
    /\ IdsDiffer(decisions)
    /\ \A i \in 1..Len(decisions) :
          decisions[i].id < nextId /\ GrantedDecision(decisions[i], granted)

ReviewsOK ==
    /\ Len(reviews) <= MaxReviews
    /\ KeysDiffer(reviews)
    /\ \A i \in 1..Len(reviews) :
          /\ reviews[i].id < nextId
          /\ opened[reviews[i].id].written = reviews[i].key

(***************************************************************************)
(* An id is told once, and remembered once.                                *)
(***************************************************************************)
IdsFresh ==
    \A g \in 1..MaxOps : ops[g].answer.id # 0 =>
        /\ \A i \in 1..Len(decisions) : decisions[i].id # ops[g].answer.id
        /\ \A h \in 1..MaxOps \ {g} : ops[h].answer.id # ops[g].answer.id

(***************************************************************************)
(* A stamp is an id the engine has told, and not one still on its way.  A  *)
(* write whose stamp is not one it came with got it with this decision:    *)
(* when the decision put the base policy on, the write has it.             *)
(***************************************************************************)
StampOK(g) ==
    /\ ops[g].stamp < nextId
    /\ \A h \in 1..MaxOps : ops[h].answer.id # 0 => ops[h].answer.id # ops[g].stamp
    /\ ~ops[g].brought => \A i \in 1..Len(decisions) :
          decisions[i].id = ops[g].stamp /\ decisions[i].applied => ops[g].policy = "base"

StampsOK == \A g \in 1..MaxOps : StampOK(g)

(***************************************************************************)
(* A write: a refused one is denied, or is about to be.                    *)
(***************************************************************************)
RefusalOK(g) ==
    g \in refused =>
        \/ ops[g].pc = "denied"
        \/ Asked(ops[g]) /\ ops[g].answer.outcome \in {"review", "deny"}

(***************************************************************************)
(* An allow it is told was granted for exactly this write; it commits      *)
(* grounded or journaled, and only a committed one is journaled.           *)
(***************************************************************************)
GroundsOK(g) ==
    /\ Asked(ops[g]) /\ ops[g].answer.outcome = "allow" => Written(ops[g]) \in granted
    /\ ops[g].pc = "committed" => g \in journaled \/ \E w \in granted : Grounds(w, ops[g])
    /\ g \in journaled => ops[g].pc = "committed" /\ Coverable(ops[g].kind)

(***************************************************************************)
(* A bare create: the call in modify_operation works with what it saw, and *)
(* afterwards only "none" leaves a create bare.                            *)
(***************************************************************************)
BareOK(g) ==
    ops[g].kind = "create" /\ ops[g].policy = "none" =>
        /\ ops[g].pc = "modify asked" =>
              ops[g].base = ops[g].seen /\ ops[g].base \in {"none", "set"}
        /\ ops[g].pc \in {"modified", "validate asked", "committed"} => ops[g].seen = "none"

(***************************************************************************)
(* The review it cites, or is told of, was opened for exactly this write.  *)
(***************************************************************************)
CitesOK(g) ==
    /\ ops[g].answer.id < nextId
    /\ Asked(ops[g]) /\ ops[g].cited # 0 =>
          /\ ops[g].cited < nextId
          /\ opened[ops[g].cited].written = Written(ops[g])
    /\ Asked(ops[g]) /\ ops[g].answer.outcome = "review" /\ ops[g].answer.id # 0
          => opened[ops[g].answer.id].written = Written(ops[g])

WriteOK(g) == RefusalOK(g) /\ GroundsOK(g) /\ BareOK(g) /\ CitesOK(g)

InterceptorInv ==
    /\ Typed
    /\ DecisionsOK
    /\ ReviewsOK
    /\ IdsFresh
    /\ StampsOK
    /\ \A g \in 1..MaxOps : WriteOK(g)

-----------------------------------------------------------------------------
(* What the actions do to a write.                                         *)

\* Only this write changes.
OnlyOf(g) == \A h \in 1..MaxOps \ {g} : ops'[h] = ops[h]

\* What a write asks for stays.
SameWrite(o, p) ==
    /\ o.kind = p.kind
    /\ o.content = p.content
    /\ o.policy = p.policy
    /\ o.stamp = p.stamp
    /\ o.brought = p.brought

\* No id, no answer, no base.
LEMMA Nothing ==
    /\ MaxId \in Nat
    /\ 0 \in 0..MaxId
    /\ NoAnswer \in Answer
    /\ NoAnswer.id = 0
    /\ NoAnswer.outcome = "none"
BY InterceptorAssumption DEF NoAnswer, Answer

\* The engine's ids start at one.
LEMMA IdsStartAtOne ==
    ASSUME Typed
    PROVE  nextId \in Nat /\ 0 < nextId
BY Nothing DEF Typed

\* An unused write.
LEMMA UnusedShape == Unused \in Write
BY Nothing DEF Unused, Write, Phases

\* A write that goes on carries what it asks for, and no answer.
LEMMA PassShape ==
    ASSUME Typed, NEW g \in 1..MaxOps, NEW o \in Write, NEW pc \in Phases, Pass(g, o, pc)
    PROVE  /\ ops' \in [1..MaxOps -> Write]
           /\ OnlyOf(g)
           /\ SameWrite(ops'[g], o)
           /\ ops'[g].pc = pc
           /\ ops'[g].seen = o.seen
           /\ ops'[g].answer = NoAnswer
<1> DEFINE p == [Done(o) EXCEPT !.pc = pc]
<1>1. NoAnswer \in Answer /\ 0 \in 0..MaxId
  BY Nothing
<1>2. Done(o) \in Write
  BY <1>1 DEF Done, Write
<1>3. p \in Write
  BY <1>2 DEF Write
<1>4. /\ SameWrite(p, o)
      /\ p.pc = pc
      /\ p.seen = o.seen
      /\ p.answer = NoAnswer
  BY <1>1 DEF Done, Write, SameWrite
<1>5. ops' = [ops EXCEPT ![g] = p]
  BY DEF Pass
<1> HIDE DEF p
<1>6. QED
  BY <1>3, <1>4, <1>5 DEF Typed, OnlyOf

\* A write that is refused asks for nothing any more.
LEMMA RefuseShape ==
    ASSUME Typed, NEW g \in 1..MaxOps, Refuse(g)
    PROVE  /\ ops' \in [1..MaxOps -> Write]
           /\ OnlyOf(g)
           /\ ops'[g].pc = "denied"
           /\ ops'[g].answer = NoAnswer
           /\ ops'[g].stamp = 0
<1> DEFINE p == [Unused EXCEPT !.kind = ops[g].kind, !.pc = "denied"]
<1>1. ops[g].kind \in AllKinds \cup {"none"}
  BY DEF Typed, Write
<1>2. /\ p \in Write
      /\ p.pc = "denied"
      /\ p.answer = NoAnswer
      /\ p.stamp = 0
  BY <1>1, UnusedShape DEF Unused, Write, Phases
<1>3. ops' = [ops EXCEPT ![g] = p]
  BY DEF Refuse
<1> HIDE DEF p
<1>4. QED
  BY <1>2, <1>3 DEF Typed, OnlyOf

\* The review that is cited is the one the map has for the key, or none.
LEMMA CitedShape ==
    ASSUME reviews \in Seq(Review), NEW key
    PROVE  /\ CitedReview(key) \in 0..MaxId
           /\ CitedReview(key) # 0 => \E i \in 1..Len(reviews) :
                 reviews[i].key = key /\ CitedReview(key) = reviews[i].id
<1>1. CASE HasKey(reviews, key)
  <2>1. PICK i \in 1..Len(reviews) : reviews[i].key = key /\ CitedReview(key) = reviews[i].id
    BY <1>1 DEF HasKey, KeyIndex, CitedReview, CitedReviewIn
  <2>2. reviews[i] \in Review
    BY ElementOfSeq
  <2>3. reviews[i].id \in 0..MaxId
    BY <2>2, Nothing DEF Review
  <2>4. QED
    BY <2>1, <2>3
<1>2. CASE ~HasKey(reviews, key)
  BY <1>2, Nothing DEF CitedReview, CitedReviewIn
<1>3. QED
  BY <1>1, <1>2

\* A write that asks the engine is what it was, with the base policy of now.
LEMMA AskShape ==
    ASSUME Typed, NEW g \in 1..MaxOps, NEW pc \in {"modify asked", "validate asked"},
           Ask(g, pc)
    PROVE  /\ ops' \in [1..MaxOps -> Write]
           /\ OnlyOf(g)
           /\ SameWrite(ops'[g], ops[g])
           /\ ops'[g].pc = pc
           /\ ops'[g].base = base
           /\ ops'[g].seen = IF pc = "modify asked" THEN base ELSE ops[g].seen
           /\ ops'[g].cited = CitedReview(Written(ops[g]))
           /\ ops'[g].answer = NoAnswer
<1> DEFINE o == ops[g]
           c == CitedReview(ReviewKey(o))
           p == [o EXCEPT !.pc = pc,
                          !.base = base,
                          !.seen = IF pc = "modify asked" THEN base ELSE @,
                          !.cited = c,
                          !.answer = NoAnswer]
<1>1. /\ o \in Write
      /\ NoAnswer \in Answer
      /\ base \in Bases \cup {"none"}
      /\ pc \in Phases
  <2>1. NoAnswer \in Answer
    BY Nothing
  <2>2. o \in Write /\ base \in Bases
    BY DEF Typed
  <2>3. pc \in Phases
    BY DEF Phases
  <2>4. QED
    BY <2>1, <2>2, <2>3
<1>2. c \in 0..MaxId
  BY CitedShape DEF Typed
<1>3. ops' = [ops EXCEPT ![g] = p]
  BY DEF Ask, Typed
<1>4. c = CitedReview(Written(o))
  BY DEF ReviewKey
<1> HIDE DEF o, c
<1>5. /\ p \in Write
      /\ SameWrite(p, o)
      /\ p.pc = pc
      /\ p.base = base
      /\ p.seen = IF pc = "modify asked" THEN base ELSE o.seen
      /\ p.cited = c
      /\ p.answer = NoAnswer
  BY <1>1, <1>2 DEF Write, SameWrite
<1> HIDE DEF p
<1>6. QED
  BY <1>3, <1>4, <1>5 DEF Typed, OnlyOf, o

\* A write that is told an answer is what it was.
LEMMA TellShape ==
    ASSUME Typed, NEW g \in 1..MaxOps, NEW a \in Answer,
           ops' = [ops EXCEPT ![g].answer = a]
    PROVE  /\ ops' \in [1..MaxOps -> Write]
           /\ OnlyOf(g)
           /\ SameWrite(ops'[g], ops[g])
           /\ ops'[g].pc = ops[g].pc
           /\ ops'[g].base = ops[g].base
           /\ ops'[g].seen = ops[g].seen
           /\ ops'[g].cited = ops[g].cited
           /\ ops'[g].answer = a
<1> DEFINE p == [ops[g] EXCEPT !.answer = a]
<1>1. ops[g] \in Write
  BY DEF Typed
<1>2. /\ p \in Write
      /\ SameWrite(p, ops[g])
      /\ p.pc = ops[g].pc
      /\ p.base = ops[g].base
      /\ p.seen = ops[g].seen
      /\ p.cited = ops[g].cited
      /\ p.answer = a
  BY <1>1 DEF Write, SameWrite
<1>3. ops' = [ops EXCEPT ![g] = p]
  BY DEF Typed
<1> HIDE DEF p
<1>4. QED
  BY <1>2, <1>3 DEF Typed, OnlyOf

-----------------------------------------------------------------------------
(* What the ledger does to its maps.                                       *)

\* The oldest entry goes: what is left is a shift by one.
LEMMA TailShape ==
    ASSUME NEW S, NEW s \in Seq(S), s # <<>>
    PROVE  /\ Tail(s) \in Seq(S)
           /\ Len(Tail(s)) = Len(s) - 1
           /\ Len(s) \in Nat \ {0}
           /\ \A i \in 1..Len(Tail(s)) : i + 1 \in 1..Len(s) /\ Tail(s)[i] = s[i + 1]
<1>1. /\ Tail(s) \in Seq(S)
      /\ Len(Tail(s)) = Len(s) - 1
      /\ \A i \in 1..Len(Tail(s)) : Tail(s)[i] = s[i + 1]
  BY HeadTailProperties
<1>2. Len(s) \in Nat \ {0}
  BY EmptySeq
<1>3. QED
  BY <1>1, <1>2

\* An entry is written over a bound: the map stays within it.
LEMMA WithinBound ==
    ASSUME NEW S, NEW s \in Seq(S), NEW x \in S, NEW max \in Nat \ {0}, Len(s) <= max
    PROVE  /\ Bounded(Append(s, x), max) \in Seq(S)
           /\ Len(Bounded(Append(s, x), max)) <= max
<1> DEFINE a == Append(s, x)
<1>1. /\ a \in Seq(S)
      /\ Len(a) = Len(s) + 1
      /\ Len(s) \in Nat
  BY AppendProperties, LenProperties
<1> HIDE DEF a
<1>2. a # <<>>
  BY <1>1, EmptySeq
<1>3. /\ Tail(a) \in Seq(S)
      /\ Len(Tail(a)) = Len(a) - 1
  BY <1>1, <1>2, TailShape
<1>4. /\ Bounded(a, max) \in Seq(S)
      /\ Len(Bounded(a, max)) <= max
  BY <1>1, <1>3 DEF Bounded
<1>5. QED
  BY <1>4 DEF a

\* t is s with x at its end, and perhaps without its oldest entry.
Pushed(t, s, x) ==
    /\ Len(t) \in {Len(s), Len(s) + 1}
    /\ \A i \in 1..(Len(t) - 1) :
          /\ i + Len(s) + 1 - Len(t) \in 1..Len(s)
          /\ t[i] = s[i + Len(s) + 1 - Len(t)]
    /\ t[Len(t)] = x

\* The new entry is the last, and the oldest may have gone.
LEMMA BoundedShape ==
    ASSUME NEW S, NEW s \in Seq(S), NEW x \in S, NEW max \in Nat \ {0}, Len(s) <= max
    PROVE  Pushed(Bounded(Append(s, x), max), s, x)
<1> DEFINE a == Append(s, x)
           t == Bounded(a, max)
<1> SUFFICES /\ Len(t) \in {Len(s), Len(s) + 1}
             /\ \A i \in 1..(Len(t) - 1) :
                   /\ i + Len(s) + 1 - Len(t) \in 1..Len(s)
                   /\ t[i] = s[i + Len(s) + 1 - Len(t)]
             /\ t[Len(t)] = x
  BY DEF Pushed
<1>1. /\ a \in Seq(S)
      /\ Len(a) = Len(s) + 1
      /\ \A i \in 1..Len(s) : a[i] = s[i]
      /\ a[Len(s) + 1] = x
      /\ Len(s) \in Nat
  BY AppendProperties, LenProperties
<1> HIDE DEF a, t
<1>2. CASE Len(a) > max
  <2>1. t = Tail(a)
    BY <1>2 DEF Bounded, t
  <2>2. a # <<>>
    BY <1>1, <1>2, EmptySeq
  <2>3. /\ t \in Seq(S)
        /\ Len(t) = Len(s)
        /\ \A i \in 1..Len(t) : t[i] = a[i + 1]
    BY <1>1, <2>1, <2>2, TailShape
  <2>4. Len(s) = max
    BY <1>1, <1>2
  <2>5. \A i \in 1..(Len(t) - 1) : i + Len(s) + 1 - Len(t) = i + 1
    BY <1>1, <2>3
  <2>6. \A i \in 1..(Len(t) - 1) : i + 1 \in 1..Len(s) /\ t[i] = s[i + 1]
    BY <1>1, <2>3
  <2>7. t[Len(t)] = x
    BY <1>1, <2>3, <2>4
  <2>8. QED
    BY <2>3, <2>4, <2>5, <2>6, <2>7
<1>3. CASE ~(Len(a) > max)
  <2>1. t = a
    BY <1>3 DEF Bounded, t
  <2>2. Len(t) <= max
    BY <1>1, <1>3, <2>1
  <2>3. \A i \in 1..(Len(t) - 1) : i + Len(s) + 1 - Len(t) = i
    BY <1>1, <2>1
  <2>4. QED
    BY <1>1, <2>1, <2>2, <2>3
<1>4. QED
  BY <1>2, <1>3

\* An entry is taken out: those behind it move up.
LEMMA RemoveAtShape ==
    ASSUME NEW S, NEW s \in Seq(S), NEW n \in 1..Len(s)
    PROVE  /\ RemoveAt(s, n) \in Seq(S)
           /\ Len(RemoveAt(s, n)) = Len(s) - 1
           /\ \A j \in 1..(Len(s) - 1) :
                 RemoveAt(s, n)[j] = IF j < n THEN s[j] ELSE s[j + 1]
<1> DEFINE front == SubSeq(s, 1, n - 1)
           back == SubSeq(s, n + 1, Len(s))
<1>1. /\ Len(s) \in Nat
      /\ n \in Nat
      /\ 1 <= n
      /\ n <= Len(s)
      /\ \A j \in 1..Len(s) : s[j] \in S
  BY ElementOfSeq, LenProperties
<1>2. /\ front \in Seq(S)
      /\ Len(front) = n - 1
      /\ \A j \in 1..(n - 1) : front[j] = s[j]
  <2>1. \A j \in 1..(n - 1) : s[j] \in S
    BY <1>1
  <2>2. /\ front \in Seq(S)
        /\ Len(front) = IF 1 <= n - 1 THEN (n - 1) - 1 + 1 ELSE 0
        /\ \A j \in 1..((n - 1) - 1 + 1) : front[j] = s[1 + j - 1]
    BY <1>1, <2>1, SubSeqProperties
  <2> HIDE DEF front
  <2>3. QED
    BY <1>1, <2>2
<1>3. /\ back \in Seq(S)
      /\ Len(back) = Len(s) - n
      /\ \A j \in 1..(Len(s) - n) : back[j] = s[n + j]
  <2>1. \A j \in (n + 1)..Len(s) : s[j] \in S
    BY <1>1
  <2>2. n + 1 \in Int /\ Len(s) \in Int
    BY <1>1
  <2>3. /\ back \in Seq(S)
        /\ Len(back) = IF n + 1 <= Len(s) THEN Len(s) - (n + 1) + 1 ELSE 0
        /\ \A j \in 1..(Len(s) - (n + 1) + 1) : back[j] = s[(n + 1) + j - 1]
    BY <2>1, <2>2, SubSeqProperties
  <2> HIDE DEF back
  <2>4. ASSUME NEW j \in 1..(Len(s) - n)
        PROVE  back[j] = s[n + j]
    <3>1. j \in 1..(Len(s) - (n + 1) + 1) /\ (n + 1) + j - 1 = n + j
      BY <1>1
    <3>2. QED
      BY <2>3, <3>1
  <2>5. Len(back) = Len(s) - n
    BY <1>1, <2>3
  <2>6. QED
    BY <2>3, <2>4, <2>5
<1>4. RemoveAt(s, n) = front \o back
  BY DEF RemoveAt
<1> HIDE DEF front, back
<1>5. /\ front \o back \in Seq(S)
      /\ Len(front \o back) = Len(front) + Len(back)
      /\ \A j \in 1..(Len(front) + Len(back)) : (front \o back)[j] =
            IF j <= Len(front) THEN front[j] ELSE back[j - Len(front)]
  BY <1>2, <1>3, ConcatProperties
<1>6. ASSUME NEW j \in 1..(Len(s) - 1)
      PROVE  (front \o back)[j] = IF j < n THEN s[j] ELSE s[j + 1]
  <2>1. j \in 1..(Len(front) + Len(back))
    BY <1>1, <1>2, <1>3
  <2>2. CASE j < n
    BY <1>1, <1>2, <1>5, <2>1, <2>2
  <2>3. CASE ~(j < n)
    <3>1. j - Len(front) \in 1..(Len(s) - n) /\ n + (j - Len(front)) = j + 1
      BY <1>1, <1>2, <2>3
    <3>2. ~(j <= Len(front))
      BY <1>1, <1>2, <2>3
    <3>3. (front \o back)[j] = back[j - Len(front)]
      BY <1>5, <2>1, <3>2
    <3>4. QED
      BY <1>3, <2>3, <3>1, <3>3
  <2>4. QED
    BY <2>2, <2>3
<1>7. Len(front \o back) = Len(s) - 1
  BY <1>1, <1>2, <1>3, <1>5
<1>8. QED
  BY <1>4, <1>5, <1>6, <1>7

\* Without its key, the map of reviews has every other entry, and not that.
LEMMA WithoutShape ==
    ASSUME reviews \in Seq(Review), KeysDiffer(reviews), NEW key,
           NEW rs, rs = WithoutKey(key)
    PROVE  /\ rs \in Seq(Review)
           /\ Len(rs) <= Len(reviews)
           /\ KeysDiffer(rs)
           /\ \A i \in 1..Len(rs) :
                 /\ rs[i].key # key
                 /\ \E j \in 1..Len(reviews) : rs[i] = reviews[j]
<1>0. Len(reviews) \in Nat
  BY LenProperties
<1>1. CASE HasKey(reviews, key)
  <2> DEFINE n == KeyIndex(reviews, key)
  <2>1. n \in 1..Len(reviews) /\ reviews[n].key = key
    BY <1>1 DEF HasKey, KeyIndex
  <2>2. rs = RemoveAt(reviews, n)
    BY <1>1 DEF WithoutKey
  <2> HIDE DEF n
  <2>3. /\ rs \in Seq(Review)
        /\ Len(rs) = Len(reviews) - 1
        /\ \A j \in 1..(Len(reviews) - 1) : rs[j] = IF j < n THEN reviews[j] ELSE reviews[j + 1]
    BY <2>1, <2>2, RemoveAtShape
  <2> DEFINE from(i) == IF i < n THEN i ELSE i + 1
  <2>4. ASSUME NEW i \in 1..Len(rs)
        PROVE  /\ from(i) \in 1..Len(reviews)
               /\ from(i) # n
               /\ rs[i] = reviews[from(i)]
    BY <1>0, <2>1, <2>3
  <2>5. \A i, j \in 1..Len(rs) : from(i) = from(j) => i = j
    BY <1>0, <2>1, <2>3
  <2> HIDE DEF from
  <2>6. KeysDiffer(rs)
    BY <2>4, <2>5 DEF KeysDiffer
  <2>7. \A i \in 1..Len(rs) : rs[i].key # key
    BY <2>1, <2>4 DEF KeysDiffer
  <2>8. Len(rs) <= Len(reviews)
    BY <1>0, <2>3
  <2>9. QED
    BY <2>3, <2>4, <2>6, <2>7, <2>8
<1>2. CASE ~HasKey(reviews, key)
  BY <1>0, <1>2 DEF WithoutKey, HasKey
<1>3. QED
  BY <1>1, <1>2

\* What an answer does to the map of reviews: what is in it afterwards was in
\* it before, or is the review just told.
LEMMA LearnShape ==
    ASSUME Typed, ReviewsOK, NEW g \in 1..MaxOps, Learn(g)
    PROVE  /\ reviews' \in Seq(Review)
           /\ Len(reviews') <= MaxReviews
           /\ KeysDiffer(reviews')
           /\ \A i \in 1..Len(reviews') :
                 \/ \E j \in 1..Len(reviews) : reviews'[i] = reviews[j]
                 \/ /\ ops[g].answer.outcome = "review"
                    /\ ops[g].answer.id # 0
                    /\ reviews'[i].key = Written(ops[g])
                    /\ reviews'[i].id = ops[g].answer.id
<1> DEFINE key == Written(ops[g])
           id == ops[g].answer.id
           rs == WithoutKey(key)
<1>1. /\ reviews \in Seq(Review)
      /\ Len(reviews) <= MaxReviews
      /\ Len(reviews) \in Nat
      /\ KeysDiffer(reviews)
      /\ MaxReviews \in Nat \ {0}
  BY LenProperties, InterceptorAssumption DEF Typed, ReviewsOK
<1>2. /\ key \in Writes
      /\ id \in 0..MaxId
  BY DEF Typed, Write, Answer, Writes, Written
<1>3. /\ rs \in Seq(Review)
      /\ Len(rs) <= Len(reviews)
      /\ Len(rs) \in Nat
      /\ KeysDiffer(rs)
      /\ \A i \in 1..Len(rs) :
            rs[i].key # key /\ \E j \in 1..Len(reviews) : rs[i] = reviews[j]
  BY <1>1, WithoutShape, LenProperties
<1>4. CASE ops[g].answer.outcome = "review" /\ id # 0
  <2> DEFINE x == [key |-> key, id |-> id]
  <2>1. reviews' = Bounded(Append(rs, x), MaxReviews)
    BY <1>4 DEF Learn, ReviewKey, RememberReview
  <2>2. x \in Review /\ x.key = key /\ x.id = id
    BY <1>2, <1>4, Nothing DEF Review
  <2> HIDE DEF x, rs, key, id
  <2>3. Len(rs) <= MaxReviews
    BY <1>1, <1>3
  <2>4. /\ reviews' \in Seq(Review)
        /\ Len(reviews') <= MaxReviews
        /\ Len(reviews') \in {Len(rs), Len(rs) + 1}
        /\ \A i \in 1..(Len(reviews') - 1) :
              /\ i + Len(rs) + 1 - Len(reviews') \in 1..Len(rs)
              /\ reviews'[i] = rs[i + Len(rs) + 1 - Len(reviews')]
        /\ reviews'[Len(reviews')] = x
    <3>1. rs \in Seq(Review) /\ x \in Review /\ MaxReviews \in Nat \ {0} /\ Len(rs) <= MaxReviews
      BY <1>1, <1>3, <2>1, <2>2, <2>3
    <3>2. reviews' \in Seq(Review) /\ Len(reviews') <= MaxReviews
      BY <2>1, <3>1, WithinBound
    <3>3. Pushed(reviews', rs, x)
      BY <2>1, <3>1, BoundedShape
    <3>4. QED
      BY <3>2, <3>3 DEF Pushed
  <2> DEFINE k == Len(rs) + 1 - Len(reviews')
  <2>5. /\ Len(reviews') \in Nat
        /\ k \in {0, 1}
        /\ \A i \in 1..(Len(reviews') - 1) :
              i + k \in 1..Len(rs) /\ reviews'[i] = rs[i + k]
        /\ reviews'[Len(reviews')] = x
        /\ \A i \in 1..Len(reviews') : i = Len(reviews') \/ i \in 1..(Len(reviews') - 1)
    <3>1. Len(rs) \in Nat /\ Len(reviews') \in {Len(rs), Len(rs) + 1}
      BY <1>1, <1>3, <2>4
    <3>2. Len(reviews') \in Nat /\ k \in {0, 1}
      BY <3>1
    <3>3. ASSUME NEW i \in 1..(Len(reviews') - 1)
          PROVE  i + k \in 1..Len(rs) /\ reviews'[i] = rs[i + k]
      <4>1. i + k = i + Len(rs) + 1 - Len(reviews')
        BY <3>1
      <4>2. QED
        BY <2>4, <4>1
    <3>4. reviews'[Len(reviews')] = x
      BY <2>4
    <3>5. \A i \in 1..Len(reviews') : i = Len(reviews') \/ i \in 1..(Len(reviews') - 1)
      BY <3>2
    <3>6. QED
      BY <3>2, <3>3, <3>4, <3>5
  <2> HIDE DEF k
  <2>7. KeysDiffer(reviews')
    <3>1. ASSUME NEW i \in 1..Len(reviews'), NEW j \in 1..Len(reviews'),
                 reviews'[i].key = reviews'[j].key
          PROVE  i = j
      <4>1. CASE i \in 1..(Len(reviews') - 1) /\ j \in 1..(Len(reviews') - 1)
        <5>1. rs[i + k].key = rs[j + k].key
          BY <2>5, <3>1, <4>1
        <5>2. i + k = j + k
          BY <1>3, <2>5, <4>1, <5>1 DEF KeysDiffer
        <5>3. QED
          BY <2>5, <4>1, <5>2
      <4>2. CASE i = Len(reviews') /\ j \in 1..(Len(reviews') - 1)
        BY <1>3, <2>2, <2>5, <3>1, <4>2
      <4>3. CASE j = Len(reviews') /\ i \in 1..(Len(reviews') - 1)
        BY <1>3, <2>2, <2>5, <3>1, <4>3
      <4>4. QED
        BY <2>5, <4>1, <4>2, <4>3
    <3>2. QED
      BY <3>1 DEF KeysDiffer
  <2>8. ASSUME NEW i \in 1..Len(reviews')
        PROVE  \/ \E j \in 1..Len(reviews) : reviews'[i] = reviews[j]
               \/ reviews'[i].key = key /\ reviews'[i].id = id
    BY <1>3, <2>2, <2>5
  <2>9. QED
    BY <1>4, <2>4, <2>7, <2>8 DEF key, id
<1>5. CASE ~(ops[g].answer.outcome = "review" /\ id # 0)
  <2>1. reviews' = rs \/ reviews' = reviews
    BY <1>5 DEF Learn, ReviewKey
  <2> HIDE DEF rs
  <2>2. QED
    BY <1>1, <1>3, <2>1
<1>6. QED
  BY <1>4, <1>5

\* What is remembered was remembered before, or stands for this allow.
Remembered(o, id, applied) ==
    \A i \in 1..Len(decisions') :
        \/ \E j \in 1..Len(decisions) : decisions'[i] = decisions[j]
        \/ /\ id # 0
           /\ decisions'[i].id = id
           /\ decisions'[i].kind = o.kind
           /\ decisions'[i].digest.content = o.content
           /\ decisions'[i].digest.policy = o.policy
           /\ decisions'[i].applied = applied

\* What an allow does to the map of decisions, when its id is not there yet.
LEMMA RememberShape ==
    ASSUME Typed, DecisionsOK, NEW o \in Write, NEW id \in 0..MaxId, NEW applied \in BOOLEAN,
           \A i \in 1..Len(decisions) : id # 0 => decisions[i].id # id,
           decisions' = Remember(o, id, applied)
    PROVE  /\ decisions' \in Seq(Decision)
           /\ Len(decisions') <= MaxDecisions
           /\ IdsDiffer(decisions')
           /\ Remembered(o, id, applied)
<1>1. /\ decisions \in Seq(Decision)
      /\ Len(decisions) <= MaxDecisions
      /\ Len(decisions) \in Nat
      /\ IdsDiffer(decisions)
      /\ MaxDecisions \in Nat \ {0}
  BY LenProperties, InterceptorAssumption DEF Typed, DecisionsOK
<1>2. CASE id # 0
  <2> DEFINE x == [id |-> id, kind |-> o.kind, digest |-> Digest(o, FALSE), applied |-> applied]
  <2>1. decisions' = Bounded(Append(decisions, x), MaxDecisions)
    BY <1>2 DEF Remember
  <2>2. /\ x \in Decision
        /\ x.id = id
        /\ x.kind = o.kind
        /\ x.digest.content = o.content
        /\ x.digest.policy = o.policy
        /\ x.applied = applied
    BY <1>2, Nothing DEF Decision, Digest, Write
  <2> HIDE DEF x
  <2>3. /\ decisions' \in Seq(Decision)
        /\ Len(decisions') <= MaxDecisions
        /\ Len(decisions') \in {Len(decisions), Len(decisions) + 1}
        /\ \A i \in 1..(Len(decisions') - 1) :
              /\ i + Len(decisions) + 1 - Len(decisions') \in 1..Len(decisions)
              /\ decisions'[i] = decisions[i + Len(decisions) + 1 - Len(decisions')]
        /\ decisions'[Len(decisions')] = x
    <3>1. /\ decisions \in Seq(Decision)
          /\ x \in Decision
          /\ MaxDecisions \in Nat \ {0}
          /\ Len(decisions) <= MaxDecisions
      BY <1>1, <2>1, <2>2
    <3>2. decisions' \in Seq(Decision) /\ Len(decisions') <= MaxDecisions
      BY <2>1, <3>1, WithinBound
    <3>3. Pushed(decisions', decisions, x)
      BY <2>1, <3>1, BoundedShape
    <3>4. QED
      BY <3>2, <3>3 DEF Pushed
  <2> DEFINE k == Len(decisions) + 1 - Len(decisions')
  <2>4. /\ Len(decisions') \in Nat
        /\ k \in {0, 1}
        /\ \A i \in 1..(Len(decisions') - 1) :
              i + k \in 1..Len(decisions) /\ decisions'[i] = decisions[i + k]
        /\ decisions'[Len(decisions')] = x
        /\ \A i \in 1..Len(decisions') : i = Len(decisions') \/ i \in 1..(Len(decisions') - 1)
    <3>1. Len(decisions) \in Nat /\ Len(decisions') \in {Len(decisions), Len(decisions) + 1}
      BY <1>1, <2>3
    <3>2. Len(decisions') \in Nat /\ k \in {0, 1}
      BY <3>1
    <3>3. ASSUME NEW i \in 1..(Len(decisions') - 1)
          PROVE  i + k \in 1..Len(decisions) /\ decisions'[i] = decisions[i + k]
      <4>1. i + k = i + Len(decisions) + 1 - Len(decisions')
        BY <3>1
      <4>2. QED
        BY <2>3, <4>1
    <3>4. decisions'[Len(decisions')] = x
      BY <2>3
    <3>5. \A i \in 1..Len(decisions') : i = Len(decisions') \/ i \in 1..(Len(decisions') - 1)
      BY <3>2
    <3>6. QED
      BY <3>2, <3>3, <3>4, <3>5
  <2> HIDE DEF k
  <2>6. IdsDiffer(decisions')
    <3>1. ASSUME NEW i \in 1..Len(decisions'), NEW j \in 1..Len(decisions'),
                 decisions'[i].id = decisions'[j].id
          PROVE  i = j
      <4>1. CASE i \in 1..(Len(decisions') - 1) /\ j \in 1..(Len(decisions') - 1)
        <5>1. decisions[i + k].id = decisions[j + k].id
          BY <2>4, <3>1, <4>1
        <5>2. i + k = j + k
          BY <1>1, <2>4, <4>1, <5>1 DEF IdsDiffer
        <5>3. QED
          BY <2>4, <4>1, <5>2
      <4>2. CASE i = Len(decisions') /\ j \in 1..(Len(decisions') - 1)
        BY <1>2, <2>2, <2>4, <3>1, <4>2
      <4>3. CASE j = Len(decisions') /\ i \in 1..(Len(decisions') - 1)
        BY <1>2, <2>2, <2>4, <3>1, <4>3
      <4>4. QED
        BY <2>4, <4>1, <4>2, <4>3
    <3>2. QED
      BY <3>1 DEF IdsDiffer
  <2>7. QED
    BY <1>2, <2>2, <2>3, <2>4, <2>6 DEF Remembered
<1>3. CASE id = 0
  BY <1>1, <1>3 DEF Remember, Remembered
<1>4. QED
  BY <1>2, <1>3

-----------------------------------------------------------------------------
(* What is enough for a step to keep the invariant.                        *)

\* The ledger does not shrink to something that was not there.
FromLedger(g) ==
    \A i \in 1..Len(decisions') :
        \/ \E j \in 1..Len(decisions) : decisions'[i] = decisions[j]
        \/ ops[g].answer.id # 0 /\ decisions'[i].id = ops[g].answer.id

\* The maps are as they must be after the step.
MapsOK(g) ==
    /\ decisions' \in Seq(Decision)
    /\ reviews' \in Seq(Review)
    /\ DecisionsOK'
    /\ ReviewsOK'
    /\ FromLedger(g)

\* What the engine keeps grows, and what was written to it stays.
EngineGrows ==
    /\ granted \subseteq granted'
    /\ nextId' \in Nat
    /\ nextId <= nextId'
    /\ \A r \in 1..MaxId : r < nextId => opened'[r].written = opened[r].written

\* A write that the step leaves alone stays as it must be.
LEMMA OtherWrite ==
    ASSUME Typed, NEW h \in 1..MaxOps, WriteOK(h), EngineGrows,
           ops'[h] = ops[h],
           h \in refused' => h \in refused,
           h \in journaled' <=> h \in journaled
    PROVE  WriteOK(h)'
<1>1. /\ nextId \in Nat /\ nextId' \in Nat /\ nextId <= nextId'
      /\ granted \subseteq granted'
  BY Nothing DEF Typed, EngineGrows
<1>2. /\ ops[h].cited \in 0..MaxId
      /\ ops[h].answer.id \in 0..MaxId
  BY DEF Typed, Write, Answer
<1>3. RefusalOK(h)'
  BY DEF WriteOK, RefusalOK, Asked
<1>4. GroundsOK(h)'
  <2>1. Written(ops'[h]) = Written(ops[h])
    OBVIOUS
  <2>2. \A w : Grounds(w, ops'[h]) = Grounds(w, ops[h])
    OBVIOUS
  <2>3. GroundsOK(h)
    BY DEF WriteOK
  <2>4. Asked(ops[h]) /\ ops[h].answer.outcome = "allow" => Written(ops[h]) \in granted'
    BY <1>1, <2>3 DEF GroundsOK
  <2>5. ops[h].pc = "committed" => h \in journaled' \/ \E w \in granted' : Grounds(w, ops[h])
    BY <1>1, <2>3 DEF GroundsOK
  <2>6. h \in journaled' => ops[h].pc = "committed" /\ Coverable(ops[h].kind)
    BY <2>3 DEF GroundsOK
  <2>7. QED
    BY <2>4, <2>5, <2>6 DEF GroundsOK
<1>5. BareOK(h)'
  BY DEF WriteOK, BareOK
<1>6. CitesOK(h)'
  <2>1. CitesOK(h)
    BY DEF WriteOK
  <2>2. ops[h].answer.id < nextId'
    BY <1>1, <1>2, <2>1, Nothing DEF CitesOK
  <2>3. Asked(ops[h]) /\ ops[h].cited # 0 =>
           /\ ops[h].cited < nextId'
           /\ opened'[ops[h].cited].written = Written(ops[h])
    BY <1>1, <1>2, <2>1, Nothing DEF CitesOK, EngineGrows
  <2>4. Asked(ops[h]) /\ ops[h].answer.outcome = "review" /\ ops[h].answer.id # 0
           => opened'[ops[h].answer.id].written = Written(ops[h])
    BY <1>1, <1>2, <2>1, Nothing DEF CitesOK, EngineGrows
  <2>5. QED
    BY <2>2, <2>3, <2>4 DEF CitesOK
<1>7. QED
  BY <1>3, <1>4, <1>5, <1>6 DEF WriteOK

\* The stamp of a write after a step: as it was, none, one that was read back,
\* or that of the decision it was just told of.
StampFollows(g, p) ==
    \/ /\ p.stamp = ops[g].stamp
       /\ p.brought = ops[g].brought
       /\ p.policy \in {ops[g].policy, "base"}
    \/ p.stamp = 0
    \/ p.brought /\ \E f \in 1..MaxOps : p.stamp = ops[f].stamp
    \/ /\ p.stamp = ops[g].answer.id
       /\ p.stamp # 0
       /\ \A i \in 1..Len(decisions') :
             decisions'[i].id = p.stamp /\ decisions'[i].applied => p.policy = "base"

\* Stamps, decisions and ids are numbers to compare.
LEMMA StampTypes ==
    ASSUME Typed
    PROVE  /\ \A h \in 1..MaxOps : ops[h].stamp \in Nat /\ ops[h].answer.id \in Nat
           /\ \A i \in 1..Len(decisions) : decisions[i].id \in Nat /\ decisions[i].id # 0
<1>1. ASSUME NEW h \in 1..MaxOps
      PROVE  ops[h].stamp \in Nat /\ ops[h].answer.id \in Nat
  <2>1. ops[h].stamp \in 0..MaxId /\ ops[h].answer.id \in 0..MaxId
    BY DEF Typed, Write, Answer
  <2>2. QED
    BY <2>1, Nothing
<1>2. ASSUME NEW i \in 1..Len(decisions)
      PROVE  decisions[i].id \in Nat /\ decisions[i].id # 0
  <2>1. decisions[i] \in Decision
    BY ElementOfSeq DEF Typed
  <2>2. QED
    BY <2>1, Nothing DEF Decision
<1>3. QED
  BY <1>1, <1>2

\* A step whose writes keep their stamps, or lose them, and that remembers no
\* decision and tells no answer, leaves the stamps as they must be.
LEMMA StampsKept ==
    ASSUME InterceptorInv, Typed',
           nextId' \in Nat, nextId <= nextId',
           \A h \in 1..MaxOps :
              /\ \/ /\ ops'[h].stamp = ops[h].stamp
                    /\ ops'[h].brought = ops[h].brought
                    /\ ops'[h].policy = ops[h].policy
                 \/ ops'[h].stamp = 0
              /\ ops'[h].answer.id \in {0, ops[h].answer.id},
           \A i \in 1..Len(decisions') :
               \E j \in 1..Len(decisions) : decisions'[i] = decisions[j]
    PROVE  StampsOK'
<1>1. ASSUME NEW h \in 1..MaxOps PROVE StampOK(h)'
  <2>1. StampOK(h) /\ Typed /\ nextId \in Nat /\ 0 < nextId
    BY IdsStartAtOne DEF InterceptorInv, StampsOK
  <2>2. ops[h].stamp \in Nat
    BY <2>1, StampTypes
  <2>3. ops'[h].stamp < nextId'
    BY <2>1, <2>2 DEF StampOK
  <2>4. ASSUME NEW f \in 1..MaxOps, ops'[f].answer.id # 0
        PROVE  ops'[f].answer.id # ops'[h].stamp
    BY <2>1, <2>4 DEF StampOK
  <2>5. ASSUME ~ops'[h].brought, NEW i \in 1..Len(decisions'),
               decisions'[i].id = ops'[h].stamp, decisions'[i].applied
        PROVE  ops'[h].policy = "base"
    <3>1. PICK j \in 1..Len(decisions) : decisions'[i] = decisions[j]
      OBVIOUS
    <3>2. ops'[h].stamp # 0
      BY <2>1, <2>5, <3>1, StampTypes
    <3>3. QED
      BY <2>1, <2>5, <3>1, <3>2 DEF StampOK
  <2>6. QED
    BY <2>3, <2>4, <2>5 DEF StampOK
<1>2. QED
  BY <1>1 DEF StampsOK

\* So does a step of the sidecar for one write.
LEMMA StampsFollow ==
    ASSUME InterceptorInv, NEW g \in 1..MaxOps,
           ops' \in [1..MaxOps -> Write], OnlyOf(g), ops'[g].answer = NoAnswer,
           FromLedger(g), StampFollows(g, ops'[g]), nextId' = nextId
    PROVE  StampsOK'
<1>1. /\ \A h \in 1..MaxOps : StampOK(h)
      /\ Typed /\ nextId \in Nat /\ 0 < nextId
  BY IdsStartAtOne DEF InterceptorInv, StampsOK
<1>2. ASSUME NEW f \in 1..MaxOps, ops'[f].answer.id # 0
      PROVE  f # g /\ ops'[f] = ops[f]
  BY <1>2, Nothing DEF OnlyOf
<1>3. ASSUME NEW h \in 1..MaxOps, h # g PROVE StampOK(h)'
  <2>1. ops'[h] = ops[h]
    BY <1>3 DEF OnlyOf
  <2>2. \A f \in 1..MaxOps : ops'[f].answer.id # 0 => ops'[f].answer.id # ops'[h].stamp
    BY <1>1, <1>2, <2>1 DEF StampOK
  <2>3. ASSUME ~ops[h].brought, NEW i \in 1..Len(decisions'),
               decisions'[i].id = ops[h].stamp, decisions'[i].applied
        PROVE  ops[h].policy = "base"
    BY <1>1, <2>3 DEF FromLedger, StampOK
  <2>4. QED
    BY <1>1, <2>1, <2>2, <2>3 DEF StampOK
<1>4. StampOK(g)'
  <2>1. ops'[g].stamp < nextId
    BY <1>1, StampTypes DEF StampFollows, StampOK, InterceptorInv, WriteOK, CitesOK
  <2>2. ASSUME NEW f \in 1..MaxOps, ops'[f].answer.id # 0
        PROVE  ops'[f].answer.id # ops'[g].stamp
    <3>1. f # g /\ ops'[f] = ops[f] /\ ops[f].answer.id # 0
      BY <1>2, <2>2
    <3>2. \A h \in 1..MaxOps : ops[f].answer.id # ops[h].stamp
      BY <1>1, <3>1 DEF StampOK
    <3>3. ops[f].answer.id # ops[g].answer.id
      BY <3>1 DEF InterceptorInv, IdsFresh
    <3>4. QED
      BY <3>1, <3>2, <3>3 DEF StampFollows
  <2>3. ASSUME ~ops'[g].brought, NEW i \in 1..Len(decisions'),
               decisions'[i].id = ops'[g].stamp, decisions'[i].applied
        PROVE  ops'[g].policy = "base"
    <3>1. decisions'[i].id # 0
      BY <1>1, StampTypes DEF FromLedger
    <3>2. CASE /\ ops'[g].stamp = ops[g].stamp
               /\ ops'[g].brought = ops[g].brought
               /\ ops'[g].policy \in {ops[g].policy, "base"}
      BY <1>1, <2>3, <3>2 DEF FromLedger, StampOK
    <3>3. QED
      BY <2>3, <3>1, <3>2 DEF StampFollows
  <2>4. QED
    BY <2>1, <2>2, <2>3 DEF StampOK
<1>5. QED
  BY <1>3, <1>4 DEF StampsOK

\* A step of the sidecar for one write, after which no answer is left.
LEMMA SidecarStep ==
    ASSUME InterceptorInv, NEW g \in 1..MaxOps,
           ops' \in [1..MaxOps -> Write], OnlyOf(g), ops'[g].answer = NoAnswer,
           MapsOK(g), WriteOK(g)', StampFollows(g, ops'[g]),
           journaled' \in {journaled, journaled \cup {g}},
           UNCHANGED <<base, engineVars>>
    PROVE  InterceptorInv'
<1>1. UNCHANGED <<base, opened, nextId, granted, refused>>
  BY DEF engineVars
<1>2. Typed'
  BY <1>1 DEF InterceptorInv, Typed, MapsOK
<1>3. EngineGrows
  BY <1>1, Nothing DEF InterceptorInv, Typed, EngineGrows
<1>4. ASSUME NEW h \in 1..MaxOps PROVE WriteOK(h)'
  <2>1. CASE h = g
    BY <2>1
  <2>2. CASE h # g
    <3>1. ops'[h] = ops[h] /\ (h \in journaled' <=> h \in journaled)
      BY <2>2 DEF OnlyOf
    <3>2. QED
      BY <1>1, <1>3, <3>1, OtherWrite DEF InterceptorInv
  <2>3. QED
    BY <2>1, <2>2
<1>5. IdsFresh'
  <2>1. ASSUME NEW h \in 1..MaxOps, ops'[h].answer.id # 0
        PROVE  /\ \A i \in 1..Len(decisions') : decisions'[i].id # ops'[h].answer.id
               /\ \A f \in 1..MaxOps \ {h} : ops'[f].answer.id # ops'[h].answer.id
    <3>1. h # g
      BY <2>1, Nothing
    <3>2. /\ ops'[h] = ops[h]
          /\ \A i \in 1..Len(decisions) : decisions[i].id # ops[h].answer.id
          /\ \A f \in 1..MaxOps \ {h} : ops[f].answer.id # ops[h].answer.id
      BY <2>1, <3>1 DEF OnlyOf, InterceptorInv, IdsFresh
    <3>3. \A i \in 1..Len(decisions') : decisions'[i].id # ops'[h].answer.id
      BY <3>1, <3>2 DEF MapsOK, FromLedger
    <3>4. ASSUME NEW f \in 1..MaxOps \ {h}
          PROVE  ops'[f].answer.id # ops'[h].answer.id
      <4>1. CASE f = g
        BY <2>1, <4>1, Nothing
      <4>2. CASE f # g
        BY <3>2, <4>2 DEF OnlyOf
      <4>3. QED
        BY <4>1, <4>2
    <3>5. QED
      BY <3>3, <3>4
  <2>2. QED
    BY <2>1 DEF IdsFresh
<1>6. StampsOK'
  BY <1>1, StampsFollow DEF MapsOK
<1>7. QED
  BY <1>2, <1>4, <1>5, <1>6 DEF InterceptorInv, MapsOK

\* Maps that do not change are as they must be.
LEMMA MapsKept ==
    ASSUME InterceptorInv, NEW g \in 1..MaxOps,
           UNCHANGED <<decisions, reviews, opened, nextId, granted>>
    PROVE  MapsOK(g)
<1>1. decisions' \in Seq(Decision) /\ reviews' \in Seq(Review)
  BY DEF InterceptorInv, Typed
<1>2. DecisionsOK'
  BY DEF InterceptorInv, DecisionsOK, GrantedDecision
<1>3. ReviewsOK'
  BY DEF InterceptorInv, ReviewsOK
<1>4. FromLedger(g)
  BY DEF FromLedger
<1>5. QED
  BY <1>1, <1>2, <1>3, <1>4 DEF MapsOK

\* Refusing a write that has not committed is always right.
LEMMA RefuseInv ==
    ASSUME InterceptorInv, NEW g \in 1..MaxOps, Refuse(g), ops[g].pc # "committed",
           MapsOK(g), UNCHANGED <<base, engineVars, journaled>>
    PROVE  InterceptorInv'
<1>1. /\ ops' \in [1..MaxOps -> Write]
      /\ OnlyOf(g)
      /\ ops'[g].pc = "denied"
      /\ ops'[g].answer = NoAnswer
      /\ StampFollows(g, ops'[g])
  BY RefuseShape DEF InterceptorInv, StampFollows
<1>2. ~Asked(ops'[g])
  BY <1>1 DEF Asked
<1>3. RefusalOK(g)'
  BY <1>1 DEF RefusalOK
<1>4. GroundsOK(g)'
  BY <1>1, <1>2 DEF InterceptorInv, WriteOK, GroundsOK, Asked
<1>5. BareOK(g)'
  BY <1>1 DEF BareOK
<1>6. CitesOK(g)'
  <2>1. 0 < nextId'
    BY Nothing DEF InterceptorInv, Typed, engineVars
  <2>2. QED
    BY <1>1, <1>2, <2>1, Nothing DEF CitesOK, Asked
<1>7. WriteOK(g)'
  BY <1>3, <1>4, <1>5, <1>6 DEF WriteOK
<1>8. QED
  BY <1>1, <1>7, SidecarStep

\* A write that stays what it is keeps its stamp.
LEMMA StampStays ==
    ASSUME NEW g \in 1..MaxOps
    PROVE  StampFollows(g, ops[g])
BY DEF StampFollows

\* Letting a write go on is right when it is not refused, and when it has what
\* it needs: grounds to commit, and a reason to be bare.
LEMMA PassInv ==
    ASSUME InterceptorInv, NEW g \in 1..MaxOps, NEW o \in Write,
           NEW pc \in {"modified", "committed"}, Pass(g, o, pc),
           g \notin refused,
           MapsOK(g),
           UNCHANGED <<base, engineVars>>,
           journaled' \in {journaled, journaled \cup {g}},
           pc = "committed" => g \in journaled' \/ \E w \in granted : Grounds(w, o),
           g \in journaled' => pc = "committed" /\ Coverable(o.kind),
           o.kind = "create" /\ o.policy = "none" => o.seen = "none",
           StampFollows(g, o)
    PROVE  InterceptorInv'
<1>1. /\ ops' \in [1..MaxOps -> Write]
      /\ OnlyOf(g)
      /\ SameWrite(ops'[g], o)
      /\ ops'[g].pc = pc
      /\ ops'[g].seen = o.seen
      /\ ops'[g].answer = NoAnswer
  BY PassShape DEF InterceptorInv, Phases
<1>2. ~Asked(ops'[g])
  BY <1>1 DEF Asked
<1>3. RefusalOK(g)'
  BY DEF RefusalOK, engineVars
<1>4. GroundsOK(g)'
  <2>1. \A w : Grounds(w, o) => Grounds(w, ops'[g])
    BY <1>1 DEF Grounds, SameWrite
  <2>2. granted' = granted
    BY DEF engineVars
  <2>3. ops'[g].pc = "committed" =>
            g \in journaled' \/ \E w \in granted' : Grounds(w, ops'[g])
    BY <1>1, <2>1, <2>2
  <2>4. g \in journaled' => ops'[g].pc = "committed" /\ Coverable(ops'[g].kind)
    BY <1>1 DEF SameWrite
  <2>5. QED
    BY <1>2, <2>3, <2>4 DEF GroundsOK, Asked
<1>5. BareOK(g)'
  BY <1>1 DEF BareOK, SameWrite
<1>6. CitesOK(g)'
  <2>1. 0 < nextId'
    BY Nothing DEF InterceptorInv, Typed, engineVars
  <2>2. QED
    BY <1>1, <1>2, <2>1, Nothing DEF CitesOK, Asked
<1>7. WriteOK(g)'
  BY <1>3, <1>4, <1>5, <1>6 DEF WriteOK
<1>8. StampFollows(g, ops'[g])
  BY <1>1 DEF StampFollows, SameWrite
<1>9. QED
  BY <1>1, <1>7, <1>8, SidecarStep

\* Asking the engine is right when the base policy is not missing.
LEMMA AskInv ==
    ASSUME InterceptorInv, NEW g \in 1..MaxOps,
           NEW pc \in {"modify asked", "validate asked"}, Ask(g, pc),
           ops[g].pc = IF pc = "modify asked" THEN "sent" ELSE "modified",
           ~BaseMissing(ops[g], base),
           UNCHANGED <<decisions, reviews, base, engineVars, journaled>>
    PROVE  InterceptorInv'
<1>1. /\ ops' \in [1..MaxOps -> Write]
      /\ OnlyOf(g)
      /\ SameWrite(ops'[g], ops[g])
      /\ ops'[g].pc = pc
      /\ ops'[g].base = base
      /\ ops'[g].seen = IF pc = "modify asked" THEN base ELSE ops[g].seen
      /\ ops'[g].cited = CitedReview(Written(ops[g]))
      /\ ops'[g].answer = NoAnswer
  BY AskShape DEF InterceptorInv
<1>2. MapsOK(g)
  BY MapsKept DEF engineVars
<1>3. ops[g].pc \in {"sent", "modified"} /\ g \notin refused /\ g \notin journaled
  <2>1. ops[g].pc \in {"sent", "modified"}
    OBVIOUS
  <2>2. RefusalOK(g) /\ GroundsOK(g)
    BY DEF InterceptorInv, WriteOK
  <2>3. g \notin refused
    BY <2>1, <2>2 DEF RefusalOK, Asked
  <2>4. g \notin journaled
    BY <2>1, <2>2 DEF GroundsOK
  <2>5. QED
    BY <2>1, <2>3, <2>4
<1>4. RefusalOK(g)'
  BY <1>3 DEF RefusalOK, engineVars
<1>5. GroundsOK(g)'
  BY <1>1, <1>3, Nothing DEF GroundsOK
<1>6. BareOK(g)'
  <2>1. ops'[g].kind = ops[g].kind /\ ops'[g].policy = ops[g].policy
    BY <1>1 DEF SameWrite
  <2>2. base \in {"unknown", "none", "set"}
    BY InterceptorAssumption DEF InterceptorInv, Typed
  <2>3. ops[g].kind = "create" /\ ops[g].policy = "none" => base \in {"none", "set"}
    BY <2>2 DEF BaseMissing
  <2>4. CASE pc = "modify asked"
    BY <1>1, <2>1, <2>3, <2>4 DEF BareOK
  <2>5. CASE pc = "validate asked"
    <3>1. BareOK(g) /\ ops[g].pc = "modified"
      BY <2>5 DEF InterceptorInv, WriteOK
    <3>2. QED
      BY <1>1, <2>1, <2>5, <3>1 DEF BareOK
  <2>6. QED
    BY <2>4, <2>5
<1>7. CitesOK(g)'
  <2>1. 0 < nextId /\ nextId' = nextId /\ opened' = opened
    <3>1. 0 < nextId
      BY IdsStartAtOne DEF InterceptorInv
    <3>2. QED
      BY <3>1 DEF engineVars
  <2>2. Written(ops'[g]) = Written(ops[g])
    BY <1>1 DEF Written, SameWrite
  <2>3. ops'[g].cited # 0 =>
            /\ ops'[g].cited < nextId
            /\ opened[ops'[g].cited].written = Written(ops[g])
    <3>1. ops'[g].cited # 0 => \E i \in 1..Len(reviews) :
              reviews[i].key = Written(ops[g]) /\ ops'[g].cited = reviews[i].id
      <4>1. reviews \in Seq(Review)
        BY DEF InterceptorInv, Typed
      <4>2. CitedReview(Written(ops[g])) # 0 => \E i \in 1..Len(reviews) :
                /\ reviews[i].key = Written(ops[g])
                /\ CitedReview(Written(ops[g])) = reviews[i].id
        BY <4>1, CitedShape
      <4>3. QED
        BY <1>1, <4>2
    <3>2. \A i \in 1..Len(reviews) :
              reviews[i].id < nextId /\ opened[reviews[i].id].written = reviews[i].key
      BY DEF InterceptorInv, ReviewsOK
    <3>3. QED
      BY <3>1, <3>2
  <2>4. QED
    BY <1>1, <2>1, <2>2, <2>3, Nothing DEF CitesOK
<1>8. WriteOK(g)'
  BY <1>4, <1>5, <1>6, <1>7 DEF WriteOK
<1>9. StampFollows(g, ops'[g])
  BY <1>1 DEF StampFollows, SameWrite
<1>10. QED
  BY <1>1, <1>2, <1>8, <1>9, SidecarStep

-----------------------------------------------------------------------------
(* The actions.                                                            *)

\* A write that is neither denied nor asked about is not refused, and one that
\* has not committed has no entry.
LEMMA StillOpen ==
    ASSUME InterceptorInv, NEW g \in 1..MaxOps
    PROVE  /\ ops[g].pc \in {"unused", "sent", "modified", "committed"} => g \notin refused
           /\ ops[g].answer.outcome \in {"allow", "down"} /\ Asked(ops[g]) => g \notin refused
           /\ ops[g].pc # "committed" => g \notin journaled
BY DEF InterceptorInv, WriteOK, RefusalOK, GroundsOK, Asked

\* A caller sends a write.
LEMMA SendInv ==
    ASSUME InterceptorInv, NEW g \in 1..MaxOps, Send(g)
    PROVE  InterceptorInv'
<1>1. PICK kind \in Kinds, content \in Contents, policy \in {"none", "own"} :
          \E stamp \in StampsSeen :
              /\ policy = "own" => kind = "create"
              /\ stamp # 0 => Stampable(kind)
              /\ ops' = [ops EXCEPT ![g] = NewWrite(kind, content, policy, stamp)]
  BY DEF Send
<1>2. PICK stamp \in StampsSeen : ops' = [ops EXCEPT ![g] = NewWrite(kind, content, policy, stamp)]
  BY <1>1
<1> DEFINE p == NewWrite(kind, content, policy, stamp)
<1>3. /\ kind \in AllKinds
      /\ stamp \in 0..MaxId
      /\ stamp = 0 \/ \E f \in 1..MaxOps : stamp = ops[f].stamp
  BY InterceptorAssumption, Nothing DEF InterceptorInv, Typed, Write, StampsSeen
<1>4. /\ p \in Write
      /\ p.pc = "sent"
      /\ p.answer = NoAnswer
      /\ p.stamp = stamp
      /\ p.brought = (stamp # 0)
  BY <1>3, UnusedShape DEF NewWrite, Unused, Write, Phases
<1>5. ops' = [ops EXCEPT ![g] = p]
  BY <1>2
<1> HIDE DEF p
<1>6. /\ ops' \in [1..MaxOps -> Write]
      /\ OnlyOf(g)
      /\ ops'[g].pc = "sent"
      /\ ops'[g].answer = NoAnswer
      /\ ops'[g].stamp = stamp
      /\ ops'[g].brought = (stamp # 0)
  BY <1>4, <1>5 DEF InterceptorInv, Typed, OnlyOf
<1>7. /\ UNCHANGED <<decisions, reviews, base, engineVars, journaled>>
      /\ ops[g].pc = "unused"
  BY DEF Send
<1>8. MapsOK(g)
  BY <1>7, MapsKept DEF engineVars
<1>9. WriteOK(g)'
  <2>1. g \notin refused /\ g \notin journaled
    BY <1>7, StillOpen
  <2>2. RefusalOK(g)' /\ GroundsOK(g)'
    BY <1>6, <1>7, <2>1 DEF RefusalOK, GroundsOK, Asked, engineVars
  <2>3. BareOK(g)'
    BY <1>6 DEF BareOK
  <2>4. 0 < nextId'
    BY <1>7, Nothing DEF InterceptorInv, Typed, engineVars
  <2>5. CitesOK(g)'
    BY <1>6, <2>4, Nothing DEF CitesOK, Asked
  <2>6. QED
    BY <2>2, <2>3, <2>5 DEF WriteOK
<1>10. StampFollows(g, ops'[g])
  BY <1>3, <1>6 DEF StampFollows
<1>11. QED
  BY <1>6, <1>7, <1>8, <1>9, <1>10, SidecarStep

\* modify_operation, up to the engine.
LEMMA ModifyInv ==
    ASSUME InterceptorInv, NEW g \in 1..MaxOps, Modify(g)
    PROVE  InterceptorInv'
<1> DEFINE o == ops[g]
<1>1. /\ o.pc = "sent"
      /\ UNCHANGED <<decisions, reviews, base, engineVars, journaled>>
      /\ o \in Write
  BY DEF Modify, InterceptorInv, Typed
<1>2. MapsOK(g)
  BY <1>1, MapsKept DEF engineVars
<1>3. CASE Refuse(g)
  BY <1>1, <1>2, <1>3, RefuseInv
<1>4. CASE ~Stampable(o.kind) /\ Pass(g, o, "modified")
  <2>1. g \notin refused /\ g \notin journaled
    BY <1>1, StillOpen
  <2>2. o.kind # "create"
    BY <1>4 DEF Stampable
  <2>3. StampFollows(g, o)
    BY StampStays
  <2> HIDE DEF o
  <2>4. QED
    BY <1>1, <1>2, <1>4, <2>1, <2>2, <2>3, PassInv
<1>5. CASE ~BaseMissing(o, base) /\ Ask(g, "modify asked")
  BY <1>1, <1>5, AskInv
<1>6. QED
  BY <1>3, <1>4, <1>5 DEF Modify

\* Handling an answer leaves the map of reviews as it must be.
LEMMA LearnInv ==
    ASSUME InterceptorInv, NEW g \in 1..MaxOps, Asked(ops[g]), Learn(g), UNCHANGED engineVars
    PROVE  /\ reviews' \in Seq(Review)
           /\ ReviewsOK'
<1>1. Typed /\ ReviewsOK /\ CitesOK(g)
  BY DEF InterceptorInv, WriteOK
<1>2. /\ reviews' \in Seq(Review)
      /\ Len(reviews') <= MaxReviews
      /\ KeysDiffer(reviews')
      /\ \A i \in 1..Len(reviews') :
            \/ \E j \in 1..Len(reviews) : reviews'[i] = reviews[j]
            \/ /\ ops[g].answer.outcome = "review"
               /\ ops[g].answer.id # 0
               /\ reviews'[i].key = Written(ops[g])
               /\ reviews'[i].id = ops[g].answer.id
  BY <1>1, LearnShape
<1>3. nextId' = nextId /\ opened' = opened
  BY DEF engineVars
<1>4. ASSUME NEW i \in 1..Len(reviews')
      PROVE  /\ reviews'[i].id < nextId'
             /\ opened'[reviews'[i].id].written = reviews'[i].key
  <2>1. CASE \E j \in 1..Len(reviews) : reviews'[i] = reviews[j]
    BY <1>1, <1>3, <2>1 DEF ReviewsOK
  <2>2. CASE /\ ops[g].answer.outcome = "review"
             /\ ops[g].answer.id # 0
             /\ reviews'[i].key = Written(ops[g])
             /\ reviews'[i].id = ops[g].answer.id
    BY <1>1, <1>3, <2>2 DEF CitesOK
  <2>3. QED
    BY <1>2, <2>1, <2>2
<1>5. QED
  BY <1>2, <1>4 DEF ReviewsOK

\* What _create_patches makes of a write that was asked about in
\* modify_operation: bare only when the store said "none".
LEMMA PatchedShape ==
    ASSUME InterceptorInv, NEW g \in 1..MaxOps, ops[g].pc = "modify asked"
    PROVE  LET o == ops[g]
               p == Patched(o)
           IN  /\ p \in Write
               /\ p.kind = o.kind
               /\ p.kind = "create" /\ p.policy = "none" => p.seen = "none"
               /\ p.policy = IF BaseApplies(o) THEN "base" ELSE o.policy
               /\ p.stamp = o.stamp
               /\ p.brought = o.brought
<1> DEFINE o == ops[g]
           p == Patched(o)
<1>1. o \in Write /\ BareOK(g)
  BY DEF InterceptorInv, Typed, WriteOK
<1>2. CASE BaseApplies(o)
  <2>1. p = [o EXCEPT !.policy = "base"]
    BY <1>2 DEF Patched
  <2>2. /\ p \in Write
        /\ p.kind = o.kind
        /\ p.policy = "base"
        /\ p.stamp = o.stamp
        /\ p.brought = o.brought
    BY <1>1, <2>1 DEF Write
  <2>3. QED
    BY <1>2, <2>2
<1>3. CASE ~BaseApplies(o)
  <2>1. p = o
    BY <1>3 DEF Patched
  <2>2. o.kind = "create" /\ o.policy = "none" => o.seen = "none"
    BY <1>1, <1>3 DEF BareOK, BaseApplies
  <2>3. QED
    BY <1>1, <1>3, <2>1, <2>2
<1>4. QED
  BY <1>2, <1>3

\* modify_operation, allowed.
LEMMA ModifyAllowedInv ==
    ASSUME InterceptorInv, NEW g \in 1..MaxOps, ModifyAllowed(g)
    PROVE  InterceptorInv'
<1> DEFINE o == ops[g]
           id == o.answer.id
           q == Patched(o)
           p == [q EXCEPT !.stamp = IF id = 0 THEN q.stamp ELSE id,
                          !.brought = q.brought /\ id = 0]
<1>1. /\ o.pc = "modify asked"
      /\ o.answer.outcome = "allow"
      /\ Learn(g)
      /\ decisions' = Remember(o, id, BaseApplies(o))
      /\ Pass(g, p, "modified")
      /\ UNCHANGED <<base, engineVars, journaled>>
  BY DEF ModifyAllowed
<1>2. Asked(o) /\ g \notin refused /\ g \notin journaled
  BY <1>1, StillOpen DEF Asked
<1>3. o \in Write /\ id \in 0..MaxId
  BY DEF InterceptorInv, Typed, Write, Answer
<1>4. /\ q \in Write
      /\ q.kind = o.kind
      /\ q.kind = "create" /\ q.policy = "none" => q.seen = "none"
      /\ q.policy = IF BaseApplies(o) THEN "base" ELSE o.policy
      /\ q.stamp = o.stamp
      /\ q.brought = o.brought
  BY <1>1, PatchedShape
<1> HIDE DEF q
<1>5. /\ p \in Write
      /\ p.kind = "create" /\ p.policy = "none" => p.seen = "none"
      /\ p.policy = q.policy
      /\ p.stamp = IF id = 0 THEN q.stamp ELSE id
      /\ p.brought = (q.brought /\ id = 0)
  <2>1. \A stamp \in 0..MaxId, brought \in BOOLEAN :
           LET x == [q EXCEPT !.stamp = stamp, !.brought = brought]
           IN  /\ x \in Write
               /\ x.kind = q.kind /\ x.policy = q.policy /\ x.seen = q.seen
               /\ x.stamp = stamp /\ x.brought = brought
    BY <1>4 DEF Write
  <2>2. q.stamp \in 0..MaxId /\ q.brought \in BOOLEAN
    BY <1>4 DEF Write
  <2>3. /\ (IF id = 0 THEN q.stamp ELSE id) \in 0..MaxId
        /\ (q.brought /\ id = 0) \in BOOLEAN
    BY <1>3, <2>2
  <2> DEFINE stamp == IF id = 0 THEN q.stamp ELSE id
             brought == q.brought /\ id = 0
  <2>4. p = [q EXCEPT !.stamp = stamp, !.brought = brought]
    OBVIOUS
  <2>5. stamp \in 0..MaxId /\ brought \in BOOLEAN
    BY <2>3
  <2> HIDE DEF p, stamp, brought
  <2>6. /\ p \in Write
        /\ p.kind = q.kind /\ p.policy = q.policy /\ p.seen = q.seen
        /\ p.stamp = stamp /\ p.brought = brought
    BY <2>1, <2>4, <2>5
  <2>7. QED
    BY <1>4, <2>6 DEF stamp, brought
<1>6. Written(o) \in granted
  BY <1>1, <1>2 DEF InterceptorInv, WriteOK, GroundsOK
<1>7. /\ decisions' \in Seq(Decision)
      /\ DecisionsOK'
      /\ FromLedger(g)
      /\ Remembered(o, id, BaseApplies(o))
  <2>1. Typed /\ DecisionsOK /\ BaseApplies(o) \in BOOLEAN
    BY DEF InterceptorInv, BaseApplies
  <2>2. \A i \in 1..Len(decisions) : id # 0 => decisions[i].id # id
    BY DEF InterceptorInv, IdsFresh
  <2>3. /\ decisions' \in Seq(Decision)
        /\ Len(decisions') <= MaxDecisions
        /\ IdsDiffer(decisions')
        /\ Remembered(o, id, BaseApplies(o))
    BY <1>1, <1>3, <2>1, <2>2, RememberShape
  <2>4. FromLedger(g)
    BY <2>3 DEF FromLedger, Remembered
  <2>5. ASSUME NEW i \in 1..Len(decisions')
        PROVE  decisions'[i].id < nextId' /\ GrantedDecision(decisions'[i], granted')
    <3>1. nextId' = nextId /\ granted' = granted
      BY <1>1 DEF engineVars
    <3>2. CASE \E j \in 1..Len(decisions) : decisions'[i] = decisions[j]
      <4>1. PICK j \in 1..Len(decisions) : decisions'[i] = decisions[j]
        BY <3>2
      <4>2. decisions[j].id < nextId /\ GrantedDecision(decisions[j], granted)
        BY <2>1 DEF DecisionsOK
      <4>3. QED
        BY <3>1, <4>1, <4>2 DEF GrantedDecision
    <3>3. CASE /\ id # 0
               /\ decisions'[i].id = id
               /\ decisions'[i].kind = o.kind
               /\ decisions'[i].digest.content = o.content
               /\ decisions'[i].digest.policy = o.policy
      <4>1. id < nextId
        BY DEF InterceptorInv, WriteOK, CitesOK
      <4>2. /\ Written(o).kind = o.kind
            /\ Written(o).content = o.content
            /\ Written(o).policy = o.policy
        BY DEF Written
      <4>3. GrantedDecision(decisions'[i], granted')
        BY <1>6, <3>1, <3>3, <4>2 DEF GrantedDecision
      <4>4. QED
        BY <3>1, <3>3, <4>1, <4>3
    <3>4. QED
      BY <2>3, <3>2, <3>3 DEF Remembered
  <2>6. QED
    BY <2>3, <2>4, <2>5 DEF DecisionsOK
<1>8. MapsOK(g)
  BY <1>1, <1>2, <1>7, LearnInv DEF MapsOK
<1> HIDE DEF p
<1>9. StampFollows(g, p)
  <2>1. CASE id = 0
    <3>1. p.stamp = ops[g].stamp /\ p.policy \in {ops[g].policy, "base"}
      BY <1>4, <1>5, <2>1
    <3>2. p.brought = ops[g].brought
      BY <1>3, <1>4, <1>5, <2>1 DEF Write
    <3>3. QED
      BY <3>1, <3>2 DEF StampFollows
  <2>2. CASE id # 0
    <3>1. p.stamp = id
      BY <1>5, <2>2
    <3>2. ASSUME NEW i \in 1..Len(decisions'), decisions'[i].id = id, decisions'[i].applied
          PROVE  p.policy = "base"
      <4>1. \A j \in 1..Len(decisions) : decisions[j].id # id
        BY <2>2 DEF InterceptorInv, IdsFresh
      <4>2. decisions'[i].applied = BaseApplies(o)
        BY <1>7, <3>2, <4>1 DEF Remembered
      <4>3. QED
        BY <1>4, <1>5, <3>2, <4>2
    <3>3. QED
      BY <2>2, <3>1, <3>2 DEF StampFollows
  <2>3. QED
    BY <2>1, <2>2
<1>10. QED
  BY <1>1, <1>2, <1>5, <1>8, <1>9, PassInv

\* modify_operation, unanswered, with a window open.
LEMMA ModifyBreakGlassInv ==
    ASSUME InterceptorInv, NEW g \in 1..MaxOps, ModifyBreakGlass(g)
    PROVE  InterceptorInv'
<1> DEFINE o == ops[g]
           q == Patched(o)
           p == [q EXCEPT !.unanswered = TRUE]
<1>1. /\ o.pc = "modify asked"
      /\ o.answer.outcome = "down"
      /\ Pass(g, p, "modified")
      /\ UNCHANGED <<decisions, reviews, base, engineVars, journaled>>
  BY DEF ModifyBreakGlass
<1>2. g \notin refused /\ g \notin journaled
  BY <1>1, StillOpen DEF Asked
<1>3. /\ q \in Write
      /\ q.kind = "create" /\ q.policy = "none" => q.seen = "none"
      /\ q.policy \in {o.policy, "base"}
      /\ q.stamp = o.stamp
      /\ q.brought = o.brought
  BY <1>1, PatchedShape
<1> HIDE DEF q
<1>4. /\ p \in Write
      /\ p.kind = "create" /\ p.policy = "none" => p.seen = "none"
      /\ StampFollows(g, p)
  BY <1>3 DEF Write, StampFollows
<1>5. MapsOK(g)
  BY <1>1, MapsKept DEF engineVars
<1> HIDE DEF p
<1>6. QED
  BY <1>1, <1>2, <1>4, <1>5, PassInv

\* Another interceptor changes what the write asks for.
LEMMA TouchInv ==
    ASSUME InterceptorInv, NEW g \in 1..MaxOps, Touch(g)
    PROVE  InterceptorInv'
<1>1. PICK content \in Contents : ops' = [ops EXCEPT ![g].content = content]
  BY DEF Touch
<1> DEFINE p == [ops[g] EXCEPT !.content = content]
<1>2. /\ ops[g].pc = "modified"
      /\ UNCHANGED <<decisions, reviews, base, engineVars, journaled>>
      /\ ops[g] \in Write
  BY DEF Touch, InterceptorInv, Typed
<1>3. /\ p \in Write
      /\ p.kind = ops[g].kind
      /\ p.policy = ops[g].policy
      /\ p.seen = ops[g].seen
      /\ p.pc = "modified"
      /\ p.answer = ops[g].answer
      /\ p.stamp = ops[g].stamp
      /\ p.brought = ops[g].brought
  BY <1>2 DEF Write
<1>4. ops' = [ops EXCEPT ![g] = p]
  BY <1>1 DEF InterceptorInv, Typed
<1> HIDE DEF p
<1>5. ops' \in [1..MaxOps -> Write] /\ OnlyOf(g) /\ ops'[g] = p
  BY <1>3, <1>4 DEF InterceptorInv, Typed, OnlyOf
<1>6. /\ \A h \in 1..MaxOps : ops'[h].answer = ops[h].answer
      /\ UNCHANGED <<opened, nextId, granted, refused>>
  BY <1>2, <1>3, <1>5 DEF OnlyOf, engineVars
<1>7. Typed'
  BY <1>2, <1>5, <1>6 DEF InterceptorInv, Typed
<1>8. DecisionsOK' /\ ReviewsOK'
  BY <1>2, <1>6, MapsKept DEF MapsOK
<1>9. IdsFresh'
  BY <1>2, <1>6 DEF InterceptorInv, IdsFresh
<1>10. ASSUME NEW h \in 1..MaxOps PROVE WriteOK(h)'
  <2>1. WriteOK(h) /\ Typed
    BY DEF InterceptorInv
  <2>2. CASE h = g
    <3>1. /\ g \notin refused
          /\ g \notin journaled
          /\ ~Asked(ops'[g])
      BY <1>2, <1>3, <1>5, StillOpen DEF Asked
    <3>2. RefusalOK(g)' /\ GroundsOK(g)'
      BY <1>2, <1>3, <1>5, <1>6, <3>1 DEF RefusalOK, GroundsOK, Asked
    <3>3. BareOK(g)'
      BY <1>2, <1>3, <1>5, <2>1, <2>2 DEF WriteOK, BareOK
    <3>4. CitesOK(g)'
      BY <1>6, <2>1, <2>2, <3>1 DEF WriteOK, CitesOK, Asked
    <3>5. QED
      BY <2>2, <3>2, <3>3, <3>4 DEF WriteOK
  <2>3. CASE h # g
    <3>1. ops'[h] = ops[h]
      BY <1>5, <2>3 DEF OnlyOf
    <3>2. EngineGrows
      BY <1>6, <2>1, IdsStartAtOne DEF EngineGrows
    <3>3. refused' = refused /\ journaled' = journaled
      BY <1>2, <1>6
    <3>4. QED
      BY <2>1, <3>1, <3>2, <3>3, OtherWrite
  <2>4. QED
    BY <2>2, <2>3
<1>11. StampsOK'
  <2>1. nextId \in Nat
    BY IdsStartAtOne DEF InterceptorInv
  <2>2. ASSUME NEW h \in 1..MaxOps
        PROVE  /\ ops'[h].stamp = ops[h].stamp
               /\ ops'[h].brought = ops[h].brought
               /\ ops'[h].policy = ops[h].policy
               /\ ops'[h].answer.id \in {0, ops[h].answer.id}
    BY <1>3, <1>5, <1>6 DEF OnlyOf
  <2>3. QED
    BY <1>2, <1>6, <1>7, <2>1, <2>2, StampsKept
<1>12. QED
  BY <1>7, <1>8, <1>9, <1>10, <1>11 DEF InterceptorInv

\* A stamp that is confirmed names a decision that allowed this write.
LEMMA ConfirmedIsGranted ==
    ASSUME InterceptorInv, NEW g \in 1..MaxOps, Confirmed(ops[g])
    PROVE  \E w \in granted : Grounds(w, ops[g])
<1> DEFINE o == ops[g]
<1>1. PICK i \in 1..Len(decisions) : Matches(o, decisions[i])
  BY DEF Confirmed
<1> DEFINE d == decisions[i]
<1>2. PICK w \in granted : w.kind = d.kind /\ w.content = d.digest.content
                          /\ w.policy = d.digest.policy
  BY DEF InterceptorInv, DecisionsOK, GrantedDecision
<1>3. o.stamp = d.id /\ d.kind = o.kind /\ d.digest = Digest(o, d.applied)
  BY <1>1 DEF Matches
<1>4. d.applied /\ ~o.brought => o.policy = "base"
  BY <1>3 DEF InterceptorInv, StampsOK, StampOK
<1>5. /\ d.digest.content = o.content
      /\ d.digest.policy = IF d.applied THEN "none" ELSE o.policy
  BY <1>3 DEF Digest
<1>6. o.brought \in BOOLEAN
  BY DEF InterceptorInv, Typed, Write
<1> HIDE DEF o, d
<1>7. Grounds(w, o)
  BY <1>2, <1>3, <1>4, <1>5, <1>6 DEF Grounds
<1>8. QED
  BY <1>7 DEF o

\* A write that has been modified is bare only for the store's "none".
LEMMA BareIsSeen ==
    ASSUME InterceptorInv, NEW g \in 1..MaxOps, ops[g].pc \in {"modified", "validate asked"},
           ops[g].kind = "create", ops[g].policy = "none"
    PROVE  ops[g].seen = "none"
BY DEF InterceptorInv, WriteOK, BareOK

\* validate, up to the engine.
LEMMA ValidateInv ==
    ASSUME InterceptorInv, NEW g \in 1..MaxOps, Validate(g)
    PROVE  InterceptorInv'
<1>1. /\ ops[g].pc = "modified"
      /\ UNCHANGED <<decisions, reviews, base, engineVars, journaled>>
      /\ ops[g] \in Write
  BY DEF Validate, InterceptorInv, Typed
<1>2. MapsOK(g)
  BY <1>1, MapsKept DEF engineVars
<1>3. CASE Confirmed(ops[g]) /\ Pass(g, ops[g], "committed")
  <2>1. g \notin refused /\ g \notin journaled
    BY <1>1, StillOpen
  <2>2. \E w \in granted : Grounds(w, ops[g])
    BY <1>3, ConfirmedIsGranted
  <2>3. ops[g].kind = "create" /\ ops[g].policy = "none" => ops[g].seen = "none"
    BY <1>1, BareIsSeen
  <2>4. QED
    BY <1>1, <1>2, <1>3, <2>1, <2>2, <2>3, StampStays, PassInv
<1>4. CASE Refuse(g)
  BY <1>1, <1>2, <1>4, RefuseInv
<1>5. CASE ~BaseMissing(ops[g], base) /\ Ask(g, "validate asked")
  BY <1>1, <1>5, AskInv
<1>6. QED
  BY <1>3, <1>4, <1>5 DEF Validate

\* The map of decisions does not change, and that of reviews learns.
LEMMA LearnMaps ==
    ASSUME InterceptorInv, NEW g \in 1..MaxOps, Asked(ops[g]), Learn(g),
           UNCHANGED <<decisions, engineVars>>
    PROVE  MapsOK(g)
<1>1. reviews' \in Seq(Review) /\ ReviewsOK'
  BY LearnInv
<1>2. decisions' \in Seq(Decision)
  BY DEF InterceptorInv, Typed
<1>3. DecisionsOK'
  BY DEF InterceptorInv, DecisionsOK, engineVars
<1>4. FromLedger(g)
  BY DEF FromLedger
<1>5. QED
  BY <1>1, <1>2, <1>3, <1>4 DEF MapsOK

\* validate, allowed.
LEMMA ValidateAllowedInv ==
    ASSUME InterceptorInv, NEW g \in 1..MaxOps, ValidateAllowed(g)
    PROVE  InterceptorInv'
<1>1. /\ ops[g].pc = "validate asked"
      /\ ops[g].answer.outcome = "allow"
      /\ Learn(g)
      /\ Pass(g, ops[g], "committed")
      /\ UNCHANGED <<decisions, base, engineVars, journaled>>
      /\ ops[g] \in Write
  BY DEF ValidateAllowed, InterceptorInv, Typed
<1>2. Asked(ops[g]) /\ g \notin refused /\ g \notin journaled
  BY <1>1, StillOpen DEF Asked
<1>3. MapsOK(g)
  BY <1>1, <1>2, LearnMaps
<1>4. Written(ops[g]) \in granted
  BY <1>1, <1>2 DEF InterceptorInv, WriteOK, GroundsOK
<1>5. Grounds(Written(ops[g]), ops[g])
  BY DEF Grounds, Written
<1>6. ops[g].kind = "create" /\ ops[g].policy = "none" => ops[g].seen = "none"
  BY <1>1, BareIsSeen
<1>7. QED
  BY <1>1, <1>2, <1>3, <1>4, <1>5, <1>6, StampStays, PassInv

\* validate, unanswered, with a window open and the entry in the file.
LEMMA ValidateBreakGlassInv ==
    ASSUME InterceptorInv, NEW g \in 1..MaxOps, ValidateBreakGlass(g)
    PROVE  InterceptorInv'
<1>1. /\ ops[g].pc = "validate asked"
      /\ Covers(ops[g])
      /\ journaled' = journaled \cup {g}
      /\ Pass(g, ops[g], "committed")
      /\ UNCHANGED <<decisions, reviews, base, engineVars>>
      /\ ops[g] \in Write
  BY DEF ValidateBreakGlass, InterceptorInv, Typed
<1>2. ops[g].answer.outcome = "down" /\ Coverable(ops[g].kind)
  BY <1>1 DEF Covers
<1>3. g \notin refused
  BY <1>1, <1>2, StillOpen DEF Asked
<1>4. MapsOK(g)
  BY <1>1, MapsKept DEF engineVars
<1>5. ops[g].kind = "create" /\ ops[g].policy = "none" => ops[g].seen = "none"
  BY <1>1, BareIsSeen
<1>6. QED
  BY <1>1, <1>2, <1>3, <1>4, <1>5, StampStays, PassInv

\* Refused, in either phase.
LEMMA DenyInv ==
    ASSUME InterceptorInv, NEW g \in 1..MaxOps, Deny(g)
    PROVE  InterceptorInv'
<1>1. /\ Asked(ops[g])
      /\ ops[g].pc # "committed"
      /\ Learn(g)
      /\ Refuse(g)
      /\ UNCHANGED <<decisions, base, engineVars, journaled>>
  BY DEF Deny, Asked
<1>2. MapsOK(g)
  BY <1>1, LearnMaps
<1>3. QED
  BY <1>1, <1>2, RefuseInv

\* A step that is no write's: the maps may lose entries, and the writes, the
\* engine and the entries stay.
LEMMA AroundStep ==
    ASSUME InterceptorInv,
           UNCHANGED <<ops, engineVars, journaled>>,
           base' \in Bases,
           decisions' \in Seq(Decision), reviews' \in Seq(Review),
           DecisionsOK', ReviewsOK',
           \A i \in 1..Len(decisions') :
               \E j \in 1..Len(decisions) : decisions'[i] = decisions[j]
    PROVE  InterceptorInv'
<1>1. UNCHANGED <<opened, nextId, granted, refused>>
  BY DEF engineVars
<1>2. Typed'
  BY <1>1 DEF InterceptorInv, Typed
<1>3. IdsFresh'
  BY DEF InterceptorInv, IdsFresh
<1>4. EngineGrows
  BY <1>1, IdsStartAtOne DEF InterceptorInv, EngineGrows
<1>5. ASSUME NEW h \in 1..MaxOps PROVE WriteOK(h)'
  BY <1>1, <1>4, OtherWrite DEF InterceptorInv
<1>6. StampsOK'
  BY <1>1, <1>2, IdsStartAtOne, StampsKept DEF InterceptorInv
<1>7. QED
  BY <1>2, <1>3, <1>5, <1>6 DEF InterceptorInv

\* The oldest decision is forgotten.
LEMMA ForgetDecisionInv ==
    ASSUME InterceptorInv, ForgetDecision
    PROVE  InterceptorInv'
<1>1. /\ decisions # <<>>
      /\ decisions' = Tail(decisions)
      /\ UNCHANGED <<ops, reviews, base, engineVars, journaled>>
      /\ decisions \in Seq(Decision)
      /\ reviews \in Seq(Review)
      /\ base \in Bases
  BY DEF ForgetDecision, InterceptorInv, Typed
<1>2. /\ decisions' \in Seq(Decision)
      /\ Len(decisions') = Len(decisions) - 1
      /\ Len(decisions) \in Nat \ {0}
      /\ \A i \in 1..Len(decisions') :
            i + 1 \in 1..Len(decisions) /\ decisions'[i] = decisions[i + 1]
  BY <1>1, TailShape
<1>3. nextId' = nextId /\ granted' = granted /\ opened' = opened
  BY <1>1 DEF engineVars
<1>4. DecisionsOK'
  <2>1. DecisionsOK /\ MaxDecisions \in Nat
    BY InterceptorAssumption DEF InterceptorInv
  <2>2. Len(decisions') <= MaxDecisions
    BY <1>2, <2>1 DEF DecisionsOK
  <2>3. IdsDiffer(decisions')
    BY <1>2, <2>1 DEF DecisionsOK, IdsDiffer
  <2>4. \A i \in 1..Len(decisions') :
            decisions'[i].id < nextId' /\ GrantedDecision(decisions'[i], granted')
    BY <1>2, <1>3, <2>1 DEF DecisionsOK
  <2>5. QED
    BY <2>2, <2>3, <2>4 DEF DecisionsOK
<1>5. ReviewsOK'
  BY <1>1, <1>3 DEF InterceptorInv, ReviewsOK
<1>6. QED
  BY <1>1, <1>2, <1>4, <1>5, AroundStep

\* The oldest review is forgotten.
LEMMA ForgetReviewInv ==
    ASSUME InterceptorInv, ForgetReview
    PROVE  InterceptorInv'
<1>1. /\ reviews # <<>>
      /\ reviews' = Tail(reviews)
      /\ UNCHANGED <<ops, decisions, base, engineVars, journaled>>
      /\ decisions \in Seq(Decision)
      /\ reviews \in Seq(Review)
      /\ base \in Bases
  BY DEF ForgetReview, InterceptorInv, Typed
<1>2. /\ reviews' \in Seq(Review)
      /\ Len(reviews') = Len(reviews) - 1
      /\ Len(reviews) \in Nat \ {0}
      /\ \A i \in 1..Len(reviews') :
            i + 1 \in 1..Len(reviews) /\ reviews'[i] = reviews[i + 1]
  BY <1>1, TailShape
<1>3. nextId' = nextId /\ granted' = granted /\ opened' = opened
  BY <1>1 DEF engineVars
<1>4. ReviewsOK'
  <2>1. ReviewsOK /\ MaxReviews \in Nat
    BY InterceptorAssumption DEF InterceptorInv
  <2>2. Len(reviews') <= MaxReviews
    BY <1>2, <2>1 DEF ReviewsOK
  <2>3. KeysDiffer(reviews')
    BY <1>2, <2>1 DEF ReviewsOK, KeysDiffer
  <2>4. \A i \in 1..Len(reviews') :
            /\ reviews'[i].id < nextId'
            /\ opened'[reviews'[i].id].written = reviews'[i].key
    BY <1>2, <1>3, <2>1 DEF ReviewsOK
  <2>5. QED
    BY <2>2, <2>3, <2>4 DEF ReviewsOK
<1>5. DecisionsOK'
  BY <1>1, <1>3 DEF InterceptorInv, DecisionsOK
<1>6. QED
  BY <1>1, <1>2, <1>4, <1>5, AroundStep

\* The store or the window changes, or nothing of the model does.
LEMMA OutsideInv ==
    ASSUME InterceptorInv, base' \in Bases,
           UNCHANGED <<ops, decisions, reviews, engineVars, journaled>>
    PROVE  InterceptorInv'
<1>1. decisions \in Seq(Decision) /\ reviews \in Seq(Review)
  BY DEF InterceptorInv, Typed
<1>2. DecisionsOK'
  BY DEF InterceptorInv, DecisionsOK, engineVars
<1>3. ReviewsOK'
  BY DEF InterceptorInv, ReviewsOK, engineVars
<1>4. QED
  BY <1>1, <1>2, <1>3, AroundStep

\* A restart: the ledger is gone, and the calls under way fail closed.
LEMMA RestartInv ==
    ASSUME InterceptorInv, Restart
    PROVE  InterceptorInv'
<1> DEFINE p(g) == [Unused EXCEPT !.kind = ops[g].kind, !.pc = "denied"]
           fails(g) == ops[g].pc \in {"modify asked", "validate asked"}
<1>1. /\ decisions' = <<>>
      /\ reviews' = <<>>
      /\ ops' = [g \in 1..MaxOps |-> IF fails(g) THEN p(g) ELSE ops[g]]
      /\ base' \in Bases
      /\ UNCHANGED <<engineVars, journaled>>
  BY DEF Restart
<1>2. ASSUME NEW g \in 1..MaxOps
      PROVE  /\ p(g) \in Write
             /\ p(g).pc = "denied"
             /\ p(g).answer = NoAnswer
             /\ p(g).stamp = 0
  <2>1. ops[g].kind \in AllKinds \cup {"none"}
    BY DEF InterceptorInv, Typed, Write
  <2>2. QED
    BY <2>1, UnusedShape DEF Unused, Write, Phases
<1> HIDE DEF p
<1>3. UNCHANGED <<opened, nextId, granted, refused>>
  BY <1>1 DEF engineVars
<1>4. /\ decisions' \in Seq(Decision)
      /\ reviews' \in Seq(Review)
      /\ Len(decisions') = 0
      /\ Len(reviews') = 0
  BY <1>1, EmptySeq
<1>5. ops' \in [1..MaxOps -> Write]
  BY <1>1, <1>2 DEF InterceptorInv, Typed
<1>6. Typed'
  BY <1>1, <1>3, <1>4, <1>5 DEF InterceptorInv, Typed
<1>7. MaxDecisions \in Nat /\ MaxReviews \in Nat
  BY InterceptorAssumption
<1>8. DecisionsOK'
  BY <1>4, <1>7 DEF DecisionsOK, IdsDiffer
<1>9. ReviewsOK'
  BY <1>4, <1>7 DEF ReviewsOK, KeysDiffer
<1>10. ASSUME NEW h \in 1..MaxOps
       PROVE  \/ ops'[h] = ops[h]
              \/ /\ fails(h)
                 /\ ops'[h].pc = "denied"
                 /\ ops'[h].answer = NoAnswer
                 /\ ops'[h].stamp = 0
  BY <1>1, <1>2
<1>11. IdsFresh'
  <2>1. ASSUME NEW h \in 1..MaxOps, ops'[h].answer.id # 0
        PROVE  \A f \in 1..MaxOps \ {h} : ops'[f].answer.id # ops'[h].answer.id
    <3>1. ops'[h] = ops[h]
      BY <1>10, <2>1, Nothing
    <3>2. \A f \in 1..MaxOps \ {h} : ops[f].answer.id # ops[h].answer.id
      BY <2>1, <3>1 DEF InterceptorInv, IdsFresh
    <3>3. ASSUME NEW f \in 1..MaxOps \ {h}
          PROVE  ops'[f].answer.id # ops'[h].answer.id
      <4>1. ops'[f] = ops[f] \/ ops'[f].answer = NoAnswer
        BY <1>10
      <4>2. QED
        BY <2>1, <3>1, <3>2, <4>1, Nothing
    <3>4. QED
      BY <3>3
  <2>2. QED
    BY <1>4, <2>1 DEF IdsFresh
<1>12. ASSUME NEW h \in 1..MaxOps PROVE WriteOK(h)'
  <2>1. WriteOK(h) /\ Typed
    BY DEF InterceptorInv
  <2>2. CASE ops'[h] = ops[h]
    <3>1. EngineGrows
      BY <1>3, <2>1, IdsStartAtOne DEF EngineGrows
    <3>2. refused' = refused /\ journaled' = journaled
      BY <1>1, <1>3
    <3>3. QED
      BY <2>1, <2>2, <3>1, <3>2, OtherWrite
  <2>3. CASE fails(h) /\ ops'[h].pc = "denied" /\ ops'[h].answer = NoAnswer
    <3>1. h \notin journaled
      BY <2>3, StillOpen
    <3>2. RefusalOK(h)' /\ GroundsOK(h)' /\ BareOK(h)'
      BY <1>1, <2>3, <3>1 DEF RefusalOK, GroundsOK, BareOK, Asked
    <3>3. 0 < nextId'
      BY <1>3, <2>1, IdsStartAtOne
    <3>4. CitesOK(h)'
      BY <2>3, <3>3, Nothing DEF CitesOK, Asked
    <3>5. QED
      BY <3>2, <3>4 DEF WriteOK
  <2>4. QED
    BY <1>10, <2>2, <2>3
<1>13. StampsOK'
  <2>1. nextId' \in Nat /\ nextId <= nextId'
    BY <1>3, IdsStartAtOne DEF InterceptorInv
  <2>2. ASSUME NEW h \in 1..MaxOps
        PROVE  /\ \/ /\ ops'[h].stamp = ops[h].stamp
                     /\ ops'[h].brought = ops[h].brought
                     /\ ops'[h].policy = ops[h].policy
                  \/ ops'[h].stamp = 0
               /\ ops'[h].answer.id \in {0, ops[h].answer.id}
    BY <1>10, Nothing
  <2>3. ASSUME NEW i \in 1..Len(decisions')
        PROVE  \E j \in 1..Len(decisions) : decisions'[i] = decisions[j]
    BY <1>4
  <2>4. QED
    BY <1>6, <2>1, <2>2, <2>3, StampsKept
<1>14. QED
  BY <1>6, <1>8, <1>9, <1>11, <1>12, <1>13 DEF InterceptorInv

\* What the engine keeps grows: the maps still stand for what it said.
LEMMA MapsOutlive ==
    ASSUME InterceptorInv, EngineGrows, UNCHANGED <<decisions, reviews>>
    PROVE  /\ DecisionsOK'
           /\ ReviewsOK'
<1>1. /\ DecisionsOK
      /\ ReviewsOK
      /\ nextId \in Nat /\ nextId' \in Nat /\ nextId <= nextId'
      /\ granted \subseteq granted'
  BY IdsStartAtOne DEF InterceptorInv, EngineGrows
<1>2. /\ \A i \in 1..Len(decisions) : decisions[i].id \in Nat
      /\ \A i \in 1..Len(reviews) : reviews[i].id \in 1..MaxId /\ reviews[i].id \in Nat
  <2>1. /\ \A i \in 1..Len(decisions) : decisions[i] \in Decision
        /\ \A i \in 1..Len(reviews) : reviews[i] \in Review
    BY ElementOfSeq DEF InterceptorInv, Typed
  <2>2. QED
    BY <2>1, Nothing DEF Decision, Review
<1>3. ASSUME NEW i \in 1..Len(decisions)
      PROVE  decisions[i].id < nextId' /\ GrantedDecision(decisions[i], granted')
  <2>1. decisions[i].id < nextId /\ GrantedDecision(decisions[i], granted)
    BY <1>1 DEF DecisionsOK
  <2>2. decisions[i].id < nextId'
    BY <1>1, <1>2, <2>1
  <2>3. GrantedDecision(decisions[i], granted')
    BY <1>1, <2>1 DEF GrantedDecision
  <2>4. QED
    BY <2>2, <2>3
<1>4. ASSUME NEW i \in 1..Len(reviews)
      PROVE  /\ reviews[i].id < nextId'
             /\ opened'[reviews[i].id].written = reviews[i].key
  <2>1. reviews[i].id < nextId /\ opened[reviews[i].id].written = reviews[i].key
    BY <1>1 DEF ReviewsOK
  <2>2. reviews[i].id < nextId'
    BY <1>1, <1>2, <2>1
  <2>3. opened'[reviews[i].id].written = opened[reviews[i].id].written
    BY <1>2, <2>1 DEF EngineGrows
  <2>4. QED
    BY <2>1, <2>2, <2>3
<1>5. DecisionsOK'
  BY <1>1, <1>3 DEF DecisionsOK
<1>6. ReviewsOK'
  BY <1>1, <1>4 DEF ReviewsOK
<1>7. QED
  BY <1>5, <1>6

\* An answer is told: it is what the engine keeps, and its id is a new one.
LEMMA TellInv ==
    ASSUME InterceptorInv, NEW g \in 1..MaxOps, Asked(ops[g]), ops[g].answer = NoAnswer,
           NEW a \in Answer, ops' = [ops EXCEPT ![g].answer = a],
           UNCHANGED <<decisions, reviews, base, journaled>>,
           EngineGrows,
           nextId' \in 1..(MaxId + 1),
           opened' \in [1..MaxId -> Opened],
           a.id # 0 => a.id = nextId /\ nextId' = nextId + 1,
           refused' \in {refused, refused \cup {g}},
           g \in refused' => a.outcome \in {"review", "deny"},
           a.outcome = "allow" => Written(ops[g]) \in granted',
           a.outcome = "review" /\ a.id # 0 => opened'[a.id].written = Written(ops[g])
    PROVE  InterceptorInv'
<1>1. /\ ops' \in [1..MaxOps -> Write]
      /\ OnlyOf(g)
      /\ SameWrite(ops'[g], ops[g])
      /\ ops'[g].pc = ops[g].pc
      /\ ops'[g].base = ops[g].base
      /\ ops'[g].seen = ops[g].seen
      /\ ops'[g].cited = ops[g].cited
      /\ ops'[g].answer = a
  BY TellShape DEF InterceptorInv
<1>2. /\ nextId \in Nat /\ 0 < nextId /\ nextId' \in Nat /\ nextId <= nextId'
  BY IdsStartAtOne DEF InterceptorInv, EngineGrows
<1>3. Typed'
  BY <1>1 DEF InterceptorInv, Typed
<1>4. DecisionsOK' /\ ReviewsOK'
  BY MapsOutlive
<1>5. a.id < nextId'
  BY <1>2
<1>6. IdsFresh'
  <2>1. ASSUME NEW h \in 1..MaxOps, ops'[h].answer.id # 0
        PROVE  /\ \A i \in 1..Len(decisions') : decisions'[i].id # ops'[h].answer.id
               /\ \A f \in 1..MaxOps \ {h} : ops'[f].answer.id # ops'[h].answer.id
    <3>1. \A f \in 1..MaxOps : ops[f].answer.id < nextId
      BY DEF InterceptorInv, WriteOK, CitesOK
    <3>2. \A i \in 1..Len(decisions) : decisions[i].id < nextId
      BY DEF InterceptorInv, DecisionsOK
    <3>3. CASE h = g
      <4>1. ops'[h].answer.id = nextId
        BY <1>1, <2>1, <3>3
      <4>2. \A f \in 1..MaxOps \ {h} : ops'[f].answer.id < nextId
        BY <1>1, <3>1, <3>3 DEF OnlyOf
      <4>3. \A i \in 1..Len(decisions') : decisions'[i].id # nextId
        BY <1>2, <3>2
      <4>4. \A f \in 1..MaxOps \ {h} : ops'[f].answer.id # nextId
        BY <1>2, <4>2
      <4>5. QED
        BY <4>1, <4>3, <4>4
    <3>4. CASE h # g
      <4>1. ops'[h] = ops[h]
        BY <1>1, <3>4 DEF OnlyOf
      <4>2. /\ \A i \in 1..Len(decisions) : decisions[i].id # ops[h].answer.id
            /\ \A f \in 1..MaxOps \ {h} : ops[f].answer.id # ops[h].answer.id
        BY <2>1, <4>1 DEF InterceptorInv, IdsFresh
      <4>3. ops'[g].answer.id # ops[h].answer.id
        BY <1>1, <1>2, <2>1, <3>1, <4>1
      <4>4. ASSUME NEW f \in 1..MaxOps \ {h}
            PROVE  ops'[f].answer.id # ops'[h].answer.id
        <5>1. CASE f = g
          BY <4>1, <4>3, <5>1
        <5>2. CASE f # g
          BY <1>1, <4>1, <4>2, <5>2 DEF OnlyOf
        <5>3. QED
          BY <5>1, <5>2
      <4>5. QED
        BY <4>1, <4>2, <4>4
    <3>5. QED
      BY <3>3, <3>4
  <2>2. QED
    BY <2>1 DEF IdsFresh
<1>7. ASSUME NEW h \in 1..MaxOps PROVE WriteOK(h)'
  <2>1. WriteOK(h) /\ Typed
    BY DEF InterceptorInv
  <2>2. CASE h = g
    <3>1. Asked(ops'[g]) /\ Written(ops'[g]) = Written(ops[g])
      BY <1>1 DEF Asked, Written, SameWrite
    <3>2. ops[g].pc # "committed"
      BY DEF Asked
    <3>3. RefusalOK(g)'
      BY <1>1, <3>1 DEF RefusalOK
    <3>4. GroundsOK(g)'
      <4>1. g \notin journaled
        BY <3>2, StillOpen
      <4>2. QED
        BY <1>1, <3>1, <3>2, <4>1 DEF GroundsOK
    <3>5. BareOK(g)'
      BY <1>1, <2>1, <2>2 DEF WriteOK, BareOK, SameWrite
    <3>6. CitesOK(g)'
      <4>1. ops[g].cited \in 0..MaxId /\ ops[g].cited \in Nat
        BY <2>1, Nothing DEF Typed, Write
      <4>2. ops[g].cited # 0 =>
                ops[g].cited < nextId /\ opened[ops[g].cited].written = Written(ops[g])
        BY <2>1, <2>2 DEF WriteOK, CitesOK
      <4>3. ops[g].cited # 0 =>
                ops[g].cited < nextId' /\ opened'[ops[g].cited].written = Written(ops[g])
        BY <1>2, <4>1, <4>2 DEF EngineGrows
      <4>4. QED
        BY <1>1, <1>5, <3>1, <4>3 DEF CitesOK
    <3>7. QED
      BY <2>2, <3>3, <3>4, <3>5, <3>6 DEF WriteOK
  <2>3. CASE h # g
    <3>1. /\ ops'[h] = ops[h]
          /\ h \in refused' => h \in refused
          /\ h \in journaled' <=> h \in journaled
      BY <1>1, <2>3 DEF OnlyOf
    <3>2. QED
      BY <2>1, <3>1, OtherWrite
  <2>4. QED
    BY <2>2, <2>3
<1>8. StampsOK'
  <2>1. \A h \in 1..MaxOps : StampOK(h) /\ ops[h].stamp \in Nat
    BY StampTypes DEF InterceptorInv, StampsOK
  <2>2. ASSUME NEW h \in 1..MaxOps
        PROVE  /\ ops'[h].stamp = ops[h].stamp
               /\ ops'[h].brought = ops[h].brought
               /\ ops'[h].policy = ops[h].policy
    BY <1>1 DEF OnlyOf, SameWrite
  <2>3. ASSUME NEW h \in 1..MaxOps PROVE StampOK(h)'
    <3>1. ops'[h].stamp < nextId'
      BY <1>2, <2>1, <2>2 DEF StampOK
    <3>2. ASSUME NEW f \in 1..MaxOps, ops'[f].answer.id # 0
          PROVE  ops'[f].answer.id # ops'[h].stamp
      <4>1. CASE f = g
        <5>1. ops'[f].answer.id = nextId
          BY <1>1, <3>2, <4>1
        <5>2. ops[h].stamp < nextId /\ ops[h].stamp \in Nat
          BY <2>1 DEF StampOK
        <5>3. ops[h].stamp # nextId
          BY <1>2, <5>2
        <5>4. QED
          BY <2>2, <5>1, <5>3
      <4>2. CASE f # g
        BY <1>1, <2>1, <2>2, <3>2, <4>2 DEF OnlyOf, StampOK
      <4>3. QED
        BY <4>1, <4>2
    <3>3. ASSUME ~ops'[h].brought, NEW i \in 1..Len(decisions'),
                 decisions'[i].id = ops'[h].stamp, decisions'[i].applied
          PROVE  ops'[h].policy = "base"
      BY <2>1, <2>2, <3>3 DEF StampOK
    <3>4. QED
      BY <3>1, <3>2, <3>3 DEF StampOK
  <2>4. QED
    BY <2>3 DEF StampsOK
<1>9. QED
  BY <1>3, <1>4, <1>6, <1>7, <1>8 DEF InterceptorInv

\* A review changes its state, and stays with its write.
LEMMA StateOnly ==
    ASSUME Typed, NEW r \in 1..MaxId, NEW state \in {"approved", "used"},
           opened' = [opened EXCEPT ![r].state = state]
    PROVE  /\ opened' \in [1..MaxId -> Opened]
           /\ \A q \in 1..MaxId : opened'[q].written = opened[q].written
<1> DEFINE p == [opened[r] EXCEPT !.state = state]
<1>1. opened[r] \in Opened
  BY DEF Typed
<1>2. p \in Opened /\ p.written = opened[r].written
  BY <1>1 DEF Opened
<1>3. opened' = [opened EXCEPT ![r] = p]
  BY DEF Typed
<1> HIDE DEF p
<1>4. QED
  BY <1>2, <1>3 DEF Typed

\* The operator approves a review.
LEMMA ApproveInv ==
    ASSUME InterceptorInv, NEW r \in 1..MaxId, Approve(r)
    PROVE  InterceptorInv'
<1>1. /\ opened' = [opened EXCEPT ![r].state = "approved"]
      /\ UNCHANGED <<ops, decisions, reviews, base, nextId, granted, refused, journaled>>
  BY DEF Approve
<1>2. /\ opened' \in [1..MaxId -> Opened]
      /\ \A q \in 1..MaxId : opened'[q].written = opened[q].written
  BY <1>1, StateOnly DEF InterceptorInv
<1>3. EngineGrows
  BY <1>1, <1>2, IdsStartAtOne DEF InterceptorInv, EngineGrows
<1>4. Typed'
  BY <1>1, <1>2 DEF InterceptorInv, Typed
<1>5. DecisionsOK' /\ ReviewsOK'
  BY <1>1, <1>3, MapsOutlive
<1>6. IdsFresh'
  BY <1>1 DEF InterceptorInv, IdsFresh
<1>7. ASSUME NEW h \in 1..MaxOps PROVE WriteOK(h)'
  BY <1>1, <1>3, OtherWrite DEF InterceptorInv
<1>8. StampsOK'
  BY <1>1 DEF InterceptorInv, StampsOK, StampOK
<1>9. QED
  BY <1>4, <1>5, <1>6, <1>7, <1>8 DEF InterceptorInv

\* The engine decides a write.
LEMMA EngineAnswersInv ==
    ASSUME InterceptorInv, NEW g \in 1..MaxOps, EngineAnswers(g)
    PROVE  InterceptorInv'
<1> DEFINE o == ops[g]
           a(outcome, id) == [outcome |-> outcome, id |-> id]
           Told(outcome, id) == ops' = [ops EXCEPT ![g].answer = a(outcome, id)]
<1>1. /\ Asked(o)
      /\ o.answer = NoAnswer
      /\ UNCHANGED <<decisions, reviews, base, journaled>>
  BY DEF EngineAnswers, Asked
<1>2. /\ Typed
      /\ nextId \in Nat
      /\ 0 < nextId
      /\ nextId \in 1..(MaxId + 1)
      /\ MaxId \in Nat
      /\ opened \in [1..MaxId -> Opened]
  BY IdsStartAtOne, Nothing DEF InterceptorInv, Typed
<1>3. \A outcome \in {"none", "allow", "review", "deny", "down"}, id \in 0..MaxId :
          /\ a(outcome, id) \in Answer
          /\ a(outcome, id).outcome = outcome
          /\ a(outcome, id).id = id
  BY DEF Answer
<1>4. 0 \in 0..MaxId /\ (nextId <= MaxId => nextId \in 0..MaxId /\ nextId \in 1..MaxId)
  BY <1>2
<1>5. CASE /\ granted' = granted \cup {Written(o)}
           /\ \/ nextId <= MaxId /\ nextId' = nextId + 1 /\ Told("allow", nextId)
              \/ UNCHANGED nextId /\ Told("allow", 0)
              \/ UNCHANGED nextId /\ Told("down", 0)
           /\ opened' = IF Released(o) THEN [opened EXCEPT ![o.cited].state = "used"] ELSE opened
           /\ UNCHANGED refused
  <2>1. /\ opened' \in [1..MaxId -> Opened]
        /\ \A q \in 1..MaxId : opened'[q].written = opened[q].written
    <3>1. CASE Released(o)
      <4>1. o.cited \in 0..MaxId /\ o.cited # 0
        BY <1>2, <3>1 DEF Released, Typed, Write
      <4>2. o.cited \in 1..MaxId
        BY <1>2, <4>1
      <4>3. opened' = [opened EXCEPT ![o.cited].state = "used"]
        BY <1>5, <3>1
      <4> HIDE DEF o
      <4>4. QED
        BY <1>2, <4>2, <4>3, StateOnly
    <3>2. CASE ~Released(o)
      BY <1>2, <1>5, <3>2
    <3>3. QED
      BY <3>1, <3>2
  <2>2. nextId' \in 1..(MaxId + 1) /\ nextId' \in Nat /\ nextId <= nextId'
    BY <1>2, <1>5
  <2>3. EngineGrows
    BY <1>5, <2>1, <2>2 DEF EngineGrows
  <2>4. g \notin refused'
    <3>1. RefusalOK(g) /\ o.answer.outcome = "none" /\ o.pc # "denied"
      BY <1>1, Nothing DEF InterceptorInv, WriteOK, Asked
    <3>2. QED
      BY <1>5, <3>1 DEF RefusalOK
  <2>5. Written(o) \in granted' /\ refused' = refused
    BY <1>5
  <2>6. CASE nextId <= MaxId /\ nextId' = nextId + 1 /\ Told("allow", nextId)
    <3> DEFINE x == a("allow", nextId)
    <3>1. x \in Answer /\ x.outcome = "allow" /\ x.id = nextId
      BY <1>3, <1>4, <2>6
    <3>2. ops' = [ops EXCEPT ![g].answer = x]
      BY <2>6
    <3> HIDE DEF x, a
    <3>3. QED
      BY <1>1, <2>1, <2>2, <2>3, <2>4, <2>5, <2>6, <3>1, <3>2, TellInv
  <2>7. CASE UNCHANGED nextId /\ Told("allow", 0)
    <3> DEFINE x == a("allow", 0)
    <3>1. x \in Answer /\ x.outcome = "allow" /\ x.id = 0
      BY <1>3, <1>4
    <3>2. ops' = [ops EXCEPT ![g].answer = x]
      BY <2>7
    <3> HIDE DEF x, a
    <3>3. QED
      BY <1>1, <2>1, <2>2, <2>3, <2>4, <2>5, <3>1, <3>2, TellInv
  <2>8. CASE UNCHANGED nextId /\ Told("down", 0)
    <3> DEFINE x == a("down", 0)
    <3>1. x \in Answer /\ x.outcome = "down" /\ x.id = 0
      BY <1>3, <1>4
    <3>2. ops' = [ops EXCEPT ![g].answer = x]
      BY <2>8
    <3> HIDE DEF x, a
    <3>3. QED
      BY <1>1, <2>1, <2>2, <2>3, <2>4, <2>5, <3>1, <3>2, TellInv
  <2>9. QED
    BY <1>5, <2>6, <2>7, <2>8
<1>6. CASE /\ nextId <= MaxId
           /\ nextId' = nextId + 1
           /\ opened' = [opened EXCEPT ![nextId] = [state |-> "open", written |-> Written(o)]]
           /\ Told("review", nextId)
           /\ refused' = refused \cup {g}
           /\ UNCHANGED granted
  <2> DEFINE x == a("review", nextId)
             fresh == [state |-> "open", written |-> Written(o)]
  <2>1. x \in Answer /\ x.outcome = "review" /\ x.id = nextId
    BY <1>3, <1>4, <1>6
  <2>2. ops' = [ops EXCEPT ![g].answer = x]
    BY <1>6
  <2>3. nextId \in 1..MaxId
    BY <1>4, <1>6
  <2>4. fresh \in Opened /\ fresh.written = Written(o)
    BY <1>2 DEF Typed, Write, Written, Writes, Opened
  <2>5. opened' = [opened EXCEPT ![nextId] = fresh]
    BY <1>6
  <2> HIDE DEF x, a, fresh
  <2>6. /\ opened' \in [1..MaxId -> Opened]
        /\ opened'[nextId].written = Written(o)
        /\ \A q \in 1..MaxId : q < nextId => opened'[q].written = opened[q].written
    BY <1>2, <2>3, <2>4, <2>5
  <2>7. nextId' \in 1..(MaxId + 1) /\ nextId' \in Nat /\ nextId <= nextId'
    BY <1>2, <1>6
  <2>8. EngineGrows
    BY <1>6, <2>6, <2>7 DEF EngineGrows
  <2>9. QED
    BY <1>1, <1>6, <2>1, <2>2, <2>6, <2>7, <2>8, TellInv
<1>7. CASE /\ \/ Told("deny", 0) /\ refused' = refused \cup {g}
              \/ Told("down", 0) /\ refused' = refused
           /\ UNCHANGED <<opened, nextId, granted>>
  <2>1. EngineGrows
    BY <1>2, <1>7 DEF EngineGrows
  <2>2. nextId' \in 1..(MaxId + 1) /\ opened' \in [1..MaxId -> Opened]
    BY <1>2, <1>7
  <2>3. CASE Told("deny", 0) /\ refused' = refused \cup {g}
    <3> DEFINE x == a("deny", 0)
    <3>1. x \in Answer /\ x.outcome = "deny" /\ x.id = 0
      BY <1>3, <1>4
    <3>2. ops' = [ops EXCEPT ![g].answer = x]
      BY <2>3
    <3> HIDE DEF x, a
    <3>3. QED
      BY <1>1, <2>1, <2>2, <2>3, <3>1, <3>2, TellInv
  <2>4. CASE Told("down", 0) /\ refused' = refused
    <3> DEFINE x == a("down", 0)
    <3>1. x \in Answer /\ x.outcome = "down" /\ x.id = 0
      BY <1>3, <1>4
    <3>2. ops' = [ops EXCEPT ![g].answer = x]
      BY <2>4
    <3>3. g \notin refused'
      <4>1. RefusalOK(g) /\ o.answer.outcome = "none" /\ o.pc # "denied"
        BY <1>1, Nothing DEF InterceptorInv, WriteOK, Asked
      <4>2. QED
        BY <2>4, <4>1 DEF RefusalOK
    <3> HIDE DEF x, a
    <3>4. QED
      BY <1>1, <2>1, <2>2, <2>4, <3>1, <3>2, <3>3, TellInv
  <2>5. QED
    BY <1>7, <2>3, <2>4
<1>8. QED
  BY <1>5, <1>6, <1>7 DEF EngineAnswers, engineVars

\* The first start.
LEMMA InitInv == Init => InterceptorInv
<1> SUFFICES ASSUME Init PROVE InterceptorInv
  OBVIOUS
<1>1. /\ ops = [g \in 1..MaxOps |-> Unused]
      /\ decisions = <<>>
      /\ reviews = <<>>
      /\ base \in Bases
      /\ opened = [r \in 1..MaxId |-> [state |-> "none", written |-> NoWrite]]
      /\ nextId = 1
      /\ refused = {}
      /\ journaled = {}
  BY DEF Init
<1>2. NoWrite \in Writes
  BY DEF NoWrite, Written, Unused, Writes
<1>3. opened \in [1..MaxId -> Opened]
  BY <1>1, <1>2 DEF Opened
<1>4. /\ decisions \in Seq(Decision) /\ Len(decisions) = 0
      /\ reviews \in Seq(Review) /\ Len(reviews) = 0
  BY <1>1, EmptySeq
<1>5. nextId \in 1..(MaxId + 1)
  BY <1>1, Nothing
<1>6. Typed
  BY <1>1, <1>3, <1>4, <1>5, UnusedShape DEF Typed
<1>7. MaxDecisions \in Nat /\ MaxReviews \in Nat
  BY InterceptorAssumption
<1>8. DecisionsOK
  BY <1>4, <1>7 DEF DecisionsOK, IdsDiffer
<1>9. ReviewsOK
  BY <1>4, <1>7 DEF ReviewsOK, KeysDiffer
<1>10. ASSUME NEW g \in 1..MaxOps
       PROVE  ops[g].pc = "unused" /\ ops[g].answer.id = 0 /\ ops[g].stamp = 0
  BY <1>1, Nothing DEF Unused
<1>11. IdsFresh
  BY <1>10 DEF IdsFresh
<1>12. ASSUME NEW g \in 1..MaxOps PROVE WriteOK(g)
  <2>1. /\ ~Asked(ops[g])
        /\ ops[g].pc \notin {"modify asked", "modified", "validate asked", "committed"}
        /\ ops[g].answer.id < nextId
        /\ g \notin refused
        /\ g \notin journaled
    <3>1. ops[g].pc = "unused" /\ ops[g].answer.id = 0
      BY <1>10
    <3>2. g \notin refused /\ g \notin journaled /\ nextId = 1
      BY <1>1
    <3>3. ops[g].answer.id < nextId
      BY <3>1, <3>2
    <3>4. QED
      BY <3>1, <3>2, <3>3 DEF Asked
  <2>2. RefusalOK(g) /\ GroundsOK(g) /\ BareOK(g)
    BY <2>1 DEF RefusalOK, GroundsOK, BareOK
  <2>3. CitesOK(g)
    BY <2>1 DEF CitesOK
  <2>4. QED
    BY <2>2, <2>3 DEF WriteOK
<1>13. StampsOK
  BY <1>1, <1>4, <1>10 DEF StampsOK, StampOK
<1>14. QED
  BY <1>6, <1>8, <1>9, <1>11, <1>12, <1>13 DEF InterceptorInv

\* Every step keeps the invariant.
LEMMA NextInv == InterceptorInv /\ [Next]_vars => InterceptorInv'
<1> SUFFICES ASSUME InterceptorInv, [Next]_vars PROVE InterceptorInv'
  OBVIOUS
<1>1. ASSUME NEW g \in 1..MaxOps,
             \/ Send(g)
             \/ Modify(g) \/ ModifyAllowed(g) \/ ModifyBreakGlass(g)
             \/ Touch(g)
             \/ Validate(g) \/ ValidateAllowed(g) \/ ValidateBreakGlass(g)
             \/ Deny(g)
             \/ EngineAnswers(g)
      PROVE  InterceptorInv'
  BY <1>1, SendInv, ModifyInv, ModifyAllowedInv, ModifyBreakGlassInv, TouchInv, ValidateInv,
     ValidateAllowedInv, ValidateBreakGlassInv, DenyInv, EngineAnswersInv
<1>2. ASSUME NEW r \in 1..MaxId, Approve(r)
      PROVE  InterceptorInv'
  BY <1>2, ApproveInv
<1>3. CASE ForgetDecision
  BY <1>3, ForgetDecisionInv
<1>4. CASE ForgetReview
  BY <1>4, ForgetReviewInv
<1>5. CASE SurroundingsChange
  <2>1. base' \in Bases /\ UNCHANGED <<ops, decisions, reviews, engineVars, journaled>>
    BY <1>5 DEF SurroundingsChange
  <2>2. QED
    BY <2>1, OutsideInv
<1>6. CASE UNCHANGED vars
  <2>1. UNCHANGED <<ops, decisions, reviews, base, engineVars, journaled>>
    BY <1>6 DEF vars
  <2>2. base' \in Bases
    BY <2>1 DEF InterceptorInv, Typed
  <2>3. QED
    BY <2>1, <2>2, OutsideInv
<1>7. CASE Restart
  BY <1>7, RestartInv
<1>8. QED
  BY <1>1, <1>2, <1>3, <1>4, <1>5, <1>6, <1>7 DEF Next, Calls

\* So it always holds.
LEMMA InvHolds == Spec => []InterceptorInv
BY InitInv, NextInv, PTL DEF Spec

(***************************************************************************)
(* Every reachable state is well typed, the ledger keeps within its bounds *)
(* and has one entry for a decision and for a key, however many calls      *)
(* remember, cite, forget and drop at once.                                *)
(***************************************************************************)
THEOREM InterceptorTypeCorrect == Spec => []InterceptorTypeOK
<1>1. InterceptorInv => InterceptorTypeOK
  <2> SUFFICES ASSUME InterceptorInv PROVE InterceptorTypeOK
    OBVIOUS
  <2>1. Typed /\ DecisionsOK /\ ReviewsOK
    BY DEF InterceptorInv
  <2>2. ASSUME NEW g \in 1..MaxOps
        PROVE  /\ Written(ops[g]) \in Writes
               /\ ops[g].stamp \in 0..MaxId
               /\ ops[g].cited \in 0..MaxId
               /\ ops[g].pc \in {"unused", "sent", "modify asked", "modified", "validate asked",
                                 "committed", "denied"}
               /\ ops[g].base \in Bases \cup {"none"}
               /\ ops[g].seen \in Bases \cup {"none"}
               /\ ops[g].answer.outcome \in {"none", "allow", "review", "deny", "down"}
               /\ ops[g].answer.id \in 0..MaxId
               /\ ops[g].unanswered \in BOOLEAN
               /\ ops[g].brought \in BOOLEAN
    BY <2>1 DEF Typed, Write, Answer, Phases, Written, Writes
  <2>3. \A r \in 1..MaxId : opened[r].written \in Writes
    BY <2>1 DEF Typed, Opened
  <2>4. /\ base \in Bases
        /\ nextId \in 1..(MaxId + 1)
        /\ refused \cup journaled \subseteq 1..MaxOps
    BY <2>1 DEF Typed
  <2>5. QED
    BY <2>1, <2>2, <2>3, <2>4
       DEF InterceptorTypeOK, DecisionsOK, ReviewsOK, IdsDiffer, KeysDiffer
<1>2. QED
  BY <1>1, InvHolds, PTL

(***************************************************************************)
(* A write that was answered with a refusal, in either phase, never        *)
(* commits: no window, no stamp, no retry and no restart lets it through.  *)
(***************************************************************************)
THEOREM RefusalsAlwaysHold == Spec => []RefusalsHold
<1>1. InterceptorInv => RefusalsHold
  BY DEF InterceptorInv, WriteOK, RefusalOK, RefusalsHold, Committed, Asked
<1>2. QED
  BY <1>1, InvHolds, PTL

(***************************************************************************)
(* Whatever commits is something the engine allowed in this form, or has a *)
(* break-glass entry; and nothing gateway-wide has one.  The form is the   *)
(* kind, the content and the policy; a bare create's grant covers the base *)
(* policy, and another policy only on a write that still has the stamp it  *)
(* came with, as _operation_digest reads it (see Grounds).                 *)
(***************************************************************************)
THEOREM CommitsAlwaysGrounded == Spec => []CommitsAreGrounded
<1>1. InterceptorInv => CommitsAreGrounded
  BY DEF InterceptorInv, Typed, WriteOK, GroundsOK, CommitsAreGrounded, Committed
<1>2. QED
  BY <1>1, InvHolds, PTL

(***************************************************************************)
(* No create goes bare unless the store said "none" when it was modified.  *)
(***************************************************************************)
THEOREM NeverABareCreate == Spec => []NoBareCreate
<1>1. InterceptorInv => NoBareCreate
  BY DEF InterceptorInv, WriteOK, BareOK, NoBareCreate, Committed
<1>2. QED
  BY <1>1, InvHolds, PTL

(***************************************************************************)
(* A review is only ever cited for the write it was opened for.            *)
(***************************************************************************)
THEOREM AlwaysCitesItsOwn == Spec => []CitesItsOwnReview
<1>1. InterceptorInv => CitesItsOwnReview
  BY DEF InterceptorInv, WriteOK, CitesOK, CitesItsOwnReview, Asked
<1>2. QED
  BY <1>1, InvHolds, PTL

-----------------------------------------------------------------------------
(***************************************************************************)
(* The base policy store of BasePolicy.tla: with it in its place the       *)
(* interceptor is still the one of Interceptor.tla, so what is proved of   *)
(* that holds here, and the store holds the engine's last word.            *)
(***************************************************************************)

LEMMA CallsLeaveTheStore == Calls => UNCHANGED <<base, windowOpen>>
<1>1. \A g \in 1..MaxOps : EngineAnswers(g) => UNCHANGED <<base, windowOpen>>
  BY DEF EngineAnswers
<1>2. \A g \in 1..MaxOps :
         Send(g) \/ Modify(g) \/ ModifyAllowed(g) \/ ModifyBreakGlass(g) \/ Touch(g)
         => UNCHANGED <<base, windowOpen>>
  BY DEF Send, Modify, ModifyAllowed, ModifyBreakGlass, Touch
<1>3. \A g \in 1..MaxOps :
         Validate(g) \/ ValidateAllowed(g) \/ ValidateBreakGlass(g) \/ Deny(g)
         => UNCHANGED <<base, windowOpen>>
  BY DEF Validate, ValidateAllowed, ValidateBreakGlass, Deny
<1>4. \A r \in 1..MaxId : Approve(r) => UNCHANGED <<base, windowOpen>>
  BY DEF Approve
<1>5. ForgetDecision \/ ForgetReview => UNCHANGED <<base, windowOpen>>
  BY DEF ForgetDecision, ForgetReview
<1> QED
  BY <1>1, <1>2, <1>3, <1>4, <1>5 DEF Calls

(***************************************************************************)
(* The copy on disk is what makes the store's word outlive a restart, so   *)
(* the invariant has to speak of it too: it is not there, is of no use, or *)
(* is of the last answer, unless a save failed.                            *)
(***************************************************************************)
CopyIsLastWord == copy \in {lastWord, "unknown", "damaged"} \/ slipped
StoreInv == BaseIsLastWord /\ CopyIsLastWord

LEMMA SetKeeps ==
    ASSUME StoreInv, NEW word \in Words, Set(word)
    PROVE  StoreInv'
<1>1. BaseIsLastWord'
  BY DEF Set, BaseIsLastWord, StateOf
<1>2. CASE word = held
  BY <1>1, <1>2 DEF Set, StoreInv, CopyIsLastWord
<1>3. CASE word # held
  <2>1. Save(word)
    BY <1>3 DEF Set
  <2> QED
    BY <1>1, <2>1 DEF Set, Save, StoreInv, CopyIsLastWord
<1> QED
  BY <1>2, <1>3

LEMMA StoreNext == StoreInv /\ [BaseNext]_baseVars => StoreInv'
<1> SUFFICES ASSUME StoreInv, [BaseNext]_baseVars
             PROVE  StoreInv'
  OBVIOUS
<1>1. CASE UNCHANGED <<base, storeVars>>
  BY <1>1 DEF StoreInv, BaseIsLastWord, CopyIsLastWord, StateOf, storeVars
<1>2. CASE Calls /\ UNCHANGED storeVars
  BY <1>1, <1>2, CallsLeaveTheStore
<1>3. CASE Refresh
  BY <1>3, SetKeeps DEF Refresh
<1>4. CASE DamageCopy
  BY <1>4 DEF DamageCopy, vars, StoreInv, BaseIsLastWord, CopyIsLastWord, StateOf
<1>5. CASE BaseRestart
  BY <1>5 DEF BaseRestart, StoreInv, BaseIsLastWord, CopyIsLastWord, StateOf
<1>6. CASE SurroundingsChange /\ UNCHANGED <<base, storeVars>>
  BY <1>1, <1>6
<1>7. CASE UNCHANGED baseVars
  BY <1>1, <1>7 DEF baseVars, vars
<1> QED
  BY <1>2, <1>3, <1>4, <1>5, <1>6, <1>7 DEF BaseNext

\* The base policy a create gets is the one the engine named last, or none is
\* held, whatever answers come and whatever becomes of the copy, unless a save
\* failed (BasePolicyStore.accept, invalidate, _save and _load).
THEOREM BaseAlwaysLastWord == BaseSpec => []BaseIsLastWord
<1>1. BaseInit => StoreInv
  BY BasePolicyAssumption
  DEF BaseInit, StoreInv, BaseIsLastWord, CopyIsLastWord, StateOf
<1>2. StoreInv => BaseIsLastWord
  BY DEF StoreInv
<1> QED
  BY <1>1, <1>2, StoreNext, PTL DEF BaseSpec

(***************************************************************************)
(* The refinement.                                                         *)
(***************************************************************************)
WindowOK == windowOpen \in BOOLEAN

LEMMA WindowNext == WindowOK /\ [BaseNext]_baseVars => WindowOK'
<1> SUFFICES ASSUME WindowOK, [BaseNext]_baseVars
             PROVE  WindowOK'
  OBVIOUS
<1>1. UNCHANGED windowOpen => WindowOK'
  BY DEF WindowOK
<1>2. CASE Calls
  BY <1>1, <1>2, CallsLeaveTheStore
<1>3. CASE SurroundingsChange
  BY <1>3 DEF SurroundingsChange, WindowOK
<1>4. CASE Refresh \/ DamageCopy \/ BaseRestart \/ UNCHANGED baseVars
  BY <1>1, <1>4 DEF Refresh, DamageCopy, BaseRestart, Restart, baseVars, vars
<1> QED
  BY <1>2, <1>3, <1>4 DEF BaseNext

LEMMA StepsAreSteps == WindowOK /\ [BaseNext]_baseVars => [Next]_vars
<1> SUFFICES ASSUME WindowOK, [BaseNext]_baseVars
             PROVE  [Next]_vars
  OBVIOUS
<1>1. CASE Refresh
  <2>1. PICK word \in Words : Set(word)
    BY <1>1 DEF Refresh
  <2>2. base' \in Bases
    BY <2>1, BasePolicyAssumption DEF Set, StateOf, Words
  <2> QED
    BY <1>1, <2>2 DEF Refresh, SurroundingsChange, Next, WindowOK
<1>2. CASE Calls \/ SurroundingsChange \/ BaseRestart
  BY <1>2 DEF BaseRestart, Next
<1>3. CASE DamageCopy \/ UNCHANGED baseVars
  BY <1>3 DEF DamageCopy, baseVars
<1> QED
  BY <1>1, <1>2, <1>3 DEF BaseNext

\* With the store in place of anything it might hold, every behaviour is one of
\* the interceptor's.
THEOREM BaseImplementsInterceptor == BaseSpec => Spec
<1>1. BaseInit => Init /\ WindowOK
  BY DEF BaseInit, Init, WindowOK
<1> QED
  BY <1>1, WindowNext, StepsAreSteps, PTL DEF BaseSpec, Spec

\* No create commits without a policy unless the store said that there is
\* none, with the store's own answers, copies and restarts.
THEOREM NoBareCreateWithStore == BaseSpec => []NoBareCreate
BY BaseImplementsInterceptor, NeverABareCreate, PTL
=============================================================================
