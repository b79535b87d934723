----------------------------- MODULE Interceptor -----------------------------
(***************************************************************************)
(* How a write of the gateway gets past the sidecar: evaluate and          *)
(* OperationLedger of openshell/interceptor.py, as handle_evaluate of      *)
(* openshell/sidecar.py calls them.  Several writes are under way at once. *)
(* Each goes through modify_operation and validate; what the engine says   *)
(* arrives while other calls go on.                                        *)
(*                                                                         *)
(* External: the gateway, which applies the patches it was given, drops a  *)
(* write that was denied and commits one that validate allows; the engine, *)
(* with its reviews; the operator who approves a review.  Break-glass is   *)
(* what evaluate needs of it: whether a window is open and whether a write *)
(* was journaled (BreakGlass.tla is the rest).                             *)
(***************************************************************************)
EXTENDS Naturals, Sequences, FiniteSets, SequencesExt

CONSTANTS
    MaxOps,        \* bound of the model: writes ever sent
    MaxId,         \* bound of the model: ids the engine gives out
    Kinds,         \* kinds of writes that are sent
    Contents,      \* what a write asks for
    Bases,         \* states of the base policy store
    MaxDecisions,  \* OperationLedger's bounds
    MaxReviews,
    MaxRestarts    \* bound of the model

\* "global" is a gateway-global setting write, "global policy" a
\* gateway-global policy write, "delete" any write that is validated only.
AllKinds == {"create", "update", "global", "global policy", "delete"}

ASSUME InterceptorAssumption ==
    /\ Kinds \subseteq AllKinds
    /\ Bases \subseteq {"unknown", "none", "set"}
    /\ Bases # {}
    /\ MaxId \in Nat
    /\ {MaxDecisions, MaxReviews} \subseteq Nat \ {0}

VARIABLES
    ops,        \* the writes
    decisions,  \* the ledger's _decisions, oldest first
    reviews,    \* the ledger's _reviews, oldest first
    base,       \* what the base policy store says
    windowOpen, \* whether a break-glass window is open
    opened,     \* the engine's reviews, by id: how each stands, and its write
    nextId      \* the next id the engine gives out

\* History.
VARIABLES
    granted,    \* what the engine allowed
    refused,    \* writes that got an answer, and it was not an allow
    journaled,  \* writes that have a break-glass entry
    restarts    \* counter of the bound

engineVars == <<opened, nextId, granted, refused>>
vars == <<ops, decisions, reviews, base, windowOpen, engineVars, journaled, restarts>>

-----------------------------------------------------------------------------
(* A write.  "seen" (the base policy modify_operation worked with),        *)
(* "unanswered" and "brought" (its stamp is one it came with) are history. *)

NoAnswer == [outcome |-> "none", id |-> 0]
Unused == [kind |-> "none", content |-> "none", policy |-> "none", stamp |-> 0,
           pc |-> "unused", base |-> "none", seen |-> "none", cited |-> 0,
           answer |-> NoAnswer, unanswered |-> FALSE, brought |-> FALSE]

Written(o) == [kind |-> o.kind, content |-> o.content, policy |-> o.policy]

\* Which kinds the phases and break-glass are for.
Stampable(kind) == kind \in {"create", "update"}
RefusedLocally(kind) == kind = "global policy"
Coverable(kind) == kind \notin {"global", "global policy"}

\* Mutant: a review is bound to the action alone.
KeyOfAction(o) == [kind |-> o.kind, content |-> "any", policy |-> "none"]

\* What a review is bound to.
ReviewKey(o) == Written(o)

\* Mutant: a create is let through whatever the base policy store says.
NeverMissing(o, b) == FALSE

\* A create that needs the base policy when the sidecar has none.
BaseMissing(o, b) == b = "unknown" /\ o.kind = "create" /\ o.policy = "none"

\* The operation without our own additions: the stamp, and, for a decision that
\* put the base policy on, whatever policy is there.
Digest(o, applied) == [content |-> o.content, policy |-> IF applied THEN "none" ELSE o.policy]

-----------------------------------------------------------------------------
(* The ledger: both maps are in the order their entries were written, and  *)
(* the oldest goes first, over the bound or past its time.                 *)

Bounded(s, max) == IF Len(s) > max THEN Tail(s) ELSE s

\* Mutant: a stamp is enough.
StampKnown(o, d) == o.stamp = d.id

\* The stamped decision allowed this method and this operation.
Matches(o, d) ==
    /\ o.stamp = d.id
    /\ d.kind = o.kind
    /\ d.digest = Digest(o, d.applied)

Confirmed(o) == \E i \in 1..Len(decisions) : Matches(o, decisions[i])

Remember(o, id, applied) ==
    IF id = 0 THEN decisions
    ELSE Bounded(Append(decisions, [id |-> id, kind |-> o.kind, digest |-> Digest(o, FALSE),
                                    applied |-> applied]), MaxDecisions)

HasKey(map, key) == \E i \in 1..Len(map) : map[i].key = key
KeyIndex(map, key) == CHOOSE i \in 1..Len(map) : map[i].key = key

WithoutKey(key) ==
    IF HasKey(reviews, key) THEN RemoveAt(reviews, KeyIndex(reviews, key)) ELSE reviews
CitedReviewIn(map, key) == IF HasKey(map, key) THEN map[KeyIndex(map, key)].id ELSE 0
CitedReview(key) == CitedReviewIn(reviews, key)
RememberReview(key, id) == Bounded(Append(WithoutKey(key), [key |-> key, id |-> id]), MaxReviews)

-----------------------------------------------------------------------------
(* The calls.                                                              *)

\* A caller sends a write.  What it read back from an earlier write may still
\* carry that write's stamp.
NewWrite(kind, content, policy, stamp) ==
    [Unused EXCEPT !.kind = kind, !.content = content, !.policy = policy, !.stamp = stamp,
                   !.pc = "sent", !.brought = stamp # 0]
StampsSeen == {0} \cup {ops[h].stamp : h \in {i \in 1..MaxOps : ops[i].pc = "committed"}}

Send(g) ==
    /\ ops[g].pc = "unused"
    /\ \A h \in 1..(g - 1) : ops[h].pc # "unused"
    /\ \E kind \in Kinds, content \in Contents, policy \in {"none", "own"} :
       \E stamp \in StampsSeen :
          /\ policy = "own" => kind = "create"
          /\ stamp # 0 => Stampable(kind)
          /\ ops' = [ops EXCEPT ![g] = NewWrite(kind, content, policy, stamp)]
    /\ UNCHANGED <<decisions, reviews, base, windowOpen, engineVars, journaled, restarts>>

\* The write goes on or is refused, and what this call knew is gone.
Done(o) == [o EXCEPT !.base = "none", !.cited = 0, !.answer = NoAnswer]
Pass(g, o, pc) == ops' = [ops EXCEPT ![g] = [Done(o) EXCEPT !.pc = pc]]
Refuse(g) == ops' = [ops EXCEPT ![g] = [Unused EXCEPT !.kind = ops[g].kind, !.pc = "denied"]]

\* _decide up to the engine: the base policy is what the store says now, and
\* the review it remembers for this write is cited.
Ask(g, pc) ==
    ops' = [ops EXCEPT ![g].pc = pc,
                       ![g].base = base,
                       ![g].seen = IF pc = "modify asked" THEN base ELSE @,
                       ![g].cited = CitedReview(ReviewKey(ops[g])),
                       ![g].answer = NoAnswer]

\* modify_operation.  A kind that is not bound there, or takes no stamp, is
\* left to validate.
Modify(g) ==
    /\ ops[g].pc = "sent"
    /\ LET o == ops[g] IN
          \/ RefusedLocally(o.kind) /\ Refuse(g)
          \/ ~RefusedLocally(o.kind) /\ ~Stampable(o.kind) /\ Pass(g, o, "modified")
          \/ Stampable(o.kind) /\ BaseMissing(o, base) /\ Refuse(g)
          \/ Stampable(o.kind) /\ ~BaseMissing(o, base) /\ Ask(g, "modify asked")
    /\ UNCHANGED <<decisions, reviews, base, windowOpen, engineVars, journaled, restarts>>

\* What _decide does with an answer, whatever the phase.
Learn(g) ==
    LET o == ops[g]
        key == ReviewKey(o)
    IN  reviews' =
            IF o.answer.outcome = "review" /\ o.answer.id # 0 THEN RememberReview(key, o.answer.id)
            ELSE IF o.answer.outcome = "allow" /\ o.cited # 0 THEN WithoutKey(key)
            ELSE reviews

\* The base policy goes on a create that brings none.
BaseApplies(o) == o.kind = "create" /\ o.base = "set" /\ o.policy = "none"
Patched(o) == IF BaseApplies(o) THEN [o EXCEPT !.policy = "base"] ELSE o

\* The engine allowed it: the decision is remembered and stamped.
ModifyAllowed(g) ==
    LET o == ops[g]
        id == o.answer.id
    IN  /\ o.pc = "modify asked"
        /\ o.answer.outcome = "allow"
        /\ Learn(g)
        /\ decisions' = Remember(o, id, BaseApplies(o))
        /\ Pass(g, [Patched(o) EXCEPT !.stamp = IF id = 0 THEN @ ELSE id,
                                      !.brought = @ /\ id = 0], "modified")
        /\ UNCHANGED <<base, windowOpen, engineVars, journaled, restarts>>

\* No answer, and a window is open: it goes on, and validate will journal it.
ModifyBreakGlass(g) ==
    LET o == ops[g]
    IN  /\ o.pc = "modify asked"
        /\ o.answer.outcome = "down"
        /\ windowOpen
        /\ Pass(g, [Patched(o) EXCEPT !.unanswered = TRUE], "modified")
        /\ UNCHANGED <<decisions, reviews, base, windowOpen, engineVars, journaled, restarts>>

\* Another of the gateway's interceptors changes the write in between.
Touch(g) ==
    /\ ops[g].pc = "modified"
    /\ \E content \in Contents \ {ops[g].content} : ops' = [ops EXCEPT ![g].content = content]
    /\ UNCHANGED <<decisions, reviews, base, windowOpen, engineVars, journaled, restarts>>

\* validate.
Validate(g) ==
    /\ ops[g].pc = "modified"
    /\ LET o == ops[g] IN
          \/ Stampable(o.kind) /\ Confirmed(o) /\ Pass(g, o, "committed")
          \/ /\ ~(Stampable(o.kind) /\ Confirmed(o))
             /\ \/ BaseMissing(o, base) /\ Refuse(g)
                \/ ~BaseMissing(o, base) /\ Ask(g, "validate asked")
    /\ UNCHANGED <<decisions, reviews, base, windowOpen, engineVars, journaled, restarts>>

ValidateAllowed(g) ==
    /\ ops[g].pc = "validate asked"
    /\ ops[g].answer.outcome = "allow"
    /\ Learn(g)
    /\ Pass(g, ops[g], "committed")
    /\ UNCHANGED <<decisions, base, windowOpen, engineVars, journaled, restarts>>

\* Mutant: what the engine refuses passes with a window open.
CoversAnyRefusal(o) == o.answer.outcome \in {"down", "deny"} /\ windowOpen

Covers(o) == o.answer.outcome = "down" /\ Coverable(o.kind) /\ windowOpen

\* No answer, a window, and the entry is in the file.
ValidateBreakGlass(g) ==
    /\ ops[g].pc = "validate asked"
    /\ Covers(ops[g])
    /\ journaled' = journaled \cup {g}
    /\ Pass(g, ops[g], "committed")
    /\ UNCHANGED <<decisions, reviews, base, windowOpen, engineVars, restarts>>

\* Refused, or no answer and no window, or no entry.
Deny(g) ==
    /\ ops[g].pc \in {"modify asked", "validate asked"}
    /\ ops[g].answer.outcome \in {"deny", "review", "down"}
    /\ ~(ops[g].pc = "modify asked" /\ Covers(ops[g]))
    /\ Learn(g)
    /\ Refuse(g)
    /\ UNCHANGED <<decisions, base, windowOpen, engineVars, journaled, restarts>>

-----------------------------------------------------------------------------
(* What happens around them.                                               *)

\* The oldest entry of a map is past its time.
ForgetDecision ==
    /\ decisions # <<>>
    /\ decisions' = Tail(decisions)
    /\ UNCHANGED <<ops, reviews, base, windowOpen, engineVars, journaled, restarts>>

ForgetReview ==
    /\ reviews # <<>>
    /\ reviews' = Tail(reviews)
    /\ UNCHANGED <<ops, decisions, base, windowOpen, engineVars, journaled, restarts>>

\* The base policy store takes an answer (BasePolicy.tla has how), or the host
\* opens a window, or it ends.
SurroundingsChange ==
    /\ base' \in Bases
    /\ windowOpen' \in BOOLEAN
    /\ UNCHANGED <<ops, decisions, reviews, engineVars, journaled, restarts>>

\* The calls under way fail closed; writes between two calls go on.  The store
\* starts from its copy on disk.
Restart ==
    /\ restarts < MaxRestarts
    /\ restarts' = restarts + 1
    /\ decisions' = <<>>
    /\ reviews' = <<>>
    /\ ops' = [g \in 1..MaxOps |->
                 IF ops[g].pc \in {"modify asked", "validate asked"}
                 THEN [Unused EXCEPT !.kind = ops[g].kind, !.pc = "denied"] ELSE ops[g]]
    /\ base' \in Bases
    /\ UNCHANGED <<windowOpen, engineVars, journaled>>

\* The engine decides a write.  It lets an approved review release the write
\* it was opened for, once; a citation of one that is not approved is refused.
\* Its answer may name no decision, or be lost.  "deny" is also a rate limit, a
\* refused key, an answer nobody can read: all that is not down and no allow.
Released(o) == o.cited # 0 /\ opened[o.cited].state = "approved"
Held(o) == o.cited # 0 /\ opened[o.cited].state = "open"

EngineAnswers(g) ==
    LET o == ops[g]
        Told(outcome, id) == [ops EXCEPT ![g].answer = [outcome |-> outcome, id |-> id]]
    IN  /\ o.pc \in {"modify asked", "validate asked"}
        /\ o.answer = NoAnswer
        /\ \/ /\ ~Held(o)
              /\ granted' = granted \cup {Written(o)}
              /\ \/ nextId <= MaxId /\ nextId' = nextId + 1 /\ ops' = Told("allow", nextId)
                 \/ UNCHANGED nextId /\ ops' = Told("allow", 0)
                 \/ UNCHANGED nextId /\ ops' = Told("down", 0)
              /\ opened' = IF Released(o) THEN [opened EXCEPT ![o.cited].state = "used"]
                                          ELSE opened
              /\ UNCHANGED refused
           \/ /\ ~Held(o)
              /\ nextId <= MaxId
              /\ nextId' = nextId + 1
              /\ opened' = [opened EXCEPT ![nextId] = [state |-> "open", written |-> Written(o)]]
              /\ ops' = Told("review", nextId)
              /\ refused' = refused \cup {g}
              /\ UNCHANGED granted
           \/ /\ ops' = Told("deny", 0)
              /\ refused' = refused \cup {g}
              /\ UNCHANGED <<opened, nextId, granted>>
           \/ /\ ops' = Told("down", 0)
              /\ UNCHANGED engineVars
    /\ UNCHANGED <<decisions, reviews, base, windowOpen, journaled, restarts>>

Approve(r) ==
    /\ opened[r].state = "open"
    /\ opened' = [opened EXCEPT ![r].state = "approved"]
    /\ UNCHANGED <<ops, decisions, reviews, base, windowOpen, nextId, granted, refused>>
    /\ UNCHANGED <<journaled, restarts>>

-----------------------------------------------------------------------------
NoWrite == Written(Unused)

Init ==
    /\ ops = [g \in 1..MaxOps |-> Unused]
    /\ decisions = <<>>
    /\ reviews = <<>>
    /\ base \in Bases
    /\ windowOpen = FALSE
    /\ opened = [r \in 1..MaxId |-> [state |-> "none", written |-> NoWrite]]
    /\ nextId = 1
    /\ granted = {}
    /\ refused = {}
    /\ journaled = {}
    /\ restarts = 0

Calls ==
    \/ \E g \in 1..MaxOps :
          \/ Send(g)
          \/ Modify(g) \/ ModifyAllowed(g) \/ ModifyBreakGlass(g)
          \/ Touch(g)
          \/ Validate(g) \/ ValidateAllowed(g) \/ ValidateBreakGlass(g)
          \/ Deny(g)
          \/ EngineAnswers(g)
    \/ \E r \in 1..MaxId : Approve(r)
    \/ ForgetDecision \/ ForgetReview

Next == Calls \/ SurroundingsChange \/ Restart

Spec == Init /\ [][Next]_vars

-----------------------------------------------------------------------------
(* What must hold.                                                         *)

Writes == [kind : AllKinds \cup {"none"}, content : Contents \cup {"none"},
           policy : {"none", "own", "base"}]

\* The variables have their types, and OperationLedger.remember and
\* remember_review keep both maps within their bounds with one entry for a key.
InterceptorTypeOK ==
    /\ \A g \in 1..MaxOps :
          /\ Written(ops[g]) \in Writes
          /\ ops[g].stamp \in 0..MaxId
          /\ ops[g].cited \in 0..MaxId
          /\ ops[g].pc \in {"unused", "sent", "modify asked", "modified", "validate asked",
                            "committed", "denied"}
          /\ ops[g].base \in Bases \cup {"none"}
          /\ ops[g].seen \in Bases \cup {"none"}
          /\ ops[g].answer.outcome \in {"none", "allow", "review", "deny", "down"}
          /\ ops[g].answer.id \in 0..MaxId
          /\ ops[g].unanswered \in BOOLEAN
          /\ ops[g].brought \in BOOLEAN
    /\ Len(decisions) <= MaxDecisions
    /\ Len(reviews) <= MaxReviews
    /\ \A i, j \in 1..Len(decisions) : decisions[i].id = decisions[j].id => i = j
    /\ \A i, j \in 1..Len(reviews) : reviews[i].key = reviews[j].key => i = j
    /\ \A r \in 1..MaxId : opened[r].written \in Writes
    /\ base \in Bases
    /\ nextId \in 1..(MaxId + 1)
    /\ refused \cup journaled \subseteq 1..MaxOps

Committed == {g \in 1..MaxOps : ops[g].pc = "committed"}

\* The engine allowed this write: the same kind and content, and the same
\* policy, but for the base policy, which the sidecar puts on a create that had
\* none.  A write that still has a stamp it came with is the exception:
\* _operation_digest takes any policy off when the stamped decision put the
\* base policy on, so that a create with a policy of its own can be confirmed
\* by what was allowed for a bare one.
Grounds(written, o) ==
    /\ written.kind = o.kind
    /\ written.content = o.content
    /\ \/ written.policy = o.policy
       \/ written.policy = "none" /\ (o.policy = "base" \/ o.brought)

\* Whatever other interceptors change between the phases, whatever the ledger
\* forgets, and whatever a restart loses, a write that commits is one the
\* engine allowed in this form, or one with a break-glass entry; and a write
\* that is gateway-wide has no such entry (evaluate, _confirmed,
\* _breakglass_covers).  A stamp read back from an earlier write is the one
\* way to be confirmed by that write's decision, with no entry (see
\* PassedMeansJournaled) and, for a create, under a policy the engine was not
\* shown (see Grounds).
CommitsAreGrounded ==
    /\ \A g \in Committed : g \in journaled \/ \E w \in granted : Grounds(w, ops[g])
    /\ \A g \in journaled : Coverable(ops[g].kind)

\* Only an allow proceeds: a write that was answered with anything else in
\* either phase never commits, window or not, confirmed or not (evaluate:
\* "Only outcome=allow proceeds", and engine_down).
RefusalsHold == refused \cap Committed = {}

\* A create that brings no policy and commits without one was modified while
\* the store said there is none: a store that changes, or is unknown, between
\* the two phases never lets a create through bare (_base_missing,
\* _create_patches).
NoBareCreate ==
    \A g \in Committed : ops[g].kind = "create" /\ ops[g].policy = "none" => ops[g].seen = "none"

\* A write that waits for the engine cites only a review opened for exactly
\* this write, though the map is overwritten and emptied by other calls, and
\* the write may have changed since modify_operation (_review_key).
CitesItsOwnReview ==
    \A g \in 1..MaxOps :
        ops[g].pc \in {"modify asked", "validate asked"} /\ ops[g].cited # 0
            => opened[ops[g].cited].written = Written(ops[g])

\* "The write goes on without a stamp, and validate, which always follows,
\* journals it once" (interceptor.py:920): no call of validate confirms a
\* write that modify_operation let through unanswered.  It can: the write
\* keeps a stamp it came with.
PassedMeansJournaled ==
    [][\A g \in 1..MaxOps :
          /\ ops[g].pc = "modified"
          /\ ops[g].unanswered
          => ops'[g].pc # "committed"]_vars
=============================================================================
