---------------------------- MODULE InventoryProofs ----------------------------
(***************************************************************************)
(* Proofs about Inventory.tla: for every set of names and callers, every   *)
(* number of sandboxes, deletes and restarts.                              *)
(***************************************************************************)
EXTENDS Inventory, TLAPS

Maps == [Names -> Nat]
Call == [name : Names, id : Nat \ {0}, before : Nat, pc : {"committed", "read", "written"}]
Forgetting == [pc : {"none", "read", "popped", "validated"}, gone : BOOLEAN]
Snap == [pc : {"idle", "listed", "applied", "read"}, listed : Maps, whole : BOOLEAN,
         known : Maps, steady : SUBSET Names, late : BOOLEAN]

Typed ==
    /\ real \in Maps /\ boxes \in Maps /\ file \in Maps /\ told \in Maps
    /\ nextId \in Nat \ {0}
    /\ learning \subseteq Call
    /\ deletes \in [Names -> Forgetting]
    /\ snaps \in [Listers -> Snap]

LEMMA Starts == None \in Maps /\ NoDelete \in Forgetting /\ Idle \in Snap /\ "reporter" \in Listers
<1>1. None \in Maps
  BY DEF None, Maps
<1>2. Idle \in Snap
  BY <1>1 DEF Idle, Snap
<1> QED
  BY <1>1, <1>2 DEF NoDelete, Forgetting, Listers

LEMMA TypedInit == Init => Typed
BY Starts DEF Init, Typed

LEMMA LateKeeps ==
    ASSUME Typed, snaps' = SnapsAfterChange
    PROVE  /\ snaps' \in [Listers -> Snap]
           /\ \A l \in Callers : snaps'[l] = snaps[l]
           /\ \E late \in BOOLEAN :
                 /\ snaps'["reporter"] = [snaps["reporter"] EXCEPT !.late = late]
                 /\ snaps["reporter"].pc = "read" => late
                 /\ snaps["reporter"].late => late
<1> DEFINE snap == snaps["reporter"]
           late == snap.late \/ snap.pc = "read"
<1>1. snap \in Snap
  BY Starts DEF Typed
<1>2. late \in BOOLEAN
  OBVIOUS
<1>3. [snap EXCEPT !.late = late] \in Snap
  BY <1>1, <1>2 DEF Snap
<1>4. snaps' = [snaps EXCEPT !["reporter"] = [snap EXCEPT !.late = late]]
  BY <1>1, Starts DEF SnapsAfterChange, Typed
<1> HIDE DEF late, snap
<1>5. snaps' \in [Listers -> Snap]
  BY <1>3, <1>4 DEF Typed
<1>6. \A l \in Callers : snaps'[l] = snaps[l]
  BY <1>4, InventoryAssumption DEF Typed, Listers
<1>7. snaps'["reporter"] = [snap EXCEPT !.late = late]
  BY <1>4, Starts DEF Typed
<1> QED
  BY <1>2, <1>5, <1>6, <1>7 DEF late, snap

LEMMA CallMoves ==
    ASSUME Typed, NEW c \in learning, NEW before \in Nat, NEW pc \in {"read", "written"}
    PROVE  (learning \ {c}) \cup {[c EXCEPT !.before = before, !.pc = pc]} \subseteq Call
<1>1. c \in Call
  BY DEF Typed
<1>2. [c EXCEPT !.before = before, !.pc = pc] \in Call
  BY <1>1 DEF Call
<1> QED
  BY <1>2 DEF Typed

LEMMA TypedNext == Typed /\ [Next]_vars => Typed'
<1> SUFFICES ASSUME Typed, [Next]_vars PROVE Typed'
  OBVIOUS
<1>1. ASSUME NEW n \in Names, Create(n)
      PROVE  Typed'
  <2>1. [name |-> n, id |-> nextId, before |-> 0, pc |-> "committed"] \in Call
    BY DEF Typed, Call
  <2>2. real' \in Maps /\ nextId' \in Nat \ {0}
    BY <1>1 DEF Create, Typed, Maps
  <2>3. learning' \subseteq Call
    BY <1>1, <2>1 DEF Create, Typed
  <2> QED
    BY <1>1, <2>2, <2>3 DEF Create, ledgerVars, Typed
<1>2. ASSUME NEW n \in Names, Delete(n)
      PROVE  Typed'
  <2>1. deletes' \in [Names -> Forgetting]
    BY <1>2 DEF Delete, Typed, Forgetting
  <2>2. snaps["reporter"] \in Snap
    BY Starts DEF Typed
  <2>3. [snaps["reporter"] EXCEPT !.steady = @ \ {n}] \in Snap
    BY <2>2 DEF Snap
  <2>4. snaps' \in [Listers -> Snap]
    BY <1>2, <2>3 DEF Delete, Typed
  <2> QED
    BY <1>2, <2>1, <2>4 DEF Delete, ledgerVars, Typed
<1>3. ASSUME NEW c \in learning, LearnReads(c)
      PROVE  Typed'
  <2>1. boxes[c.name] \in Nat
    BY DEF Typed, Call, Maps
  <2>2. learning' \subseteq Call
    BY <1>3, <2>1, CallMoves DEF LearnReads
  <2> QED
    BY <1>3, <2>2 DEF LearnReads, gatewayVars, ledgerVars, Typed
<1>4. ASSUME NEW c \in learning, LearnWrites(c)
      PROVE  Typed'
  <2>1. c \in Call /\ [c EXCEPT !.pc = "written"] \in Call
    BY DEF Typed, Call
  <2>2. learning' \subseteq Call
    BY <1>4, <2>1 DEF LearnWrites, Typed
  <2>3. boxes' \in Maps
    BY <1>4, <2>1 DEF LearnWrites, Typed, Call, Maps
  <2>4. snaps' \in [Listers -> Snap]
    BY <1>4, LateKeeps DEF LearnWrites
  <2> QED
    BY <1>4, <2>2, <2>3, <2>4 DEF LearnWrites, Silent, gatewayVars, Typed
<1>5. ASSUME NEW c \in learning, LearnEnds(c)
      PROVE  Typed'
  <2>1. snaps' \in [Listers -> Snap]
    BY <1>5, LateKeeps DEF LearnEnds
  <2> QED
    BY <1>5, <2>1 DEF LearnEnds, Changed, NotChanged, gatewayVars, Typed
<1>6. ASSUME NEW n \in Names, ForgetPops(n)
      PROVE  Typed'
  <2>1. snaps' \in [Listers -> Snap]
    BY <1>6, LateKeeps DEF ForgetPops
  <2>2. deletes' \in [Names -> Forgetting] /\ boxes' \in Maps
    BY <1>6 DEF ForgetPops, Typed, Forgetting, Maps
  <2> QED
    BY <1>6, <2>1, <2>2 DEF ForgetPops, Silent, gatewayVars, Typed
<1>7. ASSUME NEW n \in Names, ForgetEnds(n)
      PROVE  Typed'
  <2>1. snaps' \in [Listers -> Snap]
    BY <1>7, LateKeeps DEF ForgetEnds
  <2>2. deletes' \in [Names -> Forgetting]
    BY <1>7 DEF ForgetEnds, Typed, Forgetting
  <2> QED
    BY <1>7, <2>1, <2>2 DEF ForgetEnds, Changed, NotChanged, gatewayVars, Typed
<1>8. ASSUME NEW n \in Names, DeleteEnds(n)
      PROVE  Typed'
  <2>1. real' \in Maps
    BY <1>8 DEF DeleteEnds, Typed, Maps
  <2>2. deletes' \in [Names -> Forgetting]
    BY <1>8, Starts DEF DeleteEnds, Typed
  <2> QED
    BY <1>8, <2>1, <2>2 DEF DeleteEnds, ledgerVars, Typed
<1>9. ASSUME NEW l \in Listers, List(l)
      PROVE  Typed'
  <2>1. [Listing(l, TRUE) EXCEPT !.pc = "listed", !.listed = real] \in Snap
    BY Starts DEF Listing, ListedWhole, Snap, Idle, Has, Typed
  <2> QED
    BY <1>9, <2>1 DEF List, gatewayVars, ledgerVars, Typed
<1>10. ASSUME ListFails
       PROVE  Typed'
  <2>1. [Listing("reporter", FALSE) EXCEPT !.pc = "applied"] \in Snap
    BY Starts DEF Listing, ListedWhole, Snap, Idle, Has
  <2> QED
    BY <1>10, <2>1 DEF ListFails, gatewayVars, ledgerVars, Typed
<1>11. ASSUME NEW l \in Listers, Apply(l)
       PROVE  Typed'
  <2>1. snaps[l] \in Snap /\ snaps["reporter"] \in Snap
    BY Starts DEF Typed
  <2>2. boxes' \in Maps
    BY <1>11, <2>1 DEF Apply, ReplaceAll, Snap
  <2>3. file' \in Maps
    BY <1>11, <2>2 DEF Apply, Changed, NotChanged, Typed
  <2>4. [snaps[l] EXCEPT !.pc = "applied", !.listed = None] \in Snap
    BY <2>1, Starts DEF Snap
  <2>5. \A late \in BOOLEAN : [snaps["reporter"] EXCEPT !.steady = {}, !.late = late] \in Snap
    BY <2>1 DEF Snap
  <2>6. snaps' \in [Listers -> Snap]
    <3>1. CASE l = "reporter"
      BY <1>11, <2>4, <3>1 DEF Apply, Typed
    <3>2. CASE l # "reporter"
      BY <1>11, <2>5, <3>2, Starts DEF Apply, Typed
    <3> QED
      BY <3>1, <3>2
  <2> QED
    BY <1>11, <2>2, <2>3, <2>6 DEF Apply, gatewayVars, Typed
<1>12. ASSUME Read
       PROVE  Typed'
  <2>1. snaps["reporter"] \in Snap
    BY Starts DEF Typed
  <2>2. [snaps["reporter"] EXCEPT !.pc = "read", !.known = boxes] \in Snap
    BY <2>1 DEF Snap, Typed
  <2> QED
    BY <1>12, <2>2 DEF Read, gatewayVars, ledgerVars, Typed
<1>13. ASSUME NEW taken \in BOOLEAN, Post(taken)
       PROVE  Typed'
  <2>1. snaps["reporter"] \in Snap
    BY Starts DEF Typed
  <2>2. told' \in Maps
    BY <1>13, <2>1 DEF Post, Typed, Snap
  <2> QED
    BY <1>13, <2>2, Starts DEF Post, gatewayVars, Typed
<1>14. ASSUME Restart
       PROVE  Typed'
  <2>1. deletes' \in [Names -> Forgetting]
    BY <1>14, Starts DEF Restart, Typed
  <2>2. boxes' \in Maps
    BY <1>14, Starts DEF Restart, Typed
  <2> QED
    BY <1>14, <2>1, <2>2, Starts DEF Restart, gatewayVars, Typed
<1>15. CASE UNCHANGED vars
  BY <1>15 DEF vars, gatewayVars, ledgerVars, Typed
<1> QED
  BY <1>1, <1>2, <1>3, <1>4, <1>5, <1>6, <1>7, <1>8, <1>9, <1>10, <1>11, <1>12, <1>13, <1>14,
     <1>15 DEF Next, Learn, Forget

\* The state keeps its shape: a map of sandboxes has a number for each name,
\* a call that learns one has a sandbox the gateway made.
THEOREM AlwaysTyped == Spec => []Typed
BY TypedInit, TypedNext, PTL DEF Spec

-----------------------------------------------------------------------------
(***************************************************************************)
(* The ledger and its copy.  A call that changed the ledger in one section *)
(* and writes the copy in a later one is pending; the sections of calls    *)
(* that are not leave the ledger as it was, or "slip" says that they       *)
(* crossed.  So the invariants speak of the states without a pending call, *)
(* and not only of those without a call between its sections.              *)
(***************************************************************************)
Pending ==
    \/ \E c \in learning : c.pc = "written" /\ Differs(c)
    \/ \E n \in Names : deletes[n].pc = "popped" /\ deletes[n].gone

\* What a step may do to the ledger.  It writes the copy or could not; or it
\* changes nothing; or what it changes is pending, or crossed; or the sidecar
\* starts again.
Saves == Changed
Leaves == UNCHANGED <<boxes, file, slip>> /\ (Pending => Pending')
Quiet == Leaves /\ UNCHANGED sent
Defers == UNCHANGED <<file, sent>> /\ Pending' /\ (slip' = slip \/ slip' = "crossed")
Crosses == UNCHANGED <<file, sent>> /\ slip' = "crossed"

LEMMA LearnsOne ==
    ASSUME Typed, NEW c \in learning, NEW d, UNCHANGED deletes,
           learning' = (learning \ {c}) \cup {d}
    PROVE  /\ Pending => Pending' \/ (c.pc = "written" /\ Differs(c))
           /\ d.pc = "written" /\ Differs(d) => Pending'
BY DEF Pending

LEMMA LedgerSteps ==
    ASSUME Typed, [Next]_vars
    PROVE  \/ Saves \/ Defers \/ Crosses \/ Quiet \/ Restart
           \/ Leaves /\ \E taken \in BOOLEAN : Post(taken)
<1>1. ASSUME NEW n \in Names, Create(n)
      PROVE  Quiet
  BY <1>1 DEF Create, Quiet, Leaves, Pending, ledgerVars
<1>2. ASSUME NEW n \in Names, Delete(n)
      PROVE  Quiet
  BY <1>2 DEF Delete, Quiet, Leaves, Pending, ledgerVars, Typed
<1>3. ASSUME NEW c \in learning, LearnReads(c)
      PROVE  Quiet
  BY <1>3, LearnsOne DEF LearnReads, Quiet, Leaves, ledgerVars
<1>4. ASSUME NEW c \in learning, LearnWrites(c)
      PROVE  Defers \/ Crosses \/ Quiet
  <2> DEFINE d == [c EXCEPT !.pc = "written"]
  <2>1. c \in Call /\ d.pc = "written" /\ d.before = c.before /\ d.id = c.id /\ c.name \in Names
    BY DEF Typed, Call
  <2>2. learning' = (learning \ {c}) \cup {d} /\ UNCHANGED deletes /\ c.pc = "read"
    BY <1>4 DEF LearnWrites
  <2> HIDE DEF d
  <2>3. (Pending => Pending') /\ (Differs(d) => Pending')
    BY <2>1, <2>2, LearnsOne
  <2>4. UNCHANGED <<file, sent>> /\ slip' \in {slip, "crossed"}
    BY <1>4 DEF LearnWrites, Silent
  <2>5. CASE Differs(d)
    BY <2>3, <2>4, <2>5 DEF Defers
  <2>6. CASE ~Differs(d) /\ boxes[c.name] # c.id
    BY <1>4, <2>1, <2>6 DEF LearnWrites, Silent, Crosses, Differs
  <2>7. CASE ~Differs(d) /\ boxes[c.name] = c.id
    <3>1. boxes' = boxes /\ slip' = slip
      BY <1>4, <2>1, <2>7 DEF LearnWrites, Silent, Typed, Maps
    <3> QED
      BY <3>1, <2>3, <2>4 DEF Quiet, Leaves
  <2> QED
    BY <2>5, <2>6, <2>7
<1>5. ASSUME NEW c \in learning, LearnEnds(c)
      PROVE  Saves \/ Quiet
  BY <1>5 DEF LearnEnds, Saves, Quiet, Leaves, NotChanged, Pending
<1>6. ASSUME NEW n \in Names, ForgetPops(n)
      PROVE  Defers \/ Crosses \/ Quiet
  <2>1. /\ deletes[n] \in Forgetting /\ deletes[n].pc = "read"
        /\ deletes' = [deletes EXCEPT ![n] = [deletes[n] EXCEPT !.pc = "popped"]]
        /\ UNCHANGED learning
    BY <1>6 DEF ForgetPops, Typed
  <2>2. /\ deletes'[n].pc = "popped" /\ deletes'[n].gone = deletes[n].gone
        /\ \A m \in Names \ {n} : deletes'[m] = deletes[m]
    BY <2>1 DEF Typed, Forgetting
  <2>3. Pending => Pending'
    BY <2>1, <2>2 DEF Pending
  <2>4. UNCHANGED <<file, sent>> /\ slip' \in {slip, "crossed"}
    BY <1>6 DEF ForgetPops, Silent
  <2>5. CASE deletes[n].gone
    BY <2>2, <2>4, <2>5 DEF Defers, Pending
  <2>6. CASE ~deletes[n].gone /\ boxes[n] # 0
    BY <1>6, <2>6 DEF ForgetPops, Silent, Crosses
  <2>7. CASE ~deletes[n].gone /\ boxes[n] = 0
    <3>1. boxes' = boxes /\ slip' = slip
      BY <1>6, <2>7 DEF ForgetPops, Silent, Typed, Maps
    <3> QED
      BY <3>1, <2>3, <2>4 DEF Quiet, Leaves
  <2> QED
    BY <2>5, <2>6, <2>7
<1>7. ASSUME NEW n \in Names, ForgetEnds(n)
      PROVE  Saves \/ Quiet
  BY <1>7 DEF ForgetEnds, Saves, Quiet, Leaves, NotChanged, Pending, Typed
<1>8. ASSUME NEW n \in Names, DeleteEnds(n)
      PROVE  Quiet
  BY <1>8 DEF DeleteEnds, Quiet, Leaves, Pending, ledgerVars, Typed
<1>9. ASSUME NEW l \in Listers, List(l) \/ Apply(l)
      PROVE  Saves \/ Quiet
  BY <1>9 DEF List, Apply, Saves, Quiet, Leaves, NotChanged, Pending, ledgerVars
<1>10. ASSUME ListFails \/ Read
       PROVE  Quiet
  BY <1>10 DEF ListFails, Read, Quiet, Leaves, Pending, ledgerVars
<1>11. ASSUME NEW taken \in BOOLEAN, Post(taken)
       PROVE  Leaves
  BY <1>11 DEF Post, Quiet, Leaves, Pending
<1>12. CASE UNCHANGED vars
  BY <1>12 DEF Quiet, Leaves, Pending, vars, ledgerVars
<1> QED
  BY <1>1, <1>2, <1>3, <1>4, <1>5, <1>6, <1>7, <1>8, <1>9, <1>10, <1>11, <1>12
  DEF Next, Learn, Forget

FileInv == slip = "no" /\ ~Pending => file = boxes

LEMMA FileNext == Typed /\ FileInv /\ [Next]_vars => FileInv'
<1> SUFFICES ASSUME Typed, FileInv, [Next]_vars PROVE FileInv'
  OBVIOUS
<1>1. CASE Saves
  BY <1>1 DEF Saves, Changed, FileInv
<1>2. CASE Leaves
  BY <1>2 DEF Leaves, FileInv
<1>3. CASE Defers \/ Crosses
  BY <1>3 DEF Defers, Crosses, FileInv
<1>4. CASE Restart
  BY <1>4 DEF Restart, FileInv
<1> QED
  BY <1>1, <1>2, <1>3, <1>4, LedgerSteps DEF Quiet

\* A restart finds what the ledger knew: with no call between its sections the
\* copy is what is in memory, whichever learn_sandbox, forget_sandbox and
\* replace_all crossed, unless it could not be written or read, or a call
\* found between its sections what it did not expect.
THEOREM FileAlwaysFollowsMemory == Spec => []FileFollowsMemory
<1>1. Init => FileInv
  BY DEF Init, FileInv
<1>2. FileInv => FileFollowsMemory
  BY DEF FileInv, FileFollowsMemory, Pending
<1> QED
  BY <1>1, <1>2, TypedInit, TypedNext, FileNext, PTL DEF Spec

-----------------------------------------------------------------------------
(***************************************************************************)
(* What the engine was told.  The snapshot of an inventory that is on the  *)
(* way is what the ledger holds while it is not late, or, if the last one  *)
(* was taken, while nothing is pending; either makes the next answer right *)
(* whatever it says.                                                       *)
(***************************************************************************)
ReadInv ==
    snaps["reporter"].pc = "read" /\ ~snaps["reporter"].late => snaps["reporter"].known = boxes
SentInv ==
    ~Pending /\ sent = "now" /\ slip # "crossed" =>
        told = boxes /\ (snaps["reporter"].pc = "read" => snaps["reporter"].known = boxes)

\* What a step may do to the Reporter's snapshot.  It goes on to be listed, or
\* applied; or it is read; or it is over; or it stays at what it was, and is
\* late if it was read and the ledger changes.
Begins(snap, next) ==
    /\ List("reporter") \/ ListFails \/ Apply("reporter")
    /\ next.pc \in {"listed", "applied"}
Reads(snap, next) ==
    Read /\ next = [snap EXCEPT !.pc = "read", !.known = boxes]
Stays(snap, next) ==
    /\ next.pc = snap.pc /\ next.listed = snap.listed
    /\ next.whole = snap.whole /\ next.known = snap.known
    /\ next.steady \subseteq snap.steady
    /\ snap.late => next.late
    /\ snap.pc = "read" => next.late \/ UNCHANGED boxes

LEMMA StaysLate ==
    ASSUME Typed, snaps' = SnapsAfterChange
    PROVE  Stays(snaps["reporter"], snaps'["reporter"])
<1>1. snaps["reporter"] \in Snap
  BY Starts DEF Typed
<1>2. PICK late \in BOOLEAN :
         /\ snaps'["reporter"] = [snaps["reporter"] EXCEPT !.late = late]
         /\ snaps["reporter"].pc = "read" => late
         /\ snaps["reporter"].late => late
  BY LateKeeps
<1> QED
  BY <1>1, <1>2 DEF Stays, Snap

LEMMA SnapSteps ==
    ASSUME Typed, [Next]_vars
    PROVE  LET snap == snaps["reporter"]
               next == snaps'["reporter"]
           IN  \/ Begins(snap, next) /\ UNCHANGED told
               \/ Stays(snap, next) /\ UNCHANGED told
               \/ Reads(snap, next) /\ UNCHANGED <<boxes, told>>
               \/ \E taken \in BOOLEAN : Post(taken) /\ next = Idle
               \/ Restart /\ next = Idle
<1> DEFINE snap == snaps["reporter"]
           next == snaps'["reporter"]
<1>0. snap \in Snap
  BY Starts DEF Typed
<1>1. UNCHANGED <<boxes, snaps>> => Stays(snap, next)
  BY DEF Stays
<1>2. ASSUME NEW n \in Names, Delete(n)
      PROVE  Stays(snap, next)
  <2>1. next = [snap EXCEPT !.steady = @ \ {n}] /\ UNCHANGED boxes
    BY <1>2, Starts DEF Delete, ledgerVars, Typed
  <2> QED
    BY <2>1, <1>0 DEF Stays, Snap
<1>3. ASSUME NEW l \in Listers, List(l)
      PROVE  Begins(snap, next) \/ Stays(snap, next)
  <2>1. CASE l = "reporter"
    <3>1. next = [Listing("reporter", TRUE) EXCEPT !.pc = "listed", !.listed = real]
      BY <1>3, <2>1 DEF List, Typed
    <3> QED
      BY <1>3, <2>1, <3>1 DEF Begins, Listing, Idle
  <2>2. CASE l # "reporter"
    BY <1>3, <2>2, Starts DEF List, Stays, Typed, ledgerVars
  <2> QED
    BY <2>1, <2>2
<1>4. ASSUME ListFails
      PROVE  Begins(snap, next)
  <2>1. next = [Listing("reporter", FALSE) EXCEPT !.pc = "applied"]
    BY <1>4, Starts DEF ListFails, Typed
  <2> QED
    BY <1>4, <2>1 DEF Begins, Listing, Idle
<1>5. ASSUME NEW l \in Listers, Apply(l)
      PROVE  Begins(snap, next) \/ Stays(snap, next)
  <2>1. CASE l = "reporter"
    <3>1. next = [snap EXCEPT !.pc = "applied", !.listed = None]
      BY <1>5, <2>1 DEF Apply, Typed
    <3> QED
      BY <1>5, <2>1, <3>1, <1>0 DEF Begins, Snap
  <2>2. CASE l # "reporter"
    <3> DEFINE late == snap.late \/ (snap.pc = "read" /\ boxes' # boxes)
    <3>1. next = [snap EXCEPT !.steady = {}, !.late = late]
      BY <1>5, <2>2, Starts DEF Apply, Typed
    <3>2. late \in BOOLEAN
      OBVIOUS
    <3> HIDE DEF late
    <3>3. /\ next.pc = snap.pc /\ next.listed = snap.listed
          /\ next.whole = snap.whole /\ next.known = snap.known
          /\ next.steady = {} /\ next.late = late
      BY <3>1, <3>2, <1>0 DEF Snap
    <3> QED
      BY <3>3 DEF Stays, late
  <2> QED
    BY <2>1, <2>2
<1>6. ASSUME Read
      PROVE  Reads(snap, next) /\ UNCHANGED boxes
  BY <1>6, Starts DEF Read, Reads, ledgerVars, Typed
<1>7. ASSUME NEW taken \in BOOLEAN, Post(taken)
      PROVE  next = Idle
  BY <1>7, Starts DEF Post, Typed
<1>8. ASSUME Restart
      PROVE  next = Idle
  BY <1>8, Starts DEF Restart
<1>9. ASSUME NEW c \in learning, LearnWrites(c) \/ LearnEnds(c)
      PROVE  Stays(snap, next)
  BY <1>9, StaysLate DEF LearnWrites, LearnEnds
<1>10. ASSUME NEW n \in Names, ForgetPops(n) \/ ForgetEnds(n)
       PROVE  Stays(snap, next)
  BY <1>10, StaysLate DEF ForgetPops, ForgetEnds
<1>11. ASSUME UNCHANGED vars \/ (\E n \in Names : Create(n) \/ DeleteEnds(n))
              \/ (\E c \in learning : LearnReads(c))
       PROVE  Stays(snap, next)
  BY <1>1, <1>11 DEF vars, ledgerVars, Create, DeleteEnds, LearnReads
<1>12. UNCHANGED told \/ (\E taken \in BOOLEAN : Post(taken))
  BY DEF Next, Create, Delete, Learn, Forget, LearnReads, LearnWrites, LearnEnds, ForgetPops,
         ForgetEnds, DeleteEnds, List, Apply, ListFails, Read, Restart, vars
<1> HIDE DEF snap, next
<1>13. \/ Begins(snap, next) \/ Stays(snap, next) \/ (Reads(snap, next) /\ UNCHANGED boxes)
       \/ (\E taken \in BOOLEAN : Post(taken)) \/ Restart
  BY <1>2, <1>3, <1>4, <1>5, <1>6, <1>9, <1>10, <1>11 DEF Next, Learn, Forget
<1> QED
  BY <1>7, <1>8, <1>12, <1>13 DEF snap, next

LEMMA ReadNext == Typed /\ ReadInv /\ [Next]_vars => ReadInv'
<1> SUFFICES ASSUME Typed, ReadInv, [Next]_vars PROVE ReadInv'
  OBVIOUS
<1> DEFINE snap == snaps["reporter"]
           next == snaps'["reporter"]
<1>1. snap \in Snap
  BY Starts DEF Typed
<1>2. CASE Begins(snap, next)
  BY <1>2 DEF Begins, ReadInv
<1>3. CASE Stays(snap, next)
  BY <1>3 DEF Stays, ReadInv
<1>4. CASE Reads(snap, next) /\ UNCHANGED boxes
  BY <1>1, <1>4 DEF Reads, ReadInv, Snap
<1>5. CASE next = Idle
  BY <1>5 DEF ReadInv, Idle
<1> QED
  BY <1>2, <1>3, <1>4, <1>5, SnapSteps

LEMMA SentNext == Typed /\ ReadInv /\ SentInv /\ [Next]_vars => SentInv'
<1> SUFFICES ASSUME Typed, ReadInv, SentInv, [Next]_vars PROVE SentInv'
  OBVIOUS
<1> DEFINE snap == snaps["reporter"]
           next == snaps'["reporter"]
<1>1. snap \in Snap
  BY Starts DEF Typed
<1>2. CASE Saves
  BY <1>2 DEF Saves, Changed, SentInv
<1>3. CASE Defers \/ Crosses
  BY <1>3 DEF Defers, Crosses, SentInv
<1>4. CASE Restart
  BY <1>4 DEF Restart, SentInv
<1>5. ASSUME Leaves, NEW taken \in BOOLEAN, Post(taken)
      PROVE  SentInv'
  <2>1. next = Idle /\ next.pc # "read"
    BY <1>5, Starts DEF Post, Typed, Idle
  <2>2. snap.pc = "read"
    BY <1>5 DEF Post
  <2>3. CASE taken
    BY <1>5, <2>1, <2>2, <2>3 DEF Post, MarkSent, Leaves, ReadInv, SentInv
  <2>4. CASE ~taken
    BY <1>5, <2>1, <2>2, <2>4 DEF Post, MarkSent, Leaves, SentInv
  <2> QED
    BY <2>3, <2>4
<1>6. ASSUME Quiet, ~ \E taken \in BOOLEAN : Post(taken)
      PROVE  SentInv'
  <2>1. UNCHANGED <<boxes, slip, sent>> /\ (Pending => Pending')
    BY <1>6 DEF Quiet, Leaves
  <2>2. CASE UNCHANGED told /\ Begins(snap, next)
    BY <2>1, <2>2 DEF Begins, SentInv
  <2>3. CASE UNCHANGED told /\ Stays(snap, next)
    BY <2>1, <2>3 DEF Stays, SentInv
  <2>4. CASE UNCHANGED told /\ Reads(snap, next)
    <3>1. next.known = boxes
      BY <1>1, <2>4 DEF Reads, Snap
    <3> QED
      BY <3>1, <2>1, <2>4 DEF SentInv
  <2>5. CASE Restart
    BY <2>5 DEF Restart, SentInv
  <2> QED
    BY <1>6, <2>2, <2>3, <2>4, <2>5, SnapSteps
<1> QED
  BY <1>2, <1>3, <1>4, <1>5, <1>6, LedgerSteps DEF Quiet

\* "What was sent is what it is now" (send_inventory): while the Reporter sees
\* no change and no call is between its sections, the last inventory it posted
\* is what the ledger holds, taken or not, whatever stale listing, lost answer,
\* late call or restart came before.
THEOREM ChangesAlwaysNoticed == Spec => []ChangesAreNoticed
<1>1. Init => ReadInv /\ SentInv
  BY Starts DEF Init, ReadInv, SentInv, Idle
<1>2. SentInv => ChangesAreNoticed
  BY DEF SentInv, ChangesAreNoticed, Pending
<1> QED
  BY <1>1, <1>2, TypedInit, TypedNext, ReadNext, SentNext, PTL DEF Spec

-----------------------------------------------------------------------------
(***************************************************************************)
(* What an inventory must not lack.  A sandbox that was there all the time *)
(* has no delete that goes on, so nothing forgets it: it is in the listing,*)
(* then in the ledger the listing replaced, then in the snapshot read.     *)
(***************************************************************************)
SteadyInv ==
    LET snap == snaps["reporter"]
    IN  /\ \A n \in snap.steady : deletes[n].pc = "none"
        /\ snap.pc = "listed" => snap.steady \subseteq Has(snap.listed)
        /\ snap.pc = "applied" => snap.steady \subseteq Has(boxes)
        /\ snap.pc = "read" => snap.steady \subseteq Has(snap.known)

\* A step other than a listing's keeps the names the ledger has, as far as no
\* delete of them goes on.
LEMMA Keeps ==
    ASSUME Typed, [Next]_vars, NEW n \in Names, boxes[n] # 0, deletes[n].pc = "none",
           \A l \in Listers : ~Apply(l), ~Restart
    PROVE  boxes'[n] # 0
<1>1. ASSUME NEW c \in learning, LearnWrites(c)
      PROVE  boxes'[n] # 0
  <2>1. c.name \in Names /\ c.id \in Nat \ {0}
    BY DEF Typed, Call
  <2> QED
    BY <1>1, <2>1 DEF LearnWrites, Typed, Maps
<1>2. ASSUME NEW m \in Names, ForgetPops(m)
      PROVE  boxes'[n] # 0
  BY <1>2 DEF ForgetPops, Typed, Maps
<1> QED
  BY <1>1, <1>2
  DEF Next, Create, Delete, Learn, Forget, LearnReads, LearnEnds, ForgetEnds, DeleteEnds, List,
      ListFails, Read, Post, ledgerVars, vars

\* A name of a sandbox that was there all the time gets no delete that goes on.
LEMMA StaysFree ==
    ASSUME Typed, [Next]_vars, NEW n \in Names, deletes[n].pc = "none",
           ~Delete(n)
    PROVE  deletes'[n].pc = "none"
<1>1. deletes[n] \in Forgetting
  BY DEF Typed
<1>2. ASSUME NEW m \in Names, Delete(m) \/ ForgetPops(m) \/ ForgetEnds(m) \/ DeleteEnds(m)
      PROVE  deletes'[n] = deletes[n]
  BY <1>2 DEF Delete, ForgetPops, ForgetEnds, DeleteEnds, Typed
<1>3. ASSUME Restart
      PROVE  deletes'[n].pc = "none"
  <2>1. deletes'[n] = NoDelete
    BY <1>3 DEF Restart
  <2> QED
    BY <2>1 DEF NoDelete
<1> QED
  BY <1>2, <1>3
  DEF Next, Create, Learn, Forget, LearnReads, LearnWrites, LearnEnds, List, Apply, ListFails,
      Read, Post, vars

LEMMA SteadyNext == Typed /\ SteadyInv /\ [Next]_vars => SteadyInv'
<1> SUFFICES ASSUME Typed, SteadyInv, [Next]_vars PROVE SteadyInv'
  OBVIOUS
<1> DEFINE snap == snaps["reporter"]
           next == snaps'["reporter"]
<1>1. snap \in Snap /\ next \in Snap
  BY TypedNext, Starts DEF Typed
<1>2. CASE next = Idle
  BY <1>2 DEF SteadyInv, Idle
<1>3. CASE List("reporter")
  <2>1. next = [Listing("reporter", TRUE) EXCEPT !.pc = "listed", !.listed = real]
    BY <1>3, Starts DEF List, Typed
  <2>2. /\ next.pc = "listed" /\ next.listed = real
        /\ next.steady = {n \in Has(real) : ListedWhole(TRUE) /\ deletes[n].pc = "none"}
    BY <2>1 DEF Listing, Idle
  <2>3. UNCHANGED deletes
    BY <1>3 DEF List
  <2> QED
    BY <2>2, <2>3 DEF SteadyInv
<1>4. CASE ListFails
  <2>1. next = [Listing("reporter", FALSE) EXCEPT !.pc = "applied"]
    BY <1>4, Starts DEF ListFails, Typed
  <2>2. next.steady = {}
    BY <2>1 DEF Listing, ListedWhole, Idle
  <2> QED
    BY <2>2 DEF SteadyInv
<1>5. CASE Apply("reporter")
  <2>1. next = [snap EXCEPT !.pc = "applied", !.listed = None] /\ snap.pc = "listed"
    BY <1>5, Starts DEF Apply, Typed
  <2>2. boxes' = snap.listed /\ UNCHANGED deletes
    BY <1>5 DEF Apply, ReplaceAll
  <2> QED
    BY <1>1, <2>1, <2>2 DEF SteadyInv, Snap, Has
<1>6. ASSUME NEW l \in Callers, Apply(l)
      PROVE  SteadyInv'
  <2>1. next.steady = {}
    BY <1>1, <1>6, Starts, InventoryAssumption DEF Apply, Typed, Listers, Snap
  <2> QED
    BY <2>1 DEF SteadyInv
<1>7. ASSUME Stays(snap, next), \A l \in Listers : ~Apply(l), ~Restart
      PROVE  SteadyInv'
  <2>1. \A n \in next.steady : n \in Names /\ n \in snap.steady /\ deletes[n].pc = "none"
    BY <1>1, <1>7 DEF Stays, SteadyInv, Snap
  <2>2. ASSUME NEW n \in next.steady
        PROVE  deletes'[n].pc = "none"
    <3>1. ~Delete(n)
      <4>1. SUFFICES ASSUME Delete(n) PROVE FALSE
        OBVIOUS
      <4>2. next = [snap EXCEPT !.steady = @ \ {n}]
        BY <4>1, Starts DEF Delete, Typed
      <4> QED
        BY <1>1, <4>2 DEF Snap
    <3> QED
      BY <2>1, <3>1, StaysFree
  <2>3. next.pc = "applied" => next.steady \subseteq Has(boxes)'
    <3>1. ASSUME NEW n \in next.steady, next.pc = "applied"
          PROVE  boxes'[n] # 0
      <4>1. boxes[n] # 0
        BY <1>7, <2>1, <3>1 DEF Stays, SteadyInv, Has
      <4> QED
        BY <1>7, <2>1, <4>1, Keeps
    <3> QED
      BY <2>1, <3>1 DEF Has
  <2>4. /\ next.pc = "listed" => next.steady \subseteq Has(next.listed)
        /\ next.pc = "read" => next.steady \subseteq Has(next.known)
    BY <1>7 DEF Stays, SteadyInv
  <2> QED
    BY <2>2, <2>3, <2>4 DEF SteadyInv
<1>8. CASE Read
  <2>1. next = [snap EXCEPT !.pc = "read", !.known = boxes] /\ snap.pc = "applied"
    BY <1>8, Starts DEF Read, Typed
  <2>2. UNCHANGED deletes
    BY <1>8 DEF Read
  <2> QED
    BY <1>1, <2>1, <2>2 DEF SteadyInv, Snap, Has
<1>9. CASE Restart \/ \E taken \in BOOLEAN : Post(taken)
  BY <1>2, <1>9, Starts DEF Restart, Post, Typed
<1>10. CASE \A l \in Listers : ~Apply(l)
  BY <1>3, <1>4, <1>7, <1>8, <1>9, <1>10, Starts, SnapSteps DEF Begins, Reads
<1> QED
  BY <1>5, <1>6, <1>10 DEF Listers

\* An inventory that does not say it is partial has every sandbox that was
\* there all the time from its listing on, whatever creates, deletes, late
\* calls and restarts there are (snapshot of openshell/sidecar.py), unless a
\* listing of another thread was applied in between.
THEOREM WholeAlwaysMeansEverySandbox == Spec => []WholeMeansEverySandbox
<1>1. Init => SteadyInv
  BY Starts DEF Init, SteadyInv, Idle
<1>2. SteadyInv => WholeMeansEverySandbox
  BY DEF SteadyInv, WholeMeansEverySandbox
<1> QED
  BY <1>1, <1>2, TypedInit, TypedNext, SteadyNext, PTL DEF Spec
=============================================================================
