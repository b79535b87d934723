------------------------------- MODULE Inventory -------------------------------
(***************************************************************************)
(* Which sandboxes the gateway has, as the sidecar knows it and tells the  *)
(* engine: GatewayLedger of openshell/state.py with its copy on disk,      *)
(* snapshot, inventory and the Reporter of openshell/sidecar.py, and what  *)
(* evaluate and _after_post_commit teach the ledger.                       *)
(*                                                                         *)
(* Learning and forgetting a sandbox take the ledger's lock several times, *)
(* so their sections are steps of their own.  Listings come from the       *)
(* Reporter and from GET /artzain/inventory, on threads of their own.      *)
(*                                                                         *)
(* External: the gateway, which commits creates and deletes and lists all  *)
(* its sandboxes at one moment; the disk; the engine.                      *)
(***************************************************************************)
EXTENDS Naturals, FiniteSets

CONSTANTS
    Names,       \* of sandboxes
    MaxId,       \* bound of the model: sandboxes ever created
    MaxDeletes,  \* bound of the model
    MaxRestarts, \* bound of the model
    Callers      \* of GET /artzain/inventory

ASSUME InventoryAssumption == "reporter" \notin Callers

VARIABLES
    real,       \* the gateway's sandboxes: an id for each name, 0 is none
    nextId,
    boxes,      \* the ledger's _sandboxes
    file,       \* its copy on disk
    learning,   \* post_commit calls of creates
    deletes,    \* DeleteSandbox calls by name, from validate to the commit
    snaps,      \* snapshots under way
    sent,       \* how the Reporter's _sent_revision compares with the ledger's
    told        \* the sandboxes of the last inventory the engine took

\* History.
VARIABLES
    slip,       \* why the copy may not be current
    deleted,    \* counters of the bounds
    restarts

gatewayVars == <<real, nextId, deleted>>
ledgerVars == <<boxes, file, sent, slip>>
vars == <<gatewayVars, ledgerVars, learning, deletes, snaps, told, restarts>>

Listers == Callers \cup {"reporter"}
None == [n \in Names |-> 0]
NoDelete == [pc |-> "none", gone |-> FALSE]

\* History in a snapshot: "steady" are the sandboxes that were there all the
\* time since it was listed, "late" says the ledger changed since it was read.
Idle == [pc |-> "idle", listed |-> None, whole |-> FALSE, known |-> None,
         steady |-> {}, late |-> FALSE]

Has(map) == {n \in Names : map[n] # 0}

-----------------------------------------------------------------------------
(* The ledger.                                                             *)

\* _changed: the revision goes up and the copy is written, or that fails.
Changed ==
    /\ sent' = IF sent = "never" THEN "never" ELSE "behind"
    /\ \/ file' = boxes' /\ slip' = "no"
       \/ UNCHANGED file /\ slip' = "not written"

NotChanged == UNCHANGED <<file, sent, slip>>

\* A section that saves nothing.  When it changes what its call does not
\* expect to, the call will not save it either.
Silent(unexpected) ==
    /\ slip' = IF unexpected THEN "crossed" ELSE slip
    /\ UNCHANGED <<file, sent>>

\* A change is late for a snapshot that was read.
SnapsAfterChange ==
    [snaps EXCEPT !["reporter"].late = @ \/ snaps["reporter"].pc = "read"]

\* The gateway commits a create, and its post_commit is on the way.
Create(n) ==
    /\ real[n] = 0
    /\ nextId <= MaxId
    /\ nextId' = nextId + 1
    /\ real' = [real EXCEPT ![n] = nextId]
    /\ learning' = learning \cup {[name |-> n, id |-> nextId, before |-> 0, pc |-> "committed"]}
    /\ UNCHANGED <<ledgerVars, deletes, snaps, told, deleted, restarts>>

\* Mutant: only a name that was not known is a change.
DiffersIfNew(c) == c.before = 0

\* learn_sandbox: which sandbox the name was; it is this one; if that is a
\* change it is saved.
Differs(c) == c.before # c.id

LearnReads(c) ==
    /\ c.pc = "committed"
    /\ learning' = (learning \ {c}) \cup {[c EXCEPT !.before = boxes[c.name], !.pc = "read"]}
    /\ UNCHANGED <<gatewayVars, ledgerVars, deletes, snaps, told, restarts>>

LearnWrites(c) ==
    /\ c.pc = "read"
    /\ boxes' = [boxes EXCEPT ![c.name] = c.id]
    /\ learning' = (learning \ {c}) \cup {[c EXCEPT !.pc = "written"]}
    /\ Silent(c.before = c.id /\ boxes[c.name] # c.id)
    /\ snaps' = SnapsAfterChange
    /\ UNCHANGED <<gatewayVars, deletes, told, restarts>>

LearnEnds(c) ==
    /\ c.pc = "written"
    /\ learning' = learning \ {c}
    /\ UNCHANGED boxes
    /\ IF Differs(c) THEN Changed ELSE NotChanged
    /\ snaps' = SnapsAfterChange
    /\ UNCHANGED <<gatewayVars, deletes, told, restarts>>

\* validate allows a DeleteSandbox and forgets the name, in three sections.
\* The delete may still be denied by others, or fail.
Delete(n) ==
    /\ real[n] # 0
    /\ deletes[n].pc = "none"
    /\ deleted < MaxDeletes
    /\ deleted' = deleted + 1
    /\ deletes' = [deletes EXCEPT ![n] = [pc |-> "read", gone |-> boxes[n] # 0]]
    /\ snaps' = [snaps EXCEPT !["reporter"].steady = @ \ {n}]
    /\ UNCHANGED <<real, nextId, ledgerVars, learning, told, restarts>>

ForgetPops(n) ==
    /\ deletes[n].pc = "read"
    /\ boxes' = [boxes EXCEPT ![n] = 0]
    /\ deletes' = [deletes EXCEPT ![n].pc = "popped"]
    /\ Silent(~deletes[n].gone /\ boxes[n] # 0)
    /\ snaps' = SnapsAfterChange
    /\ UNCHANGED <<gatewayVars, learning, told, restarts>>

ForgetEnds(n) ==
    /\ deletes[n].pc = "popped"
    /\ deletes' = [deletes EXCEPT ![n].pc = "validated"]
    /\ UNCHANGED boxes
    /\ IF deletes[n].gone THEN Changed ELSE NotChanged
    /\ snaps' = SnapsAfterChange
    /\ UNCHANGED <<gatewayVars, learning, told, restarts>>

DeleteEnds(n) ==
    /\ deletes[n].pc = "validated"
    /\ deletes' = [deletes EXCEPT ![n] = NoDelete]
    /\ real' \in {real, [real EXCEPT ![n] = 0]}
    /\ UNCHANGED <<nextId, ledgerVars, learning, snaps, told, deleted, restarts>>

-----------------------------------------------------------------------------
(* Snapshots: every workspace is listed, the listing replaces what the     *)
(* ledger holds, and what the ledger holds then is the snapshot.           *)

\* Mutant: a listing that failed counts as well.
ListedAnyway(succeeded) == TRUE

ListedWhole(succeeded) == succeeded

Listing(l, succeeded) ==
    LET whole == ListedWhole(succeeded)
    IN  [Idle EXCEPT !.whole = whole,
                     !.steady = {n \in Has(real) : l = "reporter" /\ whole /\ deletes[n].pc = "none"}]

List(l) ==
    /\ snaps[l].pc = "idle"
    /\ snaps' = [snaps EXCEPT ![l] = [Listing(l, TRUE) EXCEPT !.pc = "listed", !.listed = real]]
    /\ UNCHANGED <<gatewayVars, ledgerVars, learning, deletes, told, restarts>>

\* The snapshot is what the ledger holds, and partial.
ListFails ==
    /\ snaps["reporter"].pc = "idle"
    /\ snaps' = [snaps EXCEPT !["reporter"] = [Listing("reporter", FALSE) EXCEPT !.pc = "applied"]]
    /\ UNCHANGED <<gatewayVars, ledgerVars, learning, deletes, told, restarts>>

\* Mutant: a sandbox the listing does not have stays.
ReplaceAndKeep(listed) == [n \in Names |-> IF listed[n] = 0 THEN boxes[n] ELSE listed[n]]

\* replace_all: exactly what was listed.
ReplaceAll(listed) == listed

Apply(l) ==
    /\ snaps[l].pc = "listed"
    /\ boxes' = ReplaceAll(snaps[l].listed)
    /\ IF boxes' = boxes THEN NotChanged ELSE Changed
    /\ snaps' = IF l = "reporter"
                THEN [snaps EXCEPT ![l].pc = "applied", ![l].listed = None]
                ELSE [snaps EXCEPT ![l] = Idle, !["reporter"].steady = {},
                         !["reporter"].late = @ \/ (snaps["reporter"].pc = "read" /\ boxes' # boxes)]
    /\ UNCHANGED <<gatewayVars, learning, deletes, told, restarts>>

\* What a GET answers is of no interest here, so its snapshot ends before.
Read ==
    /\ snaps["reporter"].pc = "applied"
    /\ snaps' = [snaps EXCEPT !["reporter"].pc = "read", !["reporter"].known = boxes]
    /\ UNCHANGED <<gatewayVars, ledgerVars, learning, deletes, told, restarts>>

\* Mutant: the ledger's revision counts as sent whatever became of the post.
MarkSentAnyway(taken) == sent' = IF snaps["reporter"].late THEN "late" ELSE "now"

\* send_inventory: an inventory that was taken was of the ledger as it is now.
\* "late" is "now" for the Reporter, though the ledger changed meanwhile.
MarkSent(taken) ==
    sent' = IF ~taken THEN sent ELSE IF snaps["reporter"].late THEN "late" ELSE "now"

\* The engine takes the inventory, and its answer arrives or not.
Post(taken) ==
    /\ snaps["reporter"].pc = "read"
    /\ snaps' = [snaps EXCEPT !["reporter"] = Idle]
    /\ MarkSent(taken)
    /\ \/ told' = snaps["reporter"].known
       \/ ~taken /\ UNCHANGED told
    /\ UNCHANGED <<gatewayVars, boxes, file, slip, learning, deletes, restarts>>

-----------------------------------------------------------------------------
\* The sidecar starts from the copy, or with nothing when it is not readable.
\* Calls under way are gone; the gateway finishes a delete that was let through.
Restart ==
    /\ restarts < MaxRestarts
    /\ restarts' = restarts + 1
    /\ boxes' \in {file, None}
    /\ slip' = IF boxes' = file THEN "no" ELSE "not read"
    /\ sent' = "never"
    /\ learning' = {}
    /\ deletes' = [n \in Names |-> IF deletes[n].pc = "validated" THEN deletes[n] ELSE NoDelete]
    /\ snaps' = [l \in Listers |-> Idle]
    /\ UNCHANGED <<gatewayVars, file, told>>

Init ==
    /\ real = None
    /\ nextId = 1
    /\ boxes = None
    /\ file = None
    /\ learning = {}
    /\ deletes = [n \in Names |-> NoDelete]
    /\ snaps = [l \in Listers |-> Idle]
    /\ sent = "never"
    /\ told = None
    /\ slip = "no"
    /\ deleted = 0
    /\ restarts = 0

Learn == \E c \in learning : LearnReads(c) \/ LearnWrites(c) \/ LearnEnds(c)
Forget == \E n \in Names : ForgetPops(n) \/ ForgetEnds(n) \/ DeleteEnds(n)

Next ==
    \/ \E n \in Names : Create(n) \/ Delete(n)
    \/ Learn \/ Forget
    \/ \E l \in Listers : List(l) \/ Apply(l)
    \/ ListFails \/ Read
    \/ \E taken \in BOOLEAN : Post(taken)
    \/ Restart

\* Calls that have begun go on.  The Reporter's loop runs for ever, and lists
\* and posts again and again: a listing, and a post, that is tried for ever
\* succeeds some time.
Fairness ==
    /\ WF_vars(Learn)
    /\ WF_vars(Forget)
    /\ SF_vars(List("reporter"))
    /\ WF_vars(Apply("reporter") \/ Read)
    /\ SF_vars(Post(TRUE))

Spec == Init /\ [][Next]_vars /\ Fairness

-----------------------------------------------------------------------------
(* What must hold.                                                         *)

\* An inventory that does not say it is partial has every name whose sandbox
\* was there all the time from the listing on, though creates and deletes go
\* on meanwhile ("partial says the list may not be every sandbox", snapshot).
\* The exception is a listing of another thread that is applied in between:
\* it may be an older one.
WholeMeansEverySandbox ==
    LET snap == snaps["reporter"]
    IN  snap.pc = "read" /\ snap.whole => snap.steady \subseteq Has(snap.known)

\* A restart finds the sandboxes the ledger knew: with no call inside the
\* ledger the copy is what is in memory, whichever calls crossed, unless it
\* could not be written or read, or a call found between its sections what it
\* did not expect (learn_sandbox, forget_sandbox).
FileFollowsMemory ==
    /\ \A c \in learning : c.pc # "written"
    /\ \A n \in Names : deletes[n].pc # "popped"
    /\ slip = "no"
    => file = boxes

\* "What was sent is what it is now" (send_inventory): while the Reporter sees
\* no change, the last inventory it posted is what the ledger holds.  The
\* exception is a change made while that was posted: it waits for the next
\* interval.  So does what such crossed calls did.
ChangesAreNoticed ==
    /\ \A c \in learning : c.pc # "written"
    /\ \A n \in Names : deletes[n].pc # "popped"
    /\ sent = "now"
    /\ slip # "crossed"
    => told = boxes

\* Once the gateway's sandboxes stay as they are, the engine and the ledger
\* come to know them, whatever stale listing, late call, failed delete or
\* restart came before.
EngineCatchesUp == <>[](told = real /\ boxes = real)
=============================================================================
