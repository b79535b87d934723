# CogNEXUS tools in TLA+

This directory specifies, model-checks and proves parts of the CogNEXUS tools: the
client packages through which hosts, gateways and agents ask the ArtzAIn engine for
decisions, tell it what they did, and check the evidence it exports. The engine itself is
not in the repository; the models treat it, the OpenShell gateway, systemd, the operator,
the network and the disk as external and take from them what the code relies on.

The core is the OpenShell sidecar (`src/python/src/artzain/openshell/`): a process on the
gateway's host that answers the gateway's interceptor calls, fails closed when the engine
does not answer, and owes the engine an ordered record of what was committed and of what
the host allowed by itself. Threads, files, clocks and a network meet there, and a unit
test sees one order of them. Around it are the commands that put the sidecar on a host
and take it off again (`connect.py`), the local audit log and its telemetry, and the
offline verifier of evidence bundles.

## Inventory

| Component | State it keeps | Operations | Where it is hard | What makes it correct |
|---|---|---|---|---|
| Journal (`journal.py`) | base, entries, whether the last save failed; one file | `append` (durable or not), `settle`, `settle_through`, load | failed saves, a durable entry taken off again, restart, damaged file | one chain; nothing lost, reordered or invented |
| Break-glass (`breakglass.py`) | the open window, a deadline, a window file; a journal | `open`, `close`, `record_write`, `window`, expiry | two clocks, two files saved one after the other, a stop in between | windows are bounded, what was done under one is recorded |
| Break-glass upload (`sidecar.deliver_breakglass`) | a lock; what is on its way | send a batch, settle what was accepted | lost and late answers, partial answers | each upload continues from the last, everything arrives |
| Projection reports (`sidecar.http_report_projection`, `deliver_reports`) | a journal, a lock, a count | report, deliver, retry, give up, heartbeat | threads racing for the lock, an entry copied before a long post, a count that another job adds to | order, no loss, every report leaves |
| Interceptor (`interceptor.evaluate`, `OperationLedger`) | recent decisions and reviews, bounded | `modify_operation`, `validate`, `post_commit` | two phases with others in between, an engine call in the middle | what commits was decided or journaled, but for a stamp that came with it |
| Base policy store (`base_policy.py`) | unknown, none or a policy; a file | accept, invalidate, load | a copy that cannot be written or removed | it holds the engine's last word |
| GatewayLedger (`state.py`) and the Reporter's inventory | known sandboxes, a revision; a file | learn, forget, list, send | several lock sections for one change | the engine comes to know every sandbox |
| Audit chain (`audit_chain.py`) | seq and tip; a log and a state file | append, rebuild, verify | a torn line, a stop between the two files | what is posted is in the log, where the settings do not say otherwise; the log verifies |
| Cloud telemetry (`cloud.py`, `events.py`) | a bounded queue, a worker, a kept connection | record, enqueue, flush | full queue while somebody waits, a connection that breaks | no row twice, flush tells the truth |
| Evidence verifier (`audit_verify.py`) | none | `verify_bundle` | exports that are honest and partial, damage that looks like them | a verdict means what it says |
| `connect openshell` (`openshell/connect.py`) | connect.json, two files of the operator's, units, a credential | up, remove, rotate-key | a stop after any step, a lost answer, the next command | files come back, the gateway can start, no key is lost |
| Engine connections (`transport.py`) | at most four idle connections | request, keep, retry once | a reset while an answer is due | |
| Kill switch (`kill_switch.py`) | killed runs, a panic flag, recent trips | trip, clear, check | flags read twice while another thread clears them | |
| Grok bot (`grokbot/src`) | a queue folder, a state file with a lock file | decide, retry, upgrade | stale locks, two retries at once | |
| MCP gateway (`mcp-gateway/src`) | one upstream process, calls that wait | start, call, close | an exit or a late answer | |
| Clients for OpenClaw, n8n, TypeScript | configuration | decide | none | |
| Detectors, policy enforcement, CLI, GUI, other installations, licence | rule tables, files | classify, print, set up | none a model checker reaches | |

How they interact. `connect openshell up` redeems a token for a credential, writes the
sidecar's settings and unit, registers it in `gateway.toml` and restarts the gateway, which
from then on refuses to start without it. The gateway calls `handle_evaluate` on several
gRPC threads. In `modify_operation` and `validate` it runs `evaluate`, which asks the
engine over `transport.py`, reads the base policy store, and remembers decisions and
reviews in the ledger. With a break-glass window open and the engine down, `evaluate`
calls `BreakGlass.record_write`, which saves an entry in its journal before it returns.
After a commit, `_after_post_commit` puts a projection report in the other journal and
teaches the ledger the sandbox. The housekeeping thread turns every 15 s: it delivers
reports that wait, ends a window whose time is up and uploads the break-glass journal. The
reporter thread sends heartbeats and inventories and refreshes the base policy. Apart from
the sidecar, the guards of the Python package record events: first in the audit log, then
in the queue of the telemetry worker. An evidence bundle is read long after, by somebody
who has nothing but the file.

## Modules

| Module | Models | Composition |
|---|---|---|
| `Outbox` | what a journal promises: a log that only grows, a settled part that only grows, and what a restart or a damage may take back | abstract |
| `Journal` | class `Journal`, one action per method | refines `Outbox` |
| `Relay` | what the break-glass journal and its upload promise together: a log that only grows, taken from the front, settled only when taken | abstract |
| `BreakGlass` | class `BreakGlass` with its journal, and `deliver_breakglass` | extends `Journal`, refines `Relay` while its journal can be read |
| `Reports` | the projection reports, the delivery lock, the heartbeat's count and both its writers | extends `Journal` |
| `Interceptor` | `evaluate` with `OperationLedger` for several writes at once; any base policy at any time | abstract in the store |
| `BasePolicy` | `BasePolicyStore` and its refresh | extends and refines `Interceptor` |
| `Inventory` | `GatewayLedger`, the listings and `send_inventory` | |
| `AuditChain` | `MerkleAuditChain.append`, its state file, `verify_chain` | |
| `Telemetry` | the event recorders, `_CloudWorker`, `_CloudTransport` | extends `AuditChain` |
| `Evidence` | `verify_bundle` over exports and damages | |
| `ManagedFile` | `add_block`, `strip_block`, `_restore` | |
| `Connect` | `up`, `remove`, `rotate_key`, with systemd and the engine's keys | extends `ManagedFile` |
| `*Proofs` | the theorems about the module of that name | `BreakGlassProofs`, `ReportsProofs` use `JournalProofs`; `InterceptorProofs` has `BasePolicy`'s theorems too, `TelemetryProofs` `AuditChain`'s |
| `MC*` | the instances for TLC | |

In every module a mutant is an operator that says what a plausible mistake would do in the
place of the definition after it; each property has one that breaks it.

**Journal.** `base`, `entries`, `saveFailed` and `file` are `_base`, `_entries`,
`_save_failed` and the file. Every method runs under one lock and is one action; what the
disk does is a choice inside it. `AppendUndone` is a durable append whose save failed: the
entry comes off and the rest is saved again, which may fail too. SHA-256 is an injective
chain: a hash is the whole history it binds, so comparing hashes is comparing histories.
`replace_file` is an atomic rename; a power cut that undoes a rename is not modelled, a
process that stops is. What may happen to the file while the process is down (`Found`) is of
two kinds: what a hash shows (`Edited`, another gateway's, unreadable), which is not
replayed, and what no hash shows (`Shortened`): the last entry taken off, or the base of an
empty journal moved back, which is. A base that never was in the chain is left out.

**BreakGlass.** Operations hold one lock (`op`), and are cut where another actor or a stop
can come in between: after the journal is saved and before the window file is. `now` is
the wall clock, which is set at will (`SetClock`); `left` is what remains until
`_deadline` on the monotonic clock. `age` measures true time for the properties only. The
upload side keeps requests in `wire` after the sidecar gave them up, so that late and
repeated arrival is explored. The engine checks that an upload continues from what it last
took (`breakglass.py`, module docstring): `Continues`. The journal's entries are full
bodies; a window is its number, which stands for the uuid `open` makes. A start may find
either file unreadable: a journal that is not read begins again from nothing, while the
window of the other file goes on. `gone` keeps what such journals held, so that `Log` is
everything that was ever journaled. A journal that cannot be read once and can be at a later
start is left out.

**Reports.** A caller appends, then tries `_DELIVERING` without waiting, then posts copies
of the oldest entry until one cannot be sent. `wire` again holds posts the engine may
still get. 409 is an answer for a report the engine has, hence `Delivered` needs the
engine to have it and nothing else. `GrowOld` makes reports old enough to be given up. The
count `_UNDELIVERED` has two writers, a report that is not delivered at once (`Return`) and
an inventory the engine did not take (`InventoryFails`), and one reader that takes off what
it told.

**Interceptor.** A write goes `sent`, `modify asked`, `modified`, `validate asked`, then
`committed` or `denied`; kinds that are not bound in `modify_operation` skip the first
question. The call to the engine splits each phase, and everything can happen in between:
the ledger forgets (`ForgetDecision`, `ForgetReview`: the time to live, in order of age),
the base policy changes, a window opens or ends, another interceptor changes the write
(`Touch`), the process restarts. A write may come with the stamp of a committed one, since
a caller reads annotations back (`brought`, history, follows whether it still has it).
Other interceptors are assumed to leave the policy the
sidecar added alone. Digest and review key are what the code leaves in them; a hash is
what it is computed from. `Deny` covers refusals, reviews, rate limits and answers nobody
can read. `fetch_policy` is never passed by `handle_evaluate`, so it is left out.

**BasePolicy.** `held` and `copy` are what the store holds and the file; `Set` is `accept`,
and `invalidate` after a 409. It writes nothing when the answer is what is held already,
whatever the file says; `slipped` remembers that. The interceptor's `base` is a function of
`held`, so the whole specification is one of `Interceptor` with fewer choices.

**Inventory.** `learn_sandbox` and `forget_sandbox` take the lock for the change and again
for the save, so `LearnReads`, `LearnWrites`, `LearnEnds` (and the same of forgetting) are
steps. A snapshot is `List`, `Apply` (`replace_all`) and `Read`, by the Reporter and by
`GET /artzain/inventory`. `sent` compares `_sent_revision` with the ledger's revision.
`slip`, `steady` and `late` are history.

**AuditChain, Telemetry.** A write may fail before, within or after the line
(`AppendFails`), leaving a torn line to which the next is glued. The state file is saved
after the line; a stop in between leaves it behind. A record that is logged is posted only
after its append returned: `calls` follows each thread from there through the count, the
queue and the thread's start, each a step, against the worker that takes, posts and resends.
Two settings say whether a clean scan is logged and whether it is posted (`passes`, chosen
at the start); one that is not logged is posted without a line, as the module's docstring
has it.

**Evidence.** The initial states are all exports (the whole log, a window, a team's
records, three kinds of manifest, every certificate chain of the instance); a step damages
the bundle: a line is lost, edited, put in twice, relabelled, or taken from another
export. `verify_bundle` is the verifier with and without the `cryptography` package
(`crypto`), check by check in the code's order where the order decides the verdict. A hash
is what it is computed from, and a signature holds while its line is as it was signed.

**Connect.** `at` names the step a command does next, in the order of the code; a step that
writes a file and one that marks it in connect.json are two, since a stop in between is the
point. `Stop` is a kill or an exception, `HostRestarts` starts what systemd would. What a
command remembers (`memo`) is lost with it. A key is named by its gateway and number, and a
file is its text, its last newline and the block. `wanted` follows what the operator has in
the two files; edits happen between commands.

## Runs

| Run | Question | Bounds |
|---|---|---|
| `journal` | Does the chain hold, is the file current, does the journal implement `Outbox`, whatever fails? | 2 bodies, 3 waiting, seq to 4; the file damaged or shortened while the process is down; deadlock is checked |
| `breakglass` | Are allowed writes recorded, windows bounded and ended for good? | 2 windows of 2 minutes, 3 waiting, seq to 4, time to 3, one clock setting, 2 restarts, saves fail and files cannot be read freely |
| `breakglass_upload` | Does each upload continue from the last, do sidecar and engine together implement `Relay`, does every window end and every entry arrive? | 1 window of 1 minute, time to 1, 2 waiting, 2 restarts that can read the journal, lost and late requests |
| `reports` | Does nothing vanish, does the order hold, is True true, is each failure counted once? | 2 callers and the housekeeper, 2 reports, 2 waiting, heartbeats, 1 failed inventory, 1 restart |
| `reports_live` | Does every report leave? | 1 caller and the housekeeper, 2 reports, 1 waiting, 1 restart |
| `interceptor` | Is what commits grounded, does a refusal hold, is a review cited for its own write? | 2 writes, 4 kinds, 2 contents, 3 ids, ledger of 1, 1 restart |
| `interceptor_stamp` | Is every write passed under break-glass journaled in validate? (violated) | 2 writes |
| `base_policy` | Can a create go bare, and does the store hold the last word? | 1 write of each kind, 2 policies, 2 restarts, failures of the disk |
| `inventory` | Is a whole listing whole, does the file follow, is a change noticed, does the engine catch up? | 1 name, 2 sandboxes of that name one after the other, 1 delete, 1 restart, 2 listers |
| `evidence` | Do honest exports verify, and what does each verdict mean? | 5 records, 2 seals, 1 handover, 6 certificate chains, 2 damages |
| `telemetry` | Is what is posted recorded, once, does the log verify, does flush tell the truth? | 2 threads, 3 records of which one a clean scan, all four settings, a queue of 1, 1 stop |
| `connect` | Do the files come back, can the gateway start, is every key revocable, do remove and a first up finish? | all three commands, 2 keys, 1 stop, 1 edit, 4 shapes of the operator's files; deadlock is checked |

Why the bounds are enough. The journal's actions look at the oldest and newest entry, at
the bound and at the file, so two or three entries that wait, with a file that is one
save behind, show every case; the theorems hold for all sizes. Two windows are needed to
see an end followed by another opening, one clock setting to see a clock set back within a
window, two restarts to see a restart of a restarted window. Two threads race for
`_DELIVERING` as three would, since the loser leaves at once; with one place in the journal
the second report finds it full. Two writes share a ledger with a bound small enough that
they push each other out. A name that is created, deleted and created again is all that the
sections of the inventory can confuse: they work on one name at a time. Five records give
two full seals and a rest, a window that cuts each of them, and a team that has records on
both sides of the handover; two damages are a loss and a cover-up of it. A queue of one is
full at once. Two keys are one more than a stop can waste, so that a second up still gets
one; the two managed files do not depend on each other, so hosts whose files are alike
(`MCHosts`) show every shape of each. What the theorems say needs none of these bounds.

Where a counter ends (`MaxSeq`, `MaxTime`, `MaxRestarts`, `MaxOps`, `MaxId`, `MaxClockSets`,
`MaxWindows`, `MaxUnposted`, `MaxRecords`, `MaxDamage`, `MaxDeletes`), the model stops, so
`CHECK_DEADLOCK FALSE` is set in every run but `journal` and `connect`; no part of the
system waits on another one's lock, except for the journal's own inner lock, which is taken
last. Symmetry is used only in runs without liveness, over reports, callers, contents or
policies that nothing tells apart.

What a reader may trip over:

* `WindowIsBounded` excepts a wall clock that was set back and then trusted by a restart:
  the code says so where `_deadline` is declared ("A restart starts it again from the wall
  clock").
* `RecordedInOrder` excepts a report that was given up after 72 hours, or lost because it
  could not be saved: its last post may still arrive behind a later report.
* `CommitsAreGrounded` grounds a create in the grant of a bare one when it has the base
  policy, which the sidecar puts there, or when it still has the stamp it came with
  (`brought`): see the disagreements. Any other policy has to be the granted one.
* `NothingIsForgotten`, `AllowedAreRecorded`, `UploadsContinue` and the refinements of
  `BreakGlass` have an exception or a condition for a start that cannot read the journal
  (`gone`). The file is set aside as `.damaged` (`journal.py:262`) and the chain begins anew
  at seq 1, which does not continue from what the engine last took; the engine "flags" that
  (`breakglass.py:33`), and the model's takes none of it. `WindowIsBounded` and
  `EndedForGood` hold all the same.
* `PostedIsRecorded` is of detections, and of clean scans where the settings log them.
* `BaseIsLastWord` is of what the store holds while the process runs; a restart may load a
  copy that could not be removed (`slipped`).
* `ChangesAreNoticed` excepts a change made during a post: `send_inventory` marks the
  revision it reads after the post (`sidecar.py:1322`), so that change waits for the next
  interval, though the comment says that what was sent is what it is now.
  `EngineCatchesUp` says that it arrives.
* `ChainVerifies` excepts a log whose write left part of a line, or whose process stopped
  between the line and the state file (`slipped`): `verify_chain` then reports it, and the
  code does nothing about it.
* `UpFinishes` is of an up before any remove, and needs a token for it; `RemoveFinishes` is
  of any history.
* `FileFollowsMemory` and `WholeMeansEverySandbox` except exactly what calls that cross may
  do (`sidecar.py:344`, `state.py:86`); what holds across those is `ChangesAreNoticed` and
  `EngineCatchesUp`.
* `UploadsContinue` and `WindowEnds` are checked without clock settings; a clock that is set
  is `WindowIsBounded`'s, and its proof has any number of settings. `WindowEnds` does not
  say that the close could be journaled.
* `NothingVanishes` is proved for every bound of the journal; in the run the journal never
  is full (two reports, two places). `reports_live` has one place and drops the second.
* Restarts are one step. Time that passes while the process is down is time that passes
  just before it.

### Fairness

* `BreakGlass`: whoever holds the lock lets go of it, time passes, the housekeeping loop
  turns (`Housekeeper.run` catches everything and goes on after 15 s), a post has a
  deadline, and, as strong fairness, an upload that is sent again and again is answered
  some day. `Reports` assumes the same of the delivery.
* `Inventory`: calls that have begun go on, and a listing and a post of the Reporter, tried
  for ever, succeed some day. Nothing is assumed of creates, deletes, restarts, failed
  saves or `GET /artzain/inventory`.
* `Connect`: a command that runs goes on, systemd starts a failed gateway again (its
  package's unit, external), the operator runs commands again ("finished by running up
  again"), and a revocation that is tried for ever is answered some day.

Strong fairness is needed where each try may fail; without an engine that ever answers
nothing reaches it, and the code promises nothing else. `AuditChain`, `Telemetry`,
`Interceptor` and `Evidence` state none.

## Disagreements with the comments

`interceptor_stamp` is a run TLC refutes: an update read back from an earlier commit carries
that decision's stamp. Sent again while the engine is down and a window is open, it passes
`modify_operation` unstamped by this call but not without a stamp, and `validate` confirms
it by the old decision, if the ledger still has it. The engine did allow this content once,
but the comment at `interceptor.py:920` (journaled once in `validate`) does not hold.

Others were met while modelling. The models contain what the code does, and the properties
above are stated so that they say what does hold; these are the statements that do not:

* `breakglass.py:237` ("only a restart forgets it, and a forgotten window is a closed
  one"): a close whose save of the window file fails leaves the open window in the file,
  and a restart before its time opens it again. `EndedForGood` is of windows whose end is
  in the file.
* `interceptor.py:667` (the digest leaves out "the base policy when this sidecar added
  it"): it takes any policy off when the decision the stamp names added the base policy
  (`675`). A create with a policy of its own and such a stamp, let through under break-glass
  in `modify_operation`, is confirmed in `validate` by the decision for a bare create of the
  same content, with no entry. `CommitsAreGrounded` excepts it and nothing more.
* `journal.py:15` (a file that was cut short or edited does not verify): without its last
  entry it does, and so does an empty one whose base was changed (`218`). `Outbox!Lose` says
  what that may cost.
* `interceptor.py:287`: when one reviewed write runs twice at once, the late answer to the
  first drops by key the review the second has just opened (`interceptor.py:772`).
* `audit_verify.py:58` (the same verdict on either install): a bundle that lost a key or a
  handover is asked for them only where the manifest's signature was checked.
* `base_policy.py:141`: a copy that could neither be replaced nor removed is loaded after a
  restart, though the engine took it back.
* `connect.py:47` (an up that stopped is finished by up): the registration is marked before
  the drop-in is written (`1678`), so after a stop in between no up writes it.
* `connect.py:51` (the files get back their bytes): `gateway.env` is marked after it is
  written (`1574`); after a stop in between remove leaves an empty file, or one with a
  newline more. `FilesComeBack` claims the bytes of `gateway.toml` only.
* `connect.py:53` (the gateway is restarted unbound): only the remove that took the block
  out restarts it (`1973`); one that stopped right after leaves that to nobody.
* `connect.py:2144` (a rotation retires keys never put in use): after a rotation that
  stopped between settings and restart, the next retires the key the sidecar runs with
  (`2189`).
* `connect.py:933` and `1369` (up again finishes it): a remove that could not revoke keeps
  the record of up's steps (`1941`), and up after it skips the registration; hence the
  condition of `UpFinishes`.
* `connect.py:1367`: the result of putting the approval setting back is not looked at.

## Theorems

All are proved for every value of the constants under the named assumptions, which TLC
evaluates in the runs.

**`JournalProofs`** (`MaxPendingAssumption`, `HasFileAssumption`): `JournalTypeCorrect`,
`ChainAlwaysHolds`, `FileAlwaysCurrent`, and the refinement `JournalImplementsOutbox`.
`Verified` walks the chain entry by entry, as the code does, which says nothing directly
about two entries that are not neighbours, or about `base` and the newest one. The invariant
`JournalInv` adds `Chained`: every hash, the base's too, is the initial segment of the
newest hash up to its own seq, and that hash is as long as its seq. Settling any number of
entries then needs no induction. `FileInv` is the same of what a restart would load; it is
needed because a restart takes the file's word. For the refinement, the log is the newest
hash, the settled part the base's, and the safe parts those of the file as it would be
loaded; each method maps to a step of `Outbox` or to a stutter, and whatever happened to the
file to `Outbox!Lose`, since what is loaded from it is a first part of what was there.

**`BreakGlassProofs`** (`GlassAssumption`, the journal's): `GlassTypeCorrect`,
`AllowedAlwaysRecorded`, `CountsAlwaysJournaled`, `NothingEverForgotten`, `EndedStaysEnded`,
`WindowAlwaysBounded`, `UploadsAlwaysContinue`, and two refinements. Every append here is
durable, so the file ends where memory ends (`JournalPart`), which is what makes history a
function of the journal and of `gone`. `GlassInv` says of each window that is held, in
memory or in the file, what the history has of it (`GoodWindow`), through each cut of each
operation (`Phases`). `EndedInv` keeps an ended window from being held anywhere. `ClockInv`
relates true age, monotonic time left and the wall clock by three levels of trust; without
the middle one (set back, not yet trusted by a restart) it is not inductive. `UploadInv`
says that all that is on its way is a segment of the history that starts within what was
taken, as long as nothing is `gone`, which is why a start that cannot read the journal needs
a condition and not a step. `GlassImplementsRelay` follows from these two: the log is the
newest hash, the settled part the base's; a step of whichever actor puts one entry in, is
the engine's, moves the settled part along what was taken, or leaves the three alone.
`GlassKeepsOutbox` says that what `JournalImplementsOutbox` says of the journal under any
calls holds of it under this class's, and more (`KeepsJournal`): every step but a start that
cannot read it is one of an outbox whose restarts find no less than what was safe.

**`ReportsProofs`** (`ThreadsAssumption`, the journal's): `ReportsTypeCorrect`,
`AlwaysSendsTheOldest`, `TrueAlwaysMeansRecorded`, `AlwaysCountedOnce`,
`NothingEverVanishes`, `AlwaysRecordedInOrder`, and `ReportsKeepOutbox`, the same of the
journal of reports under several threads. `Lock` says who delivers holds the lock; with it
the copy that is sent stays the oldest entry, so `settle` never takes another off. `OwnInv`,
`TruthInv`, `CountInv` follow one thread's own report, what was delivered, and the count
with its two writers; order then follows from the place of each report in the history.

**`InterceptorProofs`** (`InterceptorAssumption`): `InterceptorTypeCorrect`,
`RefusalsAlwaysHold`, `CommitsAlwaysGrounded`, `NeverABareCreate`, `AlwaysCitesItsOwn`.
None of the properties is inductive. `InterceptorInv` adds what a later phase relies on:
`DecisionsOK` and `IdsFresh` (a remembered decision was granted for what it carries, and an
id is remembered once), `ReviewsOK` and `CitesOK` (a review was opened for its key and what
cites it), `RefusalOK` (a refused write is denied or has its refusal in hand), `GroundsOK`
(an allow in hand was granted for the write as it is now, or is for a write with the stamp
it came with), `BareOK` (a create without a
policy past the first phase saw "none"). Frame lemmas say what a step of one write leaves
of the others; there is one lemma for each action.

The same module proves of `BasePolicy` (`BasePolicyAssumption`) `BaseAlwaysLastWord` from
`StoreInv`, which adds what the copy is unless it slipped; `BaseImplementsInterceptor`, by
which every step with the real store is a step of `Interceptor` or none, and so
`NoBareCreateWithStore`.

**`TelemetryProofs`** (`TelemetryAssumption`, `AuditChainAssumption`): `AlwaysStoredOnce`
from `OnceInv`: a row is in one place of thread, queue and worker, all of them different,
and stored only past those. `FlushAlwaysMeansTried` from `FlushInv`: `pending` is the
number of calls that counted, rows in the queue and rows being sent, so that zero leaves no
row to wait for; a row that is dropped takes its own count back and no other's.

Of `AuditChain`, in the same module: `PostedAlwaysRecorded`, since a row that is to be
logged, behind a call that went on, has its line, which writes only append to or glue;
`ChainAlwaysVerifies` from `ChainInv`: unless it slipped, state and state file know the end
of the log or the line being appended.

**`ConnectProofs`** (`ConnectAssumption`, `HostsAssumption`, `TextsAssumption`):
`ConnectTypeCorrect`, `FilesAlwaysComeBack`, `GatewayCanAlwaysStart`, `NoKeyIsEverLost`.
`FilesInv` says between which steps what was read is what is there (`ReadHolds`), that a
block in a file has been recorded (`BlockIsRecorded`), that past its step of remove it is
out (`BlockIsOut`), and that a copy the record vouches for is of the operator's file
(`CopyIsWanted`). `GatewayInv` says from which steps on a credential and a unit are there.
`KeysInv` says what a redemption and a rotation hold between two writes (`RedeemHolds`,
`RotateHolds`) and that nothing is forgotten (`Forgetting`) before it is revoked. They hold
at every `at`, which is what a stop may leave.

**`InventoryProofs`** (`InventoryAssumption`): `AlwaysTyped`, `FileAlwaysFollowsMemory`,
`ChangesAlwaysNoticed`, `WholeAlwaysMeansEverySandbox`. Two lemmas say what a step may do to
the ledger (it saves, defers a save to a call between its sections, crosses another call,
leaves it alone) and to a snapshot (begins, reads, stays); each invariant then has a case
for each of those instead of one for each action. `FileInv` says which calls the copy still
waits for (`Pending`), since with a call between its sections copy and memory differ.
`ReadInv` and `SentInv` say what a snapshot's change mark vouches for from the read to the
post, and after it: `ChangesAreNoticed` compares two moments and is not inductive.
`SteadyInv` follows one sandbox that was there all the time through each part of a listing.
They hold for any names and any number of calls; TLC found them to hold first, with one
name and two deletes and with two names.

**`EvidenceProofs`** (`EvidenceAssumption`, `ChainsAssumption`): `ExportsAlwaysVerify`,
`VerifiedAlwaysExported`, `AttestedAlwaysEarned`, `SealsAlwaysGuard`. The invariant
`BundleInv` says that what was exported is an export, that the damages left the bundle its
shape, and that the manifest is one of the engine's. The verdict is then reasoned about
without another step: the counts and digests a manifest compares give back the lines
(`SameLeaves`, `SameSeals`), and a seal's number of proofs is its size only if each of its
numbers has a record, by the pigeonhole principle (`AllCovered`), which holds for every
size of a batch.

Only model-checked: liveness (`WindowEnds`, `EverythingIsTaken`, `EveryReportLeaves`,
`EngineCatchesUp`, `RemoveFinishes`, `UpFinishes`), which is out of the prover's reach with
`ENABLED`; and the violated property. Every invariant and action property and both
refinements that a passing run checks have their theorems. What the recursive definitions
compute for every input would need induction over data, which the prover does not have; the
journal's proof goes around it with `Chained`.

## Not modelled, and why

The share of the repository's lines behind these models is about a tenth. What is left
out is left out for these reasons:

* Pure text and tables: the detectors (`destructive_action_guard.py`,
  `prompt_injection.py`, `prompt_defense.py`, `pii_detector.py`), `tool_call_contract.py`,
  `policy_enforcement.py`. Their worth is in their patterns; a model would restate them.
* Presentation and one-shot set-up: `cli.py`, `gui.py`, `local.py`, the licence, and the
  other shapes of the OpenShell installation (Compose, snap, Homebrew, Kubernetes).
* Translation: the servicer, the wire format, the stateless clients.
* The Grok bot and the MCP gateway: programs of their own in TypeScript with hazards of
  their own (a stale lock in `state.ts:277`, an entry posted twice in `queue.ts:243`, a
  session kept past its process in `server.ts:142`).
* The kill switch: it has threads and a real race (`raise_if_killed` reads the panic flag
  twice, and a `clear_global_panic` in between makes it raise another exception), but no
  state that lasts and nothing here depends on it.

Within modelled components:

* Interceptor: the payload rules that decide what a policy is. Inventory: policy hashes, the
  bounds of both maps, listing by workspace with the SDK, `mark_complete`.
* Audit chain: signatures, two processes on one log (each would go on from its own tip, and
  `verify_chain` says so). Telemetry: a fork of the process, `close`, policy
  synchronisation.
* Connect: an older sidecar's settings, upgrade, `status` and `doctor` (they only read), an
  edit during a command, two commands at once, a request to the engine that arrives late, a
  stop between saving the credential and recording its gateway (the token is spent, and
  `NoKeyIsLost` starts from a recorded gateway).
* Break-glass: a journal that one start cannot read, by an error that passes, and a later one
  can; the code renames it away if it can be renamed. Journal: a base edited to a point that
  never was in the chain, and a whole new chain, which the code says it does not stop.
* Power cuts that undo an atomic rename.
