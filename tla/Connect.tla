------------------------------- MODULE Connect -------------------------------
(***************************************************************************)
(* `artzain connect openshell` up, remove and rotate-key for the deb or    *)
(* rpm package's gateway (openshell/connect.py): what they write on the    *)
(* host, what they tell systemd and the engine, and in which order.        *)
(*                                                                         *)
(* A command may stop after any of its steps: it is killed, the host       *)
(* restarts, or the step raises.  What it was doing is then only in        *)
(* connect.json, and another command goes on from there.  One command runs *)
(* at a time, and the operator edits files between two commands.           *)
(*                                                                         *)
(* External: systemd with the gateway and the sidecar, and the engine.     *)
(* An answer of the engine's may be lost, a request is not late.           *)
(***************************************************************************)
EXTENDS ManagedFile, Naturals

CONSTANTS
    Hosts,      \* the files a host may have before the first up
    Commands,   \* what the operator runs: "up", "remove", "rotate"
    MaxKeys,    \* bound of the model: keys the engine makes
    MaxStops,   \* bound of the model
    MaxEdits    \* bound of the model

ASSUME ConnectAssumption == MaxKeys \in Nat /\ MaxStops \in Nat /\ MaxEdits \in Nat

ASSUME HostsAssumption == Hosts \subseteq [toml : Files, env : Files]

VARIABLES
    toml, tomlCopy,   \* gateway.toml and its saved copy
    env, envCopy,     \* gateway.env and its saved copy
    record,           \* connect.json
    settings,         \* the credential in the sidecar's settings
    unit,             \* the sidecar's unit: "absent", "written", "enabled"
    dropin,           \* the gateway's unit requires the sidecar
    sidecar,          \* the credential the sidecar runs with
    gateway,          \* "unbound", "bound" or "failed"
    approval,         \* proposal_approval_mode
    live,             \* the engine's live keys
    keys,             \* keys it has made
    at,               \* the step the command does next
    memo              \* what the command remembers

\* History.
VARIABLES
    wanted,   \* gateway.toml and gateway.env as the operator has them
    known,    \* gateways that were recorded here
    kept,     \* gateways removed with --keep-credential
    stops, edits

tomlFiles == <<toml, tomlCopy>>
envFiles == <<env, envCopy>>
files == <<tomlFiles, envFiles>>
units == <<unit, dropin>>
running == <<sidecar, gateway, approval>>
engine == <<live, keys>>
history == <<wanted, known, kept, stops, edits>>
vars == <<files, record, settings, units, running, engine, at, memo, history>>

\* A key of a gateway.  A gateway is named by its first key.
Key(g, n) == [gw |-> g, n |-> n]
NoKey == Key(0, 0)
Keys == [gw : 0 .. MaxKeys, n : 0 .. MaxKeys]

\* connect.json, and that there is none.
Blank == [steps |-> {}, gw |-> 0, toml |-> NoFile, env |-> NoFile, connected |-> FALSE]

NoMemo == [saw |-> NoFile, key |-> NoKey, restart |-> FALSE, keep |-> FALSE]

Done(step) == step \in record.steps
Marked(step) == [record EXCEPT !.steps = @ \cup {step}]

Others(k) == {other \in live : other.gw = k.gw /\ other # k}

\* What the gateway does when it starts: it refuses to start while its
\* interceptor does not answer.
Start(t, key) == IF ~t.block THEN "unbound" ELSE IF key # NoKey THEN "bound" ELSE "failed"

\* The gateway is started, which may fail for reasons of its own.
GatewayRestarts(key) ==
    \/ gateway' = Start(toml, key) /\ UNCHANGED stops
    \/ gateway' = "failed" /\ stops < MaxStops /\ stops' = stops + 1

\* A sidecar that is restarted takes the gateway with it that requires it.
SidecarRestarts ==
    /\ sidecar' = settings
    /\ gateway' = IF dropin THEN Start(toml, settings) ELSE gateway

-----------------------------------------------------------------------------
(* up                                                                      *)

\* A gateway.toml without the block needs a gateway the CLI can reach.
Up ==
    /\ at = "idle" /\ "up" \in Commands
    /\ toml.block \/ gateway # "failed"
    /\ Done("redeemed") => settings # NoKey
    /\ at' = IF Done("redeemed") THEN "approval" ELSE "redeem"
    /\ memo' = NoMemo
    /\ UNCHANGED <<files, record, settings, units, running, engine, history>>

\* The answer may be lost, and the token is spent then.
Redeem ==
    /\ at = "redeem"
    /\ IF keys = MaxKeys THEN at' = "idle" /\ UNCHANGED <<engine, memo, stops>>
       ELSE LET k == Key(keys + 1, keys + 1)
            IN  /\ keys' = keys + 1
                /\ live' = live \cup {k}
                /\ memo' = [memo EXCEPT !.key = k]
                /\ \/ at' = "save credential" /\ UNCHANGED stops
                   \/ at' = "idle" /\ stops < MaxStops /\ stops' = stops + 1
    /\ UNCHANGED <<files, record, settings, units, running, wanted, known, kept, edits>>

SaveCredential ==
    /\ at = "save credential"
    /\ settings' = memo.key
    /\ at' = "mark redeemed"
    /\ UNCHANGED <<files, record, units, running, engine, memo, history>>

MarkRedeemed ==
    /\ at = "mark redeemed"
    /\ record' = [Marked("redeemed") EXCEPT !.gw = memo.key.gw]
    /\ known' = known \cup {memo.key.gw}
    /\ at' = "approval"
    /\ UNCHANGED <<files, settings, units, running, engine, memo, wanted, kept, stops, edits>>

\* A gateway that failed cannot be set until systemd has it up again; a stop
\* between the setting and its mark only sets it again.
SetApproval ==
    /\ at = "approval"
    /\ IF Done("approval-manual") THEN UNCHANGED <<approval, record>>
       ELSE /\ gateway # "failed"
            /\ approval' = "manual"
            /\ record' = Marked("approval-manual")
    /\ at' = "env"
    /\ UNCHANGED <<files, settings, units, sidecar, gateway, engine, memo, history>>

\* Mutant: the file is taken and saved as it is, block and all.
TakesTheBlockAnyway(f) == TRUE

TakesTheBlock(f) == ~f.block

SaveEnv ==
    /\ at = "env"
    /\ IF Done("gateway-env") THEN at' = "sidecar" /\ UNCHANGED <<envCopy, memo>>
       ELSE /\ memo' = [memo EXCEPT !.saw = env]
            /\ IF TakesTheBlock(env) THEN envCopy' = Bytes(env) /\ at' = "write env"
               ELSE at' = "mark env" /\ UNCHANGED envCopy
    /\ UNCHANGED <<tomlFiles, env, record, settings, units, running, engine, history>>

WriteEnv ==
    /\ at = "write env"
    /\ env' = AddBlock(memo.saw)
    /\ at' = "mark env"
    /\ UNCHANGED <<tomlFiles, envCopy, record, settings, units, running, engine, memo, history>>

MarkEnv ==
    /\ at = "mark env"
    /\ record' = [Marked("gateway-env") EXCEPT !.env = memo.saw]
    /\ at' = "sidecar"
    /\ UNCHANGED <<files, settings, units, running, engine, memo, history>>

\* _sidecar_service: the unit written first, or an absent one written again.
\* One that is up to date, and whose step is done, is left running.
PutUnit ==
    /\ at = "sidecar"
    /\ unit' = IF unit = "absent" THEN "written" ELSE unit
    /\ at' = IF ~Done("sidecar") THEN "start sidecar"
             ELSE IF unit = "absent" THEN "restart sidecar" ELSE "wait for sidecar"
    /\ UNCHANGED <<files, record, settings, dropin, running, engine, memo, history>>

\* enable --now; a stop before the mark only does it again.
StartSidecar ==
    /\ at = "start sidecar"
    /\ unit' = "enabled"
    /\ sidecar' = IF sidecar = NoKey THEN settings ELSE sidecar
    /\ record' = Marked("sidecar")
    /\ at' = "wait for sidecar"
    /\ UNCHANGED <<files, settings, dropin, gateway, approval, engine, memo, history>>

RestartSidecar ==
    /\ at = "restart sidecar"
    /\ SidecarRestarts
    /\ at' = IF gateway' = "failed" THEN "idle" ELSE "wait for sidecar"
    /\ UNCHANGED <<files, record, settings, units, approval, engine, memo, history>>

\* Without an answer up ends here.
SidecarAnswers ==
    /\ at = "wait for sidecar"
    /\ at' = IF sidecar = NoKey THEN "idle" ELSE "register"
    /\ UNCHANGED <<files, record, settings, units, running, engine, memo, history>>

\* _register: the copy of gateway.toml, the mark of what it was, the block.
SaveToml ==
    /\ at = "register"
    /\ IF Done("registration") THEN at' = "restart gateway" /\ UNCHANGED <<tomlCopy, memo>>
       ELSE IF toml.block THEN at' = "mark registration" /\ UNCHANGED <<tomlCopy, memo>>
       ELSE /\ memo' = [memo EXCEPT !.saw = toml]
            /\ tomlCopy' = Bytes(toml)
            /\ at' = "mark toml"
    /\ UNCHANGED <<toml, envFiles, record, settings, units, running, engine, history>>

\* Mutant: gateway.toml is taken for one that was there.
TomlWasThere(saw) == Bytes(saw)

TomlWas(saw) == saw

\* Mutant: the registration is marked before it is written.
RegistrationMarked == {"toml-saved", "registration"}

TomlMarked == {"toml-saved"}

MarkToml ==
    /\ at = "mark toml"
    /\ record' = [record EXCEPT !.steps = @ \cup TomlMarked, !.toml = TomlWas(memo.saw)]
    /\ at' = "write toml"
    /\ UNCHANGED <<files, settings, units, running, engine, memo, history>>

WriteToml ==
    /\ at = "write toml"
    /\ toml' = AddBlock(memo.saw)
    /\ at' = "mark registration"
    /\ UNCHANGED <<tomlCopy, envFiles, record, settings, units, running, engine, memo, history>>

MarkRegistration ==
    /\ at = "mark registration"
    /\ record' = Marked("registration")
    /\ at' = "put drop-in"
    /\ UNCHANGED <<files, settings, units, running, engine, memo, history>>

PutDropin ==
    /\ at = "put drop-in"
    /\ dropin' = TRUE
    /\ at' = "restart gateway"
    /\ UNCHANGED <<files, record, settings, unit, running, engine, memo, history>>

\* _restart_bound.  A stop before the mark only restarts it again.
RestartBound ==
    /\ at = "restart gateway"
    /\ IF Done("gateway-restarted")
       THEN at' = "self-test" /\ UNCHANGED <<record, gateway, stops>>
       ELSE /\ GatewayRestarts(sidecar)
            /\ IF gateway' = "failed" THEN at' = "idle" /\ UNCHANGED record
               ELSE at' = "self-test" /\ record' = Marked("gateway-restarted")
    /\ UNCHANGED <<files, settings, units, sidecar, approval, engine, memo,
                   wanted, known, kept, edits>>

\* self_test: the engine denies it to a gateway whose sidecar has a live key.
\* Another refusal ends up here, and so does an approval that is not manual.
SelfTest ==
    /\ at = "self-test"
    /\ IF gateway = "unbound"
       THEN approval' = "auto" /\ at' = "put approval back" /\ UNCHANGED record
       ELSE /\ at' = "idle"
            /\ record' = IF gateway = "bound" /\ sidecar \in live /\ approval = "manual"
                         THEN [Marked("self-test") EXCEPT !.connected = TRUE]
                         ELSE record
            /\ UNCHANGED approval
    /\ UNCHANGED <<files, settings, units, sidecar, gateway, engine, memo, history>>

\* Nobody looks at how that went.
PutApprovalBack ==
    /\ at = "put approval back"
    /\ at' = "idle" /\ memo' = NoMemo
    /\ \/ approval' = "manual" /\ UNCHANGED stops
       \/ stops < MaxStops /\ stops' = stops + 1 /\ UNCHANGED approval
    /\ UNCHANGED <<files, record, settings, units, sidecar, gateway, engine,
                   wanted, known, kept, edits>>

UpStep ==
    \/ Redeem \/ SaveCredential \/ MarkRedeemed \/ SetApproval
    \/ SaveEnv \/ WriteEnv \/ MarkEnv
    \/ PutUnit \/ StartSidecar \/ RestartSidecar \/ SidecarAnswers
    \/ SaveToml \/ MarkToml \/ WriteToml \/ MarkRegistration \/ PutDropin
    \/ RestartBound \/ SelfTest \/ PutApprovalBack

-----------------------------------------------------------------------------
(* remove                                                                  *)

Remove(keep) ==
    /\ at = "idle" /\ "remove" \in Commands
    /\ at' = "restore toml"
    /\ memo' = [NoMemo EXCEPT !.keep = keep]
    /\ UNCHANGED <<files, record, settings, units, running, engine, history>>

\* _unbind_systemd.
RestoreToml ==
    /\ at = "restore toml"
    /\ toml' = IF toml.block THEN Restore(toml, tomlCopy, record.toml, Done("toml-saved")) ELSE toml
    /\ memo' = [memo EXCEPT !.restart = toml.block]
    /\ at' = "drop drop-in"
    /\ UNCHANGED <<tomlCopy, envFiles, record, settings, units, running, engine, history>>

\* Mutant: the drop-in goes when gateway.toml was restored.
DropinStays(restored) == ~restored

DropinLeft(restored) == FALSE

DropDropin ==
    /\ at = "drop drop-in"
    /\ dropin' = (dropin /\ DropinLeft(memo.restart))
    /\ at' = "restart unbound"
    /\ UNCHANGED <<files, record, settings, unit, running, engine, memo, history>>

RestartUnbound ==
    /\ at = "restart unbound"
    /\ IF memo.restart THEN GatewayRestarts(sidecar) ELSE UNCHANGED <<gateway, stops>>
    /\ at' = IF memo.restart /\ gateway' = "failed" THEN "idle" ELSE "stop sidecar"
    /\ UNCHANGED <<files, record, settings, units, sidecar, approval, engine, memo,
                   wanted, known, kept, edits>>

\* disable --now.
StopSidecar ==
    /\ at = "stop sidecar"
    /\ unit' = IF unit = "enabled" THEN "written" ELSE unit
    /\ sidecar' = NoKey
    /\ at' = "drop unit"
    /\ UNCHANGED <<files, record, settings, dropin, gateway, approval, engine, memo, history>>

DropUnit ==
    /\ at = "drop unit"
    /\ unit' = "absent"
    /\ at' = "restore env"
    /\ UNCHANGED <<files, record, settings, dropin, running, engine, memo, history>>

RestoreEnv ==
    /\ at = "restore env"
    /\ env' = IF env.block THEN Restore(env, envCopy, record.env, Done("gateway-env")) ELSE env
    /\ at' = "revoke"
    /\ UNCHANGED <<tomlFiles, envCopy, record, settings, units, running, engine, memo, history>>

\* Mutant: a revoke that did not happen is given up.
RevokedOrNot(answer) == TRUE

\* Mutant: a key the engine does not know is not taken for a revoked one.
RevokedIfSaid(answer) == answer = "revoked"

\* An unknown key is a revoked one.
Revoked(answer) == answer \in {"revoked", "unknown"}

\* The engine revokes the gateway, all its keys, for any live key of it.
RevokeGateway(answer) ==
    /\ answer = "revoked" => settings \in live
    /\ answer = "unknown" => settings \notin live
    /\ live' = IF settings \in live /\ answer \in {"revoked", "lost"}
               THEN {k \in live : k.gw # record.gw}
               ELSE live
    /\ at' = IF Revoked(answer) THEN "forget credential" ELSE "idle"
    /\ record' = IF Revoked(answer) THEN record ELSE Marked("revoke-pending")
    /\ UNCHANGED kept

Revoke(answer) ==
    /\ at = "revoke"
    /\ IF record.gw # 0 /\ settings # NoKey /\ ~memo.keep
       THEN RevokeGateway(answer)
       ELSE /\ answer = "unknown"
            /\ at' = "forget credential"
            /\ kept' = IF memo.keep THEN kept \cup {record.gw} ELSE kept
            /\ UNCHANGED <<live, record>>
    /\ UNCHANGED <<files, settings, units, running, keys, memo, wanted, known, stops, edits>>

ForgetCredential ==
    /\ at = "forget credential"
    /\ settings' = NoKey
    /\ at' = "forget copies"
    /\ UNCHANGED <<files, record, units, running, engine, memo, history>>

ForgetCopies ==
    /\ at = "forget copies"
    /\ tomlCopy' = NoFile
    /\ envCopy' = NoFile
    /\ at' = "forget record"
    /\ UNCHANGED <<toml, env, record, settings, units, running, engine, memo, history>>

ForgetRecord ==
    /\ at = "forget record"
    /\ record' = Blank
    /\ at' = "idle" /\ memo' = NoMemo
    /\ UNCHANGED <<files, settings, units, running, engine, history>>

Answers == {"revoked", "unknown", "lost", "refused"}

RemoveStep ==
    \/ RestoreToml \/ DropDropin \/ RestartUnbound \/ StopSidecar \/ DropUnit \/ RestoreEnv
    \/ \E answer \in Answers : Revoke(answer)
    \/ ForgetCredential \/ ForgetCopies \/ ForgetRecord

-----------------------------------------------------------------------------
(* rotate-key                                                              *)

Rotate ==
    /\ at = "idle" /\ "rotate" \in Commands
    /\ record.connected /\ record.gw # 0 /\ settings # NoKey
    /\ at' = "retire others"
    /\ memo' = NoMemo
    /\ UNCHANGED <<files, record, settings, units, running, engine, history>>

RetireOthers ==
    /\ at = "retire others"
    /\ IF settings \notin live THEN at' = "idle" /\ UNCHANGED live
       ELSE live' = live \ Others(settings) /\ at' = "mint"
    /\ UNCHANGED <<files, record, settings, units, running, keys, memo, history>>

\* The answer may be lost, or hold no credential: then the old key takes back
\* what was made.
Mint ==
    /\ at = "mint"
    /\ IF keys = MaxKeys THEN at' = "idle" /\ UNCHANGED <<engine, memo, stops>>
       ELSE LET k == Key(settings.gw, keys + 1)
            IN  /\ keys' = keys + 1
                /\ live' = live \cup {k}
                /\ \/ at' = "swap" /\ memo' = [memo EXCEPT !.key = k] /\ UNCHANGED stops
                   \/ /\ stops < MaxStops
                      /\ stops' = stops + 1
                      /\ at' \in {"idle", "retire new"}
                      /\ memo' = [memo EXCEPT !.key = settings]
    /\ UNCHANGED <<files, record, settings, units, running, wanted, known, kept, edits>>

\* The old key goes into the memo, for the way back.
Swap ==
    /\ at = "swap"
    /\ settings' = memo.key
    /\ memo' = [memo EXCEPT !.key = settings]
    /\ at' = "put unit"
    /\ UNCHANGED <<files, record, units, running, engine, history>>

PutUnitAgain ==
    /\ at = "put unit"
    /\ unit' = IF unit = "absent" THEN "written" ELSE unit
    /\ at' = "take key"
    /\ UNCHANGED <<files, record, settings, dropin, running, engine, memo, history>>

\* The engine took a heartbeat with the new key, or not in time.
TakeKey ==
    /\ at = "take key"
    /\ SidecarRestarts
    /\ at' \in {"retire old", "swap back"}
    /\ UNCHANGED <<files, record, settings, units, approval, engine, memo, history>>

RetireOld(done) ==
    /\ at = "retire old"
    /\ live' = IF done THEN live \ Others(settings) ELSE live
    /\ at' = "idle" /\ memo' = NoMemo
    /\ UNCHANGED <<files, record, settings, units, running, keys, history>>

\* Mutant: the settings stay with the new key.
StayWith(new, old) == new

BackTo(new, old) == old

SwapBack ==
    /\ at = "swap back"
    /\ settings' = BackTo(settings, memo.key)
    /\ at' = "take back"
    /\ UNCHANGED <<files, record, units, running, engine, memo, history>>

TakeBack ==
    /\ at = "take back"
    /\ SidecarRestarts
    /\ at' = "retire new"
    /\ UNCHANGED <<files, record, settings, units, approval, engine, memo, history>>

RetireNew(done) ==
    /\ at = "retire new"
    /\ live' = IF done THEN live \ Others(memo.key) ELSE live
    /\ at' = "idle" /\ memo' = NoMemo
    /\ UNCHANGED <<files, record, settings, units, running, keys, history>>

RotateStep ==
    \/ RetireOthers \/ Mint \/ Swap \/ PutUnitAgain \/ TakeKey \/ SwapBack \/ TakeBack
    \/ \E done \in BOOLEAN : RetireOld(done) \/ RetireNew(done)

-----------------------------------------------------------------------------
(* The host and the operator.                                              *)

\* The command is killed, or what it does next raises and did nothing.
Stop ==
    /\ at # "idle"
    /\ stops < MaxStops
    /\ stops' = stops + 1
    /\ at' = "idle"
    /\ memo' = NoMemo
    /\ UNCHANGED <<files, record, settings, units, running, engine, wanted, known, kept, edits>>

\* systemd starts the sidecar when it is enabled or the gateway requires it,
\* and the gateway after it.
HostRestarts ==
    /\ stops < MaxStops
    /\ stops' = stops + 1
    /\ at' = "idle"
    /\ memo' = NoMemo
    /\ sidecar' = IF unit = "enabled" \/ (dropin /\ unit # "absent") THEN settings ELSE NoKey
    /\ gateway' = IF dropin /\ unit = "absent" THEN "failed" ELSE Start(toml, sidecar')
    /\ UNCHANGED <<files, record, settings, units, approval, engine, wanted, known, kept, edits>>

\* A gateway that failed is started again.
GatewayRetries ==
    /\ gateway = "failed"
    /\ gateway' = Start(toml, sidecar)
    /\ gateway' # "failed"
    /\ UNCHANGED <<files, record, settings, units, sidecar, approval, engine, at, memo, history>>

\* The operator writes or deletes a file, with the block or without it.
Edited(f) ==
    {NoFile} \cup {g \in Files : g.there /\ g.text # f.text /\ (g.block => f.block)}

EditToml ==
    /\ at = "idle" /\ edits < MaxEdits
    /\ edits' = edits + 1
    /\ toml' \in Edited(toml)
    /\ wanted' = [wanted EXCEPT !.toml = StripBlock(toml')]
    /\ UNCHANGED <<tomlCopy, envFiles, record, settings, units, running, engine, at, memo,
                   known, kept, stops>>

EditEnv ==
    /\ at = "idle" /\ edits < MaxEdits
    /\ edits' = edits + 1
    /\ env' \in Edited(env)
    /\ wanted' = [wanted EXCEPT !.env = StripBlock(env')]
    /\ UNCHANGED <<tomlFiles, envCopy, record, settings, units, running, engine, at, memo,
                   known, kept, stops>>

-----------------------------------------------------------------------------
Init ==
    /\ wanted \in Hosts
    /\ ~wanted.toml.block /\ ~wanted.env.block
    /\ toml = wanted.toml
    /\ env = wanted.env
    /\ tomlCopy = NoFile
    /\ envCopy = NoFile
    /\ record = Blank
    /\ settings = NoKey
    /\ unit = "absent"
    /\ dropin = FALSE
    /\ sidecar = NoKey
    /\ gateway = "unbound"
    /\ approval = "auto"
    /\ live = {}
    /\ keys = 0
    /\ at = "idle"
    /\ memo = NoMemo
    /\ known = {}
    /\ kept = {}
    /\ stops = 0
    /\ edits = 0

Step == UpStep \/ RemoveStep \/ RotateStep

Command == Up \/ Rotate \/ \E keep \in BOOLEAN : Remove(keep)

Next ==
    \/ Command \/ Step
    \/ Stop \/ HostRestarts \/ GatewayRetries
    \/ EditToml \/ EditEnv

\* A command that runs goes on, systemd starts a failed gateway again, and the
\* engine revokes a credential some time.  The operator runs commands as long
\* as there is something to do, which is what "run it again" asks for.
Fairness ==
    /\ WF_vars(Step)
    /\ WF_vars(GatewayRetries)
    /\ WF_vars(Command)
    /\ SF_vars(\E answer \in {"revoked", "unknown"} : Revoke(answer))

Spec == Init /\ [][Next]_vars /\ Fairness

-----------------------------------------------------------------------------
(* What must hold.                                                         *)

\* The shape of the state.  A saved copy is of the operator's file alone, and
\* never holds the block (up, _register).
ConnectTypeOK ==
    /\ {toml, tomlCopy, env, envCopy} \subseteq Files
    /\ ~tomlCopy.block /\ ~envCopy.block
    /\ {settings, sidecar, memo.key} \subseteq Keys
    /\ live \subseteq Keys
    /\ keys \in 0 .. MaxKeys
    /\ unit \in {"absent", "written", "enabled"}
    /\ gateway \in {"unbound", "bound", "failed"}
    /\ approval \in {"auto", "manual"}
    /\ record.gw \in 0 .. MaxKeys

Theirs(f, w) == ~f.block /\ f.text = w.text

\* With no record left, or none yet, gateway.toml and gateway.env are what the
\* operator last made of them, and a gateway.toml nobody edited is so byte for
\* byte and not there if it was not, whatever was stopped and run again
\* ("remove undoes up ... their edits stay", module docstring and _restore).
FilesComeBack ==
    record = Blank =>
        /\ Theirs(toml, wanted.toml) /\ Theirs(env, wanted.env)
        /\ edits = 0 => toml = wanted.toml

\* At every moment there is a sidecar to be started, with a unit and a
\* credential, as long as gateway.toml registers it or the gateway's unit
\* requires it, so that no stop leaves a gateway that cannot start ("the
\* gateway refuses to start while its interceptor does not answer",
\* gateway_dropin).
GatewayCanStart == toml.block \/ dropin => unit # "absent" /\ settings # NoKey

\* A live key of a gateway that was recorded here, and not kept on purpose,
\* can still be revoked from here: the record names the gateway and the
\* settings hold a live key of it ("it is kept so that running remove again
\* can revoke it", remove; "one credential", rotate_key).
NoKeyIsLost ==
    \A k \in live :
        k.gw \in known \ kept =>
            record.gw = k.gw /\ settings.gw = k.gw /\ settings \in live

UpSteps ==
    {"idle", "redeem", "save credential", "mark redeemed", "approval", "env", "write env",
     "mark env", "sidecar", "start sidecar", "restart sidecar", "wait for sidecar",
     "register", "mark toml", "write toml", "mark registration", "put drop-in",
     "restart gateway", "self-test", "put approval back"}

RemoveSteps ==
    {"idle", "restore toml", "drop drop-in", "restart unbound", "stop sidecar", "drop unit",
     "restore env", "revoke", "forget credential", "forget copies", "forget record"}

\* Before any remove, an up that stopped part way is finished by running up
\* again, while the engine has a token for it (MaxKeys > MaxStops): then the
\* gateway is bound to a sidecar whose key is live, and has passed the
\* self-test (module docstring).
UpFinishes ==
    [](at \in UpSteps) /\ [](edits = 0)
    => <>[](record.connected /\ gateway = "bound" /\ sidecar \in live)

\* Whatever was done before, and where it stopped, running remove again and
\* again leaves no record, no unit, no credential and no block.
RemoveFinishes ==
    <>[](at \in RemoveSteps)
    => <>[](record = Blank /\ unit = "absent" /\ settings = NoKey /\ ~toml.block /\ ~env.block)

=============================================================================
