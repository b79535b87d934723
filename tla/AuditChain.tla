------------------------------ MODULE AuditChain ------------------------------
(***************************************************************************)
(* The local audit log of audit_chain.py: MerkleAuditChain.append with the *)
(* state file beside the log, and verify_chain.  One process at a time     *)
(* writes the log, with the same COGNEXUS_AUDIT_HMAC_KEY as the one before *)
(* and the one that verifies, so that signatures are of no interest here.  *)
(*                                                                         *)
(* A record is a number, no two lines are of one record, and the hash of a *)
(* line is what it is of.  External: the disk, where a write may fail      *)
(* before, within or after the line, and the end of the process.           *)
(***************************************************************************)
EXTENDS Naturals, Sequences

CONSTANTS
    Callers,    \* threads that record events
    MaxRecords, \* bound of the model
    MaxStops    \* bound of the model

ASSUME AuditChainAssumption == "none" \notin Callers /\ MaxRecords \in Nat

VARIABLES
    lines,      \* the log
    stateFile,  \* the state file: the end of the log, or Missing
    state,      \* the chain's _state
    appending,  \* who holds the chain's lock with a line written, or "none"
    calls,      \* what each caller is at
    records     \* how many records there were

\* History.
VARIABLES
    slipped,    \* the log and the state part, by a failed write or a stop
    stops       \* counter of the bound

fileVars == <<lines, stateFile>>
chainVars == <<fileVars, state, appending, slipped>>

Missing == [seq |-> 0, tip |-> <<"missing", 0>>]

\* "legacy" is from before the chain, "torn" has no end, and "glued" is a
\* line that was written behind a torn one.
Line(kind, seq, prev, record) == [kind |-> kind, seq |-> seq, prev |-> prev, record |-> record]
HashOf(line) == <<line.kind, line.record>>
GENESIS == <<"genesis", 0>>

\* The end of the log as it is.
End == [seq |-> Len(lines),
        tip |-> IF lines = <<>> THEN GENESIS ELSE HashOf(lines[Len(lines)])]

\* Mutant: only the chained lines are counted.
CountChained == [End EXCEPT !.seq = Len(SelectSeq(lines, LAMBDA l : l.kind = "chained"))]

\* _load_state without a state file: every line is counted.
Rebuilt == End

Loaded == IF state # Missing THEN state ELSE IF stateFile # Missing THEN stateFile ELSE Rebuilt

\* The file with another line at its end, which goes on a torn one's.
Written(line) ==
    IF lines # <<>> /\ lines[Len(lines)].kind = "torn"
    THEN [lines EXCEPT ![Len(lines)] = [line EXCEPT !.kind = "glued"]]
    ELSE Append(lines, line)

NextLine(record) == Line("chained", Loaded.seq + 1, Loaded.tip, record)

\* The line is in the log, synced.
AppendLine(c) ==
    /\ calls[c].pc = "append"
    /\ appending = "none"
    /\ appending' = c
    /\ state' = Loaded
    /\ lines' = Written(NextLine(calls[c].record))
    /\ UNCHANGED <<stateFile, calls, records, slipped, stops>>

\* The state is this line, and is saved or not.
AppendState(c) ==
    /\ appending = c
    /\ appending' = "none"
    /\ state' = [seq |-> state.seq + 1, tip |-> <<"chained", calls[c].record>>]
    /\ stateFile' \in {state', stateFile}
    /\ calls' = [calls EXCEPT ![c].pc = "recorded"]
    /\ UNCHANGED <<lines, records, slipped, stops>>

\* Mutant: what cannot be written is left out, and the event goes on.
WriteIgnored == "recorded"

\* append raises AuditLogWriteError, and with it the record_ functions.
WriteRaises == "idle"

\* Nothing was written, or a part of the line, or all of it but the sync failed.
AppendFails(c) ==
    /\ calls[c].pc = "append"
    /\ appending = "none"
    /\ state' = Loaded
    /\ lines' \in {lines, Written(NextLine(calls[c].record)),
                   Written([NextLine(calls[c].record) EXCEPT !.kind = "torn"])}
    /\ slipped' = (slipped \/ lines' # lines)
    /\ calls' = [calls EXCEPT ![c].pc = WriteRaises]
    /\ UNCHANGED <<stateFile, appending, records, stops>>

\* The process ends, and another starts.  The state file may be lost.
ChainRestart ==
    /\ stops < MaxStops
    /\ stops' = stops + 1
    /\ state' = Missing
    /\ appending' = "none"
    /\ stateFile' \in {stateFile, Missing}
    /\ slipped' = (slipped \/ stateFile' \notin {End, Missing})
    /\ calls' = [c \in Callers |-> [pc |-> "idle", record |-> 0]]
    /\ UNCHANGED <<lines, records>>

ChainInit ==
    /\ lines \in {<<>>, <<Line("legacy", 0, GENESIS, 0)>>}
    /\ stateFile = Missing
    /\ state = Missing
    /\ appending = "none"
    /\ calls = [c \in Callers |-> [pc |-> "idle", record |-> 0]]
    /\ records = 0
    /\ slipped = FALSE
    /\ stops = 0

-----------------------------------------------------------------------------
PrevOf(i) == IF i = 1 THEN GENESIS ELSE HashOf(lines[i - 1])

\* Legacy lines first, then every line is the next one and follows the one
\* before it.
verify_chain ==
    \A i \in 1..Len(lines) :
        \/ lines[i].kind = "legacy" /\ \A j \in 1..i : lines[j].kind = "legacy"
        \/ lines[i].kind = "chained" /\ lines[i].seq = i /\ lines[i].prev = PrevOf(i)

\* The log verifies, whoever appends at once, from the first line or behind
\* lines older than the chain, and whatever process goes on with it, with the
\* state file or without ("seq int - 1-based monotonic sequence number",
\* audit_chain.py).  The exceptions: a write that failed with some of the line
\* in the file, and a process that ended with a state file that is not of the
\* last line, because it was stopped between the two or could not save it.
ChainVerifies == ~slipped => verify_chain
=============================================================================
