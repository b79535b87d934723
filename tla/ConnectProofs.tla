---------------------------- MODULE ConnectProofs ----------------------------
(***************************************************************************)
(* Proofs about Connect.tla: for every bound, every set of texts and every *)
(* set of commands, what the files, the units and the credential look like *)
(* at each step of a command, and so after a stop at any of them.          *)
(***************************************************************************)
EXTENDS Connect, TLAPS

-----------------------------------------------------------------------------
(* A managed file.                                                         *)

LEMMA FileFacts ==
    ASSUME NEW f \in Files
    PROVE  /\ f = [there |-> f.there, text |-> f.text, nl |-> f.nl, block |-> f.block]
           /\ f.there \in BOOLEAN /\ f.nl \in BOOLEAN /\ f.block \in BOOLEAN
           /\ f.text \in Texts \cup {""}
           /\ f.text = "" => f.nl
           /\ ~f.there => f = NoFile
BY DEF Files, NoFile

LEMMA NoFileFacts ==
    NoFile \in Files /\ ~NoFile.there /\ ~NoFile.block /\ NoFile.text = "" /\ NoFile.nl
BY DEF Files, NoFile

LEMMA BytesFacts ==
    ASSUME NEW f \in Files
    PROVE  /\ Bytes(f) \in Files
           /\ Bytes(f).there
           /\ Bytes(f).text = f.text /\ Bytes(f).block = f.block
           /\ f.there => Bytes(f) = f
BY FileFacts DEF Files, Bytes

LEMMA BlockFacts ==
    ASSUME NEW f \in Files
    PROVE  /\ AddBlock(f) \in Files
           /\ AddBlock(f).block /\ AddBlock(f).text = f.text
           /\ StripBlock(f) \in Files
           /\ ~StripBlock(f).block /\ StripBlock(f).text = f.text
           /\ AddBlock(Bytes(f)) = AddBlock(f)
BY FileFacts DEF Files, Bytes, AddBlock, StripBlock

\* Whatever the copy and the record hold, the operator's text is what stays.
LEMMA RestoreFacts ==
    ASSUME NEW f \in Files, NEW saved \in Files, NEW before \in Files, NEW known_ \in BOOLEAN,
           ~saved.block
    PROVE  /\ Restore(f, saved, before, known_) \in Files
           /\ ~Restore(f, saved, before, known_).block
           /\ Restore(f, saved, before, known_).text = f.text
<1>1. CASE known_ /\ saved = Bytes(before) /\ StripBlock(f) = StripBlock(AddBlock(saved))
  <2>1. saved.text = f.text
    BY <1>1, BlockFacts
  <2> QED
    BY <1>1, <2>1, NoFileFacts DEF Restore
<1>2. CASE ~(known_ /\ saved = Bytes(before) /\ StripBlock(f) = StripBlock(AddBlock(saved)))
  BY <1>2, BlockFacts DEF Restore
<1> QED
  BY <1>1, <1>2

\* A file only the block was added to comes back byte for byte, or goes.
LEMMA RestoreUndoes ==
    ASSUME NEW w \in Files, ~w.block
    PROVE  Restore(AddBlock(w), Bytes(w), w, TRUE) = w
<1>1. StripBlock(AddBlock(w)) = StripBlock(AddBlock(Bytes(w)))
  BY BlockFacts
<1>2. CASE w.there
  BY <1>1, <1>2, BytesFacts DEF Restore
<1>3. CASE ~w.there
  BY <1>1, <1>3, FileFacts, BytesFacts, NoFileFacts DEF Restore
<1> QED
  BY <1>2, <1>3

-----------------------------------------------------------------------------
(* The shape of the state.                                                 *)

StepNames ==
    {"redeemed", "approval-manual", "gateway-env", "sidecar", "toml-saved", "registration",
     "gateway-restarted", "self-test", "revoke-pending"}

Records ==
    [steps : SUBSET StepNames, gw : 0 .. MaxKeys, toml : Files, env : Files, connected : BOOLEAN]

Memos == [saw : Files, key : Keys, restart : BOOLEAN, keep : BOOLEAN]

Typed ==
    /\ toml \in Files /\ tomlCopy \in Files /\ env \in Files /\ envCopy \in Files
    /\ ~tomlCopy.block /\ ~envCopy.block
    /\ wanted \in [toml : Files, env : Files]
    /\ record \in Records
    /\ settings \in Keys /\ sidecar \in Keys
    /\ unit \in {"absent", "written", "enabled"}
    /\ dropin \in BOOLEAN
    /\ gateway \in {"unbound", "bound", "failed"}
    /\ approval \in {"auto", "manual"}
    /\ live \subseteq Keys
    /\ keys \in 0 .. MaxKeys
    /\ memo \in Memos
    /\ stops \in Nat /\ edits \in Nat

LEMMA KeyFacts ==
    /\ NoKey \in Keys /\ NoKey.gw = 0
    /\ \A g, n \in 0 .. MaxKeys :
          /\ Key(g, n) \in Keys /\ Key(g, n).gw = g /\ Key(g, n).n = n
          /\ n # 0 => Key(g, n) # NoKey
    /\ \A k \in Keys : k.gw \in 0 .. MaxKeys /\ k.n \in 0 .. MaxKeys
BY ConnectAssumption DEF NoKey, Key, Keys

LEMMA MemoFacts ==
    NoMemo \in Memos /\ NoMemo.saw = NoFile /\ NoMemo.key = NoKey
BY KeyFacts, NoFileFacts DEF NoMemo, Memos

LEMMA BlankFacts ==
    Blank \in Records /\ Blank.steps = {} /\ Blank.gw = 0
<1>1. {} \in SUBSET StepNames /\ 0 \in 0 .. MaxKeys
  BY ConnectAssumption
<1> QED
  BY <1>1, NoFileFacts DEF Blank, Records

LEMMA MarkedFacts ==
    ASSUME Typed, NEW s
    PROVE  /\ Marked(s).steps = record.steps \cup {s}
           /\ Marked(s).gw = record.gw
           /\ Marked(s).toml = record.toml /\ Marked(s).env = record.env
BY DEF Typed, Records, Marked

LEMMA ConnectedFacts ==
    ASSUME Typed, NEW s
    PROVE  LET connected == [Marked(s) EXCEPT !.connected = TRUE]
           IN  /\ connected.steps = record.steps \cup {s}
               /\ connected.gw = record.gw /\ connected.toml = record.toml
BY DEF Typed, Records, Marked

\* The next key the engine makes, of a new gateway or of the one there is.
LEMMA NextKey ==
    ASSUME Typed
    PROVE  /\ keys \in Nat
           /\ 1 .. keys \subseteq 1 .. (keys + 1) /\ keys + 1 \in 1 .. (keys + 1)
           /\ keys + 1 \notin 1 .. keys
           /\ keys # MaxKeys =>
                 /\ keys + 1 \in 0 .. MaxKeys
                 /\ Key(keys + 1, keys + 1) \in Keys \ {NoKey}
                 /\ Key(keys + 1, keys + 1).gw = keys + 1
                 /\ Key(settings.gw, keys + 1) \in Keys \ {NoKey}
                 /\ Key(settings.gw, keys + 1).gw = settings.gw
<1>1. keys \in Nat /\ (keys # MaxKeys => keys + 1 \in 0 .. MaxKeys /\ keys + 1 # 0)
  BY ConnectAssumption DEF Typed
<1>2. settings.gw \in 0 .. MaxKeys
  BY KeyFacts DEF Typed
<1>3. keys # MaxKeys =>
         /\ Key(keys + 1, keys + 1) \in Keys \ {NoKey}
         /\ Key(keys + 1, keys + 1).gw = keys + 1
         /\ Key(settings.gw, keys + 1) \in Keys \ {NoKey}
         /\ Key(settings.gw, keys + 1).gw = settings.gw
  BY <1>1, <1>2, KeyFacts
<1>4. /\ 1 .. keys \subseteq 1 .. (keys + 1) /\ keys + 1 \in 1 .. (keys + 1)
      /\ keys + 1 \notin 1 .. keys
  BY <1>1
<1> QED
  BY <1>1, <1>3, <1>4

\* What remove puts back has the operator's text and no block.
LEMMA RestoredFacts ==
    ASSUME Typed
    PROVE  /\ LET back == Restore(toml, tomlCopy, record.toml, Done("toml-saved"))
              IN  back \in Files /\ ~back.block /\ back.text = toml.text
           /\ LET back == Restore(env, envCopy, record.env, Done("gateway-env"))
              IN  back \in Files /\ ~back.block /\ back.text = env.text
<1>1. \A f, saved, before \in Files : \A known_ \in BOOLEAN :
         ~saved.block => /\ Restore(f, saved, before, known_) \in Files
                         /\ ~Restore(f, saved, before, known_).block
                         /\ Restore(f, saved, before, known_).text = f.text
  BY RestoreFacts
<1>2. /\ toml \in Files /\ tomlCopy \in Files /\ ~tomlCopy.block
      /\ record.toml \in Files /\ Done("toml-saved") \in BOOLEAN
  BY DEF Typed, Records, Done
<1>3. /\ env \in Files /\ envCopy \in Files /\ ~envCopy.block
      /\ record.env \in Files /\ Done("gateway-env") \in BOOLEAN
  BY DEF Typed, Records, Done
<1>4. LET back == Restore(toml, tomlCopy, record.toml, Done("toml-saved"))
      IN  back \in Files /\ ~back.block /\ back.text = toml.text
  BY <1>1, <1>2, Zenon
<1>5. LET back == Restore(env, envCopy, record.env, Done("gateway-env"))
      IN  back \in Files /\ ~back.block /\ back.text = env.text
  BY <1>1, <1>3, Zenon
<1> QED
  BY <1>4, <1>5

LEMMA StartFacts ==
    ASSUME NEW t, NEW k
    PROVE  Start(t, k) \in {"unbound", "bound", "failed"}
BY DEF Start

LEMMA TypedInit == Init => Typed
<1> SUFFICES ASSUME Init PROVE Typed
  OBVIOUS
<1>1. 0 \in 0 .. MaxKeys /\ {} \subseteq Keys
  BY ConnectAssumption
<1>2. wanted \in [toml : Files, env : Files] /\ toml \in Files /\ env \in Files
  BY HostsAssumption DEF Init
<1> QED
  BY <1>1, <1>2, NoFileFacts, KeyFacts, MemoFacts, BlankFacts DEF Init, Typed


LEMMA TypedNext == Typed /\ [Next]_vars => Typed'
<1> SUFFICES ASSUME Typed, [Next]_vars PROVE Typed'
  OBVIOUS
<1> USE DEF vars, files, tomlFiles, envFiles, units, running, engine, history
<1>1. CASE Up
  BY <1>1, MemoFacts DEF Typed, Up
<1>2. CASE Redeem
  <2>1. CASE keys = MaxKeys
    BY <1>2, <2>1 DEF Typed, Redeem
  <2>2. CASE keys # MaxKeys
    <3>1. keys + 1 \in 0 .. MaxKeys /\ Key(keys + 1, keys + 1) \in Keys
      BY <2>2, NextKey
    <3>2. stops' = stops \/ stops' = stops + 1
      BY <1>2, <2>2 DEF Redeem
    <3>3. stops' \in Nat
      BY <3>2 DEF Typed
    <3>4. memo' \in Memos
      BY <1>2, <2>2, <3>1 DEF Typed, Memos, Redeem
    <3> QED
      BY <1>2, <2>2, <3>1, <3>3, <3>4 DEF Typed, Redeem
  <2> QED
    BY <2>1, <2>2
<1>3. CASE SaveCredential
  BY <1>3 DEF Typed, Memos, SaveCredential
<1>4. CASE MarkRedeemed
  <2>1. memo.key \in Keys /\ memo.key.gw \in 0 .. MaxKeys
    BY KeyFacts DEF Typed, Memos
  <2> QED
    BY <1>4, <2>1 DEF Typed, Records, StepNames, Marked, MarkRedeemed
<1>5. CASE SetApproval
  BY <1>5 DEF Typed, Records, StepNames, Marked, SetApproval
<1>6. CASE SaveEnv
  <2>1. Bytes(env) \in Files /\ (~env.block => ~Bytes(env).block)
    BY BytesFacts DEF Typed
  <2> QED
    BY <1>6, <2>1 DEF Typed, Memos, SaveEnv, TakesTheBlock
<1>7. CASE WriteEnv
  <2>1. AddBlock(memo.saw) \in Files
    BY BlockFacts DEF Typed, Memos
  <2> QED
    BY <1>7, <2>1 DEF Typed, WriteEnv
<1>8. CASE MarkEnv
  BY <1>8 DEF Typed, Records, StepNames, Memos, Marked, MarkEnv
<1>9. CASE PutUnit
  BY <1>9 DEF Typed, PutUnit
<1>10. CASE StartSidecar
  BY <1>10 DEF Typed, Records, StepNames, Marked, StartSidecar
<1>11. CASE RestartSidecar
  BY <1>11 DEF Typed, SidecarRestarts, Start, RestartSidecar
<1>12. CASE SidecarAnswers
  BY <1>12 DEF Typed, SidecarAnswers
<1>13. CASE SaveToml
  <2>1. Bytes(toml) \in Files /\ (~toml.block => ~Bytes(toml).block)
    BY BytesFacts DEF Typed
  <2> QED
    BY <1>13, <2>1 DEF Typed, Memos, SaveToml
<1>14. CASE MarkToml
  BY <1>14 DEF Typed, Records, StepNames, Memos, TomlWas, TomlMarked, MarkToml
<1>15. CASE WriteToml
  <2>1. AddBlock(memo.saw) \in Files
    BY BlockFacts DEF Typed, Memos
  <2> QED
    BY <1>15, <2>1 DEF Typed, WriteToml
<1>16. CASE MarkRegistration
  BY <1>16 DEF Typed, Records, StepNames, Marked, MarkRegistration
<1>17. CASE PutDropin
  BY <1>17 DEF Typed, PutDropin
<1>18. CASE RestartBound
  <2>1. stops' = stops \/ stops' = stops + 1
    BY <1>18 DEF GatewayRestarts, RestartBound
  <2>2. stops' \in Nat
    BY <2>1 DEF Typed
  <2> QED
    BY <1>18, <2>2
       DEF Typed, Records, StepNames, Marked, GatewayRestarts, Start, RestartBound
<1>19. CASE SelfTest
  BY <1>19 DEF Typed, Records, StepNames, Marked, SelfTest
<1>20. CASE PutApprovalBack
  <2>1. stops' = stops \/ stops' = stops + 1
    BY <1>20 DEF PutApprovalBack
  <2>2. stops' \in Nat
    BY <2>1 DEF Typed
  <2> QED
    BY <1>20, <2>2, MemoFacts DEF Typed, PutApprovalBack
<1>21. CASE \E keep \in BOOLEAN : Remove(keep)
  BY <1>21, MemoFacts DEF Typed, Memos, Remove
<1>22. CASE RestoreToml
  <2>1. toml.block \in BOOLEAN
    BY FileFacts DEF Typed
  <2> QED
    BY <1>22, <2>1, RestoredFacts DEF Typed, Memos, RestoreToml
<1>23. CASE DropDropin
  BY <1>23 DEF Typed, DropDropin
<1>24. CASE RestartUnbound
  <2>1. stops' = stops \/ stops' = stops + 1
    BY <1>24 DEF GatewayRestarts, RestartUnbound
  <2>2. stops' \in Nat
    BY <2>1 DEF Typed
  <2> QED
    BY <1>24, <2>2 DEF Typed, GatewayRestarts, Start, RestartUnbound
<1>25. CASE StopSidecar
  BY <1>25, KeyFacts DEF Typed, StopSidecar
<1>26. CASE DropUnit
  BY <1>26 DEF Typed, DropUnit
<1>27. CASE RestoreEnv
  BY <1>27, RestoredFacts DEF Typed, RestoreEnv
<1>28. CASE \E answer \in Answers : Revoke(answer)
  <2>1. record' \in Records
    BY <1>28 DEF Typed, Revoke, RevokeGateway, Records, StepNames, Marked
  <2>2. live' \subseteq live
    BY <1>28 DEF Revoke, RevokeGateway
  <2>3. UNCHANGED <<files, settings, units, running, keys, memo, wanted, stops, edits>>
    BY <1>28 DEF Revoke
  <2> QED
    BY <2>1, <2>2, <2>3 DEF Typed
<1>29. CASE ForgetCredential
  BY <1>29, KeyFacts DEF Typed, ForgetCredential
<1>30. CASE ForgetCopies
  BY <1>30, NoFileFacts DEF Typed, ForgetCopies
<1>31. CASE ForgetRecord
  BY <1>31, BlankFacts, MemoFacts DEF Typed, ForgetRecord
<1>32. CASE Rotate
  BY <1>32, MemoFacts DEF Typed, Rotate
<1>33. CASE RetireOthers
  BY <1>33 DEF Typed, RetireOthers
<1>34. CASE Mint
  <2>1. CASE keys = MaxKeys
    BY <1>34, <2>1 DEF Typed, Mint
  <2>2. CASE keys # MaxKeys
    <3>1. keys + 1 \in 0 .. MaxKeys /\ Key(settings.gw, keys + 1) \in Keys
      BY <2>2, NextKey
    <3>2. stops' = stops \/ stops' = stops + 1
      BY <1>34, <2>2 DEF Mint
    <3>3. stops' \in Nat
      BY <3>2 DEF Typed
    <3>4. memo' \in Memos
      BY <1>34, <2>2, <3>1 DEF Typed, Memos, Mint
    <3> QED
      BY <1>34, <2>2, <3>1, <3>3, <3>4 DEF Typed, Mint
  <2> QED
    BY <2>1, <2>2
<1>35. CASE Swap
  BY <1>35 DEF Typed, Memos, Swap
<1>36. CASE PutUnitAgain
  BY <1>36 DEF Typed, PutUnitAgain
<1>37. CASE TakeKey
  BY <1>37 DEF Typed, SidecarRestarts, Start, TakeKey
<1>38. CASE SwapBack
  BY <1>38 DEF Typed, Memos, BackTo, SwapBack
<1>39. CASE TakeBack
  BY <1>39 DEF Typed, SidecarRestarts, Start, TakeBack
<1>40. CASE \E done \in BOOLEAN : RetireOld(done)
  BY <1>40, MemoFacts DEF Typed, RetireOld
<1>41. CASE \E done \in BOOLEAN : RetireNew(done)
  BY <1>41, MemoFacts DEF Typed, RetireNew
<1>42. CASE Stop
  BY <1>42, MemoFacts DEF Typed, Stop
<1>43. CASE HostRestarts
  BY <1>43, MemoFacts, KeyFacts DEF Typed, Start, HostRestarts
<1>44. CASE GatewayRetries
  BY <1>44 DEF Typed, Start, GatewayRetries
<1>45. CASE EditToml
  <2>1. toml' \in Files
    BY <1>45, NoFileFacts DEF EditToml, Edited
  <2>2. StripBlock(toml') \in Files
    BY <2>1, BlockFacts
  <2> QED
    BY <1>45, <2>1, <2>2 DEF Typed, EditToml
<1>46. CASE EditEnv
  <2>1. env' \in Files
    BY <1>46, NoFileFacts DEF EditEnv, Edited
  <2>2. StripBlock(env') \in Files
    BY <2>1, BlockFacts
  <2> QED
    BY <1>46, <2>1, <2>2 DEF Typed, EditEnv
<1>47. CASE UNCHANGED vars
  BY <1>47 DEF Typed
<1> QED
  BY <1>1, <1>2, <1>3, <1>4, <1>5, <1>6, <1>7, <1>8, <1>9, <1>10, <1>11, <1>12, <1>13,
     <1>14, <1>15, <1>16, <1>17, <1>18, <1>19, <1>20, <1>21, <1>22, <1>23, <1>24, <1>25,
     <1>26, <1>27, <1>28, <1>29, <1>30, <1>31, <1>32, <1>33, <1>34, <1>35, <1>36, <1>37,
     <1>38, <1>39, <1>40, <1>41, <1>42, <1>43, <1>44, <1>45, <1>46, <1>47
     DEF Next, Command, Step, UpStep, RemoveStep, RotateStep

-----------------------------------------------------------------------------
(* gateway.toml and gateway.env.                                           *)

\* The steps of up that run when the credential is recorded.
Recorded ==
    {"approval", "env", "write env", "mark env", "sidecar", "start sidecar", "restart sidecar",
     "wait for sidecar", "register", "mark toml", "write toml", "mark registration",
     "put drop-in", "restart gateway", "self-test", "put approval back"}

\* The steps of remove that come after gateway.env is put back, and after
\* gateway.toml is.
EnvIsBack == {"revoke", "forget credential", "forget copies", "forget record"}
TomlIsBack ==
    EnvIsBack \cup
    {"drop drop-in", "restart unbound", "stop sidecar", "drop unit", "restore env"}

\* What up read is what the file still is, up to its write.
ReadHolds ==
    /\ at \in {"mark toml", "write toml"} =>
          memo.saw = toml /\ ~toml.block /\ tomlCopy = Bytes(memo.saw)
    /\ at = "write toml" => Done("toml-saved") /\ record.toml = memo.saw
    /\ at = "write env" => memo.saw = env /\ ~env.block

\* The record is there before the block is.
BlockIsRecorded ==
    /\ toml.block => Done("toml-saved")
    /\ env.block => Done("redeemed")
    /\ at \in Recorded => Done("redeemed")

BlockIsOut ==
    /\ at \in TomlIsBack => ~toml.block
    /\ at \in EnvIsBack => ~env.block

\* Until the operator edits a file, the copy and the record are of what
\* gateway.toml was.
CopyIsWanted ==
    edits = 0 =>
        /\ ~toml.block => toml = wanted.toml
        /\ toml.block =>
              /\ record.toml = wanted.toml
              /\ tomlCopy = Bytes(wanted.toml)
              /\ toml = AddBlock(wanted.toml)

FilesInv ==
    /\ toml.text = wanted.toml.text /\ env.text = wanted.env.text
    /\ ~wanted.toml.block
    /\ ReadHolds /\ BlockIsRecorded /\ BlockIsOut /\ CopyIsWanted

LEMMA FilesInit == Init => FilesInv
BY BlankFacts, ConnectAssumption
   DEF Init, FilesInv, ReadHolds, BlockIsRecorded, BlockIsOut, CopyIsWanted, Recorded,
       TomlIsBack, EnvIsBack


LEMMA FilesNext == Typed /\ FilesInv /\ [Next]_vars => FilesInv'
<1> SUFFICES ASSUME Typed /\ FilesInv, [Next]_vars PROVE FilesInv'
  OBVIOUS
<1> USE DEF vars, files, tomlFiles, envFiles, units, running, engine, history,
       FilesInv, ReadHolds, BlockIsRecorded, BlockIsOut, CopyIsWanted, Done,
       Recorded, TomlIsBack, EnvIsBack
<1>1. CASE Up
  BY <1>1 DEF Up
<1>2. CASE Redeem
  BY <1>2 DEF Redeem
<1>3. CASE SaveCredential
  BY <1>3 DEF SaveCredential
<1>4. CASE MarkRedeemed
  <2>1. record'.steps = record.steps \cup {"redeemed"} /\ record'.toml = record.toml
    BY <1>4, MarkedFacts DEF Typed, Records, Marked, MarkRedeemed
  <2> QED
    BY <1>4, <2>1 DEF MarkRedeemed
<1>5. CASE SetApproval
  <2>1. \/ record' = record
        \/ record'.steps = record.steps \cup {"approval-manual"} /\ record'.toml = record.toml
    BY <1>5, MarkedFacts DEF SetApproval
  <2> QED
    BY <1>5, <2>1 DEF SetApproval
<1>6. CASE SaveEnv
  <2>1. env.block \in BOOLEAN /\ (at' = "write env" => memo'.saw = env)
    BY <1>6, FileFacts DEF Typed, Memos, SaveEnv
  <2> QED
    BY <1>6, <2>1 DEF SaveEnv, TakesTheBlock
<1>7. CASE WriteEnv
  <2>1. env'.block /\ env'.text = env.text
    BY <1>7, BlockFacts DEF Typed, WriteEnv
  <2> QED
    BY <1>7, <2>1 DEF WriteEnv
<1>8. CASE MarkEnv
  <2>1. record'.steps = record.steps \cup {"gateway-env"} /\ record'.toml = record.toml
    BY <1>8 DEF Typed, Records, Marked, MarkEnv
  <2> QED
    BY <1>8, <2>1 DEF MarkEnv
<1>9. CASE PutUnit
  BY <1>9 DEF PutUnit
<1>10. CASE StartSidecar
  <2>1. \/ record' = record
        \/ record'.steps = record.steps \cup {"sidecar"} /\ record'.toml = record.toml
    BY <1>10, MarkedFacts DEF StartSidecar
  <2> QED
    BY <1>10, <2>1 DEF StartSidecar
<1>11. CASE RestartSidecar
  BY <1>11 DEF RestartSidecar
<1>12. CASE SidecarAnswers
  BY <1>12 DEF SidecarAnswers
<1>13. CASE SaveToml
  <2>1. toml.block \in BOOLEAN /\ (at' = "mark toml" => memo'.saw = toml)
    BY <1>13, FileFacts DEF Typed, Memos, SaveToml
  <2> QED
    BY <1>13, <2>1 DEF SaveToml
<1>14. CASE MarkToml
  <2>1. record'.steps = record.steps \cup {"toml-saved"} /\ record'.toml = memo.saw
    BY <1>14 DEF Typed, Records, TomlMarked, TomlWas, MarkToml
  <2> QED
    BY <1>14, <2>1 DEF MarkToml
<1>15. CASE WriteToml
  <2>1. /\ memo.saw = toml /\ ~toml.block /\ tomlCopy = Bytes(toml)
        /\ Done("toml-saved") /\ record.toml = toml
    BY <1>15 DEF WriteToml
  <2>2. toml' = AddBlock(toml) /\ toml'.block /\ toml'.text = toml.text
    BY <1>15, <2>1, BlockFacts DEF Typed, WriteToml
  <2> QED
    BY <1>15, <2>1, <2>2 DEF WriteToml
<1>16. CASE MarkRegistration
  <2>1. \/ record' = record
        \/ record'.steps = record.steps \cup {"registration"} /\ record'.toml = record.toml
    BY <1>16, MarkedFacts DEF MarkRegistration
  <2> QED
    BY <1>16, <2>1 DEF MarkRegistration
<1>17. CASE PutDropin
  BY <1>17 DEF PutDropin
<1>18. CASE RestartBound
  <2>1. \/ record' = record
        \/ record'.steps = record.steps \cup {"gateway-restarted"} /\ record'.toml = record.toml
    BY <1>18, MarkedFacts DEF RestartBound
  <2> QED
    BY <1>18, <2>1 DEF RestartBound
<1>19. CASE SelfTest
  <2>1. \/ record' = record
        \/ record'.steps = record.steps \cup {"self-test"} /\ record'.toml = record.toml
    BY <1>19, ConnectedFacts DEF SelfTest
  <2> QED
    BY <1>19, <2>1 DEF SelfTest
<1>20. CASE PutApprovalBack
  BY <1>20 DEF PutApprovalBack
<1>21. CASE \E keep \in BOOLEAN : Remove(keep)
  BY <1>21 DEF Remove
<1>22. CASE RestoreToml
  <2>1. toml'.text = toml.text /\ ~toml'.block
    BY <1>22, RestoredFacts, FileFacts DEF RestoreToml, Typed
  <2>2. ASSUME edits = 0 PROVE toml' = wanted.toml
    <3>1. CASE toml.block
      <4>1. /\ Done("toml-saved") = TRUE
            /\ toml = AddBlock(wanted.toml) /\ tomlCopy = Bytes(wanted.toml)
            /\ record.toml = wanted.toml
        BY <2>2, <3>1
      <4>2. toml' = Restore(AddBlock(wanted.toml), Bytes(wanted.toml), wanted.toml, TRUE)
        BY <1>22, <3>1, <4>1 DEF RestoreToml
      <4>3. wanted.toml \in Files /\ ~wanted.toml.block
        BY DEF Typed
      <4> QED
        BY <4>2, <4>3, RestoreUndoes
    <3>2. CASE ~toml.block
      BY <1>22, <2>2, <3>2 DEF RestoreToml
    <3> QED
      BY <3>1, <3>2
  <2> QED
    BY <1>22, <2>1, <2>2 DEF RestoreToml
<1>23. CASE DropDropin
  BY <1>23 DEF DropDropin
<1>24. CASE RestartUnbound
  BY <1>24 DEF RestartUnbound
<1>25. CASE StopSidecar
  BY <1>25 DEF StopSidecar
<1>26. CASE DropUnit
  BY <1>26 DEF DropUnit
<1>27. CASE RestoreEnv
  <2>1. env'.text = env.text /\ ~env'.block
    BY <1>27, RestoredFacts, FileFacts DEF RestoreEnv, Typed
  <2> QED
    BY <1>27, <2>1 DEF RestoreEnv
<1>28. CASE \E answer \in Answers : Revoke(answer)
  <2>1. \/ record' = record
        \/ record'.steps = record.steps \cup {"revoke-pending"} /\ record'.toml = record.toml
    BY <1>28, MarkedFacts DEF Revoke, RevokeGateway
  <2>2. /\ at = "revoke" /\ at' \in {"idle", "forget credential"}
        /\ UNCHANGED <<files, memo, wanted, edits>>
    BY <1>28 DEF Revoke, RevokeGateway
  <2> QED
    BY <2>1, <2>2
<1>29. CASE ForgetCredential
  BY <1>29 DEF ForgetCredential
<1>30. CASE ForgetCopies
  BY <1>30 DEF ForgetCopies
<1>31. CASE ForgetRecord
  BY <1>31 DEF ForgetRecord
<1>32. CASE Rotate
  BY <1>32 DEF Rotate
<1>33. CASE RetireOthers
  BY <1>33 DEF RetireOthers
<1>34. CASE Mint
  BY <1>34 DEF Mint
<1>35. CASE Swap
  BY <1>35 DEF Swap
<1>36. CASE PutUnitAgain
  BY <1>36 DEF PutUnitAgain
<1>37. CASE TakeKey
  BY <1>37 DEF TakeKey
<1>38. CASE SwapBack
  BY <1>38 DEF SwapBack
<1>39. CASE TakeBack
  BY <1>39 DEF TakeBack
<1>40. CASE \E done \in BOOLEAN : RetireOld(done)
  BY <1>40 DEF RetireOld
<1>41. CASE \E done \in BOOLEAN : RetireNew(done)
  BY <1>41 DEF RetireNew
<1>42. CASE Stop
  BY <1>42 DEF Stop
<1>43. CASE HostRestarts
  BY <1>43 DEF HostRestarts
<1>44. CASE GatewayRetries
  BY <1>44 DEF GatewayRetries
<1>45. CASE EditToml
  <2>1. toml' \in Files /\ (toml'.block => toml.block)
    BY <1>45, NoFileFacts DEF EditToml, Edited
  <2>2. wanted'.toml = StripBlock(toml') /\ wanted'.env = wanted.env
    BY <1>45 DEF Typed, EditToml
  <2>3. wanted'.toml.text = toml'.text /\ ~wanted'.toml.block
    BY <2>1, <2>2, BlockFacts
  <2>4. edits' # 0
    BY <1>45 DEF Typed, EditToml
  <2> QED
    BY <1>45, <2>1, <2>2, <2>3, <2>4 DEF EditToml
<1>46. CASE EditEnv
  <2>1. env' \in Files /\ (env'.block => env.block)
    BY <1>46, NoFileFacts DEF EditEnv, Edited
  <2>2. wanted'.env = StripBlock(env') /\ wanted'.toml = wanted.toml
    BY <1>46 DEF Typed, EditEnv
  <2>3. wanted'.env.text = env'.text
    BY <2>1, <2>2, BlockFacts
  <2>4. edits' # 0
    BY <1>46 DEF Typed, EditEnv
  <2> QED
    BY <1>46, <2>1, <2>2, <2>3, <2>4 DEF EditEnv
<1>47. CASE UNCHANGED vars
  BY <1>47
<1> QED
  BY <1>1, <1>2, <1>3, <1>4, <1>5, <1>6, <1>7, <1>8, <1>9, <1>10, <1>11, <1>12, <1>13,
     <1>14, <1>15, <1>16, <1>17, <1>18, <1>19, <1>20, <1>21, <1>22, <1>23, <1>24, <1>25,
     <1>26, <1>27, <1>28, <1>29, <1>30, <1>31, <1>32, <1>33, <1>34, <1>35, <1>36, <1>37,
     <1>38, <1>39, <1>40, <1>41, <1>42, <1>43, <1>44, <1>45, <1>46, <1>47
     DEF Next, Command, Step, UpStep, RemoveStep, RotateStep

-----------------------------------------------------------------------------
(* The unit and the credential.                                            *)

\* The steps that run with a credential in the settings, and those that run
\* with one in the memo.
WithKey ==
    Recorded \cup
    {"mark redeemed", "retire others", "mint", "swap", "put unit", "take key", "retire old",
     "swap back", "take back", "retire new"}
WithNewKey == {"save credential", "swap", "put unit", "take key", "swap back"}

\* The steps of up between the sidecar's unit and the gateway's drop-in.
WithUnit ==
    {"start sidecar", "restart sidecar", "wait for sidecar", "register", "mark toml",
     "write toml", "mark registration", "put drop-in"}

GatewayInv ==
    /\ GatewayCanStart
    /\ at \in WithKey => settings # NoKey
    /\ at \in WithNewKey => memo.key # NoKey
    /\ at \in WithUnit => unit # "absent"
    /\ at \in TomlIsBack \ {"drop drop-in"} => ~dropin

LEMMA GatewayInit == Init => GatewayInv
BY DEF Init, GatewayInv, GatewayCanStart, WithKey, WithNewKey, WithUnit, Recorded,
       TomlIsBack,
       EnvIsBack


LEMMA GatewayNext == Typed /\ FilesInv /\ GatewayInv /\ [Next]_vars => GatewayInv'
<1> SUFFICES ASSUME Typed /\ FilesInv /\ GatewayInv, [Next]_vars PROVE GatewayInv'
  OBVIOUS
<1> USE DEF vars, files, tomlFiles, envFiles, units, running, engine, history,
       GatewayInv, GatewayCanStart, WithKey, WithNewKey, WithUnit, Recorded,
       TomlIsBack, EnvIsBack
<1>1. CASE Up
  BY <1>1 DEF Up
<1>2. CASE Redeem
  <2>1. at' = "save credential" => memo'.key # NoKey
    BY <1>2, NextKey DEF Typed, Memos, Redeem
  <2>2. at' \in {"idle", "save credential"} /\ UNCHANGED <<toml, settings, units>>
    BY <1>2 DEF Redeem
  <2> QED
    BY <2>1, <2>2
<1>3. CASE SaveCredential
  BY <1>3 DEF SaveCredential
<1>4. CASE MarkRedeemed
  BY <1>4 DEF MarkRedeemed
<1>5. CASE SetApproval
  BY <1>5 DEF SetApproval
<1>6. CASE SaveEnv
  BY <1>6 DEF SaveEnv
<1>7. CASE WriteEnv
  BY <1>7 DEF WriteEnv
<1>8. CASE MarkEnv
  BY <1>8 DEF MarkEnv
<1>9. CASE PutUnit
  BY <1>9 DEF PutUnit
<1>10. CASE StartSidecar
  BY <1>10 DEF StartSidecar
<1>11. CASE RestartSidecar
  BY <1>11 DEF RestartSidecar
<1>12. CASE SidecarAnswers
  BY <1>12 DEF SidecarAnswers
<1>13. CASE SaveToml
  BY <1>13 DEF SaveToml
<1>14. CASE MarkToml
  BY <1>14 DEF MarkToml
<1>15. CASE WriteToml
  BY <1>15 DEF WriteToml
<1>16. CASE MarkRegistration
  BY <1>16 DEF MarkRegistration
<1>17. CASE PutDropin
  BY <1>17 DEF PutDropin
<1>18. CASE RestartBound
  BY <1>18 DEF RestartBound
<1>19. CASE SelfTest
  BY <1>19 DEF SelfTest
<1>20. CASE PutApprovalBack
  BY <1>20 DEF PutApprovalBack
<1>21. CASE \E keep \in BOOLEAN : Remove(keep)
  <2>1. /\ at = "idle" /\ at' \in {"restore toml"}
        /\ UNCHANGED <<toml, settings, units>>
    BY <1>21 DEF Remove
  <2> QED
    BY <2>1
<1>22. CASE RestoreToml
  BY <1>22 DEF RestoreToml
<1>23. CASE DropDropin
  BY <1>23 DEF DropinLeft, DropDropin
<1>24. CASE RestartUnbound
  BY <1>24 DEF RestartUnbound
<1>25. CASE StopSidecar
  BY <1>25 DEF StopSidecar
<1>26. CASE DropUnit
  BY <1>26 DEF FilesInv, BlockIsOut, DropUnit
<1>27. CASE RestoreEnv
  BY <1>27 DEF RestoreEnv
<1>28. CASE \E answer \in Answers : Revoke(answer)
  <2>1. /\ at = "revoke" /\ at' \in {"idle", "forget credential"}
        /\ UNCHANGED <<toml, settings, units>>
    BY <1>28 DEF Revoke, RevokeGateway
  <2> QED
    BY <2>1
<1>29. CASE ForgetCredential
  BY <1>29 DEF FilesInv, BlockIsOut, ForgetCredential
<1>30. CASE ForgetCopies
  BY <1>30 DEF ForgetCopies
<1>31. CASE ForgetRecord
  BY <1>31 DEF ForgetRecord
<1>32. CASE Rotate
  BY <1>32 DEF Rotate
<1>33. CASE RetireOthers
  BY <1>33 DEF RetireOthers
<1>34. CASE Mint
  <2>1. at' = "swap" => memo'.key # NoKey
    BY <1>34, NextKey DEF Typed, Memos, Mint
  <2>2. at = "mint" /\ at' \in {"idle", "swap", "retire new"} /\ UNCHANGED <<toml, settings, units>>
    BY <1>34 DEF Mint
  <2> QED
    BY <2>1, <2>2
<1>35. CASE Swap
  <2>1. settings' = memo.key /\ memo.key # NoKey /\ memo'.key = settings /\ settings # NoKey
    BY <1>35 DEF Typed, Memos, Swap
  <2> QED
    BY <1>35, <2>1 DEF Swap
<1>36. CASE PutUnitAgain
  BY <1>36 DEF PutUnitAgain
<1>37. CASE TakeKey
  BY <1>37 DEF TakeKey
<1>38. CASE SwapBack
  <2>1. settings' = memo.key /\ memo.key # NoKey
    BY <1>38 DEF SwapBack, BackTo
  <2> QED
    BY <1>38, <2>1 DEF SwapBack
<1>39. CASE TakeBack
  <2>1. /\ at = "take back" /\ at' \in {"retire new"}
        /\ UNCHANGED <<toml, settings, units>>
    BY <1>39 DEF TakeBack
  <2> QED
    BY <2>1
<1>40. CASE \E done \in BOOLEAN : RetireOld(done)
  <2>1. /\ at = "retire old" /\ at' \in {"idle"}
        /\ UNCHANGED <<toml, settings, units>>
    BY <1>40 DEF RetireOld
  <2> QED
    BY <2>1
<1>41. CASE \E done \in BOOLEAN : RetireNew(done)
  <2>1. /\ at = "retire new" /\ at' \in {"idle"}
        /\ UNCHANGED <<toml, settings, units>>
    BY <1>41 DEF RetireNew
  <2> QED
    BY <2>1
<1>42. CASE Stop
  BY <1>42 DEF Stop
<1>43. CASE HostRestarts
  BY <1>43 DEF HostRestarts
<1>44. CASE GatewayRetries
  BY <1>44 DEF GatewayRetries
<1>45. CASE EditToml
  <2>1. toml'.block => toml.block
    BY <1>45, NoFileFacts DEF EditToml, Edited
  <2> QED
    BY <1>45, <2>1 DEF EditToml
<1>46. CASE EditEnv
  BY <1>46 DEF EditEnv
<1>47. CASE UNCHANGED vars
  BY <1>47
<1> QED
  BY <1>1, <1>2, <1>3, <1>4, <1>5, <1>6, <1>7, <1>8, <1>9, <1>10, <1>11, <1>12, <1>13,
     <1>14, <1>15, <1>16, <1>17, <1>18, <1>19, <1>20, <1>21, <1>22, <1>23, <1>24, <1>25,
     <1>26, <1>27, <1>28, <1>29, <1>30, <1>31, <1>32, <1>33, <1>34, <1>35, <1>36, <1>37,
     <1>38, <1>39, <1>40, <1>41, <1>42, <1>43, <1>44, <1>45, <1>46, <1>47
     DEF Next, Command, Step, UpStep, RemoveStep, RotateStep

-----------------------------------------------------------------------------
(* The engine's keys.                                                      *)

Forgetting == {"forget credential", "forget copies", "forget record"}

\* rotate-key holds two keys of the gateway, and then goes back to one.
TwoKeys == {"swap", "put unit", "take key", "swap back"}
BackToOne == {"take back", "retire new"}

\* What the next step of up relies on until the gateway is recorded.
RedeemHolds ==
    /\ at \in {"redeem", "save credential", "mark redeemed"} => record.gw = 0
    /\ at \in {"save credential", "mark redeemed"} =>
          memo.key \in live /\ memo.key.gw \notin known
    /\ at = "mark redeemed" => settings = memo.key

RotateHolds ==
    /\ at \in {"mint", "retire old"} \cup TwoKeys \cup BackToOne => settings \in live
    /\ at \in TwoKeys => memo.key \in live /\ memo.key.gw = settings.gw
    /\ at \in BackToOne => memo.key = settings

KeysInv ==
    /\ NoKeyIsLost
    /\ \A k \in live : k.gw \in 1 .. keys
    /\ known \subseteq 1 .. keys
    /\ record.gw # 0 => Done("redeemed")
    /\ RedeemHolds /\ RotateHolds
    /\ at \in Forgetting => \A k \in live : k.gw \notin known \ kept

LEMMA KeysInit == Init => KeysInv
BY BlankFacts
   DEF Init, KeysInv, NoKeyIsLost, RedeemHolds, RotateHolds, Forgetting, TwoKeys,
       BackToOne

\* The steps that rely on nothing of the keys.
LEMMA KeysStay ==
    ASSUME KeysInv, UNCHANGED <<settings, live, keys, known, kept>>,
           record'.gw = record.gw, record.steps \subseteq record'.steps,
           at' \in {"idle"} \cup Recorded
    PROVE  KeysInv'
BY DEF KeysInv, NoKeyIsLost, RedeemHolds, RotateHolds, Forgetting, TwoKeys, BackToOne,
       Done,
       Recorded

LEMMA LiveHasGateway ==
    ASSUME Typed, KeysInv, NEW k \in live
    PROVE  k.gw # 0
BY DEF Typed, KeysInv


LEMMA KeysNext == Typed /\ KeysInv /\ [Next]_vars => KeysInv'
<1> SUFFICES ASSUME Typed /\ KeysInv, [Next]_vars PROVE KeysInv'
  OBVIOUS
<1> USE DEF vars, files, tomlFiles, envFiles, units, running, engine, history,
       KeysInv, NoKeyIsLost, RedeemHolds, RotateHolds, Forgetting, TwoKeys, BackToOne, Done
<1>1. CASE Up
  BY <1>1 DEF Up
<1>2. CASE Redeem
  <2>1. CASE keys = MaxKeys
    BY <1>2, <2>1 DEF Redeem
  <2>2. CASE keys # MaxKeys
    <3> DEFINE k == Key(keys + 1, keys + 1)
    <3>1. k \in Keys /\ k.gw = keys + 1
      BY <2>2, NextKey
    <3>2. /\ keys' = keys + 1 /\ live' = live \cup {k}
          /\ at' \in {"idle", "save credential"}
          /\ UNCHANGED <<record, settings, known, kept>>
      BY <1>2, <2>2 DEF Redeem
    <3>3. memo'.key = k
      BY <1>2, <2>2 DEF Typed, Memos, Redeem
    <3>4. record.gw = 0 /\ (\A l \in live : l.gw \notin known \ kept)
      <4>1. record.gw = 0
        BY <1>2 DEF Redeem
      <4> QED
        BY <4>1, LiveHasGateway
    <3>5. k.gw \notin known
      BY NextKey, <3>1
    <3>6. \A l \in live' : l.gw \in 1 .. keys'
      BY NextKey, <3>1, <3>2
    <3>7. known' \subseteq 1 .. keys'
      BY NextKey, <3>2
    <3>8. NoKeyIsLost'
      BY <3>2, <3>4, <3>5
    <3>9. RedeemHolds' /\ RotateHolds'
      BY <3>2, <3>3, <3>4, <3>5
    <3> QED
      BY <3>2, <3>6, <3>7, <3>8, <3>9
  <2> QED
    BY <2>1, <2>2
<1>3. CASE SaveCredential
  <2>1. record.gw = 0 /\ memo.key \in live /\ memo.key.gw \notin known
    BY <1>3 DEF SaveCredential
  <2>2. \A k \in live : k.gw \notin known \ kept
    BY <2>1, LiveHasGateway
  <2> QED
    BY <1>3, <2>1, <2>2 DEF SaveCredential
<1>4. CASE MarkRedeemed
  <2>1. /\ record.gw = 0 /\ memo.key \in live /\ memo.key.gw \notin known
        /\ settings = memo.key
    BY <1>4 DEF MarkRedeemed
  <2>2. \A k \in live : k.gw \notin known \ kept
    BY <2>1, LiveHasGateway
  <2>3. record'.gw = memo.key.gw /\ "redeemed" \in record'.steps
    BY <1>4 DEF Typed, Records, Marked, MarkRedeemed
  <2>4. /\ known' = known \cup {memo.key.gw} /\ at' = "approval"
        /\ UNCHANGED <<settings, live, keys, kept>>
    BY <1>4 DEF MarkRedeemed
  <2>5. memo.key.gw \in 1 .. keys
    BY <2>1
  <2>6. NoKeyIsLost'
    BY <2>1, <2>2, <2>3, <2>4
  <2> QED
    BY <2>3, <2>4, <2>5, <2>6
      
<1>5. CASE SetApproval
  <2>1. /\ UNCHANGED <<settings, live, keys, known, kept>>
        /\ at' \in {"env"}
    BY <1>5 DEF SetApproval
  <2>2. record'.gw = record.gw /\ record.steps \subseteq record'.steps
    BY <1>5, MarkedFacts DEF SetApproval
  <2> QED
    BY <2>1, <2>2, KeysStay DEF Recorded
<1>6. CASE SaveEnv
  BY <1>6 DEF SaveEnv
<1>7. CASE WriteEnv
  BY <1>7 DEF WriteEnv
<1>8. CASE MarkEnv
  <2>1. /\ UNCHANGED <<settings, live, keys, known, kept>>
        /\ at' \in {"sidecar"}
    BY <1>8 DEF MarkEnv
  <2>2. record'.gw = record.gw /\ record.steps \subseteq record'.steps
    BY <1>8, MarkedFacts DEF MarkEnv, Typed, Records, Marked
  <2> QED
    BY <2>1, <2>2, KeysStay DEF Recorded
<1>9. CASE PutUnit
  BY <1>9 DEF PutUnit
<1>10. CASE StartSidecar
  <2>1. /\ UNCHANGED <<settings, live, keys, known, kept>>
        /\ at' \in {"wait for sidecar"}
    BY <1>10 DEF StartSidecar
  <2>2. record'.gw = record.gw /\ record.steps \subseteq record'.steps
    BY <1>10, MarkedFacts DEF StartSidecar
  <2> QED
    BY <2>1, <2>2, KeysStay DEF Recorded
<1>11. CASE RestartSidecar
  BY <1>11 DEF RestartSidecar
<1>12. CASE SidecarAnswers
  BY <1>12 DEF SidecarAnswers
<1>13. CASE SaveToml
  BY <1>13 DEF SaveToml
<1>14. CASE MarkToml
  <2>1. /\ UNCHANGED <<settings, live, keys, known, kept>>
        /\ at' \in {"write toml"}
    BY <1>14 DEF MarkToml
  <2>2. record'.gw = record.gw /\ record.steps \subseteq record'.steps
    BY <1>14, MarkedFacts DEF MarkToml, Typed, Records
  <2> QED
    BY <2>1, <2>2, KeysStay DEF Recorded
<1>15. CASE WriteToml
  BY <1>15 DEF WriteToml
<1>16. CASE MarkRegistration
  <2>1. /\ UNCHANGED <<settings, live, keys, known, kept>>
        /\ at' \in {"put drop-in"}
    BY <1>16 DEF MarkRegistration
  <2>2. record'.gw = record.gw /\ record.steps \subseteq record'.steps
    BY <1>16, MarkedFacts DEF MarkRegistration
  <2> QED
    BY <2>1, <2>2, KeysStay DEF Recorded
<1>17. CASE PutDropin
  BY <1>17 DEF PutDropin
<1>18. CASE RestartBound
  <2>1. /\ UNCHANGED <<settings, live, keys, known, kept>>
        /\ at' \in {"idle", "self-test"}
    BY <1>18 DEF RestartBound, GatewayRestarts
  <2>2. record'.gw = record.gw /\ record.steps \subseteq record'.steps
    BY <1>18, MarkedFacts DEF RestartBound
  <2> QED
    BY <2>1, <2>2, KeysStay DEF Recorded
<1>19. CASE SelfTest
  <2>1. /\ UNCHANGED <<settings, live, keys, known, kept>>
        /\ at' \in {"idle", "put approval back"}
    BY <1>19 DEF SelfTest
  <2>2. record'.gw = record.gw /\ record.steps \subseteq record'.steps
    BY <1>19, ConnectedFacts DEF SelfTest
  <2> QED
    BY <2>1, <2>2, KeysStay DEF Recorded
<1>20. CASE PutApprovalBack
  BY <1>20 DEF PutApprovalBack
<1>21. CASE \E keep \in BOOLEAN : Remove(keep)
  BY <1>21 DEF Remove
<1>22. CASE RestoreToml
  BY <1>22 DEF RestoreToml
<1>23. CASE DropDropin
  BY <1>23 DEF DropDropin
<1>24. CASE RestartUnbound
  BY <1>24 DEF RestartUnbound
<1>25. CASE StopSidecar
  BY <1>25 DEF StopSidecar
<1>26. CASE DropUnit
  BY <1>26 DEF DropUnit
<1>27. CASE RestoreEnv
  BY <1>27 DEF RestoreEnv
<1>28. CASE \E answer \in Answers : Revoke(answer)
  <2> SUFFICES ASSUME NEW answer \in Answers, Revoke(answer) PROVE KeysInv'
    BY <1>28
  <2>1. /\ live' \subseteq live /\ at' \in {"idle", "forget credential"}
        /\ kept \subseteq kept' /\ UNCHANGED <<settings, keys, known>>
    BY DEF Revoke, RevokeGateway
  <2>2. record'.gw = record.gw /\ record.steps \subseteq record'.steps
    BY MarkedFacts DEF Revoke, RevokeGateway
  <2>3. /\ \A k \in live' : k.gw \in 1 .. keys'
        /\ known' \subseteq 1 .. keys'
        /\ record'.gw # 0 => Done("redeemed")'
        /\ RedeemHolds' /\ RotateHolds'
    BY <2>1, <2>2
  <2>4. CASE record.gw # 0 /\ settings # NoKey /\ ~memo.keep
    <3>1. RevokeGateway(answer)
      BY <2>4 DEF Revoke
    <3>2. CASE live' = {k \in live : k.gw # record.gw}
      BY <2>1, <2>2, <2>3, <3>2
    <3>3. CASE live' = live /\ ~(settings \in live /\ answer \in {"revoked", "lost"})
      <4>1. at' = "forget credential" => settings \notin live
        BY <3>1, <3>3 DEF RevokeGateway, Revoked
      <4> QED
        BY <2>1, <2>2, <2>3, <3>3, <4>1
    <3> QED
      BY <3>1, <3>2, <3>3 DEF RevokeGateway
  <2>5. CASE ~(record.gw # 0 /\ settings # NoKey /\ ~memo.keep)
    <3>1. /\ UNCHANGED live
          /\ kept' = IF memo.keep THEN kept \cup {record.gw} ELSE kept
      BY <2>5 DEF Revoke
    <3>2. \A k \in live : k.gw \notin known' \ kept'
      <4> SUFFICES ASSUME NEW k \in live, k.gw \in known \ kept, ~memo.keep PROVE FALSE
        BY <2>1, <3>1
      <4>1. k.gw = record.gw /\ k.gw = settings.gw /\ k.gw # 0
        BY LiveHasGateway
      <4> QED
        BY <2>5, <4>1, KeyFacts
    <3> QED
      BY <2>2, <2>3, <3>1, <3>2
  <2> QED
    BY <2>4, <2>5
<1>29. CASE ForgetCredential
  BY <1>29 DEF ForgetCredential
<1>30. CASE ForgetCopies
  BY <1>30 DEF ForgetCopies
<1>31. CASE ForgetRecord
  <2>1. \A k \in live : k.gw \notin known \ kept
    BY <1>31 DEF ForgetRecord
  <2> QED
    BY <1>31, <2>1, BlankFacts DEF ForgetRecord
<1>32. CASE Rotate
  BY <1>32 DEF Rotate
<1>33. CASE RetireOthers
  <2>1. live' \subseteq live /\ (at' = "mint" => settings \in live')
        /\ (settings \in live => settings \in live')
    BY <1>33 DEF RetireOthers, Others
  <2>2. at' \in {"idle", "mint"} /\ UNCHANGED <<record, settings, keys, known, kept>>
    BY <1>33 DEF RetireOthers
  <2> QED
    BY <2>1, <2>2
<1>34. CASE Mint
  <2>1. CASE keys = MaxKeys
    BY <1>34, <2>1 DEF Mint
  <2>2. CASE keys # MaxKeys
    <3> DEFINE k == Key(settings.gw, keys + 1)
    <3>1. k \in Keys /\ k.gw = settings.gw
      BY <2>2, NextKey
    <3>2. /\ keys' = keys + 1 /\ live' = live \cup {k}
          /\ at' \in {"idle", "swap", "retire new"}
          /\ UNCHANGED <<record, settings, known, kept>>
      BY <1>34, <2>2 DEF Mint
    <3>3. (at' = "swap" => memo'.key = k) /\ (at' = "retire new" => memo'.key = settings)
      BY <1>34, <2>2 DEF Typed, Memos, Mint
    <3>4. settings \in live
      BY <1>34 DEF Mint
    <3>5. \A l \in live' : l.gw \in 1 .. keys'
      BY NextKey, <3>1, <3>2, <3>4
    <3>6. known' \subseteq 1 .. keys'
      BY NextKey, <3>2
    <3>7. NoKeyIsLost'
      BY <3>1, <3>2, <3>4
    <3>8. RedeemHolds' /\ RotateHolds'
      BY <3>1, <3>2, <3>3, <3>4
    <3> QED
      BY <3>2, <3>5, <3>6, <3>7, <3>8
  <2> QED
    BY <2>1, <2>2
<1>35. CASE Swap
  <2>1. /\ settings \in live /\ memo.key \in live /\ memo.key.gw = settings.gw
    BY <1>35 DEF Swap
  <2>2. memo'.key = settings
    BY <1>35 DEF Typed, Memos, Swap
  <2>3. /\ settings' = memo.key /\ at' = "put unit"
        /\ UNCHANGED <<record, live, keys, known, kept>>
    BY <1>35 DEF Swap
  <2> QED
    BY <2>1, <2>2, <2>3
<1>36. CASE PutUnitAgain
  BY <1>36 DEF PutUnitAgain
<1>37. CASE TakeKey
  BY <1>37 DEF TakeKey
<1>38. CASE SwapBack
  <2>1. /\ settings \in live /\ memo.key \in live /\ memo.key.gw = settings.gw
    BY <1>38 DEF SwapBack
  <2>2. /\ settings' = memo.key /\ at' = "take back"
        /\ UNCHANGED <<record, live, keys, memo, known, kept>>
    BY <1>38 DEF SwapBack, BackTo
  <2> QED
    BY <2>1, <2>2
<1>39. CASE TakeBack
  BY <1>39 DEF TakeBack
<1>40. CASE \E done \in BOOLEAN : RetireOld(done)
  <2>1. settings \in live
    BY <1>40 DEF RetireOld
  <2>2. /\ live' \subseteq live /\ settings \in live'
        /\ at' = "idle" /\ UNCHANGED <<record, settings, keys, known, kept>>
    BY <1>40, <2>1 DEF RetireOld, Others
  <2> QED
    BY <2>1, <2>2
<1>41. CASE \E done \in BOOLEAN : RetireNew(done)
  <2>1. settings \in live /\ memo.key = settings
    BY <1>41 DEF RetireNew
  <2>2. /\ live' \subseteq live /\ settings \in live'
        /\ at' = "idle" /\ UNCHANGED <<record, settings, keys, known, kept>>
    BY <1>41, <2>1 DEF RetireNew, Others
  <2> QED
    BY <2>1, <2>2
<1>42. CASE Stop
  BY <1>42 DEF Stop
<1>43. CASE HostRestarts
  BY <1>43 DEF HostRestarts
<1>44. CASE GatewayRetries
  BY <1>44 DEF GatewayRetries
<1>45. CASE EditToml
  BY <1>45 DEF EditToml
<1>46. CASE EditEnv
  BY <1>46 DEF EditEnv
<1>47. CASE UNCHANGED vars
  BY <1>47
<1> QED
  BY <1>1, <1>2, <1>3, <1>4, <1>5, <1>6, <1>7, <1>8, <1>9, <1>10, <1>11, <1>12, <1>13,
     <1>14, <1>15, <1>16, <1>17, <1>18, <1>19, <1>20, <1>21, <1>22, <1>23, <1>24, <1>25,
     <1>26, <1>27, <1>28, <1>29, <1>30, <1>31, <1>32, <1>33, <1>34, <1>35, <1>36, <1>37,
     <1>38, <1>39, <1>40, <1>41, <1>42, <1>43, <1>44, <1>45, <1>46, <1>47
     DEF Next, Command, Step, UpStep, RemoveStep, RotateStep

-----------------------------------------------------------------------------
(* The theorems.                                                           *)

\* The state keeps its shape, and the saved copies never hold the block.
THEOREM ConnectTypeCorrect == Spec => []ConnectTypeOK
<1>1. Typed => ConnectTypeOK
  BY DEF Typed, Records, Memos, ConnectTypeOK
<1> QED
  BY <1>1, TypedInit, TypedNext, PTL DEF Spec

\* Wherever up and remove were stopped and however often they were run again,
\* a host without a record has its own gateway.toml and gateway.env back.
THEOREM FilesAlwaysComeBack == Spec => []FilesComeBack
<1>1. Typed /\ FilesInv => FilesComeBack
  <2> SUFFICES ASSUME Typed, FilesInv, record = Blank PROVE
                 /\ Theirs(toml, wanted.toml) /\ Theirs(env, wanted.env)
                 /\ edits = 0 => toml = wanted.toml
    BY DEF FilesComeBack
  <2>1. ~Done("toml-saved") /\ ~Done("redeemed")
    BY BlankFacts DEF Done
  <2> QED
    BY <2>1 DEF FilesInv, BlockIsRecorded, CopyIsWanted, Theirs
<1> QED
  BY <1>1, TypedInit, TypedNext, FilesInit, FilesNext, PTL DEF Spec

\* No step of a command leaves a gateway that names a sidecar with no unit or
\* no credential, so none can be stopped at such a point.
THEOREM GatewayCanAlwaysStart == Spec => []GatewayCanStart
<1>1. GatewayInv => GatewayCanStart
  BY DEF GatewayInv
<1> QED
  BY <1>1, TypedInit, TypedNext, FilesInit, FilesNext, GatewayInit, GatewayNext, PTL
     DEF Spec

\* A live key of a recorded gateway can be revoked from this host, whatever
\* answers of the engine were lost and wherever a command stopped.
THEOREM NoKeyIsEverLost == Spec => []NoKeyIsLost
<1>1. KeysInv => NoKeyIsLost
  BY DEF KeysInv
<1> QED
  BY <1>1, TypedInit, TypedNext, KeysInit, KeysNext, PTL DEF Spec
=============================================================================
