------------------------------- MODULE Outbox -------------------------------
(***************************************************************************)
(* What the sidecar's journal promises, with no file, no entry and no hash *)
(* in sight: the whole log of what was ever put in, how much of it was     *)
(* settled (the engine took it, or refused it for good), and how much of   *)
(* it a restart cannot lose.  A restart may forget appends that were never *)
(* safe and may offer again what was settled, and a damage may cost the    *)
(* end of what was safe; neither reorders the log, leaves a gap in it or   *)
(* puts anything into it.  Journal.tla is shown to implement this          *)
(* specification.                                                          *)
(***************************************************************************)
EXTENDS Naturals, Sequences, SequencesExt

VARIABLES
    log,      \* everything put in, oldest first
    settled,  \* the part of log that does not wait any more
    safe,     \* the part of log the next restart starts from
    safeSettled \* the part of it that restart takes as settled

vars == <<log, settled, safe, safeSettled>>

Init ==
    /\ log = <<>>
    /\ settled = <<>>
    /\ safe = <<>>
    /\ safeSettled = <<>>

\* Either nothing becomes safe, or everything does as it now stands.
Secure(l, s) ==
    \/ /\ safe' = l
       /\ safeSettled' = s
    \/ UNCHANGED <<safe, safeSettled>>

\* One item joins at the end.
Extend ==
    /\ Len(log') = Len(log) + 1
    /\ IsPrefix(log, log')
    /\ UNCHANGED settled
    /\ Secure(log', settled)

\* Some of what waits is settled, oldest first.
Settle ==
    /\ UNCHANGED log
    /\ IsStrictPrefix(settled, settled')
    /\ IsPrefix(settled', log)
    /\ Secure(log, settled')

\* An attempt that changes nothing else may still make everything safe.
Flush ==
    /\ UNCHANGED <<log, settled>>
    /\ Secure(log, settled)

\* A restart starts from what was safe.
Recover ==
    /\ log' = safe
    /\ settled' = safeSettled
    /\ UNCHANGED <<safe, safeSettled>>

\* The memory of the outbox was damaged: it starts from a first part of what
\* was safe, if only the empty one, with no more settled than was.
Lose ==
    /\ IsPrefix(log', safe)
    /\ IsPrefix(settled', safeSettled)
    /\ IsPrefix(settled', log')
    /\ safe' = log'
    /\ safeSettled' = settled'

Next == Extend \/ Settle \/ Flush \/ Recover \/ Lose

Spec == Init /\ [][Next]_vars

\* While nobody damages the outbox's memory, it loses nothing that was safe.
Undamaged == Extend \/ Settle \/ Flush \/ Recover
UndamagedSpec == Init /\ [][Undamaged]_vars
=============================================================================
