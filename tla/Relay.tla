-------------------------------- MODULE Relay --------------------------------
(***************************************************************************)
(* What the break-glass journal and its upload promise together, with no   *)
(* file, no window and no request in sight: a log that only grows, of      *)
(* which the engine takes more and more from the front, and a part that    *)
(* the sidecar regards as settled.  The sidecar settles only what was      *)
(* taken; after a restart it may offer again what it had settled.  Lost,   *)
(* late and repeated requests, failed saves and stops leave no other       *)
(* trace.  BreakGlass.tla is shown to implement this specification, as     *)
(* long as its journal can be read when the process starts.                *)
(***************************************************************************)
EXTENDS Naturals, Sequences, SequencesExt

VARIABLES
    log,     \* everything put in, oldest first
    taken,   \* what the other side has of it
    settled  \* what is not offered any more

vars == <<log, taken, settled>>

Init ==
    /\ log = <<>>
    /\ taken = <<>>
    /\ settled = <<>>

\* One item joins at the end.
Put ==
    /\ Len(log') = Len(log) + 1
    /\ IsPrefix(log, log')
    /\ UNCHANGED <<taken, settled>>

\* The other side takes what comes next, once.
Take ==
    /\ IsStrictPrefix(taken, taken')
    /\ IsPrefix(taken', log)
    /\ UNCHANGED <<log, settled>>

\* What was taken need not be offered again.
Settle ==
    /\ IsPrefix(settled, settled')
    /\ IsPrefix(settled', taken)
    /\ UNCHANGED <<log, taken>>

\* A restart may not know of all that was settled.
Reoffer ==
    /\ IsPrefix(settled', settled)
    /\ UNCHANGED <<log, taken>>

Next == Put \/ Take \/ Settle \/ Reoffer

Spec == Init /\ [][Next]_vars
=============================================================================
