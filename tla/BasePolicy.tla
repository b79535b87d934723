------------------------------ MODULE BasePolicy ------------------------------
(***************************************************************************)
(* The base policy store of openshell/base_policy.py, as the sidecar's     *)
(* Reporter refreshes it (refresh_base_policy of openshell/sidecar.py):    *)
(* the engine's answers, the copy on disk and what a restart makes of it,  *)
(* where the Interceptor module lets the store hold anything at any time.  *)
(*                                                                         *)
(* An answer for another gateway, one that fails its digest, an error      *)
(* other than 409 and an engine that cannot be reached change nothing, so  *)
(* they are no action here.                                                *)
(*                                                                         *)
(* External: the engine, and the disk, where a write, a removal or a read  *)
(* may fail and the copy may be damaged.                                   *)
(***************************************************************************)
EXTENDS Interceptor

CONSTANT Policies   \* the base policies the engine may deliver

ASSUME BasePolicyAssumption ==
    /\ Policies \cap {"unknown", "none"} = {}
    /\ Bases = {"unknown", "none", "set"}

VARIABLES
    held,     \* what the store holds: "unknown", "none" or a policy
    copy,     \* the copy on disk, "unknown" when there is none
    lastWord, \* history: the last answer the store was given
    slipped   \* history: the copy may not be of the last answer

storeVars == <<held, copy, lastWord, slipped>>
baseVars == <<vars, storeVars>>

StateOf(word) == IF word \in Policies THEN "set" ELSE word
Words == {"unknown", "none"} \cup Policies

\* Mutant: there is nothing to write when nothing is held.
SaveWhatIsHeld(word) ==
    /\ copy' = IF word = "unknown" THEN copy ELSE word
    /\ UNCHANGED slipped

\* _save: the copy is replaced, or removed for "unknown", or that fails.
Save(word) ==
    \/ copy' = word /\ slipped' = FALSE
    \/ UNCHANGED copy /\ slipped' = TRUE

\* accept, and invalidate with "unknown" (409).  What is held already is not
\* written again, though the copy may be another one.
Set(word) ==
    /\ lastWord' = word
    /\ held' = word
    /\ base' = StateOf(word)
    /\ IF word = held THEN UNCHANGED copy /\ slipped' = (slipped \/ copy \notin {word, "damaged"})
       ELSE Save(word)

Refresh ==
    /\ \E word \in Words : Set(word)
    /\ UNCHANGED <<ops, decisions, reviews, windowOpen, engineVars, journaled, restarts>>

DamageCopy ==
    /\ copy \notin {"unknown", "damaged"}
    /\ copy' = "damaged"
    /\ UNCHANGED <<vars, held, lastWord, slipped>>

\* _load: the copy is not there, is not used, or cannot be read and stays.
BaseRestart ==
    /\ Restart
    /\ held' \in {"unknown"} \cup ({copy} \ {"damaged"})
    /\ base' = StateOf(held')
    /\ UNCHANGED <<copy, lastWord, slipped>>

BaseInit ==
    /\ Init
    /\ base = "unknown"
    /\ held = "unknown"
    /\ copy = "unknown"
    /\ lastWord = "unknown"
    /\ slipped = FALSE

BaseNext ==
    \/ Calls /\ UNCHANGED storeVars
    \/ SurroundingsChange /\ UNCHANGED <<base, storeVars>>
    \/ Refresh \/ DamageCopy \/ BaseRestart

BaseSpec == BaseInit /\ [][BaseNext]_baseVars

-----------------------------------------------------------------------------
\* The base policy a create gets is the one the engine named last, or none is
\* held and such a create is refused: also when the engine took a base back
\* (409), and also from the copy a restart starts from.  The exception is a
\* copy that could not be written or removed, or could not be read when the
\* base was taken back: nothing writes it again while the answers stay the
\* same, so a restart may start from an answer that was replaced ("a restart
\* will ask the engine again", base_policy.py:141, is not all it does).
BaseIsLastWord ==
    /\ base = StateOf(held)
    /\ held \in {lastWord, "unknown"} \/ slipped
=============================================================================
