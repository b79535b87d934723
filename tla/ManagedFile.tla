----------------------------- MODULE ManagedFile -----------------------------
(***************************************************************************)
(* A file of the operator's that `artzain connect openshell up` puts one   *)
(* marked block into, and `remove` puts back: add_block, strip_block and   *)
(* _restore of openshell/connect.py.                                       *)
(*                                                                         *)
(* A file is the operator's text, whether it ends in a newline, and        *)
(* whether the block follows.  A SHA-256 stands for the bytes it is of.    *)
(***************************************************************************)
CONSTANT Texts   \* what the operator may write

ASSUME TextsAssumption == "" \notin Texts

\* A file with no text has nothing a newline could be missing after.
Files == {f \in [there : BOOLEAN, text : Texts \cup {""}, nl : BOOLEAN, block : BOOLEAN] :
             (f.text = "" => f.nl) /\ (~f.there => f.text = "" /\ ~f.block)}

NoFile == [there |-> FALSE, text |-> "", nl |-> TRUE, block |-> FALSE]

\* The bytes of a file: none when there is no file.
Bytes(f) == [f EXCEPT !.there = TRUE]

\* The block goes after an empty line, so that the text before it ends in a
\* newline from then on.
AddBlock(f) == [f EXCEPT !.there = TRUE, !.nl = TRUE, !.block = TRUE]

StripBlock(f) == [f EXCEPT !.block = FALSE]

\* Mutant: the copy goes back without a look at what the file is now.
RestoreCopy(f, saved, before, known) ==
    IF known /\ saved = Bytes(before)
    THEN IF ~before.there /\ saved.text = "" THEN NoFile ELSE saved
    ELSE StripBlock(f)

\* _restore of a file f that holds the block: from the copy, when that is
\* what the record says was there before and f differs by the block alone.
Restore(f, saved, before, known) ==
    IF known /\ saved = Bytes(before) /\ StripBlock(f) = StripBlock(AddBlock(saved))
    THEN IF ~before.there /\ saved.text = "" THEN NoFile ELSE saved
    ELSE StripBlock(f)
=============================================================================
