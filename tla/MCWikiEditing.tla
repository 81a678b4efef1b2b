--------------------------- MODULE MCWikiEditing ---------------------------
(***************************************************************************)
(* Two edits of the person, two of somebody else, and one fault; a         *)
(* history of three versions with a snapshot every second one.             *)
(***************************************************************************)
EXTENDS WikiEditing

(* Four edits, restores and faults in all - and a fifth while a request    *)
(* that nobody waits for is still to arrive.                               *)
MCBounds == edits + others + faults <= 4 \/ orphans # {}
=============================================================================
