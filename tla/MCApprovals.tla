---------------------------- MODULE MCApprovals ----------------------------
(***************************************************************************)
(* Four people; two lines over two of them, one after the other and both   *)
(* at once; one file in the library and one that can be written.           *)
(***************************************************************************)
EXTENDS Approvals, TLC

CONSTANTS ann, bo, cy, di, file, new, h1, h2

MCPeople == {ann, bo, cy, di}
MCIds == {file, new}
MCPresent == {file}
MCLines == {<< >>, <<{bo}, {cy}>>, <<{bo, cy}>>}
MCDrafters == {ann}
MCLeavers == {cy}
MCStandIns == {<<bo, di>>, <<bo, ann>>, <<bo, cy>>, <<cy, di>>}
MCHandlers == {h1, h2}
MCSymmetry == Permutations(MCHandlers)

(* Who stands in for whom matters to nobody before a document is sent: what *)
(* is arranged until then can be arranged right after.  And little is       *)
(* claimed after a purge has written an older list.                         *)
MCBounds ==
    /\ erased = {}
    /\ (\E d \in Documents : Exists(d) /\ ~Is(d, "draft"))
        \/ \A p \in People : standsFor[p] = Nobody
=============================================================================
