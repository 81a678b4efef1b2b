--------------------------- MODULE MCWorkArchive ---------------------------
(***************************************************************************)
(* Two archive handlers that overtake each other, for TLC.  Three items    *)
(* make a family and one that stands apart, or two that compete for the    *)
(* last place under a cap of two; an administrator's override approves an  *)
(* item at once, so that two changes of a row are enough: the approval,    *)
(* and one that comes while the archive is written.                        *)
(***************************************************************************)
EXTENDS WorkArchive, FiniteSetsExt, TLC

CONSTANTS i1, i2, i3, j1, j2, p1

MCItem == {i1, i2, i3}
MCJob == {j1, j2}
MCPeople == {p1}

MCSymmetry == Permutations(MCItem) \cup Permutations(MCJob)

A(status) == [status |-> status, owner |-> p1, reporter |-> Nobody, checked |-> FALSE]

(* Three items, of which one may stand apart, and no revival. *)
MCThree ==
  [items |-> MCItem, contents |-> {A("working"), A("approved")},
   routes |-> {"comment", "add", "cancel", "sweep", "unarchive"}]

(* Two, with one of them perhaps under the other. *)
MCTwo ==
  [items |-> {i1, i2}, contents |-> {A("working"), A("approved")},
   routes |-> {"comment", "add", "remove"} \cup ArchiveRoutes]

MCSetups == {MCThree, MCTwo}

(* Nothing is claimed after a list that was noted earlier was written.     *)
(* Of the rest: two changes in all of the rows that are listed, two items  *)
(* archived, or one deleted before any is archived.                        *)
MCBounds ==
  /\ ~late
  /\ MapThenSumSet(LAMBDA i : list[i].rev, Listed) <= 2
  /\ Cardinality(Archived) + Cardinality(deleted) <= 2
  /\ Archived = {} \/ deleted = {}

(* "The state in which a row is nowhere is not made": every item that was  *)
(* listed and that no PUT deleted is listed or to be seen in the archive.  *)
NeverNowhere ==
  Quiet /\ ~mishap => \A i \in Archived \ deleted : i \in Listed \/ Visible(i)

(* A sweep takes the rows that stand from the newest list, and nothing     *)
(* else: it loses nobody's change.                                         *)
SweepTakesOnlyItsOwn ==
  [][\A j \in Job : job[j].at = "stale" /\ job'[j].at # "stale" =>
       \A i \in Listed \ (job[j].ids \ job[j].rest) :
         i \in Listed' /\ list'[i] = list[i]]_archvars

=============================================================================
