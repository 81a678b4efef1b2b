---------------------------- MODULE MCWorkItems ----------------------------
(***************************************************************************)
(* Every handler of work items and of their archive for TLC.  Three items  *)
(* make a chain of three possible, and three changes take an item to its   *)
(* approval; one archive handler works at a time, while the handlers of    *)
(* the items go on.                                                        *)
(***************************************************************************)
EXTENDS WorkArchive, TLC

CONSTANTS i1, i2, i3, j1, p1, p2

MCItem == {i1, i2, i3}
MCPeople == {p1, p2}
MCJob == {j1}

MCSymmetry == Permutations(MCItem) \cup Permutations(MCPeople)

A(status, checked) ==
  [status |-> status, owner |-> p1, reporter |-> Nobody, checked |-> checked]

(* Two people, and an item whose row anybody changes. *)
MCRow ==
  [items |-> {i1}, contents |-> {A("requested", FALSE), A("reported", FALSE)},
   routes |-> (ItemRoutes \cup ArchiveRoutes) \ {"move", "reparent"}]

(* A child and its parent on the way to their approval. *)
MCPair ==
  [items |-> {i1, i2}, contents |-> {A("working", TRUE)},
   routes |-> {"submit", "approve", "return", "move", "add"} \cup ArchiveRoutes]

(* Three items that stand under one another, open or approved. *)
MCTree ==
  [items |-> {i1, i2, i3}, contents |-> {A("working", TRUE), A("approved", TRUE)},
   routes |-> {"move", "add", "remove", "reparent"} \cup ArchiveRoutes]

MCSetups == {MCRow, MCPair, MCTree}

MCBounds ==
  /\ overridden => \A i \in Listed : list[i].rev < 2
  /\ Cardinality(Archived) <= 2 /\ Cardinality(deleted) <= 1
  /\ Archived = {} \/ deleted = {}

(* The claim of work-item-tree.mjs, for every report. *)
ApprovedMeansDone ==
  ~overridden =>
    \A i \in Listed : list[i].status = "approved" => OpenSubtasks(list, i) = {}

(* "하위 업무도 함께 옮긴다 — 상위가 없는 하위는 목록에서 고아가 된다": nothing     *)
(* leaves an orphan.                                                       *)
NoOrphan ==
  \A i \in Listed : list[i].parent \in Listed \cup {NoItem}

=============================================================================
