------------------------------ MODULE WorkItems ------------------------------
(***************************************************************************)
(* The work items of one tenant: the states an item goes through           *)
(* (server/app.mjs, the transition and checklist routes), the two-level    *)
(* tree they stand in (work-item-tree.mjs), the edits that hand an item to *)
(* someone else (work-item-edit.mjs) and the administrator's PUT of the    *)
(* whole list.  Every handler but one reads and writes the list in a       *)
(* single turn.  The one that takes a completion report waits, if the      *)
(* report names documents, until the storage has said that they exist, and *)
(* other handlers run in between.  The handlers that move rows between the *)
(* list and the archive are in WorkArchive, which composes them with these *)
(* and states what is claimed of the list.                                 *)
(*                                                                         *)
(* Who may call a handler is left out: some entitled account calls it.     *)
(* An item keeps a revision, which stands for its history fields: two      *)
(* rows of different revisions are never deeply equal.                     *)
(***************************************************************************)
EXTENDS Naturals, FiniteSets

CONSTANTS
  Item,         \* item ids
  NoItem,       \* parentId of an item that stands on its own
  People,       \* accounts an item can be given to
  Nobody,       \* completion.submittedById before there is a report
  Setups,       \* the items, handlers and new contents considered together
  Cap,          \* WORK_ITEMS_CAP
  MaxRev,       \* bound: changes of one row
  MaxWaiting    \* bound: reports waiting for the storage at a time

(* 업무요청, 수행중, 결재대기, 결재완료 *)
Statuses == {"requested", "working", "reported", "approved"}
Closed   == {"reported", "approved"}
Open     == {"requested", "working"}

Says == [status : Statuses, owner : People, reporter : People \cup {Nobody},
         checked : BOOLEAN]

ItemRoutes ==
  {"accept", "submit", "approve", "return", "tick", "comment", "hand over",
   "move", "add", "remove", "reparent", "override"}
ArchiveRoutes == {"cancel", "sweep", "unarchive", "revive"}

(* contents: what a PUT or a new item may make a row say. *)
AllSetups == [items : SUBSET Item, routes : SUBSET (ItemRoutes \cup ArchiveRoutes),
              contents : SUBSET Says]

ASSUME WorkItemsAssumption ==
  /\ NoItem \notin Item /\ Nobody \notin People
  /\ Setups \subseteq AllSetups
  /\ Cap \in Nat /\ MaxRev \in Nat /\ MaxWaiting \in Nat

(* cancelled: the items that were cancelled in the same moment, which      *)
(* stands for cancelled.at; a row that never was has none.                 *)
Rows == [status : Statuses, parent : Item \cup {NoItem}, owner : People,
         reporter : People \cup {Nobody}, checked : BOOLEAN,
         cancelled : SUBSET Item, rev : 0..MaxRev]

VARIABLES
  list,         \* the rows of "work-items", by id
  waiting,      \* reports whose documents are being looked up
  setup,        \* the one of Setups that is considered in this behaviour
  overridden,   \* history: an administrator's PUT rewrote states or owners
  slipped       \* history: open children of an item when its report, which
                \* had waited, was taken

vars == <<list, waiting, setup, overridden, slipped>>

Listed == DOMAIN list
Reports == [item : Item, row : Rows]

-----------------------------------------------------------------------------
ChildrenOf(l, i) == {c \in DOMAIN l : l[c].parent = i}

(* Only an approved child counts as done. *)
OpenSubtasks(l, i) == {c \in ChildrenOf(l, i) : l[c].status # "approved"}

(* The Mut definitions are slips in the definition that follows them; the  *)
(* properties below must tell each of them from the code.                  *)

(* A child may be put under any item that stands on its own. *)
MutTreeViolation(next, previous) ==
  \E i \in DOMAIN next :
    LET p == next[i].parent
    IN  p # NoItem /\ (p \notin DOMAIN next \/ next[p].parent # NoItem)

(* workItemTreeViolation: a parent that is not in the list, a third level, *)
(* or a child newly put under a parent that was reported or approved.      *)
TreeViolation(next, previous) ==
  \E i \in DOMAIN next :
    LET p == next[i].parent
        attachedNow == i \notin DOMAIN previous \/ previous[i].parent # p
    IN  /\ p # NoItem
        /\ \/ p \notin DOMAIN next
           \/ next[p].parent # NoItem
           \/ attachedNow /\ next[p].status \in Closed

(* A change of one row that adds to its history: all do but the tick of a  *)
(* check and a move.                                                       *)
Change(i, row) ==
  /\ list[i].rev < MaxRev
  /\ list' = [list EXCEPT ![i] = [row EXCEPT !.rev = @ + 1]]
  /\ UNCHANGED <<waiting, setup, overridden, slipped>>

-----------------------------------------------------------------------------
(* POST /api/work-items/:id/transition                                     *)

Accept(i) ==
  /\ i \in Listed /\ list[i].status = "requested"
  /\ Change(i, [list[i] EXCEPT !.status = "working"])

(* What is asked of the item before a report is taken. *)
Reportable(i) ==
  /\ i \in Listed /\ list[i].status = "working"
  /\ list[i].checked
  /\ OpenSubtasks(list, i) = {}

Reported(row) == [row EXCEPT !.status = "reported", !.reporter = row.owner]

(* A report that names no document is taken in one turn; one that does     *)
(* waits for the storage.                                                  *)
SubmitAtOnce(i) ==
  /\ Reportable(i)
  /\ Change(i, Reported(list[i]))

SubmitBegins(i) ==
  /\ Cardinality(waiting) < MaxWaiting
  /\ Reportable(i)
  /\ waiting' = waiting \cup {[item |-> i, row |-> list[i]]}
  /\ UNCHANGED <<list, setup, overridden, slipped>>

(* The report is written over whatever the row has become. *)
MutRowStands(w) == w.item \in Listed

(* rebaseRowWrite: the row is still there and as it was; the rest of the   *)
(* list may be another.                                                    *)
RowStands(w) == w.item \in Listed /\ list[w.item] = w.row

SubmitEnds(w) ==
  /\ w \in waiting
  /\ RowStands(w) /\ w.row.rev < MaxRev
  /\ list' = [list EXCEPT ![w.item] = [Reported(w.row) EXCEPT !.rev = @ + 1]]
  /\ waiting' = waiting \ {w}
  /\ slipped' = slipped \cup OpenSubtasks(list, w.item)
  /\ UNCHANGED <<setup, overridden>>

(* 409 because the row has changed, or 400 because a document is missing. *)
SubmitRefused(w) ==
  /\ w \in waiting
  /\ waiting' = waiting \ {w}
  /\ UNCHANGED <<list, setup, overridden, slipped>>

Approve(i) ==
  /\ i \in Listed /\ list[i].status = "reported"
  /\ Change(i, [list[i] EXCEPT !.status = "approved"])

RequestChanges(i) ==
  /\ i \in Listed /\ list[i].status = "reported"
  /\ Change(i, [list[i] EXCEPT !.status = "working"])

(* The list of checks stays open after the report. *)
MutTick(i) ==
  /\ i \in Listed
  /\ list' = [list EXCEPT ![i].checked = ~@]
  /\ UNCHANGED <<waiting, setup, overridden, slipped>>

(* POST /api/work-items/:id/checklist *)
Tick(i) ==
  /\ i \in Listed /\ list[i].status \notin Closed
  /\ list' = [list EXCEPT ![i].checked = ~@]
  /\ UNCHANGED <<waiting, setup, overridden, slipped>>

(* POST /api/work-items/:id/comments, and a PATCH of the texts *)
Comment(i) == i \in Listed /\ Change(i, list[i])

(* PATCH /api/work-items/:id with a new ownerId *)
HandOver(i, o) ==
  /\ i \in Listed /\ list[i].status \in Open /\ list[i].owner # o
  /\ Change(i, [list[i] EXCEPT !.owner = o])

(* An item that has children is moved under another. *)
MutMove(i, p) ==
  /\ i \in Listed /\ list[i].parent # p
  /\ p # NoItem => p \in Listed /\ p # i /\ list[p].status \notin Closed
  /\ list' = [list EXCEPT ![i].parent = p]
  /\ UNCHANGED <<waiting, setup, overridden, slipped>>

(* POST /api/work-items/:id/parent *)
Move(i, p) ==
  /\ i \in Listed /\ list[i].parent # p
  /\ p # NoItem =>
       /\ ChildrenOf(list, i) = {}
       /\ p \in Listed /\ p # i
       /\ list[p].parent = NoItem
       /\ list[p].status \notin Closed
  /\ LET next == [list EXCEPT ![i].parent = p]
     IN  ~TreeViolation(next, list) /\ list' = next
  /\ UNCHANGED <<waiting, setup, overridden, slipped>>

-----------------------------------------------------------------------------
(* PUT /api/workspace/work-items by an administrator.  The list that is    *)
(* sent was made from the list as it is (If-Match) and is checked as a     *)
(* whole.  It adds an item, puts one elsewhere, sets what one says, which  *)
(* no rule restricts, or takes some away and lets others stand on their    *)
(* own.  Whatever else one PUT can do to a list, several of these do: all  *)
(* rows stand on their own first, and are put where they belong last.      *)

With(i, row) == [x \in Listed \cup {i} |-> IF x = i THEN row ELSE list[x]]

AcceptedList(next) ==
  /\ Cardinality(DOMAIN next) <= Cap
  /\ ~TreeViolation(next, list)
  /\ list' = next

(* An id nothing refers to stands for the next one newWorkItemId mints. *)
Fresh(i) == i \notin Listed /\ \A w \in waiting : w.item # i

NewRow(p, said) ==
  [status |-> said.status, parent |-> p, owner |-> said.owner,
   reporter |-> said.reporter, checked |-> said.checked, cancelled |-> {}, rev |-> 0]

(* What a new item says unless somebody makes it up. *)
Unworked(said) == said.status \in Open /\ said.reporter = Nobody

(* A PUT, or one of the routes that put a new item in front of the list:   *)
(* it stands on its own, and they do not look at how the others stand.     *)
Add(i, p, said) ==
  /\ i \in setup.items /\ Fresh(i) /\ p # i
  /\ LET next == With(i, NewRow(p, said))
     IN  \/ AcceptedList(next)
         \/ p = NoItem /\ Cardinality(DOMAIN next) <= Cap /\ list' = next
  /\ overridden' = (overridden \/ ~Unworked(said))
  /\ UNCHANGED <<waiting, setup, slipped>>

(* The items of S are taken away, and those of T stand on their own. *)
Cleared(S, T) ==
  [x \in Listed \ S |-> IF x \in T THEN [list[x] EXCEPT !.parent = NoItem] ELSE list[x]]

Remove(S, T) ==
  /\ S # {} \/ T # {}
  /\ AcceptedList(Cleared(S, T))
  /\ UNCHANGED <<waiting, setup, overridden, slipped>>

Reparent(i, p) ==
  /\ i \in Listed /\ p # i /\ list[i].parent # p
  /\ AcceptedList([list EXCEPT ![i].parent = p])
  /\ UNCHANGED <<waiting, setup, overridden, slipped>>

Override(i, said) ==
  /\ i \in Listed /\ list[i].rev < MaxRev
  /\ LET row == [list[i] EXCEPT !.status = said.status, !.owner = said.owner,
                  !.reporter = said.reporter, !.checked = said.checked, !.rev = @ + 1]
     IN  AcceptedList([list EXCEPT ![i] = row])
  /\ overridden' = TRUE
  /\ UNCHANGED <<waiting, setup, slipped>>

-----------------------------------------------------------------------------
Init ==
  /\ list = [x \in {} |-> x]
  /\ waiting = {}
  /\ setup \in Setups
  /\ overridden = FALSE /\ slipped = {}

(* The handlers that leave the same items in the list. *)
ItemTurn ==
  \/ \E i \in Item :
       \/ "accept" \in setup.routes /\ Accept(i)
       \/ "submit" \in setup.routes /\ (SubmitAtOnce(i) \/ SubmitBegins(i))
       \/ "approve" \in setup.routes /\ Approve(i)
       \/ "return" \in setup.routes /\ RequestChanges(i)
       \/ "tick" \in setup.routes /\ Tick(i)
       \/ "comment" \in setup.routes /\ Comment(i)
       \/ "hand over" \in setup.routes /\ \E o \in People : HandOver(i, o)
       \/ \E p \in Item \cup {NoItem} :
            \/ "move" \in setup.routes /\ Move(i, p)
            \/ "reparent" \in setup.routes /\ Reparent(i, p)
       \/ "override" \in setup.routes /\ \E said \in setup.contents : Override(i, said)
  \/ \E w \in waiting : SubmitEnds(w) \/ SubmitRefused(w)

-----------------------------------------------------------------------------
TypeOK ==
  /\ Listed \subseteq Item /\ list \in [Listed -> Rows]
  /\ waiting \subseteq Reports
  /\ setup \in Setups /\ overridden \in BOOLEAN /\ slipped \subseteq Item

(* A reported or approved item was reported by the one who owns it, with   *)
(* every check ticked, though it may have been handed over or unticked     *)
(* while its report was waiting for the storage, or have been away in the  *)
(* archive.                                                                *)
ReportStands ==
  ~overridden =>
    \A i \in Listed : list[i].status \in Closed =>
      list[i].checked /\ list[i].reporter = list[i].owner

=============================================================================
