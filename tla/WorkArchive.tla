---------------------------- MODULE WorkArchive ----------------------------
(***************************************************************************)
(* The archive of work items and the four handlers that move rows between  *)
(* it and the list: the cancelling of an item with its children, the       *)
(* revival of what was cancelled (work-item-edit.mjs), the sweep of        *)
(* finished items and the restore of one (work-archive.mjs).  The archive  *)
(* (archive.mjs) is files: segments of copies, which are only added, and   *)
(* an index whose restoredIds hide copies.  The calls that change it are   *)
(* queued and answered in the order they were made; while a handler waits  *)
(* for one, the handlers of WorkItems and the other archive handlers run.  *)
(* The list is committed by the JSON adapter, which is done or has failed  *)
(* before anyone else runs.                                                *)
(*                                                                         *)
(* Of the copies of an item the newest is kept.  An older one can be seen  *)
(* beside it only after a clean-up was lost, or until one has been made.   *)
(***************************************************************************)
EXTENDS WorkItems, Sequences

CONSTANTS
  Job,          \* archive handlers that may be under way at a time
  MaxSweep      \* bound: rows one sweep finds old enough

ASSUME ArchiveAssumption == MaxSweep \in Nat

VARIABLES
  copies,       \* the newest copy of each item in the segments, if any
  hidden,       \* restoredIds of the index
  job,          \* how far each archive handler has come
  calls,        \* serialize: the handlers whose calls are in the queue
  deleted,      \* history: items a PUT took away
  mishap,       \* history: a call that hides or shows copies was lost
  late,         \* history: a list that was noted before a wait was written,
                \* or a child was taken out of the archive while listed
  astray        \* history: rows that were put back without a look at the
                \* tree, or left behind by the one they stood under

past     == <<deleted, mishap, late, astray>>
archive  == <<copies, hidden, past>>
archvars == <<vars, archive, job, calls>>

Families == UNION {[S -> Rows] : S \in SUBSET Item}

(* ids: the items the handler is about; rows: what it captured, or took    *)
(* out; rest: what its call is to hide or has yet to take; latest: the     *)
(* list it noted before a wait.                                            *)
JobSteps ==
  {"idle", "append", "appended", "take", "rooted", "look", "found", "taken",
   "stale", "forget", "undo"}
JobKinds == {"cancel", "sweep", "unarchive", "revive"}

Jobs ==
  [at : JobSteps, kind : JobKinds, ids : SUBSET Item, rows : Families,
   rest : SUBSET Item, latest : Families]

NoRows == [x \in {} |-> x]
Idle == [at |-> "idle", kind |-> "cancel", ids |-> {}, rows |-> NoRows,
         rest |-> {}, latest |-> NoRows]

Archived == DOMAIN copies
Visible(i) == i \in Archived /\ i \notin hidden

Becomes(j, new) == job' = [job EXCEPT ![j] = new]
Ends(j) == Becomes(j, Idle)

(* serialize: a call is made, and is answered when its turn has come. *)
Calls(j, new) == Becomes(j, new) /\ calls' = Append(calls, j)
Answered(j) == calls # <<>> /\ Head(calls) = j /\ calls' = Tail(calls)

-----------------------------------------------------------------------------
(* The handlers up to their first await.                                   *)

Captured(kind, S) ==
  [Idle EXCEPT !.at = "append", !.kind = kind, !.ids = S,
               !.rows = [x \in S |-> list[x]]]

(* POST .../:id/cancel takes the children along. *)
CancelBegins(j, i) ==
  /\ job[j].at = "idle" /\ i \in Listed
  /\ list[i].status # "approved"
  /\ \A x \in {i} \cup ChildrenOf(list, i) : list[x].rev < MaxRev
  /\ Calls(j, Captured("cancel", {i} \cup ChildrenOf(list, i)))
  /\ UNCHANGED <<vars, archive>>

(* archivableWorkItemIds: approved rows, old enough, no family torn apart. *)
Archivable(S) ==
  \A i \in S :
    /\ list[i].status = "approved"
    /\ ChildrenOf(list, i) \subseteq S
    /\ list[i].parent \in Listed => list[i].parent \in S

SweepBegins(j, S) ==
  /\ job[j].at = "idle"
  /\ S # {} /\ Cardinality(S) <= MaxSweep /\ Archivable(S)
  /\ Calls(j, Captured("sweep", S))
  /\ UNCHANGED <<vars, archive>>

(* prependWithinCap *)
HasRoom == Cardinality(Listed) < Cap

Asks(kind, i, l) ==
  [Idle EXCEPT !.at = "take", !.kind = kind, !.ids = {i}, !.rest = {i}, !.latest = l]

(* POST .../archive/:id/restore *)
UnarchiveBegins(j, i) ==
  /\ job[j].at = "idle" /\ i \notin Listed /\ HasRoom
  /\ Calls(j, Asks("unarchive", i, NoRows))
  /\ UNCHANGED <<vars, archive>>

(* POST .../cancelled/:id/restore works on the list as it is now to the    *)
(* end.                                                                    *)
ReviveBegins(j, i) ==
  /\ job[j].at = "idle" /\ i \notin Listed
  /\ Calls(j, Asks("revive", i, list))
  /\ UNCHANGED <<vars, archive>>

-----------------------------------------------------------------------------
(* The calls of the archive.                                               *)

(* Cancelling notes it in the copy, and adds a line to its history. *)
CopyOf(kind, S, row) ==
  IF kind = "cancel" THEN [row EXCEPT !.cancelled = S, !.rev = @ + 1] ELSE row

AppendDone(j) ==
  /\ job[j].at = "append" /\ Answered(j)
  /\ LET S == job[j].ids
     IN  copies' = [x \in Archived \cup S |->
                      IF x \in S THEN CopyOf(job[j].kind, S, job[j].rows[x])
                                 ELSE copies[x]]
  /\ Becomes(j, [job[j] EXCEPT !.at = "appended"])
  /\ UNCHANGED <<vars, hidden, past>>

(* Nothing is in the index until the segment is written. *)
AppendFails(j) ==
  /\ job[j].at = "append" /\ Answered(j)
  /\ Ends(j)
  /\ UNCHANGED <<vars, archive>>

FirstCall(j) == calls # <<>> /\ Head(calls) = j
CallsAgain(j, new) == Becomes(j, new) /\ calls' = Append(Tail(calls), j)

Plus(rows, i) == [x \in DOMAIN rows \cup {i} |-> IF x = i THEN copies[i] ELSE rows[x]]
Minus(l, S) == [x \in DOMAIN l \ S |-> l[x]]

(* What the handler has when i was taken: it goes on, unless a child is    *)
(* still to be taken.                                                      *)
Took(j, i) == [job[j] EXCEPT !.rows = Plus(@, i), !.rest = @ \ {i}]

TakesOne(j, i) ==
  /\ hidden' = hidden \cup {i}
  /\ LET new == Took(j, i)
         at == IF new.kind = "revive" /\ new.ids = {i} THEN "rooted" ELSE "taken"
     IN  IF new.rest = {} THEN Becomes(j, [new EXCEPT !.at = at]) /\ calls' = Tail(calls)
                          ELSE CallsAgain(j, new)
  /\ late' = (late \/ i \in Listed \ job[j].ids)
  /\ UNCHANGED <<vars, copies, deleted, mishap, astray>>

(* A copy is taken though it has been taken before. *)
MutTake(j) ==
  /\ job[j].at = "take" /\ FirstCall(j)
  /\ \E i \in job[j].rest \cap Archived : TakesOne(j, i)

Take(j) ==
  /\ job[j].at = "take" /\ FirstCall(j)
  /\ \E i \in job[j].rest : Visible(i) /\ TakesOne(j, i)

(* Not in the archive, taken before, or the storage fails.  What was taken *)
(* so far is put back.                                                     *)
TakeRefused(j) ==
  /\ job[j].at = "take" /\ FirstCall(j)
  /\ IF job[j].rows = NoRows
       THEN Ends(j) /\ calls' = Tail(calls)
       ELSE CallsAgain(j, [job[j] EXCEPT !.at = "undo"])
  /\ UNCHANGED <<vars, archive>>

(* The copies that were made for nothing stay to be seen. *)
MutForget(j) ==
  /\ job[j].at = "forget" /\ Answered(j)
  /\ Ends(j)
  /\ UNCHANGED <<vars, archive>>

Forget(j) ==
  /\ job[j].at = "forget" /\ Answered(j)
  /\ hidden' = hidden \cup job[j].ids
  /\ Ends(j)
  /\ UNCHANGED <<vars, copies, past>>

(* undoAll: the rows go back one by one, each with a call of its own. *)
OneLess(j, i) ==
  LET new == [job[j] EXCEPT !.rows = Minus(@, {i})]
  IN  IF new.rows = NoRows THEN Ends(j) /\ calls' = Tail(calls) ELSE CallsAgain(j, new)

Undo(j) ==
  /\ job[j].at = "undo" /\ FirstCall(j)
  /\ \E i \in DOMAIN job[j].rows :
       hidden' = hidden \ {i} /\ OneLess(j, i)
  /\ UNCHANGED <<vars, copies, past>>

(* The storage fails under either, and the handler goes on all the same;   *)
(* where a sweep hides stale copies, that ends it.                         *)
CleanUpFails(j) ==
  /\ FirstCall(j)
  /\ \/ job[j].at \in {"stale", "forget"} /\ Ends(j) /\ calls' = Tail(calls)
     \/ job[j].at = "undo" /\ \E i \in DOMAIN job[j].rows : OneLess(j, i)
  /\ mishap' = TRUE
  /\ UNCHANGED <<vars, copies, hidden, deleted, late, astray>>

(* archive.list, which is not queued: the index is read in one turn, and   *)
(* the children that were cancelled with the root are known in another.    *)
Family(j) ==
  {c \in Archived : \E i \in job[j].ids :
     Visible(c) /\ copies[c].parent = i /\ copies[c].cancelled = job[j].rows[i].cancelled}

ReviveFinds(j) ==
  /\ job[j].at = "look"
  /\ Becomes(j, [job[j] EXCEPT !.at = "found", !.rest = Family(j)])
  /\ UNCHANGED <<vars, archive, calls>>

ReviveAsks(j) ==
  /\ job[j].at = "found"
  /\ IF job[j].rest = {} THEN Becomes(j, [job[j] EXCEPT !.at = "taken"]) /\ UNCHANGED calls
                         ELSE Calls(j, [job[j] EXCEPT !.at = "take"])
  /\ UNCHANGED <<vars, archive>>

-----------------------------------------------------------------------------
(* The handlers after their awaits.                                        *)

ListBecomes(new) == list' = new /\ UNCHANGED <<waiting, setup, overridden, slipped>>

(* The rows of S leave the list l, with those under them left behind. *)
Leave(l, S) ==
  /\ ListBecomes(Minus(l, S))
  /\ astray' = astray \cup {c \in DOMAIN l \ S : l[c].parent \in S}

(* It is enough that the row is still listed. *)
MutUnchanged(j) == job[j].ids \cap Listed

(* The captured rows that are still as they were captured. *)
Unchanged(j) == {x \in job[j].ids \cap Listed : list[x] = job[j].rows[x]}

(* All of a cancelled family, or all a sweep found, stands and is removed. *)
Removes(j) ==
  /\ job[j].at = "appended" /\ Unchanged(j) = job[j].ids
  /\ Leave(list, job[j].ids)
  /\ Ends(j)
  /\ UNCHANGED <<copies, hidden, deleted, mishap, late, calls>>

(* The commit fails: the list is put back and the copies must be hidden. *)
RemoveFails(j) ==
  /\ job[j].at = "appended" /\ Unchanged(j) = job[j].ids
  /\ Calls(j, [job[j] EXCEPT !.at = "forget"])
  /\ UNCHANGED <<vars, archive>>

(* Some row has changed: 409, and the copies must be hidden. *)
CancelConflict(j) ==
  /\ job[j].at = "appended" /\ job[j].kind = "cancel"
  /\ Unchanged(j) # job[j].ids
  /\ Calls(j, [job[j] EXCEPT !.at = "forget"])
  /\ UNCHANGED <<vars, archive>>

(* The sweep notes the list and the rows that stand, and hides the others. *)
SweepStale(j) ==
  /\ job[j].at = "appended" /\ job[j].kind = "sweep"
  /\ Unchanged(j) # job[j].ids
  /\ Calls(j, [job[j] EXCEPT !.at = "stale", !.rest = job[j].ids \ Unchanged(j),
                             !.latest = list])
  /\ UNCHANGED <<vars, archive>>

(* Then it writes the list it noted before it waited for that, less the    *)
(* rows that stood; if the commit fails, the list it noted.                *)
SweepHides(j) ==
  /\ job[j].at = "stale" /\ FirstCall(j)
  /\ hidden' = hidden \cup job[j].rest
  /\ LET moved == job[j].ids \ job[j].rest
     IN  \/ /\ moved = {}
            /\ Ends(j) /\ calls' = Tail(calls)
            /\ UNCHANGED <<vars, late, astray>>
         \/ /\ moved # {}
            /\ Ends(j) /\ calls' = Tail(calls)
            /\ Leave(job[j].latest, moved) /\ late' = TRUE
         \/ /\ moved # {}
            /\ CallsAgain(j, [job[j] EXCEPT !.at = "forget", !.ids = moved])
            /\ Leave(job[j].latest, {}) /\ late' = TRUE
  /\ UNCHANGED <<copies, deleted, mishap>>

(* The rows of S are in the list again, over whatever was put under them.  *)
Return(next, S) ==
  /\ ListBecomes(next)
  /\ astray' = astray \cup {x \in DOMAIN next : x \in S \/ next[x].parent \in S}

(* The room that was there before the archive was asked is counted on. *)
MutStillRoom(j) == TRUE

(* The cap is asked for again after the await. *)
StillRoom(j) == HasRoom

PutBack(j) ==
  /\ job[j].at = "taken" /\ job[j].kind = "unarchive" /\ StillRoom(j)
  /\ \E i \in job[j].ids : Return(With(i, job[j].rows[i]), {i})
  /\ Ends(j)
  /\ UNCHANGED <<copies, hidden, deleted, mishap, late, calls>>

(* A root is revived if it was cancelled, and if the one it stands under   *)
(* was in the list when the handler began.                                 *)
ReviveLooks(j) ==
  /\ job[j].at = "rooted"
  /\ \A i \in job[j].ids :
       /\ job[j].rows[i].cancelled # {}
       /\ job[j].rows[i].parent \in {NoItem} \cup DOMAIN job[j].latest
  /\ Becomes(j, [job[j] EXCEPT !.at = "look"])
  /\ UNCHANGED <<vars, archive, calls>>

Revived(row) == [row EXCEPT !.cancelled = {}, !.rev = @ + 1]

(* The rows are put in front of the list as it was when the handler began. *)
ReviveWrites(j) ==
  LET rows == job[j].rows
      latest == job[j].latest
      next == [x \in DOMAIN latest \cup DOMAIN rows |->
                 IF x \in DOMAIN rows THEN Revived(rows[x]) ELSE latest[x]]
  IN  /\ job[j].at = "taken" /\ job[j].kind = "revive"
      /\ \A x \in DOMAIN rows : rows[x].rev < MaxRev
      /\ Cardinality(DOMAIN latest) + Cardinality(DOMAIN rows) <= Cap
      /\ Return(next, DOMAIN rows)
      /\ late' = (late \/ list # latest)
      /\ Ends(j)
      /\ UNCHANGED <<copies, hidden, deleted, mishap, calls>>

(* The list is full, the root may not be revived, or the commit fails. *)
PutBackFails(j) ==
  /\ job[j].at \in {"rooted", "taken"}
  /\ Calls(j, [job[j] EXCEPT !.at = "undo"])
  /\ UNCHANGED <<vars, archive>>

(* archive.list fails. *)
LookFails(j) ==
  /\ job[j].at \in {"look", "found"}
  /\ Calls(j, [job[j] EXCEPT !.at = "undo"])
  /\ UNCHANGED <<vars, archive>>

(* The server stops and starts again.  What was going on is forgotten; the *)
(* files and the list stay as they are.                                    *)
Restart ==
  /\ job' = [j \in Job |-> Idle]
  /\ mishap' = (mishap \/ \E j \in Job : job[j].at # "idle")
  /\ waiting' = {} /\ calls' = <<>>
  /\ UNCHANGED <<list, setup, overridden, slipped, copies, hidden, deleted, late, astray>>

-----------------------------------------------------------------------------
ArchiveInit ==
  /\ Init
  /\ copies = NoRows /\ hidden = {}
  /\ job = [j \in Job |-> Idle] /\ calls = <<>>
  /\ deleted = {} /\ mishap = FALSE /\ late = FALSE /\ astray = {}

(* An id is minted once: it is not one that was removed or archived. *)
NeverUsed(i) ==
  /\ i \notin deleted \cup Archived
  /\ \A j \in Job : i \notin job[j].ids

Adds ==
  /\ "add" \in setup.routes
  /\ \E i \in Item, p \in Item \cup {NoItem}, said \in setup.contents :
       NeverUsed(i) /\ Add(i, p, said)

Deletes(S, T) ==
  /\ "remove" \in setup.routes /\ Remove(S, T)
  /\ deleted' = deleted \cup S
  /\ UNCHANGED <<copies, hidden, job, calls, mishap, late, astray>>

Begins(j) ==
  \E i \in Item :
    \/ "cancel" \in setup.routes /\ CancelBegins(j, i)
    \/ "unarchive" \in setup.routes /\ UnarchiveBegins(j, i)
    \/ "revive" \in setup.routes /\ ReviveBegins(j, i)

ArchiveTurn(j) ==
  \/ Begins(j)
  \/ "sweep" \in setup.routes /\ \E S \in SUBSET Listed : SweepBegins(j, S)
  \/ AppendDone(j) \/ AppendFails(j) \/ Take(j) \/ TakeRefused(j)
  \/ ReviveFinds(j) \/ ReviveAsks(j) \/ LookFails(j)
  \/ SweepHides(j)
  \/ Forget(j) \/ Undo(j) \/ CleanUpFails(j)

GoesOn(j) ==
  \/ Removes(j) \/ RemoveFails(j) \/ CancelConflict(j) \/ SweepStale(j)
  \/ PutBack(j) \/ ReviveLooks(j) \/ ReviveWrites(j) \/ PutBackFails(j)

(* A handler whose call was answered goes on before anybody else has a     *)
(* turn; the server can stop in between.                                   *)
NobodyGoesOn == \A j \in Job : job[j].at \notin {"appended", "rooted", "taken"}

ArchiveNext ==
  \/ NobodyGoesOn /\ (ItemTurn \/ Adds) /\ UNCHANGED <<archive, job, calls>>
  \/ NobodyGoesOn /\ \E S, T \in SUBSET Listed : Deletes(S, T)
  \/ NobodyGoesOn /\ \E j \in Job : ArchiveTurn(j)
  \/ \E j \in Job : GoesOn(j)
  \/ Restart

ArchiveSpec == ArchiveInit /\ [][ArchiveNext]_archvars

-----------------------------------------------------------------------------
ArchiveTypeOK ==
  /\ TypeOK
  /\ Archived \subseteq Item /\ copies \in [Archived -> Rows]
  /\ hidden \subseteq Item /\ deleted \subseteq Item /\ astray \subseteq Item
  /\ \A j \in Job :
       /\ job[j].at \in JobSteps /\ job[j].kind \in JobKinds
       /\ job[j].ids \subseteq Item /\ job[j].rest \subseteq Item
  /\ calls \in Seq(Job)
  /\ mishap \in BOOLEAN /\ late \in BOOLEAN

Quiet == \A j \in Job : job[j].at = "idle"

TreeOf(l, apart) ==
  \A i \in DOMAIN l \ apart :
    LET p == l[i].parent
    IN  p # NoItem => p \in DOMAIN l /\ l[p].parent = NoItem

(* A child's parent is in the list and stands on its own: no orphan and no *)
(* third level, after any series of calls of any handlers.  The rows that  *)
(* may stand otherwise are those that a restore put back, which does not   *)
(* look where, with those it was put over, and those that were put under   *)
(* an item, or changed, while that was on its way to the archive.  No      *)
(* other handler makes it worse, or takes the parent of a row away.        *)
TreeStands == TreeOf(list, astray)

DoneOf(l, apart) ==
  \A i \in DOMAIN l : l[i].status \in Closed => OpenSubtasks(l, i) \subseteq apart

(* No item is reported or approved while one of its children is open: an   *)
(* approved item is 100% done.  The open children it may have are those    *)
(* put under it while its report waited for the storage, and those that    *)
(* came back from the archive or were left behind when it went there.      *)
ClosedMeansDone == ~overridden => DoneOf(list, astray \cup slipped)

(* A row that stays in the list never goes back to an earlier revision:    *)
(* no handler that waited writes a row as it was before it waited, but for *)
(* a sweep and a revival that write a list they noted.                     *)
HistoryOnlyGrows ==
  [][\A i \in Listed \cap Listed' : list'[i].rev >= list[i].rev \/ late']_archvars

(* A row that no PUT deleted leaves the list only when the newest copy in  *)
(* the archive is that row as it stood at that moment, whatever the other  *)
(* handlers did to it, or to its family, while the copy was being made.    *)
LeavesAsItStands ==
  [][\A i \in Listed \ Listed' :
       i \in deleted' \/ late' \/
       \E kind \in JobKinds, S \in SUBSET Item :
         i \in Archived' /\ copies'[i] = CopyOf(kind, S, list[i])]_archvars

(* The list never grows past the cap, though restores ask for room before  *)
(* they wait for the archive.                                              *)
CapHolds == Cardinality(Listed) <= Cap

(* When no archive handler is under way, no row is both listed and to be   *)
(* seen in the archive, unless a clean-up was lost.                        *)
InOnePlace ==
  Quiet /\ ~mishap /\ ~late => \A i \in Listed : ~Visible(i)

(* A row that was taken out of the archive is listed by nobody but the     *)
(* handler that took it: a restore never replaces a row or doubles it.     *)
TakenIsNotListed ==
  ~late =>
    \A j \in Job : job[j].at = "taken" => job[j].ids \cap Listed = {}

(* What a revival takes is not listed, though it does not look whether the *)
(* children are, unless a clean-up was lost: they would be listed twice.   *)
FamilyIsNotListed ==
  ~mishap /\ ~late =>
    \A j \in Job : job[j].at = "take" /\ FirstCall(j) =>
      job[j].rest \cap Listed \subseteq hidden

=============================================================================
