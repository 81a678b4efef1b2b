------------------------------ MODULE WorkProofs ------------------------------
(***************************************************************************)
(* The work items and their archive, for any number of items, people,      *)
(* reports that wait and archive handlers, and for handlers that call each *)
(* other in any order.                                                     *)
(*                                                                         *)
(* What is claimed of the list (ListOK) must hold of every list that may   *)
(* become it: a sweep and a revival write a list they noted before they    *)
(* waited.  It stays true of a noted list, because the exceptions only     *)
(* grow.  The reports that are claimed to stand must do so in every row    *)
(* that may come back: in the copies, and in what a handler took or noted  *)
(* (RowsLawful).  A report that waits was reportable when it began         *)
(* (WaitingInv).                                                           *)
(*                                                                         *)
(* The rest is what a handler may rely on while it waits: the copies it    *)
(* made are of the rows it captured (CopyInv); the rows it took are        *)
(* hidden, are held by nobody else and are not listed (TakeInv); and a row *)
(* that is both listed and to be seen is one that some handler is about to *)
(* remove or to hide (PlaceInv).                                           *)
(***************************************************************************)
EXTENDS WorkArchive, FiniteSetTheorems, TLAPS

USE WorkItemsAssumption, ArchiveAssumption

-----------------------------------------------------------------------------
(* What is said of one list, whatever list it is: A are the rows that may  *)
(* stand anywhere, B the open children a closed item may have, and o says  *)
(* that an administrator rewrote rows.                                     *)

RowsLawful(l) ==
  \A x \in DOMAIN l : l[x].status \in Closed => l[x].checked /\ l[x].reporter = l[x].owner

ListOK(l, A, B, o) ==
  /\ l \in Families
  /\ IsFiniteSet(DOMAIN l) /\ Cardinality(DOMAIN l) <= Cap
  /\ TreeOf(l, A)
  /\ ~o => DoneOf(l, B) /\ RowsLawful(l)

(* A function of rows is one of the families, and the other way round. *)
LEMMA FamilyType ==
  ASSUME NEW S \in SUBSET Item, NEW f \in [S -> Rows]
  PROVE  f \in Families
<1>1. [S -> Rows] \in {[T -> Rows] : T \in SUBSET Item}
  OBVIOUS
<1> QED
  BY <1>1 DEF Families

LEMMA FamilyParts ==
  ASSUME NEW f \in Families
  PROVE  DOMAIN f \subseteq Item /\ f \in [DOMAIN f -> Rows]
  BY DEF Families

(* A list that loses rows still fits. *)
LEMMA FewerFit ==
  ASSUME NEW S, NEW T \in SUBSET S, IsFiniteSet(S), Cardinality(S) <= Cap
  PROVE  IsFiniteSet(T) /\ Cardinality(T) <= Cap
<1>1. IsFiniteSet(T) /\ Cardinality(T) <= Cardinality(S)
  BY FS_Subset
<1>2. Cardinality(S) \in Nat /\ Cardinality(T) \in Nat
  BY <1>1, FS_CardinalityType
<1> QED
  BY <1>1, <1>2

LEMMA NothingIsOK ==
  ASSUME NEW A, NEW B, NEW o
  PROVE  ListOK(NoRows, A, B, o) /\ DOMAIN NoRows = {}
<1>1. DOMAIN NoRows = {} /\ NoRows \in [{} -> Rows]
  BY DEF NoRows
<1>2. NoRows \in Families
  BY <1>1, FamilyType
<1>3. IsFiniteSet({}) /\ Cardinality({}) = 0
  BY FS_EmptySet
<1>4. TreeOf(NoRows, A) /\ DoneOf(NoRows, B) /\ RowsLawful(NoRows)
  BY <1>1 DEF TreeOf, DoneOf, RowsLawful
<1> QED
  BY <1>1, <1>2, <1>3, <1>4 DEF ListOK

(* The exceptions only grow. *)
LEMMA StaysOK ==
  ASSUME NEW l, NEW A, NEW B, NEW o, NEW A2, NEW B2, NEW o2,
         ListOK(l, A, B, o), A \subseteq A2, B \subseteq B2, o => o2
  PROVE  ListOK(l, A2, B2, o2)
  BY DEF ListOK, TreeOf, DoneOf

(* Rows leave: those they leave behind are excepted from then on. *)
LEMMA MinusOK ==
  ASSUME NEW l, NEW A, NEW B, NEW o, ListOK(l, A, B, o), NEW S, NEW A2, NEW B2,
         A \cup {c \in DOMAIN l \ S : l[c].parent \in S} \subseteq A2, B \subseteq B2
  PROVE  ListOK(Minus(l, S), A2, B2, o) /\ DOMAIN Minus(l, S) = DOMAIN l \ S
<1> DEFINE m == Minus(l, S)
<1>1. DOMAIN m = DOMAIN l \ S /\ \A x \in DOMAIN m : m[x] = l[x]
  BY DEF Minus
<1>2. DOMAIN l \subseteq Item /\ l \in [DOMAIN l -> Rows]
  BY FamilyParts DEF ListOK
<1>3. m \in [DOMAIN l \ S -> Rows]
  BY <1>2 DEF Minus
<1>4. m \in Families
  BY <1>2, <1>3, FamilyType
<1>5. IsFiniteSet(DOMAIN m) /\ Cardinality(DOMAIN m) <= Cap
  BY <1>1, FewerFit DEF ListOK
<1> HIDE DEF m
<1>6. TreeOf(m, A2)
  BY <1>1 DEF TreeOf, ListOK
<1>7. ~o => DoneOf(m, B2) /\ RowsLawful(m)
  BY <1>1 DEF DoneOf, RowsLawful, OpenSubtasks, ChildrenOf, ListOK
<1> QED
  BY <1>1, <1>4, <1>5, <1>6, <1>7 DEF ListOK, m

(* Rows come back: they, and those that stand under them, are excepted. *)
LEMMA ReturnOK ==
  ASSUME NEW l, NEW A, NEW B, NEW o, ListOK(l, A, B, o), NEW S, NEW next,
         DOMAIN next = DOMAIN l \cup S, next \in Families,
         \A x \in DOMAIN next \ S : next[x] = l[x],
         IsFiniteSet(DOMAIN next), Cardinality(DOMAIN next) <= Cap,
         ~o => \A x \in S : next[x].status \in Closed =>
                 next[x].checked /\ next[x].reporter = next[x].owner,
         NEW A2, NEW B2,
         A \cup {x \in DOMAIN next : x \in S \/ next[x].parent \in S} \subseteq A2,
         B \cup {x \in DOMAIN next : x \in S \/ next[x].parent \in S} \subseteq B2
  PROVE  ListOK(next, A2, B2, o)
<1>1. TreeOf(next, A2)
  <2> SUFFICES ASSUME NEW i \in DOMAIN next, i \notin A2, next[i].parent # NoItem
               PROVE  next[i].parent \in DOMAIN next /\ next[next[i].parent].parent = NoItem
    BY DEF TreeOf
  <2>1. i \in DOMAIN l /\ i \notin S /\ next[i] = l[i] /\ l[i].parent \notin S /\ i \notin A
    OBVIOUS
  <2>2. l[i].parent \in DOMAIN l /\ l[l[i].parent].parent = NoItem
    BY <2>1 DEF TreeOf, ListOK
  <2> QED
    BY <2>1, <2>2
<1>2. ASSUME ~o PROVE DoneOf(next, B2) /\ RowsLawful(next)
  <2>1. RowsLawful(next)
    BY <1>2 DEF RowsLawful, ListOK
  <2>2. ASSUME NEW i \in DOMAIN next, next[i].status \in Closed,
               NEW c \in DOMAIN next, next[c].parent = i, next[c].status # "approved"
        PROVE  c \in B2
    <3>1. CASE c \in S \/ i \in S
      BY <2>2, <3>1
    <3>2. CASE c \notin S /\ i \notin S
      <4>1. /\ c \in DOMAIN l /\ i \in DOMAIN l /\ next[c] = l[c] /\ next[i] = l[i]
        BY <2>2, <3>2
      <4>2. c \in OpenSubtasks(l, i)
        BY <2>2, <4>1 DEF OpenSubtasks, ChildrenOf
      <4> QED
        BY <1>2, <2>2, <4>1, <4>2 DEF DoneOf, ListOK
    <3> QED
      BY <3>1, <3>2
  <2> QED
    BY <2>1, <2>2 DEF DoneOf, OpenSubtasks, ChildrenOf
<1> QED
  BY <1>1, <1>2 DEF ListOK

(* What may be written into the row of an item: it is closed only where it *)
(* may be, and not opened again once it is approved.                       *)
Lawful(l, i, row, B) ==
  /\ row.status \in Closed =>
       row.checked /\ row.reporter = row.owner /\ OpenSubtasks(l, i) \subseteq B
  /\ l[i].status = "approved" => row.status = "approved"

(* One row changes, and stays where it stands. *)
LEMMA RowOK ==
  ASSUME NEW l, NEW A, NEW B, NEW o, ListOK(l, A, B, o),
         NEW i \in DOMAIN l, NEW row \in Rows, row.parent = l[i].parent,
         NEW B2, B \subseteq B2, NEW o2, o => o2,
         ~o2 => Lawful(l, i, row, B2),
         NEW next, next = [l EXCEPT ![i] = row]
  PROVE  ListOK(next, A, B2, o2)
<1>1. DOMAIN l \subseteq Item /\ l \in [DOMAIN l -> Rows]
  BY FamilyParts DEF ListOK
<1>2. next \in [DOMAIN l -> Rows] /\ DOMAIN next = DOMAIN l
  BY <1>1
<1>3. \A x \in DOMAIN l : next[x] = IF x = i THEN row ELSE l[x]
  BY <1>1
<1>4. next \in Families
  BY <1>1, <1>2, FamilyType
<1>5. TreeOf(next, A)
  BY <1>2, <1>3 DEF TreeOf, ListOK
<1>6. ASSUME ~o2 PROVE DoneOf(next, B2) /\ RowsLawful(next)
  <2>1. RowsLawful(next)
    BY <1>2, <1>3, <1>6 DEF RowsLawful, ListOK, Lawful
  <2>2. ASSUME NEW x \in DOMAIN l, next[x].status \in Closed,
               NEW c \in DOMAIN l, next[c].parent = x, next[c].status # "approved"
        PROVE  c \in B2
    <3>1. l[c].parent = x /\ l[c].status # "approved"
      BY <1>3, <1>6, <2>2 DEF Lawful
    <3>2. c \in OpenSubtasks(l, x)
      BY <3>1 DEF OpenSubtasks, ChildrenOf
    <3>3. CASE x = i
      BY <1>3, <1>6, <2>2, <3>2, <3>3 DEF Lawful
    <3>4. CASE x # i
      BY <1>3, <1>6, <2>2, <3>2, <3>4 DEF DoneOf, ListOK
    <3> QED
      BY <3>3, <3>4
  <2> QED
    BY <1>2, <2>1, <2>2 DEF DoneOf, OpenSubtasks, ChildrenOf
<1> QED
  BY <1>2, <1>4, <1>5, <1>6 DEF ListOK

Says4(new, old) ==
  /\ new.status = old.status /\ new.checked = old.checked
  /\ new.owner = old.owner /\ new.reporter = old.reporter

(* A list that is checked as a whole, and keeps what the rows say but for  *)
(* where they stand; an item is new and unworked, or o2 is true.           *)
LEMMA EditOK ==
  ASSUME NEW l, NEW A, NEW B, NEW o, ListOK(l, A, B, o),
         NEW next \in Families, IsFiniteSet(DOMAIN next), Cardinality(DOMAIN next) <= Cap,
         ~TreeViolation(next, l), NEW o2, o => o2,
         \A x \in DOMAIN next \cap DOMAIN l : Says4(next[x], l[x]),
         ~o2 => \A x \in DOMAIN next \ DOMAIN l : next[x].status \in Open
  PROVE  ListOK(next, A, B, o2)
<1>1. TreeOf(next, A)
  BY DEF TreeOf, TreeViolation
<1>2. ASSUME ~o2 PROVE DoneOf(next, B) /\ RowsLawful(next)
  <2>1. RowsLawful(next)
    BY <1>2 DEF RowsLawful, ListOK, Says4, Open, Closed
  <2>2. ASSUME NEW x \in DOMAIN next, next[x].status \in Closed,
               NEW c \in DOMAIN next, next[c].parent = x, next[c].status # "approved"
        PROVE  c \in B
    <3>1. x \in DOMAIN l /\ l[x].status \in Closed
      BY <1>2, <2>2 DEF Says4, Open, Closed
    <3>2. x # NoItem
      BY <3>1, FamilyParts DEF ListOK
    <3>3. c \in DOMAIN l /\ l[c].parent = x
      BY <2>2, <3>2 DEF TreeViolation
    <3>4. c \in OpenSubtasks(l, x)
      BY <2>2, <3>3 DEF OpenSubtasks, ChildrenOf, Says4
    <3> QED
      BY <1>2, <3>1, <3>4 DEF DoneOf, ListOK
  <2> QED
    BY <2>1, <2>2 DEF DoneOf, OpenSubtasks, ChildrenOf
<1> QED
  BY <1>1, <1>2 DEF ListOK

(* A new item that stands on its own, and is unworked unless o2 is true. *)
LEMMA NewOK ==
  ASSUME NEW l, NEW A, NEW B, NEW o, ListOK(l, A, B, o), NEW i \in Item, i \notin DOMAIN l,
         NEW next \in Families, DOMAIN next = DOMAIN l \cup {i},
         \A x \in DOMAIN l : next[x] = l[x], next[i].parent = NoItem,
         IsFiniteSet(DOMAIN next), Cardinality(DOMAIN next) <= Cap,
         NEW o2, o => o2, ~o2 => next[i].status \in Open
  PROVE  ListOK(next, A, B, o2)
<1>1. TreeOf(next, A)
  BY DEF TreeOf, ListOK
<1>2. ASSUME ~o2 PROVE DoneOf(next, B) /\ RowsLawful(next)
  <2>1. RowsLawful(next)
    BY <1>2 DEF RowsLawful, ListOK, Open, Closed
  <2>2. ASSUME NEW x \in DOMAIN next, next[x].status \in Closed,
               NEW c \in DOMAIN next, next[c].parent = x, next[c].status # "approved"
        PROVE  c \in B
    <3>1. x \in DOMAIN l /\ x # i
      BY <1>2, <2>2 DEF Open, Closed
    <3>2. c \in DOMAIN l
      BY <2>2, FamilyParts
    <3>3. c \in OpenSubtasks(l, x)
      BY <2>2, <3>2 DEF OpenSubtasks, ChildrenOf
    <3> QED
      BY <1>2, <2>2, <3>1, <3>3 DEF DoneOf, ListOK
  <2> QED
    BY <2>1, <2>2 DEF DoneOf, OpenSubtasks, ChildrenOf
<1> QED
  BY <1>1, <1>2 DEF ListOK

-----------------------------------------------------------------------------
(* The handlers of WorkItems.                                              *)

WaitingInv == \A w \in waiting : w.row.status = "working" /\ w.row.checked

(* The parts of the invariant these handlers touch. *)
ItemsInv ==
  /\ TypeOK /\ WaitingInv
  /\ ListOK(list, astray, astray \cup slipped, overridden)

(* The step property in its plain form. *)
HistoryGrows == \A i \in Listed \cap Listed' : list'[i].rev >= list[i].rev

(* What such a handler keeps. *)
Kept ==
  /\ TypeOK' /\ WaitingInv'
  /\ ListOK(list', astray, astray \cup slipped', overridden')
  /\ slipped \subseteq slipped' /\ (overridden => overridden')
  /\ HistoryGrows

(* One row is written, and stays where it stands. *)
LEMMA RowStep ==
  ASSUME ItemsInv, NEW i \in Listed, NEW row \in Rows,
         list' = [list EXCEPT ![i] = row],
         row.parent = list[i].parent, row.rev >= list[i].rev,
         waiting' \subseteq waiting, setup' = setup,
         overridden' \in BOOLEAN, overridden => overridden',
         slipped \subseteq slipped', slipped' \subseteq Item,
         ~overridden' => Lawful(list, i, row, astray \cup slipped')
  PROVE  Kept /\ Listed' = Listed
<1>1. list' \in [Listed -> Rows] /\ Listed' = Listed /\ Listed \subseteq Item
  BY DEF ItemsInv, TypeOK, Listed
<1>2. TypeOK' /\ WaitingInv'
  BY <1>1 DEF ItemsInv, TypeOK, WaitingInv
<1>3. ListOK(list', astray, astray \cup slipped', overridden')
  <2> DEFINE B1 == astray \cup slipped
             B2 == astray \cup slipped'
  <2>1. /\ B1 \subseteq B2 /\ i \in DOMAIN list /\ ListOK(list, astray, B1, overridden)
        /\ ~overridden' => Lawful(list, i, row, B2)
    BY DEF Listed, ItemsInv
  <2> HIDE DEF B1, B2
  <2>2. ListOK(list', astray, B2, overridden')
    BY ONLY <2>1, RowOK, row \in Rows, row.parent = list[i].parent,
            list' = [list EXCEPT ![i] = row], overridden => overridden'
  <2> QED
    BY <2>2 DEF B2
<1>4. HistoryGrows
  <2>1. \A x \in Listed : list'[x] = IF x = i THEN row ELSE list[x]
    BY DEF ItemsInv, TypeOK
  <2>2. \A x \in Listed : list[x].rev \in Nat
    BY DEF ItemsInv, TypeOK, Rows
  <2> QED
    BY <2>1, <2>2 DEF HistoryGrows
<1> QED
  BY <1>1, <1>2, <1>3, <1>4 DEF Kept

(* The same, with a line in the history of the row. *)
LEMMA ChangeKeeps ==
  ASSUME ItemsInv, NEW i \in Listed, NEW row \in Rows, Change(i, row),
         row.rev = list[i].rev, row.parent = list[i].parent,
         ~overridden => Lawful(list, i, row, astray \cup slipped)
  PROVE  Kept /\ Listed' = Listed
<1> DEFINE new == [row EXCEPT !.rev = @ + 1]
<1>1. /\ list' = [list EXCEPT ![i] = new] /\ list[i].rev < MaxRev
      /\ UNCHANGED <<waiting, setup, overridden, slipped>>
  BY DEF Change
<1>2. /\ new \in Rows /\ new.rev = row.rev + 1 /\ row.rev \in Nat
      /\ new.parent = row.parent /\ new.status = row.status /\ new.checked = row.checked
      /\ new.reporter = row.reporter /\ new.owner = row.owner
  BY <1>1 DEF Rows
<1> HIDE DEF new
<1>3. /\ new.rev >= list[i].rev /\ new.parent = list[i].parent
      /\ ~overridden' => Lawful(list, i, new, astray \cup slipped')
  BY <1>1, <1>2 DEF Lawful
<1>4. overridden' \in BOOLEAN /\ slipped' \subseteq Item
  BY <1>1 DEF ItemsInv, TypeOK
<1> QED
  BY <1>1, <1>2, <1>3, <1>4, RowStep

(* While nothing was overridden, a closed row may be written again as it   *)
(* stands.                                                                 *)
LEMMA AsItStands ==
  ASSUME ItemsInv, NEW i \in Listed
  PROVE  /\ list[i] \in Rows
         /\ ~overridden => Lawful(list, i, list[i], astray \cup slipped)
  BY DEF ItemsInv, TypeOK, ListOK, DoneOf, RowsLawful, Lawful, Listed

LEMMA RowHandlersKeep ==
  ASSUME ItemsInv, NEW i \in Item,
         \/ Accept(i) \/ SubmitAtOnce(i) \/ Approve(i) \/ RequestChanges(i)
         \/ Comment(i) \/ \E o \in People : HandOver(i, o)
  PROVE  Kept /\ Listed' = Listed
<1>1. i \in Listed
  BY DEF Accept, SubmitAtOnce, Reportable, Approve, RequestChanges, Comment, HandOver
<1>2. list[i] \in Rows /\ (~overridden => Lawful(list, i, list[i], astray \cup slipped))
  BY <1>1, AsItStands
<1>3. CASE Accept(i) \/ RequestChanges(i)
  <2> DEFINE row == [list[i] EXCEPT !.status = "working"]
  <2>1. row \in Rows /\ row.rev = list[i].rev /\ row.parent = list[i].parent /\ Change(i, row)
    BY <1>2, <1>3 DEF Accept, RequestChanges, Rows, Statuses
  <2>2. Lawful(list, i, row, astray \cup slipped)
    BY <1>2, <1>3 DEF Accept, RequestChanges, Rows, Closed, Lawful
  <2> QED
    BY <1>1, <2>1, <2>2, ChangeKeeps
<1>4. CASE SubmitAtOnce(i)
  <2> DEFINE row == Reported(list[i])
  <2>1. row \in Rows /\ row.rev = list[i].rev /\ row.parent = list[i].parent /\ Change(i, row)
    BY <1>2, <1>4 DEF SubmitAtOnce, Reported, Rows, Statuses
  <2>2. Lawful(list, i, row, astray \cup slipped)
    BY <1>2, <1>4 DEF SubmitAtOnce, Reportable, Reported, Rows, Lawful
  <2> QED
    BY <1>1, <2>1, <2>2, ChangeKeeps
<1>5. CASE Approve(i)
  <2> DEFINE row == [list[i] EXCEPT !.status = "approved"]
  <2>1. row \in Rows /\ row.rev = list[i].rev /\ row.parent = list[i].parent /\ Change(i, row)
    BY <1>2, <1>5 DEF Approve, Rows, Statuses
  <2>2. ~overridden => Lawful(list, i, row, astray \cup slipped)
    BY <1>2, <1>5 DEF Approve, Rows, Closed, Lawful
  <2> QED
    BY <1>1, <2>1, <2>2, ChangeKeeps
<1>6. CASE Comment(i)
  BY <1>1, <1>2, <1>6, ChangeKeeps DEF Comment
<1>7. ASSUME NEW o \in People, HandOver(i, o) PROVE Kept /\ Listed' = Listed
  <2> DEFINE row == [list[i] EXCEPT !.owner = o]
  <2>1. row \in Rows /\ row.rev = list[i].rev /\ row.parent = list[i].parent /\ Change(i, row)
    BY <1>2, <1>7 DEF HandOver, Rows
  <2>2. Lawful(list, i, row, astray \cup slipped)
    BY <1>2, <1>7 DEF HandOver, Rows, Open, Closed, Lawful
  <2> QED
    BY <1>1, <2>1, <2>2, ChangeKeeps
<1> QED
  BY <1>3, <1>4, <1>5, <1>6, <1>7

(* A tick of a check is not in the history. *)
LEMMA TickKeeps ==
  ASSUME ItemsInv, NEW i \in Item, Tick(i)
  PROVE  Kept /\ Listed' = Listed
<1> DEFINE row == [list[i] EXCEPT !.checked = ~@]
<1>1. /\ i \in Listed /\ list[i] \in Rows /\ list[i].status \notin Closed
      /\ list' = [list EXCEPT ![i].checked = ~@]
      /\ UNCHANGED <<waiting, setup, overridden, slipped>>
  BY DEF Tick, ItemsInv, TypeOK
<1>2. /\ row \in Rows /\ row.rev = list[i].rev /\ row.parent = list[i].parent /\ row.rev \in Nat
      /\ row.status = list[i].status
  <2> DEFINE tick == ~list[i].checked
  <2>1. tick \in BOOLEAN
    OBVIOUS
  <2>2. row = [list[i] EXCEPT !.checked = tick]
    OBVIOUS
  <2> HIDE DEF tick, row
  <2> QED
    BY <1>1, <2>1, <2>2 DEF Rows
<1>3. list' = [list EXCEPT ![i] = row]
  BY <1>1 DEF ItemsInv, TypeOK, Rows
<1> HIDE DEF row
<1>4. Lawful(list, i, row, astray \cup slipped')
  BY <1>1, <1>2 DEF Lawful
<1>5. row.rev >= list[i].rev /\ overridden' \in BOOLEAN /\ slipped' \subseteq Item
  BY <1>1, <1>2 DEF ItemsInv, TypeOK
<1> QED
  BY <1>1, <1>2, <1>3, <1>4, <1>5, RowStep

(* An administrator's PUT that rewrites a row. *)
LEMMA OverrideKeeps ==
  ASSUME ItemsInv, NEW i \in Item, NEW said \in Says, Override(i, said)
  PROVE  Kept /\ Listed' = Listed
<1> DEFINE row == [list[i] EXCEPT !.status = said.status, !.owner = said.owner,
                     !.reporter = said.reporter, !.checked = said.checked, !.rev = @ + 1]
<1>1. /\ i \in Listed /\ list[i] \in Rows /\ list[i].rev < MaxRev
      /\ AcceptedList([list EXCEPT ![i] = row])
      /\ overridden' = TRUE /\ UNCHANGED <<waiting, setup, slipped>>
  BY DEF Override, ItemsInv, TypeOK
<1>2. row \in Rows /\ row.rev = list[i].rev + 1 /\ list[i].rev \in Nat /\ row.parent = list[i].parent
  <2>1. list[i].rev + 1 \in 0..MaxRev /\ list[i].rev \in Nat
    BY <1>1 DEF Rows
  <2> QED
    BY <1>1, <2>1 DEF Rows, Says
<1> HIDE DEF row
<1>3. list' = [list EXCEPT ![i] = row]
  BY <1>1, Zenon DEF AcceptedList
<1>4. row.rev >= list[i].rev /\ slipped' \subseteq Item
  BY <1>1, <1>2 DEF ItemsInv, TypeOK
<1> QED
  BY <1>1, <1>2, <1>3, <1>4, RowStep

(* An item is put elsewhere; both ways check the list they make. *)
LEMMA ReparentKeeps ==
  ASSUME ItemsInv, NEW i \in Item, NEW p \in Item \cup {NoItem}, Move(i, p) \/ Reparent(i, p)
  PROVE  Kept /\ Listed' = Listed
<1> DEFINE row == [list[i] EXCEPT !.parent = p]
<1>1. /\ i \in Listed /\ list[i] \in Rows
      /\ list' = [list EXCEPT ![i].parent = p] /\ ~TreeViolation(list', list)
      /\ UNCHANGED <<waiting, setup, overridden, slipped>>
  BY DEF Move, Reparent, AcceptedList, ItemsInv, TypeOK
<1>2. row \in Rows /\ Says4(row, list[i]) /\ row.rev = list[i].rev
  BY <1>1 DEF Rows, Says4
<1>3. /\ Listed' = Listed /\ list' \in [Listed -> Rows]
      /\ \A x \in Listed : list'[x] = IF x = i THEN row ELSE list[x]
  BY <1>1, <1>2 DEF Listed, ItemsInv, TypeOK, Rows
<1> HIDE DEF row
<1>4. list' \in Families /\ Listed \subseteq Item /\ IsFiniteSet(Listed) /\ Cardinality(Listed) <= Cap
  BY <1>3, FamilyType DEF ItemsInv, TypeOK, ListOK, Listed
<1>5. \A x \in DOMAIN list' \cap DOMAIN list : Says4(list'[x], list[x])
  BY <1>2, <1>3 DEF Says4, Listed
<1>6. ListOK(list', astray, astray \cup slipped, overridden)
  <2>1. DOMAIN list' = DOMAIN list /\ ListOK(list, astray, astray \cup slipped, overridden)
    BY <1>3 DEF Listed, ItemsInv
  <2>2. IsFiniteSet(DOMAIN list') /\ Cardinality(DOMAIN list') <= Cap
    BY <1>4, <2>1 DEF Listed
  <2>3. \A x \in DOMAIN list' \ DOMAIN list : list'[x].status \in Open
    BY <2>1
  <2>4. ~TreeViolation(list', list) /\ list' \in Families /\ (overridden => overridden)
    BY <1>1, <1>4
  <2> QED
    BY <1>5, <2>1, <2>2, <2>3, <2>4, EditOK
<1>7. HistoryGrows
  BY <1>2, <1>3 DEF HistoryGrows, ItemsInv, TypeOK, Rows
<1>8. TypeOK' /\ WaitingInv'
  BY <1>1, <1>3, <1>4 DEF ItemsInv, TypeOK, WaitingInv
<1> QED
  BY <1>1, <1>3, <1>6, <1>7, <1>8 DEF Kept

(* A report that waits for the storage, is refused, or is taken. *)
LEMMA SubmitBeginsKeeps ==
  ASSUME ItemsInv, NEW i \in Item, SubmitBegins(i)
  PROVE  Kept /\ Listed' = Listed
<1>1. i \in Listed /\ list[i] \in Rows /\ list[i].status = "working" /\ list[i].checked
  BY DEF SubmitBegins, Reportable, ItemsInv, TypeOK
<1>2. /\ UNCHANGED <<list, setup, overridden, slipped>> /\ Listed' = Listed
      /\ waiting' = waiting \cup {[item |-> i, row |-> list[i]]}
  BY DEF SubmitBegins, Listed
<1>3. TypeOK' /\ WaitingInv'
  BY <1>1, <1>2 DEF ItemsInv, TypeOK, WaitingInv, Reports
<1>4. HistoryGrows
  BY <1>2 DEF HistoryGrows, ItemsInv, TypeOK, Rows
<1> QED
  BY <1>2, <1>3, <1>4 DEF Kept, ItemsInv

LEMMA SubmitRefusedKeeps ==
  ASSUME ItemsInv, NEW w \in waiting, SubmitRefused(w)
  PROVE  Kept /\ Listed' = Listed
<1>1. /\ UNCHANGED <<list, setup, overridden, slipped>> /\ Listed' = Listed
      /\ waiting' \subseteq waiting
  BY DEF SubmitRefused, Listed
<1>2. TypeOK' /\ WaitingInv' /\ HistoryGrows
  BY <1>1 DEF ItemsInv, TypeOK, WaitingInv, HistoryGrows, Rows
<1> QED
  BY <1>1, <1>2 DEF Kept, ItemsInv

LEMMA SubmitEndsKeeps ==
  ASSUME ItemsInv, NEW w \in waiting, SubmitEnds(w)
  PROVE  Kept /\ Listed' = Listed
<1> DEFINE row == [Reported(w.row) EXCEPT !.rev = @ + 1]
<1>1. /\ w.item \in Listed /\ list[w.item] = w.row /\ w.row \in Rows
      /\ list' = [list EXCEPT ![w.item] = row]
      /\ waiting' = waiting \ {w} /\ UNCHANGED <<setup, overridden>>
      /\ slipped' = slipped \cup OpenSubtasks(list, w.item)
      /\ w.row.rev < MaxRev
  BY DEF SubmitEnds, RowStands, ItemsInv, TypeOK
<1>2. w.row.status = "working" /\ w.row.checked
  BY DEF ItemsInv, WaitingInv
<1>3. Reported(w.row) \in Rows /\ Reported(w.row).rev = w.row.rev
  BY <1>1 DEF Reported, Rows, Statuses
<1>4. /\ row \in Rows /\ row.rev = w.row.rev + 1 /\ w.row.rev \in Nat
      /\ row.parent = w.row.parent /\ row.checked = w.row.checked /\ row.reporter = row.owner
  <2>1. w.row.rev + 1 \in 0..MaxRev /\ w.row.rev \in Nat
    BY <1>1 DEF Rows
  <2>2. row \in Rows /\ row.rev = w.row.rev + 1
    BY <1>3, <2>1 DEF Rows
  <2>3. row.parent = w.row.parent /\ row.checked = w.row.checked /\ row.reporter = row.owner
    BY <1>1 DEF Reported, Rows
  <2> QED
    BY <2>1, <2>2, <2>3
<1> HIDE DEF row
<1>5. Lawful(list, w.item, row, astray \cup slipped')
  BY <1>1, <1>2, <1>4 DEF Lawful
<1>6. /\ row.rev >= list[w.item].rev /\ slipped' \subseteq Item /\ overridden' \in BOOLEAN
  BY <1>1, <1>4 DEF ItemsInv, TypeOK, OpenSubtasks, ChildrenOf, Listed
<1> QED
  BY <1>1, <1>4, <1>5, <1>6, RowStep

(* Every handler that leaves the same items in the list. *)
LEMMA ItemTurnKeeps ==
  ASSUME ItemsInv, ItemTurn
  PROVE  Kept /\ Listed' = Listed
<1>1. setup.contents \subseteq Says
  BY DEF ItemsInv, TypeOK, AllSetups
<1> QED
  BY <1>1, RowHandlersKeep, TickKeeps, OverrideKeeps, ReparentKeeps, SubmitBeginsKeeps,
     SubmitRefusedKeeps, SubmitEndsKeeps DEF ItemTurn

(* A new item, and the PUT that takes items away. *)
LEMMA AddKeeps ==
  ASSUME ItemsInv, NEW i \in Item, NEW p \in Item \cup {NoItem}, NEW said \in Says, Add(i, p, said)
  PROVE  Kept /\ Listed' = Listed \cup {i}
<1> DEFINE row == NewRow(p, said)
<1>1. /\ i \notin Listed /\ list' = With(i, row)
      /\ ~TreeViolation(list', list) \/ p = NoItem
      /\ Cardinality(DOMAIN list') <= Cap
      /\ overridden' = (overridden \/ ~Unworked(said))
      /\ UNCHANGED <<waiting, setup, slipped>>
  BY DEF Add, AcceptedList, Fresh
<1>2. /\ row \in Rows /\ row.parent = p /\ row.status = said.status
      /\ Unworked(said) => row.status \in Open
  BY DEF NewRow, Rows, Says, Unworked
<1> HIDE DEF row
<1>3. Listed' = Listed \cup {i} /\ \A x \in Listed' : list'[x] = IF x = i THEN row ELSE list[x]
  BY <1>1 DEF With, Listed
<1>4. list' \in [Listed' -> Rows] /\ Listed' \subseteq Item
  BY <1>1, <1>2, <1>3 DEF With, ItemsInv, TypeOK
<1>5. list' \in Families /\ DOMAIN list' = DOMAIN list \cup {i} /\ i \notin DOMAIN list
  BY <1>1, <1>3, <1>4, FamilyType DEF Listed
<1>6. IsFiniteSet(DOMAIN list')
  BY <1>5, FS_AddElement DEF ItemsInv, ListOK
<1>7. ListOK(list', astray, astray \cup slipped, overridden')
  <2>1. ListOK(list, astray, astray \cup slipped, overridden) /\ (overridden => overridden')
    BY <1>1 DEF ItemsInv
  <2>2. ~overridden' => row.status \in Open
    BY <1>1, <1>2
  <2>3. CASE ~TreeViolation(list', list)
    <3>1. \A x \in DOMAIN list' \cap DOMAIN list : Says4(list'[x], list[x])
      BY <1>3, <1>5 DEF Says4, Listed
    <3>2. ~overridden' => \A x \in DOMAIN list' \ DOMAIN list : list'[x].status \in Open
      BY <1>3, <1>5, <2>2 DEF Listed
    <3> QED
      BY <1>1, <1>5, <1>6, <2>1, <2>3, <3>1, <3>2, EditOK
  <2>4. CASE p = NoItem
    <3>1. (\A x \in DOMAIN list : list'[x] = list[x]) /\ list'[i] = row
      BY <1>3, <1>5 DEF Listed
    <3> QED
      BY <1>1, <1>2, <1>5, <1>6, <2>1, <2>2, <2>4, <3>1, NewOK
  <2> QED
    BY <1>1, <2>3, <2>4
<1>8. TypeOK' /\ WaitingInv'
  <2>1. overridden' \in BOOLEAN
    BY <1>1
  <2> QED
    BY <1>1, <1>4, <2>1 DEF ItemsInv, TypeOK, WaitingInv
<1>9. HistoryGrows
  BY <1>1, <1>3 DEF HistoryGrows, ItemsInv, TypeOK, Rows
<1> QED
  BY <1>1, <1>3, <1>7, <1>8, <1>9 DEF Kept

LEMMA RemoveKeeps ==
  ASSUME ItemsInv, NEW S \in SUBSET Listed, NEW T \in SUBSET Listed, Remove(S, T)
  PROVE  Kept /\ Listed' = Listed \ S
<1>1. /\ list' = Cleared(S, T) /\ ~TreeViolation(list', list)
      /\ Cardinality(DOMAIN list') <= Cap
      /\ UNCHANGED <<waiting, setup, overridden, slipped>>
  BY DEF Remove, AcceptedList
<1>2. /\ Listed' = Listed \ S
      /\ \A x \in Listed' : list'[x] = IF x \in T THEN [list[x] EXCEPT !.parent = NoItem] ELSE list[x]
  BY <1>1 DEF Cleared, Listed
<1>3. \A x \in Listed' : list'[x] \in Rows /\ Says4(list'[x], list[x]) /\ list'[x].rev = list[x].rev
  <2> TAKE x \in Listed'
  <2>1. x \in Listed /\ list[x] \in Rows
    BY <1>2 DEF ItemsInv, TypeOK
  <2>2. [list[x] EXCEPT !.parent = NoItem] \in Rows
    BY <2>1 DEF Rows
  <2>3. list'[x] = list[x] \/ list'[x] = [list[x] EXCEPT !.parent = NoItem]
    BY <1>2
  <2> QED
    BY <2>1, <2>2, <2>3 DEF Says4, Rows
<1>4. list' \in [Listed' -> Rows] /\ Listed' \subseteq Item
  BY <1>1, <1>2, <1>3 DEF Cleared, ItemsInv, TypeOK
<1>5. list' \in Families /\ DOMAIN list' = DOMAIN list \ S
  BY <1>2, <1>4, FamilyType DEF Listed
<1>6. IsFiniteSet(DOMAIN list')
  BY <1>5, FS_Subset DEF ItemsInv, ListOK
<1>7. ListOK(list', astray, astray \cup slipped, overridden)
  <2>1. \A x \in DOMAIN list' \cap DOMAIN list : Says4(list'[x], list[x])
    BY <1>3 DEF Listed
  <2>2. \A x \in DOMAIN list' \ DOMAIN list : list'[x].status \in Open
    BY <1>5
  <2>3. ListOK(list, astray, astray \cup slipped, overridden)
    BY DEF ItemsInv
  <2> QED
    BY <1>1, <1>5, <1>6, <2>1, <2>2, <2>3, EditOK
<1>8. TypeOK' /\ WaitingInv'
  BY <1>1, <1>4 DEF ItemsInv, TypeOK, WaitingInv
<1>9. HistoryGrows
  BY <1>2, <1>3 DEF HistoryGrows, ItemsInv, TypeOK, Rows
<1> QED
  BY <1>1, <1>2, <1>7, <1>8, <1>9 DEF Kept

-----------------------------------------------------------------------------
(* The archive.                                                            *)

(* What the record of a handler must be.  The rows it holds are those of   *)
(* its ids; what a cancel captured has room for one more line of history.  *)
RowsOK(f, o) == IsFiniteSet(DOMAIN f) /\ (~o => RowsLawful(f))

StageOK(r) ==
  /\ r.at \in {"append", "appended"} => r.rows \in [r.ids -> Rows]
  /\ r.at = "append" /\ r.kind = "cancel" => \A x \in r.ids : r.rows[x].rev < MaxRev
  /\ r.at = "take" => r.ids \subseteq DOMAIN r.rows \cup r.rest
  /\ r.at \in {"rooted", "look", "found", "taken"} => r.ids \subseteq DOMAIN r.rows

RecordOK(r, A, B, o) ==
  r \in Jobs /\ ListOK(r.latest, A, B, o) /\ RowsOK(r.rows, o) /\ StageOK(r)

(* The rows that a handler has taken out, and whether it will remove or    *)
(* hide the rows it is about.                                              *)
Holding == {"take", "rooted", "look", "found", "taken", "undo"}
Taken(r) == IF r.at \in Holding THEN DOMAIN r.rows ELSE {}
Attends(r) == r.at \in {"appended", "stale", "forget"}

JobsInv ==
  /\ job \in [Job -> Jobs]
  /\ \A j \in Job : RecordOK(job[j], astray, astray \cup slipped, overridden)

(* The files, and the histories. *)
FilesInv ==
  /\ Archived \subseteq Item /\ copies \in [Archived -> Rows]
  /\ ~overridden => RowsLawful(copies)
  /\ hidden \subseteq Item /\ deleted \subseteq Item /\ astray \subseteq Item
  /\ calls \in Seq(Job)
  /\ mishap \in BOOLEAN /\ late \in BOOLEAN

(* A handler that is about to remove rows has copied them as it captured   *)
(* them: nobody has made a newer copy.                                     *)
CopyInv ==
  \A j \in Job : job[j].at = "appended" =>
    \A x \in job[j].ids :
      x \in Archived /\ copies[x] = CopyOf(job[j].kind, job[j].ids, job[j].rows[x])

(* Whoever takes a row out of the archive, or puts it back there, is alone *)
(* with it; a row that is asked for is listed only if it is hidden by now. *)
TakeInv ==
  \A j \in Job :
    /\ Taken(job[j]) \subseteq hidden \cap Archived
    /\ ~late => Taken(job[j]) \cap Listed = {}
    /\ job[j].at = "take" /\ ~late => job[j].ids \cap Listed \subseteq hidden
    /\ \A k \in Job : k # j => Taken(job[j]) \cap Taken(job[k]) = {}

(* What is listed and to be seen is about to be removed or to be hidden. *)
Attended(i) == \E j \in Job : i \in job[j].ids /\ Attends(job[j])

PlaceInv == ~mishap /\ ~late => \A i \in Listed : Visible(i) => Attended(i)

WorkInv == ItemsInv /\ JobsInv /\ FilesInv /\ CopyInv /\ TakeInv /\ PlaceInv

(* The exceptions only grow. *)
PastGrows ==
  astray \subseteq astray' /\ slipped \subseteq slipped' /\ (overridden => overridden')

-----------------------------------------------------------------------------
(* Records of handlers.                                                    *)

LEMMA RecordStays ==
  ASSUME NEW r, NEW A, NEW B, NEW o, NEW A2, NEW B2, NEW o2,
         RecordOK(r, A, B, o), A \subseteq A2, B \subseteq B2, o => o2
  PROVE  RecordOK(r, A2, B2, o2)
<1>1. ListOK(r.latest, A2, B2, o2)
  BY StaysOK DEF RecordOK
<1> QED
  BY <1>1 DEF RecordOK, RowsOK

LEMMA IdleType ==
  /\ Idle \in Jobs /\ Idle.at = "idle" /\ Idle.kind = "cancel" /\ Idle.ids = {}
  /\ Idle.rows = NoRows /\ Idle.rest = {} /\ Idle.latest = NoRows
<1>1. NoRows \in Families
  BY NothingIsOK DEF ListOK
<1> QED
  BY <1>1 DEF Idle, Jobs, JobSteps, JobKinds

LEMMA NoRowsOK ==
  ASSUME NEW o
  PROVE  RowsOK(NoRows, o)
<1>1. DOMAIN NoRows = {} /\ ListOK(NoRows, {}, {}, o)
  BY NothingIsOK
<1> QED
  BY <1>1 DEF ListOK, RowsOK, RowsLawful

LEMMA IdleOK ==
  ASSUME NEW A, NEW B, NEW o
  PROVE  RecordOK(Idle, A, B, o) /\ ~Attends(Idle) /\ Taken(Idle) = {}
<1>1. ListOK(NoRows, A, B, o) /\ RowsOK(NoRows, o)
  BY NothingIsOK, NoRowsOK
<1> QED
  BY <1>1, IdleType DEF RecordOK, StageOK, Attends, Taken, Holding

(* The record of one handler is replaced, and the others stay. *)
LEMMA OneRecord ==
  ASSUME JobsInv, NEW j \in Job, NEW new, Becomes(j, new), PastGrows,
         RecordOK(new, astray', astray' \cup slipped', overridden')
  PROVE  /\ JobsInv' /\ job'[j] = new
         /\ \A k \in Job : k # j => job'[k] = job[k]
<1>1. job' = [job EXCEPT ![j] = new] /\ new \in Jobs
  BY DEF Becomes, RecordOK
<1>2. /\ job' \in [Job -> Jobs] /\ job'[j] = new
      /\ \A k \in Job : k # j => job'[k] = job[k]
  BY <1>1 DEF JobsInv
<1>3. ASSUME NEW k \in Job PROVE RecordOK(job'[k], astray', astray' \cup slipped', overridden')
  <2> DEFINE B1 == astray \cup slipped
             B2 == astray' \cup slipped'
  <2>1. /\ RecordOK(job[k], astray, B1, overridden) /\ RecordOK(new, astray', B2, overridden')
        /\ astray \subseteq astray' /\ B1 \subseteq B2 /\ (overridden => overridden')
    BY <1>3 DEF JobsInv, PastGrows
  <2> HIDE DEF B1, B2
  <2>2. RecordOK(job[k], astray', B2, overridden')
    BY ONLY <2>1, RecordStays
  <2>3. RecordOK(job'[k], astray', B2, overridden')
    <3>1. CASE k = j
      BY <1>2, <2>1, <3>1
    <3>2. CASE k # j
      BY <1>2, <1>3, <2>2, <3>2
    <3> QED
      BY <3>1, <3>2
  <2> QED
    BY <2>3 DEF B2
<1> QED
  BY <1>2, <1>3 DEF JobsInv

(* The list may be written anew as long as it is one that is claimed of. *)
LEMMA ItemsAgain ==
  ASSUME ItemsInv, ListOK(list', astray', astray' \cup slipped, overridden),
         waiting' \subseteq waiting, UNCHANGED <<setup, overridden, slipped>>
  PROVE  ItemsInv'
<1>1. list' \in [Listed' -> Rows] /\ Listed' \subseteq Item
  BY FamilyParts DEF ListOK, Listed
<1>2. TypeOK' /\ WaitingInv'
  BY <1>1 DEF ItemsInv, TypeOK, WaitingInv
<1> QED
  BY <1>2 DEF ItemsInv

LEMMA ItemsStay ==
  ASSUME ItemsInv, UNCHANGED <<vars, astray>>
  PROVE  ItemsInv' /\ PastGrows /\ Listed' = Listed
<1>1. UNCHANGED <<list, waiting, setup, overridden, slipped, astray>>
  BY DEF vars
<1>2. ListOK(list', astray', astray' \cup slipped, overridden)
  BY <1>1 DEF ItemsInv
<1> QED
  BY <1>1, <1>2, ItemsAgain DEF PastGrows, Listed

(* The call that is answered is the first; the others move up. *)
LEMMA CallsType ==
  ASSUME calls \in Seq(Job), NEW j \in Job
  PROVE  /\ Append(calls, j) \in Seq(Job)
         /\ calls # <<>> => Tail(calls) \in Seq(Job) /\ Append(Tail(calls), j) \in Seq(Job)
  OBVIOUS

-----------------------------------------------------------------------------
(* The handlers of the archive where they only go on: the list and the     *)
(* files stay as they are.                                                 *)

LEMMA GoingOnKeeps ==
  ASSUME WorkInv, NEW j \in Job, NEW new, Becomes(j, new),
         RecordOK(new, astray, astray \cup slipped, overridden),
         UNCHANGED <<vars, copies, hidden, deleted, late, astray>>,
         calls' \in Seq(Job), mishap' \in BOOLEAN, mishap => mishap',
         new.at # "appended", Taken(new) \subseteq Taken(job[j]),
         new.at = "take" /\ ~late => new.ids \cap Listed \subseteq hidden,
         \/ mishap' \/ ~Attends(job[j])
         \/ Attends(new) /\ job[j].ids \subseteq new.ids
  PROVE  WorkInv'
<1> USE DEF WorkInv
<1>1. ItemsInv' /\ PastGrows /\ Listed' = Listed
  BY ItemsStay
<1>2. RecordOK(new, astray', astray' \cup slipped', overridden')
  BY DEF vars
<1>3. /\ JobsInv' /\ job'[j] = new /\ \A k \in Job : k # j => job'[k] = job[k]
  BY <1>1, <1>2, OneRecord
<1>4. FilesInv'
  BY DEF FilesInv, Archived, vars
<1>5. CopyInv'
  BY <1>3 DEF CopyInv, Archived
<1>6. TakeInv'
  <2> SUFFICES ASSUME NEW k \in Job
               PROVE  /\ Taken(job'[k]) \subseteq hidden \cap Archived
                      /\ ~late => Taken(job'[k]) \cap Listed = {}
                      /\ job'[k].at = "take" /\ ~late => job'[k].ids \cap Listed \subseteq hidden
                      /\ \A m \in Job : m # k => Taken(job'[k]) \cap Taken(job'[m]) = {}
    BY <1>1 DEF TakeInv, Taken, Archived
  <2>1. \A m \in Job : Taken(job'[m]) \subseteq Taken(job[m])
    BY <1>3
  <2> QED
    BY <1>3, <2>1 DEF TakeInv
<1>7. PlaceInv'
  <2> SUFFICES ASSUME ~mishap', ~late, NEW i \in Listed, i \in Archived, i \notin hidden
               PROVE  \E k \in Job : i \in job'[k].ids /\ Attends(job'[k])
    BY <1>1 DEF PlaceInv, Attended, Attends, Visible, Archived
  <2>1. PICK k \in Job : i \in job[k].ids /\ Attends(job[k])
    BY DEF PlaceInv, Attended, Visible
  <2> QED
    BY <1>3, <2>1
<1> QED
  BY <1>1, <1>3, <1>4, <1>5, <1>6, <1>7

LEMMA OkOfJob ==
  ASSUME WorkInv, NEW j \in Job
  PROVE  /\ RecordOK(job[j], astray, astray \cup slipped, overridden)
         /\ job[j] \in Jobs /\ StageOK(job[j]) /\ RowsOK(job[j].rows, overridden)
         /\ ListOK(job[j].latest, astray, astray \cup slipped, overridden)
  BY DEF WorkInv, JobsInv, RecordOK

(* A record that goes on with the same rows and the same list. *)
LEMMA SameRows ==
  ASSUME NEW r, NEW A, NEW B, NEW o, RecordOK(r, A, B, o), NEW new \in Jobs,
         new.rows = r.rows, new.latest = r.latest, StageOK(new)
  PROVE  RecordOK(new, A, B, o)
  BY DEF RecordOK

(* What a handler captures of rows that are listed. *)
LEMMA CapturedOK ==
  ASSUME ItemsInv, NEW S \in SUBSET Listed, NEW kind \in {"cancel", "sweep"},
         kind = "cancel" => \A x \in S : list[x].rev < MaxRev
  PROVE  /\ RecordOK(Captured(kind, S), astray, astray \cup slipped, overridden)
         /\ Captured(kind, S).at = "append"
<1> DEFINE rows == [x \in S |-> list[x]]
           new == Captured(kind, S)
<1>1. rows \in [S -> Rows] /\ S \in SUBSET Item /\ DOMAIN rows = S
  BY DEF ItemsInv, TypeOK
<1>2. rows \in Families
  BY <1>1, FamilyType
<1>3. RowsOK(rows, overridden)
  <2>1. IsFiniteSet(S)
    BY FS_Subset DEF ItemsInv, ListOK, Listed
  <2> QED
    BY <1>1, <2>1 DEF RowsOK, RowsLawful, ItemsInv, ListOK, Listed
<1>4. (kind = "cancel") => \A x \in S : rows[x].rev < MaxRev
  OBVIOUS
<1>5. new = [Idle EXCEPT !.at = "append", !.kind = kind, !.ids = S, !.rows = rows]
  BY DEF Captured
<1> HIDE DEF rows, new
<1>6. /\ new \in Jobs /\ new.at = "append" /\ new.kind = kind /\ new.ids = S
      /\ new.rows = rows /\ new.latest = NoRows
  BY <1>1, <1>2, <1>5, IdleType DEF Jobs, JobSteps, JobKinds
<1>7. StageOK(new)
  BY <1>1, <1>4, <1>6 DEF StageOK
<1> QED
  BY <1>3, <1>6, <1>7, NothingIsOK DEF RecordOK, new

LEMMA AskedOK ==
  ASSUME ItemsInv, NEW i \in Item, NEW kind \in JobKinds, NEW l \in {NoRows, list}
  PROVE  /\ RecordOK(Asks(kind, i, l), astray, astray \cup slipped, overridden)
         /\ Asks(kind, i, l).at = "take" /\ Asks(kind, i, l).ids = {i}
         /\ Taken(Asks(kind, i, l)) = {}
<1> DEFINE new == Asks(kind, i, l)
<1>1. ListOK(l, astray, astray \cup slipped, overridden)
  BY NothingIsOK DEF ItemsInv
<1>2. l \in Families
  BY <1>1 DEF ListOK
<1>3. /\ new \in Jobs /\ new.at = "take" /\ new.ids = {i} /\ new.rest = {i}
      /\ new.rows = NoRows /\ new.latest = l
  BY <1>2, IdleType DEF Asks, Jobs, JobSteps
<1> HIDE DEF new
<1>4. StageOK(new) /\ RowsOK(new.rows, overridden) /\ Taken(new) = {}
  BY <1>3, NoRowsOK, NothingIsOK DEF StageOK, Taken
<1> QED
  BY <1>1, <1>3, <1>4 DEF RecordOK, new

(* The handlers up to their first call. *)
LEMMA BeginKeeps ==
  ASSUME WorkInv, NEW j \in Job,
         \/ Begins(j)
         \/ \E S \in SUBSET Listed : SweepBegins(j, S)
  PROVE  WorkInv'
<1>1. /\ UNCHANGED <<vars, copies, hidden, deleted, mishap, late, astray>>
      /\ calls' = Append(calls, j) /\ job[j].at = "idle"
  BY DEF Begins, CancelBegins, UnarchiveBegins, ReviveBegins, SweepBegins, Calls, archive, past
<1>2. calls' \in Seq(Job) /\ mishap' \in BOOLEAN /\ (mishap => mishap') /\ ~Attends(job[j]) /\ ItemsInv
  BY <1>1, CallsType DEF WorkInv, FilesInv, Attends
<1>3. ASSUME NEW S \in SUBSET Listed, NEW kind \in {"cancel", "sweep"},
             Calls(j, Captured(kind, S)),
             kind = "cancel" => \A x \in S : list[x].rev < MaxRev
      PROVE  WorkInv'
  <2> DEFINE new == Captured(kind, S)
  <2>1. RecordOK(new, astray, astray \cup slipped, overridden) /\ new.at = "append"
    BY <1>2, <1>3, CapturedOK
  <2>2. Becomes(j, new)
    BY <1>3 DEF Calls
  <2> HIDE DEF new
  <2>3. Taken(new) = {}
    BY <2>1 DEF Taken, Holding
  <2> QED
    BY <1>1, <1>2, <2>1, <2>2, <2>3, GoingOnKeeps
<1>4. ASSUME NEW i \in Item, CancelBegins(j, i) PROVE WorkInv'
  <2> DEFINE S == {i} \cup ChildrenOf(list, i)
  <2>1. S \in SUBSET Listed /\ \A x \in S : list[x].rev < MaxRev
    BY <1>4 DEF CancelBegins, ChildrenOf, Listed
  <2>2. Calls(j, Captured("cancel", S))
    BY <1>4 DEF CancelBegins
  <2> HIDE DEF S
  <2> QED
    BY <1>3, <2>1, <2>2
<1>5. ASSUME NEW S \in SUBSET Listed, SweepBegins(j, S) PROVE WorkInv'
  BY <1>3, <1>5 DEF SweepBegins
<1>6. ASSUME NEW i \in Item, NEW kind \in JobKinds, NEW l \in {NoRows, list}, i \notin Listed,
             Calls(j, Asks(kind, i, l))
      PROVE  WorkInv'
  <2> DEFINE new == Asks(kind, i, l)
  <2>1. /\ RecordOK(new, astray, astray \cup slipped, overridden) /\ new.at = "take" /\ new.ids = {i}
        /\ Taken(new) = {}
    BY <1>2, <1>6, AskedOK
  <2>2. Becomes(j, new)
    BY <1>6 DEF Calls
  <2> HIDE DEF new
  <2> QED
    BY <1>1, <1>2, <1>6, <2>1, <2>2, GoingOnKeeps
<1>7. ASSUME NEW i \in Item, UnarchiveBegins(j, i) \/ ReviveBegins(j, i) PROVE WorkInv'
  BY <1>6, <1>7 DEF UnarchiveBegins, ReviveBegins, JobKinds
<1> QED
  BY <1>4, <1>5, <1>7 DEF Begins

(* A call that failed before it changed anything. *)
LEMMA RefusedKeeps ==
  ASSUME WorkInv, NEW j \in Job, AppendFails(j) \/ TakeRefused(j)
  PROVE  WorkInv'
<1>1. /\ UNCHANGED <<vars, copies, hidden, deleted, mishap, late, astray>> /\ calls # <<>>
      /\ job[j].at \in {"append", "take"}
  BY DEF AppendFails, TakeRefused, Answered, FirstCall, archive, past
<1>2. mishap' \in BOOLEAN /\ (mishap => mishap') /\ ~Attends(job[j]) /\ calls \in Seq(Job)
  BY <1>1 DEF WorkInv, FilesInv, Attends
<1>3. CASE Becomes(j, Idle) /\ calls' = Tail(calls)
  BY <1>1, <1>2, <1>3, IdleOK, IdleType, CallsType, GoingOnKeeps
<1>4. CASE /\ Becomes(j, [job[j] EXCEPT !.at = "undo"]) /\ calls' = Append(Tail(calls), j)
           /\ job[j].at = "take"
  <2> DEFINE new == [job[j] EXCEPT !.at = "undo"]
  <2>1. /\ new \in Jobs /\ new.at = "undo" /\ new.rows = job[j].rows /\ new.latest = job[j].latest
    BY OkOfJob DEF Jobs, JobSteps
  <2>2. Becomes(j, new) /\ calls' \in Seq(Job)
    BY <1>1, <1>2, <1>4, CallsType
  <2> HIDE DEF new
  <2>3. StageOK(new) /\ Taken(new) \subseteq Taken(job[j])
    BY <1>4, <2>1 DEF StageOK, Taken, Holding
  <2>4. RecordOK(new, astray, astray \cup slipped, overridden)
    BY <2>1, <2>3, OkOfJob, SameRows
  <2> QED
    BY <1>1, <1>2, <2>1, <2>2, <2>3, <2>4, GoingOnKeeps
<1> QED
  BY <1>3, <1>4 DEF AppendFails, TakeRefused, Ends, Answered, FirstCall, CallsAgain

(* One of the rows that were taken is put back, whether that is noted or   *)
(* not.                                                                    *)
LEMMA OneLessOK ==
  ASSUME WorkInv, NEW j \in Job, NEW i, FirstCall(j), job[j].at = "undo", OneLess(j, i)
  PROVE  /\ calls' \in Seq(Job)
         /\ \E new : /\ Becomes(j, new) /\ RecordOK(new, astray, astray \cup slipped, overridden)
                     /\ new.at \in {"idle", "undo"} /\ Taken(new) \subseteq Taken(job[j]) \ {i}
<1> DEFINE less == [job[j] EXCEPT !.rows = Minus(@, {i})]
<1>1. calls # <<>> /\ calls \in Seq(Job)
  BY DEF FirstCall, WorkInv, FilesInv
<1>2. CASE Becomes(j, Idle) /\ calls' = Tail(calls)
  BY <1>1, <1>2, IdleOK, IdleType, CallsType
<1>3. CASE Becomes(j, less) /\ calls' = Append(Tail(calls), j)
  <2>1. /\ Minus(job[j].rows, {i}) \in Families /\ RowsOK(Minus(job[j].rows, {i}), overridden)
        /\ DOMAIN Minus(job[j].rows, {i}) = DOMAIN job[j].rows \ {i}
    <3> DEFINE f == job[j].rows
               m == Minus(f, {i})
    <3>1. f \in Families /\ RowsOK(f, overridden)
      BY OkOfJob DEF Jobs
    <3>2. DOMAIN m = DOMAIN f \ {i} /\ \A x \in DOMAIN m : m[x] = f[x]
      BY DEF Minus
    <3>3. m \in [DOMAIN f \ {i} -> Rows] /\ DOMAIN f \subseteq Item
      BY <3>1, FamilyParts DEF Minus
    <3> HIDE DEF m, f
    <3>4. m \in Families
      BY <3>3, FamilyType
    <3>5. RowsOK(m, overridden)
      BY <3>1, <3>2, FS_Subset DEF RowsOK, RowsLawful
    <3> QED
      BY <3>2, <3>4, <3>5 DEF m, f
  <2>2. /\ less \in Jobs /\ less.at = "undo" /\ less.rows = Minus(job[j].rows, {i})
        /\ less.latest = job[j].latest
    BY <2>1, OkOfJob DEF Jobs
  <2> HIDE DEF less
  <2>3. StageOK(less) /\ Taken(less) \subseteq Taken(job[j]) \ {i}
    BY <2>1, <2>2 DEF StageOK, Taken, Holding
  <2>4. RecordOK(less, astray, astray \cup slipped, overridden)
    BY <2>1, <2>2, <2>3, OkOfJob DEF RecordOK
  <2> QED
    BY <1>1, <1>3, <2>2, <2>3, <2>4, CallsType
<1> QED
  BY <1>2, <1>3 DEF OneLess, Ends, CallsAgain

(* A clean-up that was lost. *)
LEMMA CleanUpFailsKeeps ==
  ASSUME WorkInv, NEW j \in Job, CleanUpFails(j)
  PROVE  WorkInv'
<1>1. /\ UNCHANGED <<vars, copies, hidden, deleted, late, astray>> /\ FirstCall(j) /\ mishap' = TRUE
  BY DEF CleanUpFails
<1>2. CASE Ends(j) /\ calls' = Tail(calls)
  <2>1. calls' \in Seq(Job)
    BY <1>1, <1>2, CallsType DEF FirstCall, WorkInv, FilesInv
  <2> QED
    BY <1>1, <1>2, <2>1, IdleOK, IdleType, GoingOnKeeps DEF Ends
<1>3. ASSUME NEW i, job[j].at = "undo", OneLess(j, i) PROVE WorkInv'
  <2>1. calls' \in Seq(Job)
    BY <1>1, <1>3, OneLessOK
  <2>2. PICK new : /\ Becomes(j, new) /\ RecordOK(new, astray, astray \cup slipped, overridden)
                   /\ new.at \in {"idle", "undo"} /\ Taken(new) \subseteq Taken(job[j])
    BY <1>1, <1>3, OneLessOK
  <2> QED
    BY <1>1, <2>1, <2>2, GoingOnKeeps
<1> QED
  BY <1>2, <1>3 DEF CleanUpFails

(* A revival looks for the family of its root, which is in no queue. *)
LEMMA LookKeeps ==
  ASSUME WorkInv, NEW j \in Job, ReviveLooks(j) \/ ReviveFinds(j) \/ ReviveAsks(j)
  PROVE  WorkInv'
<1>1. /\ UNCHANGED <<vars, copies, hidden, deleted, mishap, late, astray>>
      /\ job[j].at \in {"rooted", "look", "found"}
  BY DEF ReviveLooks, ReviveFinds, ReviveAsks, archive, past
<1>2. /\ mishap' \in BOOLEAN /\ (mishap => mishap') /\ ~Attends(job[j]) /\ calls \in Seq(Job)
      /\ Append(calls, j) \in Seq(Job) /\ job[j] \in Jobs /\ StageOK(job[j])
  BY <1>1, CallsType, OkOfJob DEF WorkInv, FilesInv, Attends
<1>3. ASSUME NEW new \in Jobs, Becomes(j, new), calls' \in Seq(Job),
             new.at \in {"look", "found", "taken", "take"},
             new.ids = job[j].ids, new.rows = job[j].rows, new.latest = job[j].latest
      PROVE  WorkInv'
  <2>1. StageOK(new) /\ Taken(new) \subseteq Taken(job[j]) /\ Taken(job[j]) = DOMAIN job[j].rows
    BY <1>1, <1>2, <1>3 DEF StageOK, Taken, Holding
  <2>2. RecordOK(new, astray, astray \cup slipped, overridden)
    BY <1>3, <2>1, OkOfJob, SameRows
  <2>3. new.ids \subseteq Taken(job[j])
    BY <1>1, <1>2, <1>3, <2>1 DEF StageOK
  <2>4. ~late => new.ids \cap Listed \subseteq hidden
    BY <2>3 DEF WorkInv, TakeInv
  <2> QED
    BY <1>1, <1>2, <1>3, <2>1, <2>2, <2>4, GoingOnKeeps
<1>4. CASE ReviveLooks(j)
  <2> DEFINE new == [job[j] EXCEPT !.at = "look"]
  <2>1. /\ new \in Jobs /\ new.at = "look" /\ new.ids = job[j].ids /\ new.rows = job[j].rows
        /\ new.latest = job[j].latest
    BY <1>2 DEF Jobs, JobSteps
  <2>2. Becomes(j, new) /\ calls' \in Seq(Job)
    BY <1>2, <1>4 DEF ReviveLooks
  <2> HIDE DEF new
  <2> QED
    BY <1>3, <2>1, <2>2
<1>5. CASE ReviveFinds(j)
  <2> DEFINE new == [job[j] EXCEPT !.at = "found", !.rest = Family(j)]
  <2>1. Family(j) \subseteq Item
    BY DEF Family, WorkInv, FilesInv
  <2>2. /\ new \in Jobs /\ new.at = "found" /\ new.ids = job[j].ids /\ new.rows = job[j].rows
        /\ new.latest = job[j].latest
    BY <1>2, <2>1 DEF Jobs, JobSteps
  <2>3. Becomes(j, new) /\ calls' \in Seq(Job)
    BY <1>2, <1>5 DEF ReviveFinds
  <2> HIDE DEF new
  <2> QED
    BY <1>3, <2>2, <2>3
<1>6. CASE ReviveAsks(j)
  <2>1. ASSUME NEW at \in {"taken", "take"}, Becomes(j, [job[j] EXCEPT !.at = at]), calls' \in Seq(Job)
        PROVE  WorkInv'
    <3> DEFINE new == [job[j] EXCEPT !.at = at]
    <3>1. /\ new \in Jobs /\ new.at = at /\ new.ids = job[j].ids /\ new.rows = job[j].rows
          /\ new.latest = job[j].latest
      BY <1>2 DEF Jobs, JobSteps
    <3> HIDE DEF new
    <3>2. Becomes(j, new)
      BY <2>1 DEF new
    <3> QED
      BY <1>3, <2>1, <3>1, <3>2
  <2> QED
    BY <1>2, <1>6, <2>1 DEF ReviveAsks, Calls
<1> QED
  BY <1>4, <1>5, <1>6

(* A handler finds that it cannot go on, and calls to have what it took or *)
(* copied undone.                                                          *)
LEMMA TurnsBackKeeps ==
  ASSUME WorkInv, NEW j \in Job,
         RemoveFails(j) \/ CancelConflict(j) \/ SweepStale(j) \/ PutBackFails(j) \/ LookFails(j)
  PROVE  WorkInv'
<1>1. /\ UNCHANGED <<vars, copies, hidden, deleted, mishap, late, astray>>
      /\ calls' = Append(calls, j)
  BY DEF RemoveFails, CancelConflict, SweepStale, PutBackFails, LookFails, Calls, archive, past
<1>2. /\ mishap' \in BOOLEAN /\ (mishap => mishap') /\ calls' \in Seq(Job)
      /\ job[j] \in Jobs /\ StageOK(job[j])
  BY <1>1, CallsType, OkOfJob DEF WorkInv, FilesInv
<1>3. CASE PutBackFails(j) \/ LookFails(j)
  <2> DEFINE new == [job[j] EXCEPT !.at = "undo"]
  <2>1. /\ new \in Jobs /\ new.at = "undo" /\ new.rows = job[j].rows /\ new.latest = job[j].latest
    BY <1>2 DEF Jobs, JobSteps
  <2>2. Becomes(j, new) /\ job[j].at \in {"rooted", "taken", "look", "found"}
    BY <1>3 DEF PutBackFails, LookFails, Calls
  <2> HIDE DEF new
  <2>3. StageOK(new) /\ Taken(new) \subseteq Taken(job[j]) /\ ~Attends(job[j])
    BY <2>1, <2>2 DEF StageOK, Taken, Holding, Attends
  <2>4. RecordOK(new, astray, astray \cup slipped, overridden)
    BY <2>1, <2>3, OkOfJob, SameRows
  <2> QED
    BY <1>1, <1>2, <2>1, <2>2, <2>3, <2>4, GoingOnKeeps
<1>4. CASE RemoveFails(j) \/ CancelConflict(j)
  <2> DEFINE new == [job[j] EXCEPT !.at = "forget"]
  <2>1. /\ new \in Jobs /\ new.at = "forget" /\ new.rows = job[j].rows /\ new.latest = job[j].latest
        /\ new.ids = job[j].ids
    BY <1>2 DEF Jobs, JobSteps
  <2>2. Becomes(j, new)
    BY <1>4 DEF RemoveFails, CancelConflict, Calls
  <2> HIDE DEF new
  <2>3. StageOK(new) /\ Taken(new) = {} /\ Attends(new)
    BY <2>1 DEF StageOK, Taken, Holding, Attends
  <2>4. RecordOK(new, astray, astray \cup slipped, overridden)
    BY <2>1, <2>3, OkOfJob, SameRows
  <2> QED
    BY <1>1, <1>2, <2>1, <2>2, <2>3, <2>4, GoingOnKeeps
<1>5. CASE SweepStale(j)
  <2> DEFINE new == [job[j] EXCEPT !.at = "stale", !.rest = job[j].ids \ Unchanged(j), !.latest = list]
  <2>1. list \in Families /\ ListOK(list, astray, astray \cup slipped, overridden)
    BY DEF WorkInv, ItemsInv, ListOK
  <2>2. /\ new \in Jobs /\ new.at = "stale" /\ new.rows = job[j].rows /\ new.latest = list
        /\ new.ids = job[j].ids
    BY <1>2, <2>1 DEF Jobs, JobSteps
  <2>3. Becomes(j, new)
    BY <1>5 DEF SweepStale, Calls
  <2> HIDE DEF new
  <2>4. StageOK(new) /\ Taken(new) = {} /\ Attends(new)
    BY <2>2 DEF StageOK, Taken, Holding, Attends
  <2>5. RecordOK(new, astray, astray \cup slipped, overridden)
    BY <2>1, <2>2, <2>4, OkOfJob DEF RecordOK
  <2> QED
    BY <1>1, <1>2, <2>2, <2>3, <2>4, <2>5, GoingOnKeeps
<1> QED
  BY <1>3, <1>4, <1>5

-----------------------------------------------------------------------------
(* The calls that change the files.                                        *)

LEMMA AppendKeeps ==
  ASSUME WorkInv, NobodyGoesOn, NEW j \in Job, AppendDone(j)
  PROVE  WorkInv'
<1> USE DEF WorkInv
<1> DEFINE new == [job[j] EXCEPT !.at = "appended"]
           S == job[j].ids
           f == job[j].rows
           kind == job[j].kind
<1>1. /\ job[j].at = "append" /\ calls # <<>> /\ calls' = Tail(calls) /\ Becomes(j, new)
      /\ copies' = [x \in Archived \cup S |-> IF x \in S THEN CopyOf(kind, S, f[x]) ELSE copies[x]]
      /\ UNCHANGED <<vars, hidden, deleted, mishap, late, astray>>
  BY DEF AppendDone, Answered, past
<1>2. /\ job[j] \in Jobs /\ S \subseteq Item /\ f \in [S -> Rows]
      /\ kind = "cancel" => \A x \in S : f[x].rev < MaxRev
      /\ ~overridden => RowsLawful(f)
  BY <1>1, OkOfJob DEF StageOK, RowsOK, Jobs
<1>3. /\ new \in Jobs /\ new.at = "appended" /\ new.ids = S /\ new.rows = f /\ new.kind = kind
      /\ new.latest = job[j].latest
  BY <1>2 DEF Jobs, JobSteps
<1>4. \A x \in S : /\ CopyOf(kind, S, f[x]) \in Rows
                   /\ CopyOf(kind, S, f[x]).status = f[x].status
                   /\ CopyOf(kind, S, f[x]).checked = f[x].checked
                   /\ CopyOf(kind, S, f[x]).owner = f[x].owner
                   /\ CopyOf(kind, S, f[x]).reporter = f[x].reporter
  <2> TAKE x \in S
  <2>1. f[x] \in Rows
    BY <1>2
  <2>2. CASE kind = "cancel"
    <3>1. f[x].rev + 1 \in 0..MaxRev
      BY <1>2, <2>1, <2>2 DEF Rows
    <3>2. CopyOf(kind, S, f[x]) = [f[x] EXCEPT !.cancelled = S, !.rev = @ + 1]
      BY <2>2 DEF CopyOf
    <3> QED
      BY <1>2, <2>1, <3>1, <3>2 DEF Rows
  <2>3. CASE kind # "cancel"
    BY <2>1, <2>3 DEF CopyOf
  <2> QED
    BY <2>2, <2>3
<1> HIDE DEF new, S, f, kind
<1>5. StageOK(new) /\ Taken(new) = {} /\ Attends(new) /\ ~Attends(job[j])
  BY <1>1, <1>2, <1>3 DEF StageOK, Taken, Holding, Attends
<1>6. ItemsInv' /\ PastGrows /\ Listed' = Listed
  BY <1>1, ItemsStay
<1>7. RecordOK(new, astray', astray' \cup slipped', overridden')
  <2>1. new.rows = job[j].rows
    BY <1>3 DEF f
  <2> QED
    BY <1>1, <1>3, <1>5, <2>1, OkOfJob, SameRows DEF vars
<1>8. /\ JobsInv' /\ job'[j] = new /\ \A k \in Job : k # j => job'[k] = job[k]
  BY <1>1, <1>6, <1>7, OneRecord
<1>9. Archived' = Archived \cup S
  BY <1>1 DEF Archived
<1>10. \A x \in Archived' : copies'[x] = IF x \in S THEN CopyOf(kind, S, f[x]) ELSE copies[x]
  BY <1>1, <1>9
<1>11. FilesInv'
  <2>1. copies' \in [Archived' -> Rows] /\ Archived' \subseteq Item
    BY <1>1, <1>2, <1>4, <1>9 DEF FilesInv
  <2>2. ~overridden' => RowsLawful(copies')
    BY <1>1, <1>2, <1>4, <1>9, <1>10 DEF FilesInv, RowsLawful, Archived, vars
  <2>3. calls' \in Seq(Job)
    BY <1>1, CallsType DEF FilesInv
  <2> QED
    BY <1>1, <2>1, <2>2, <2>3 DEF FilesInv
<1>12. CopyInv'
  <2>1. \A k \in Job : job'[k].at = "appended" => k = j
    BY <1>8 DEF NobodyGoesOn
  <2>2. \A x \in S : x \in Archived' /\ copies'[x] = CopyOf(kind, S, f[x])
    BY <1>9, <1>10
  <2> QED
    BY <1>3, <1>8, <2>1, <2>2 DEF CopyInv
<1>13. TakeInv'
  <2> SUFFICES ASSUME NEW k \in Job
               PROVE  /\ Taken(job'[k]) \subseteq hidden \cap Archived'
                      /\ ~late => Taken(job'[k]) \cap Listed = {}
                      /\ job'[k].at = "take" /\ ~late => job'[k].ids \cap Listed \subseteq hidden
                      /\ \A m \in Job : m # k => Taken(job'[k]) \cap Taken(job'[m]) = {}
    BY <1>1, <1>6 DEF TakeInv, Taken
  <2>1. \A m \in Job : Taken(job'[m]) \subseteq Taken(job[m])
    BY <1>5, <1>8
  <2> QED
    BY <1>3, <1>8, <1>9, <2>1 DEF TakeInv
<1>14. PlaceInv'
  <2> SUFFICES ASSUME ~mishap, ~late, NEW i \in Listed, i \in Archived', i \notin hidden
               PROVE  \E k \in Job : i \in job'[k].ids /\ Attends(job'[k])
    BY <1>1, <1>6 DEF PlaceInv, Attended, Attends, Visible
  <2>1. CASE i \in S
    BY <1>3, <1>5, <1>8, <2>1
  <2>2. CASE i \notin S
    <3>1. PICK k \in Job : i \in job[k].ids /\ Attends(job[k])
      BY <1>9, <2>2 DEF PlaceInv, Attended, Visible
    <3> QED
      BY <1>5, <1>8, <3>1
  <2> QED
    BY <2>1, <2>2
<1> QED
  BY <1>6, <1>8, <1>11, <1>12, <1>13, <1>14

(* A row is taken: it is to be seen, so nobody holds it. *)
LEMMA TakeKeeps ==
  ASSUME WorkInv, NEW j \in Job, Take(j)
  PROVE  WorkInv'
<1> USE DEF WorkInv
<1>1. PICK i \in job[j].rest : Visible(i) /\ TakesOne(j, i)
  BY DEF Take
<1> DEFINE f == Plus(job[j].rows, i)
<1>2. /\ job[j].at = "take" /\ calls # <<>> /\ hidden' = hidden \cup {i}
      /\ late' = (late \/ i \in Listed \ job[j].ids)
      /\ UNCHANGED <<vars, copies, deleted, mishap, astray>>
      /\ i \in Archived /\ i \notin hidden
  BY <1>1 DEF Take, FirstCall, TakesOne, Visible
<1>3. /\ job[j] \in Jobs /\ i \in Item /\ copies[i] \in Rows /\ job[j].rows \in Families
      /\ job[j].ids \subseteq DOMAIN job[j].rows \cup job[j].rest
  BY <1>2, OkOfJob DEF StageOK, Jobs, FilesInv
<1>4. f \in Families /\ DOMAIN f = DOMAIN job[j].rows \cup {i} /\ RowsOK(f, overridden)
  <2> DEFINE g == job[j].rows
  <2>1. g \in Families /\ RowsOK(g, overridden)
    BY <1>3, OkOfJob
  <2>2. /\ DOMAIN f = DOMAIN g \cup {i}
        /\ \A x \in DOMAIN f : f[x] = IF x = i THEN copies[i] ELSE g[x]
    BY DEF Plus
  <2>3. f \in [DOMAIN g \cup {i} -> Rows] /\ DOMAIN g \cup {i} \subseteq Item
    BY <1>3, <2>1, FamilyParts DEF Plus
  <2> HIDE DEF f, g
  <2>4. f \in Families
    BY <2>3, FamilyType
  <2>5. ~overridden => RowsLawful(f)
    BY <1>2, <2>1, <2>2 DEF RowsOK, RowsLawful, FilesInv, Archived
  <2>6. IsFiniteSet(DOMAIN f)
    BY <2>1, <2>2, FS_AddElement DEF RowsOK
  <2> QED
    BY <2>2, <2>4, <2>5, <2>6 DEF RowsOK, g
<1> DEFINE took == Took(j, i)
<1>5. /\ took \in Jobs /\ took.at = "take" /\ took.ids = job[j].ids /\ took.rows = f
      /\ took.rest = job[j].rest \ {i} /\ took.latest = job[j].latest /\ took.kind = job[j].kind
  BY <1>2, <1>3, <1>4 DEF Took, Jobs
<1> HIDE DEF f, took
<1>6. \E new \in Jobs :
         /\ Becomes(j, new) /\ calls' \in Seq(Job)
         /\ new.ids = job[j].ids /\ new.rows = f /\ new.latest = job[j].latest
         /\ \/ new.at = "take" /\ new.rest = job[j].rest \ {i}
            \/ new.at \in {"rooted", "taken"} /\ job[j].rest \ {i} = {}
  <2>1. Tail(calls) \in Seq(Job) /\ Append(Tail(calls), j) \in Seq(Job)
    BY <1>2, CallsType DEF FilesInv
  <2>2. CASE took.rest = {}
    <3> DEFINE at == IF took.kind = "revive" /\ took.ids = {i} THEN "rooted" ELSE "taken"
               new == [took EXCEPT !.at = at]
    <3>1. Becomes(j, new) /\ calls' = Tail(calls)
      BY <1>1, <2>2 DEF TakesOne, took
    <3>2. at \in {"rooted", "taken"}
      OBVIOUS
    <3> HIDE DEF at
    <3>3. /\ new \in Jobs /\ new.at = at /\ new.ids = took.ids /\ new.rows = took.rows
          /\ new.latest = took.latest
      BY <1>5, <3>2 DEF Jobs, JobSteps
    <3> HIDE DEF new
    <3> QED
      BY <1>5, <2>1, <2>2, <3>1, <3>2, <3>3
  <2>3. CASE took.rest # {}
    <3>1. Becomes(j, took) /\ calls' = Append(Tail(calls), j)
      BY <1>1, <2>3 DEF TakesOne, CallsAgain, took
    <3> QED
      BY <1>5, <2>1, <3>1
  <2> QED
    BY <2>2, <2>3
<1>7. PICK new \in Jobs :
         /\ Becomes(j, new) /\ calls' \in Seq(Job)
         /\ new.ids = job[j].ids /\ new.rows = f /\ new.latest = job[j].latest
         /\ \/ new.at = "take" /\ new.rest = job[j].rest \ {i}
            \/ new.at \in {"rooted", "taken"} /\ job[j].rest \ {i} = {}
  BY <1>6
<1>8. /\ StageOK(new) /\ ~Attends(new) /\ ~Attends(job[j])
      /\ Taken(job[j]) = DOMAIN job[j].rows /\ Taken(new) = Taken(job[j]) \cup {i}
  BY <1>2, <1>3, <1>4, <1>7 DEF StageOK, Attends, Taken, Holding
<1>9. ItemsInv' /\ PastGrows /\ Listed' = Listed
  BY <1>2, ItemsStay
<1>10. RecordOK(new, astray', astray' \cup slipped', overridden')
  BY <1>2, <1>4, <1>7, <1>8, OkOfJob DEF RecordOK, vars
<1>11. /\ JobsInv' /\ job'[j] = new /\ \A k \in Job : k # j => job'[k] = job[k]
  BY <1>7, <1>9, <1>10, OneRecord
<1>12. Archived' = Archived
  BY <1>2 DEF Archived
<1>13. FilesInv'
  <2>1. late' \in BOOLEAN
    BY <1>2
  <2> QED
    BY <1>2, <1>3, <1>7, <1>12, <2>1 DEF FilesInv, vars
<1>14. CopyInv'
  BY <1>2, <1>7, <1>11, <1>12 DEF CopyInv
<1>15. TakeInv'
  <2> SUFFICES ASSUME NEW k \in Job
               PROVE  /\ Taken(job'[k]) \subseteq hidden' \cap Archived
                      /\ ~late' => Taken(job'[k]) \cap Listed = {}
                      /\ job'[k].at = "take" /\ ~late' => job'[k].ids \cap Listed \subseteq hidden'
                      /\ \A m \in Job : m # k => Taken(job'[k]) \cap Taken(job'[m]) = {}
    BY <1>9, <1>12 DEF TakeInv, Taken
  <2>1. ~late' => ~late /\ i \notin Listed
    BY <1>2 DEF TakeInv
  <2>2. \A m \in Job : i \notin Taken(job[m])
    BY <1>2 DEF TakeInv
  <2>3. \A m \in Job : m # j => Taken(job'[m]) = Taken(job[m])
    BY <1>11
  <2>4. Taken(job'[j]) = Taken(job[j]) \cup {i}
    BY <1>8, <1>11
  <2>5. Taken(job'[k]) \subseteq hidden' \cap Archived /\ (~late' => Taken(job'[k]) \cap Listed = {})
    BY <1>2, <2>1, <2>3, <2>4 DEF TakeInv
  <2>6. job'[k].at = "take" /\ ~late' => job'[k].ids \cap Listed \subseteq hidden'
    BY <1>2, <1>7, <1>11, <2>1 DEF TakeInv
  <2>7. \A m \in Job : m # k => Taken(job'[k]) \cap Taken(job'[m]) = {}
    BY <2>2, <2>3, <2>4 DEF TakeInv
  <2> QED
    BY <2>5, <2>6, <2>7
<1>16. PlaceInv'
  <2> SUFFICES ASSUME ~mishap, ~late, NEW x \in Listed, x \in Archived, x \notin hidden
               PROVE  \E k \in Job : x \in job'[k].ids /\ Attends(job'[k])
    BY <1>2, <1>9, <1>12 DEF PlaceInv, Attended, Attends, Visible
  <2>1. PICK k \in Job : x \in job[k].ids /\ Attends(job[k])
    BY DEF PlaceInv, Attended, Visible
  <2> QED
    BY <1>8, <1>11, <2>1
<1> QED
  BY <1>9, <1>11, <1>13, <1>14, <1>15, <1>16

(* A handler that comes to its end, or to its last clean-up, in a step     *)
(* that may write the list and may hide copies.  Unless something went     *)
(* wrong before, it lists only what was listed or what it had taken, and   *)
(* what it was to remove or to hide is either by now.                      *)
LEMMA EndKeeps ==
  ASSUME WorkInv, NEW j \in Job, NEW new, Becomes(j, new),
         new.at \notin {"appended", "take"}, Taken(new) = {},
         RecordOK(new, astray', astray' \cup slipped, overridden),
         ListOK(list', astray', astray' \cup slipped, overridden),
         UNCHANGED <<waiting, setup, overridden, slipped, copies, deleted, mishap>>,
         astray \subseteq astray', astray' \subseteq Item,
         hidden \subseteq hidden', hidden' \subseteq Item,
         calls' \in Seq(Job), late' \in BOOLEAN, late => late',
         ~late' => Listed' \subseteq Listed \cup Taken(job[j]),
         ~late' /\ Attends(job[j]) => job[j].ids \cap Listed' \subseteq hidden'
  PROVE  WorkInv'
<1> USE DEF WorkInv
<1>1. ItemsInv' /\ PastGrows
  <2>1. ListOK(list', astray', astray' \cup slipped, overridden) /\ waiting' \subseteq waiting
    OBVIOUS
  <2> QED
    BY <2>1, ItemsAgain DEF PastGrows
<1>2. RecordOK(new, astray', astray' \cup slipped', overridden')
  OBVIOUS
<1>3. /\ JobsInv' /\ job'[j] = new /\ \A k \in Job : k # j => job'[k] = job[k]
  BY <1>1, <1>2, OneRecord
<1>4. Archived' = Archived
  BY DEF Archived
<1>5. FilesInv'
  BY <1>4 DEF FilesInv
<1>6. CopyInv'
  BY <1>3, <1>4 DEF CopyInv
<1>7. TakeInv'
  <2> SUFFICES ASSUME NEW k \in Job
               PROVE  /\ Taken(job'[k]) \subseteq hidden' \cap Archived
                      /\ ~late' => Taken(job'[k]) \cap Listed' = {}
                      /\ job'[k].at = "take" /\ ~late' => job'[k].ids \cap Listed' \subseteq hidden'
                      /\ \A m \in Job : m # k => Taken(job'[k]) \cap Taken(job'[m]) = {}
    BY <1>4 DEF TakeInv, Taken
  <2>1. \A m \in Job : Taken(job'[m]) \subseteq Taken(job[m])
    BY <1>3
  <2>2. Taken(job[j]) \subseteq hidden
    BY DEF TakeInv
  <2>3. CASE k = j
    BY <1>3, <2>1, <2>3
  <2>4. CASE k # j
    BY <1>3, <2>1, <2>2, <2>4 DEF TakeInv
  <2> QED
    BY <2>3, <2>4
<1>8. PlaceInv'
  <2> SUFFICES ASSUME ~mishap, ~late', NEW i \in Listed', i \in Archived, i \notin hidden'
               PROVE  \E k \in Job : i \in job'[k].ids /\ Attends(job'[k])
    BY <1>4 DEF PlaceInv, Attended, Attends, Visible
  <2>1. ~late /\ i \in Listed /\ i \notin hidden
    BY DEF TakeInv
  <2>2. PICK k \in Job : i \in job[k].ids /\ Attends(job[k])
    BY <2>1 DEF PlaceInv, Attended, Visible
  <2> QED
    BY <1>3, <2>2
<1> QED
  BY <1>1, <1>3, <1>5, <1>6, <1>7, <1>8

(* The copies that were made for nothing are hidden. *)
LEMMA ForgetKeeps ==
  ASSUME WorkInv, NEW j \in Job, Forget(j)
  PROVE  WorkInv'
<1>1. /\ Becomes(j, Idle) /\ calls # <<>> /\ calls' = Tail(calls) /\ hidden' = hidden \cup job[j].ids
      /\ job[j].at = "forget"
      /\ UNCHANGED <<list, waiting, setup, overridden, slipped, copies, deleted, mishap, late, astray>>
  BY DEF Forget, Answered, Ends, vars, past
<1>2. /\ RecordOK(Idle, astray', astray' \cup slipped, overridden) /\ Taken(Idle) = {}
      /\ Idle.at = "idle"
  BY IdleOK, IdleType
<1>3. job[j].ids \subseteq Item /\ calls' \in Seq(Job)
  BY <1>1, OkOfJob, CallsType DEF Jobs, WorkInv, FilesInv
<1>4. /\ ListOK(list', astray', astray' \cup slipped, overridden)
      /\ hidden' \subseteq Item /\ astray' \subseteq Item /\ late' \in BOOLEAN /\ Listed' = Listed
  BY <1>1, <1>3 DEF WorkInv, ItemsInv, FilesInv, Listed
<1>5. hidden \subseteq hidden' /\ job[j].ids \subseteq hidden' /\ astray \subseteq astray' /\ (late => late')
  BY <1>1
<1> QED
  BY <1>1, <1>2, <1>3, <1>4, <1>5, EndKeeps

(* A row is put back into the archive: nobody else has it, and it is not   *)
(* listed.                                                                 *)
LEMMA UndoKeeps ==
  ASSUME WorkInv, NEW j \in Job, Undo(j)
  PROVE  WorkInv'
<1> USE DEF WorkInv
<1>1. PICK i \in DOMAIN job[j].rows : hidden' = hidden \ {i} /\ OneLess(j, i)
  BY DEF Undo
<1>2. /\ job[j].at = "undo" /\ FirstCall(j)
      /\ UNCHANGED <<vars, copies, deleted, mishap, late, astray>>
      /\ Taken(job[j]) = DOMAIN job[j].rows /\ ~Attends(job[j])
  BY DEF Undo, past, Taken, Holding, Attends
<1>3. calls' \in Seq(Job)
  BY <1>1, <1>2, OneLessOK
<1>4. PICK new : /\ Becomes(j, new) /\ RecordOK(new, astray, astray \cup slipped, overridden)
                 /\ new.at \in {"idle", "undo"} /\ Taken(new) \subseteq Taken(job[j]) \ {i}
  BY <1>1, <1>2, OneLessOK
<1>5. ItemsInv' /\ PastGrows /\ Listed' = Listed
  BY <1>2, ItemsStay
<1>6. RecordOK(new, astray', astray' \cup slipped', overridden')
  BY <1>2, <1>4 DEF vars
<1>7. /\ JobsInv' /\ job'[j] = new /\ \A k \in Job : k # j => job'[k] = job[k]
  BY <1>4, <1>5, <1>6, OneRecord
<1>8. Archived' = Archived
  BY <1>2 DEF Archived
<1>9. FilesInv'
  BY <1>1, <1>2, <1>3, <1>8 DEF FilesInv, vars
<1>10. CopyInv'
  BY <1>2, <1>4, <1>7, <1>8 DEF CopyInv
<1>11. ~late => i \notin Listed
  BY <1>2 DEF TakeInv
<1>12. TakeInv'
  <2> SUFFICES ASSUME NEW k \in Job
               PROVE  /\ Taken(job'[k]) \subseteq hidden' \cap Archived
                      /\ ~late => Taken(job'[k]) \cap Listed = {}
                      /\ job'[k].at = "take" /\ ~late => job'[k].ids \cap Listed \subseteq hidden'
                      /\ \A m \in Job : m # k => Taken(job'[k]) \cap Taken(job'[m]) = {}
    BY <1>2, <1>5, <1>8 DEF TakeInv, Taken
  <2>1. \A m \in Job : Taken(job'[m]) \subseteq Taken(job[m])
    BY <1>4, <1>7
  <2>2. i \notin Taken(job'[k])
    BY <1>2, <1>4, <1>7 DEF TakeInv
  <2>3. Taken(job'[k]) \subseteq hidden' \cap Archived
    BY <1>1, <2>1, <2>2 DEF TakeInv
  <2>4. job'[k].at = "take" /\ ~late => job'[k].ids \cap Listed \subseteq hidden'
    BY <1>1, <1>4, <1>7, <1>11 DEF TakeInv
  <2> QED
    BY <2>1, <2>3, <2>4 DEF TakeInv
<1>13. PlaceInv'
  <2> SUFFICES ASSUME ~mishap, ~late, NEW x \in Listed, x \in Archived, x \notin hidden'
               PROVE  \E k \in Job : x \in job'[k].ids /\ Attends(job'[k])
    BY <1>2, <1>5, <1>8 DEF PlaceInv, Attended, Attends, Visible
  <2>1. PICK k \in Job : x \in job[k].ids /\ Attends(job[k])
    BY <1>1, <1>11 DEF PlaceInv, Attended, Visible
  <2> QED
    BY <1>2, <1>7, <2>1
<1> QED
  BY <1>5, <1>7, <1>9, <1>10, <1>12, <1>13

-----------------------------------------------------------------------------
(* The handlers that write the list.                                       *)

(* The rows of S leave a list that is claimed of. *)
LEMMA LeaveOK ==
  ASSUME WorkInv, NEW l, ListOK(l, astray, astray \cup slipped, overridden), NEW S, Leave(l, S)
  PROVE  /\ ListOK(list', astray', astray' \cup slipped, overridden)
         /\ Listed' = DOMAIN l \ S
         /\ astray \subseteq astray' /\ astray' \subseteq Item
         /\ UNCHANGED <<waiting, setup, overridden, slipped>>
<1> DEFINE left == {c \in DOMAIN l \ S : l[c].parent \in S}
           B1 == astray \cup slipped
           B2 == astray' \cup slipped
<1>1. /\ list' = Minus(l, S) /\ astray' = astray \cup left
      /\ UNCHANGED <<waiting, setup, overridden, slipped>>
  BY DEF Leave, ListBecomes
<1>2. astray \cup left \subseteq astray' /\ B1 \subseteq B2
  BY <1>1
<1>3. DOMAIN l \subseteq Item
  BY FamilyParts DEF ListOK
<1>4. ListOK(l, astray, B1, overridden)
  OBVIOUS
<1> HIDE DEF B1, B2
<1>5. ListOK(Minus(l, S), astray', B2, overridden) /\ DOMAIN Minus(l, S) = DOMAIN l \ S
  BY ONLY <1>2, <1>4, MinusOK
<1>6. astray' \subseteq Item
  BY <1>1, <1>3 DEF WorkInv, FilesInv
<1> QED
  BY <1>1, <1>2, <1>5, <1>6 DEF Listed, B2

LEMMA RemovesKeeps ==
  ASSUME WorkInv, NEW j \in Job, Removes(j)
  PROVE  WorkInv'
<1>1. /\ Leave(list, job[j].ids) /\ Becomes(j, Idle) /\ job[j].at = "appended"
      /\ UNCHANGED <<copies, hidden, deleted, mishap, late, calls>>
  BY DEF Removes, Ends
<1>2. ListOK(list, astray, astray \cup slipped, overridden)
  BY DEF WorkInv, ItemsInv
<1>3. /\ ListOK(list', astray', astray' \cup slipped, overridden)
      /\ Listed' = Listed \ job[j].ids
      /\ astray \subseteq astray' /\ astray' \subseteq Item
      /\ UNCHANGED <<waiting, setup, overridden, slipped>>
  BY <1>1, <1>2, LeaveOK DEF Listed
<1>4. /\ RecordOK(Idle, astray', astray' \cup slipped, overridden) /\ Taken(Idle) = {}
      /\ Idle.at = "idle"
  BY IdleOK, IdleType
<1>5. hidden' \subseteq Item /\ calls' \in Seq(Job) /\ late' \in BOOLEAN
  BY <1>1 DEF WorkInv, FilesInv
<1> QED
  BY <1>1, <1>3, <1>4, <1>5, EndKeeps

(* A sweep hides its stale copies, and writes the list it noted. *)
LEMMA SweepHidesKeeps ==
  ASSUME WorkInv, NEW j \in Job, SweepHides(j)
  PROVE  WorkInv'
<1> DEFINE moved == job[j].ids \ job[j].rest
           latest == job[j].latest
<1>1. /\ job[j].at = "stale" /\ calls # <<>> /\ hidden' = hidden \cup job[j].rest
      /\ UNCHANGED <<copies, deleted, mishap>>
  BY DEF SweepHides, FirstCall
<1>2. /\ job[j] \in Jobs /\ StageOK(job[j])
      /\ job[j].rest \subseteq Item /\ moved \subseteq Item
      /\ ListOK(latest, astray, astray \cup slipped, overridden)
      /\ RowsOK(job[j].rows, overridden)
  BY OkOfJob DEF Jobs
<1>3. /\ hidden \subseteq hidden' /\ hidden' \subseteq Item
      /\ Tail(calls) \in Seq(Job) /\ Append(Tail(calls), j) \in Seq(Job)
  BY <1>1, <1>2, CallsType DEF WorkInv, FilesInv
<1>4. CASE moved = {} /\ Ends(j) /\ calls' = Tail(calls) /\ UNCHANGED <<vars, late, astray>>
  <2>1. UNCHANGED <<list, waiting, setup, overridden, slipped, late, astray>> /\ Listed' = Listed
    BY <1>4 DEF vars, Listed
  <2>2. /\ ListOK(list', astray', astray' \cup slipped, overridden)
        /\ astray' \subseteq Item /\ late' \in BOOLEAN
    BY <2>1 DEF WorkInv, ItemsInv, FilesInv
  <2>3. /\ RecordOK(Idle, astray', astray' \cup slipped, overridden) /\ Taken(Idle) = {}
        /\ Idle.at = "idle" /\ Becomes(j, Idle)
    BY <1>4, IdleOK, IdleType DEF Ends
  <2>4. job[j].ids \subseteq hidden'
    BY <1>1, <1>4
  <2>5. calls' \in Seq(Job)
    BY <1>3, <1>4
  <2> QED
    BY <1>1, <1>3, <2>1, <2>2, <2>3, <2>4, <2>5, EndKeeps
<1> DEFINE next == [job[j] EXCEPT !.at = "forget", !.ids = moved]
<1>5. CASE \/ Leave(latest, moved) /\ late' = TRUE /\ Ends(j) /\ calls' = Tail(calls)
           \/ Leave(latest, {}) /\ late' = TRUE /\ Becomes(j, next) /\ calls' = Append(Tail(calls), j)
  <2>1. PICK S \in {moved, {}} : Leave(latest, S)
    BY <1>5
  <2> HIDE DEF moved, latest
  <2>2. /\ ListOK(list', astray', astray' \cup slipped, overridden)
        /\ astray \subseteq astray' /\ astray' \subseteq Item
        /\ UNCHANGED <<waiting, setup, overridden, slipped>>
    BY <1>2, <2>1, LeaveOK
  <2>3. late' = TRUE /\ calls' \in Seq(Job)
    BY <1>3, <1>5
  <2>4. PICK new \in {Idle, next} : Becomes(j, new)
    BY <1>5 DEF Ends
  <2>5. /\ RecordOK(new, astray', astray' \cup slipped, overridden) /\ Taken(new) = {}
        /\ new.at \in {"idle", "forget"}
    <3>1. CASE new = Idle
      BY <3>1, IdleOK, IdleType
    <3>2. CASE new = next
      <4>1. /\ next \in Jobs /\ next.at = "forget" /\ next.rows = job[j].rows
            /\ next.latest = latest
        BY <1>2 DEF Jobs, JobSteps, latest, moved
      <4> HIDE DEF next
      <4>2. StageOK(next) /\ Taken(next) = {}
        BY <4>1 DEF StageOK, Taken, Holding
      <4> DEFINE B1 == astray \cup slipped
                 B2 == astray' \cup slipped
      <4>3. ListOK(latest, astray, B1, overridden) /\ astray \subseteq astray' /\ B1 \subseteq B2
        BY <1>2, <2>2
      <4> HIDE DEF B1, B2
      <4>4. ListOK(latest, astray', B2, overridden)
        BY ONLY <4>3, StaysOK
      <4>5. RecordOK(next, astray', B2, overridden)
        BY <1>2, <4>1, <4>2, <4>4 DEF RecordOK
      <4> QED
        BY <3>2, <4>1, <4>2, <4>5 DEF B2
    <3> QED
      BY <3>1, <3>2
  <2>6. /\ UNCHANGED <<waiting, setup, overridden, slipped, copies, deleted, mishap>>
        /\ late' \in BOOLEAN /\ (late => late')
        /\ ~late' => Listed' \subseteq Listed \cup Taken(job[j])
        /\ ~late' /\ Attends(job[j]) => job[j].ids \cap Listed' \subseteq hidden'
    BY <1>1, <2>2, <2>3
  <2> QED
    BY <1>3, <2>2, <2>3, <2>4, <2>5, <2>6, EndKeeps
<1> QED
  BY <1>4, <1>5 DEF SweepHides, CallsAgain

(* The rows of S come back into a list that is claimed of. *)
LEMMA ReturnsKeeps ==
  ASSUME WorkInv, NEW j \in Job, NEW l, ListOK(l, astray, astray \cup slipped, overridden),
         NEW S \in SUBSET Taken(job[j]), NEW next, Return(next, S),
         DOMAIN next = DOMAIN l \cup S, next \in [DOMAIN l \cup S -> Rows],
         \A x \in DOMAIN next \ S : next[x] = l[x],
         ~overridden => \A x \in S : next[x].status \in Closed =>
           next[x].checked /\ next[x].reporter = next[x].owner,
         IsFiniteSet(DOMAIN next), Cardinality(DOMAIN next) <= Cap,
         late' \in BOOLEAN, late => late', ~late' => DOMAIN l = Listed,
         job[j].at = "taken", Ends(j),
         UNCHANGED <<copies, hidden, deleted, mishap, calls>>
  PROVE  WorkInv'
<1> DEFINE back == {x \in DOMAIN next : x \in S \/ next[x].parent \in S}
           B1 == astray \cup slipped
           B2 == astray' \cup slipped
<1>1. /\ list' = next /\ astray' = astray \cup back
      /\ UNCHANGED <<waiting, setup, overridden, slipped>>
  BY DEF Return, ListBecomes
<1>2. S \subseteq Item /\ DOMAIN l \subseteq Item
  <2>1. Taken(job[j]) \subseteq Item
    BY DEF WorkInv, TakeInv, FilesInv
  <2>2. DOMAIN l \subseteq Item
    BY FamilyParts DEF ListOK
  <2> QED
    BY <2>1, <2>2
<1>3. next \in Families
  BY <1>2, FamilyType
<1>4. astray \cup back \subseteq astray' /\ B1 \cup back \subseteq B2 /\ ListOK(l, astray, B1, overridden)
  BY <1>1
<1>5. astray \subseteq astray' /\ astray' \subseteq Item /\ Listed' = DOMAIN l \cup S
  BY <1>1, <1>2 DEF WorkInv, FilesInv, Listed
<1> HIDE DEF B1, B2
<1>6. ListOK(next, astray', B2, overridden)
  BY <1>3, <1>4, ReturnOK
<1>7. ListOK(list', astray', astray' \cup slipped, overridden)
  BY <1>1, <1>6 DEF B2
<1>8. /\ RecordOK(Idle, astray', astray' \cup slipped, overridden) /\ Taken(Idle) = {}
      /\ Idle.at = "idle" /\ Becomes(j, Idle) /\ ~Attends(job[j])
  BY IdleOK, IdleType DEF Ends, Attends
<1>9. hidden' \subseteq Item /\ calls' \in Seq(Job)
  BY DEF WorkInv, FilesInv
<1> QED
  BY <1>1, <1>5, <1>7, <1>8, <1>9, EndKeeps

LEMMA PutBackKeeps ==
  ASSUME WorkInv, NEW j \in Job, PutBack(j)
  PROVE  WorkInv'
<1> DEFINE f == job[j].rows
<1>1. PICK i \in job[j].ids : Return(With(i, f[i]), {i})
  BY DEF PutBack
<1> DEFINE next == With(i, f[i])
<1>2. /\ job[j].at = "taken" /\ Ends(j) /\ Cardinality(Listed) < Cap
      /\ UNCHANGED <<copies, hidden, deleted, mishap, late, calls>>
  BY DEF PutBack, StillRoom, HasRoom
<1>3. /\ i \in Taken(job[j]) /\ i \in DOMAIN f /\ f \in [DOMAIN f -> Rows]
      /\ RowsOK(f, overridden)
  BY <1>2, OkOfJob, FamilyParts DEF Taken, Holding, StageOK, Jobs
<1>4. /\ DOMAIN next = DOMAIN list \cup {i}
      /\ \A x \in DOMAIN next : next[x] = IF x = i THEN f[i] ELSE list[x]
  BY DEF With, Listed
<1>5. ListOK(list, astray, astray \cup slipped, overridden) /\ list \in [DOMAIN list -> Rows]
  BY FamilyParts DEF WorkInv, ItemsInv, ListOK
<1>6. next \in [DOMAIN list \cup {i} -> Rows]
  BY <1>3, <1>5 DEF With, Listed
<1>7. \A x \in DOMAIN next \ {i} : next[x] = list[x]
  BY <1>4
<1>8. ~overridden => \A x \in {i} : next[x].status \in Closed =>
        next[x].checked /\ next[x].reporter = next[x].owner
  BY <1>3, <1>4 DEF RowsOK, RowsLawful
<1>9. IsFiniteSet(DOMAIN next) /\ Cardinality(DOMAIN next) <= Cap
  <2>1. IsFiniteSet(Listed) /\ Cardinality(Listed) \in Nat
    BY <1>5, FS_CardinalityType DEF ListOK, Listed
  <2>2. /\ IsFiniteSet(Listed \cup {i})
        /\ Cardinality(Listed \cup {i}) = IF i \in Listed THEN Cardinality(Listed) ELSE Cardinality(Listed) + 1
    BY <2>1, FS_AddElement
  <2> QED
    BY <1>2, <1>4, <2>1, <2>2 DEF Listed
<1>10. {i} \in SUBSET Taken(job[j]) /\ Return(next, {i})
  BY <1>1, <1>3
<1>11. late' \in BOOLEAN /\ (late => late') /\ (~late' => DOMAIN list = Listed)
  BY <1>2 DEF WorkInv, FilesInv, Listed
<1> HIDE DEF next, f
<1> QED
  BY <1>2, <1>4, <1>5, <1>6, <1>7, <1>8, <1>9, <1>10, <1>11, ReturnsKeeps

LEMMA ReviveWritesKeeps ==
  ASSUME WorkInv, NEW j \in Job, ReviveWrites(j)
  PROVE  WorkInv'
<1> DEFINE f == job[j].rows
           latest == job[j].latest
           next == [x \in DOMAIN latest \cup DOMAIN f |->
                      IF x \in DOMAIN f THEN Revived(f[x]) ELSE latest[x]]
<1>1. /\ job[j].at = "taken" /\ Ends(j) /\ Return(next, DOMAIN f)
      /\ \A x \in DOMAIN f : f[x].rev < MaxRev
      /\ Cardinality(DOMAIN latest) + Cardinality(DOMAIN f) <= Cap
      /\ late' = (late \/ list # latest)
      /\ UNCHANGED <<copies, hidden, deleted, mishap, calls>>
  BY DEF ReviveWrites
<1>2. /\ Taken(job[j]) = DOMAIN f /\ f \in [DOMAIN f -> Rows] /\ RowsOK(f, overridden)
      /\ ListOK(latest, astray, astray \cup slipped, overridden)
      /\ latest \in [DOMAIN latest -> Rows]
  BY <1>1, OkOfJob, FamilyParts DEF Taken, Holding, Jobs
<1>3. \A x \in DOMAIN f : /\ Revived(f[x]) \in Rows /\ Revived(f[x]).status = f[x].status
                          /\ Revived(f[x]).checked = f[x].checked
                          /\ Revived(f[x]).owner = f[x].owner
                          /\ Revived(f[x]).reporter = f[x].reporter
  <2> TAKE x \in DOMAIN f
  <2>1. f[x] \in Rows /\ f[x].rev < MaxRev
    BY <1>1, <1>2
  <2>2. f[x].rev + 1 \in 0..MaxRev
    BY <2>1 DEF Rows
  <2> QED
    BY <2>1, <2>2 DEF Rows, Revived
<1> HIDE DEF f, latest
<1>4. /\ DOMAIN next = DOMAIN latest \cup DOMAIN f
      /\ \A x \in DOMAIN next : next[x] = IF x \in DOMAIN f THEN Revived(f[x]) ELSE latest[x]
  OBVIOUS
<1>5. next \in [DOMAIN latest \cup DOMAIN f -> Rows]
  BY <1>2, <1>3
<1> HIDE DEF next
<1>6. \A x \in DOMAIN next \ DOMAIN f : next[x] = latest[x]
  BY <1>4
<1>7. ~overridden => \A x \in DOMAIN f : next[x].status \in Closed =>
        next[x].checked /\ next[x].reporter = next[x].owner
  BY <1>2, <1>3, <1>4 DEF RowsOK, RowsLawful
<1>8. IsFiniteSet(DOMAIN next) /\ Cardinality(DOMAIN next) <= Cap
  <2> DEFINE D == DOMAIN latest
             F == DOMAIN f
  <2>1. IsFiniteSet(D) /\ IsFiniteSet(F)
    BY <1>2 DEF ListOK, RowsOK
  <2>2. /\ IsFiniteSet(D \cup F)
        /\ Cardinality(D \cup F) = Cardinality(D) + Cardinality(F) - Cardinality(D \cap F)
    BY <2>1, FS_Union
  <2>3. IsFiniteSet(D \cap F)
    BY <2>1, FS_Subset
  <2>4. Cardinality(D) \in Nat /\ Cardinality(F) \in Nat /\ Cardinality(D \cap F) \in Nat
    BY <2>1, <2>3, FS_CardinalityType
  <2> QED
    BY <1>1, <1>4, <2>2, <2>4
<1>9. late' \in BOOLEAN /\ (late => late') /\ (~late' => DOMAIN latest = Listed)
  BY <1>1 DEF Listed, WorkInv, FilesInv
<1> QED
  BY <1>1, <1>2, <1>4, <1>5, <1>6, <1>7, <1>8, <1>9, ReturnsKeeps

(* The handlers of WorkItems, beside those of the archive: what they list  *)
(* anew is an item no handler of the archive knows.                        *)
LEMMA BesideKeeps ==
  ASSUME WorkInv, Kept, UNCHANGED <<copies, hidden, mishap, late, astray, job, calls>>,
         deleted' \subseteq Item,
         \A i \in Listed' \ Listed : i \notin Archived /\ \A j \in Job : i \notin job[j].ids
  PROVE  WorkInv'
<1> USE DEF WorkInv
<1>1. ItemsInv' /\ PastGrows
  BY DEF Kept, ItemsInv, PastGrows
<1>2. JobsInv'
  <2>1. ASSUME NEW k \in Job PROVE RecordOK(job[k], astray', astray' \cup slipped', overridden')
    <3> DEFINE B1 == astray \cup slipped
               B2 == astray' \cup slipped'
    <3>1. /\ RecordOK(job[k], astray, B1, overridden)
          /\ astray \subseteq astray' /\ B1 \subseteq B2 /\ (overridden => overridden')
      BY <1>1, <2>1, OkOfJob DEF PastGrows
    <3> HIDE DEF B1, B2
    <3>2. RecordOK(job[k], astray', B2, overridden')
      BY ONLY <3>1, RecordStays
    <3> QED
      BY <3>2 DEF B2
  <2> QED
    BY <2>1 DEF JobsInv
<1>3. Archived' = Archived
  BY DEF Archived
<1>4. FilesInv'
  BY <1>1, <1>3 DEF FilesInv, PastGrows
<1>5. CopyInv'
  BY <1>3 DEF CopyInv
<1>6. TakeInv'
  <2> SUFFICES ASSUME NEW k \in Job
               PROVE  /\ Taken(job[k]) \subseteq hidden \cap Archived
                      /\ ~late => Taken(job[k]) \cap Listed' = {}
                      /\ job[k].at = "take" /\ ~late => job[k].ids \cap Listed' \subseteq hidden
                      /\ \A m \in Job : m # k => Taken(job[k]) \cap Taken(job[m]) = {}
    BY <1>3 DEF TakeInv, Taken
  <2>1. Taken(job[k]) \subseteq Archived
    BY DEF TakeInv
  <2> QED
    BY <2>1 DEF TakeInv
<1>7. PlaceInv'
  <2> SUFFICES ASSUME ~mishap, ~late, NEW i \in Listed', i \in Archived, i \notin hidden
               PROVE  \E k \in Job : i \in job[k].ids /\ Attends(job[k])
    BY <1>3 DEF PlaceInv, Attended, Attends, Visible
  <2> QED
    BY DEF PlaceInv, Attended, Visible
<1> QED
  BY <1>1, <1>2, <1>4, <1>5, <1>6, <1>7

(* Of these handlers, what they do to the list in one step. *)
LEMMA ItemsMove ==
  ASSUME WorkInv,
         \/ (ItemTurn \/ Adds) /\ UNCHANGED <<archive, job, calls>>
         \/ \E S, T \in SUBSET Listed : Deletes(S, T)
  PROVE  WorkInv' /\ HistoryGrows /\ Listed \ Listed' \subseteq deleted'
<1> USE DEF WorkInv
<1>1. CASE ItemTurn /\ UNCHANGED <<archive, job, calls>>
  <2>1. Kept /\ Listed' = Listed
    BY <1>1, ItemTurnKeeps
  <2>2. UNCHANGED <<copies, hidden, mishap, late, astray, job, calls, deleted>> /\ deleted' \subseteq Item
    BY <1>1 DEF archive, past, FilesInv
  <2>3. WorkInv'
    BY <2>1, <2>2, BesideKeeps
  <2> QED
    BY <2>1, <2>3 DEF Kept
<1>2. CASE Adds /\ UNCHANGED <<archive, job, calls>>
  <2>1. PICK i \in Item, p \in Item \cup {NoItem}, said \in setup.contents :
          NeverUsed(i) /\ Add(i, p, said)
    BY <1>2 DEF Adds
  <2>2. said \in Says
    BY DEF ItemsInv, TypeOK, AllSetups
  <2>3. Kept /\ Listed' = Listed \cup {i}
    BY <2>1, <2>2, AddKeeps
  <2>4. UNCHANGED <<copies, hidden, mishap, late, astray, job, calls, deleted>> /\ deleted' \subseteq Item
    BY <1>2 DEF archive, past, FilesInv
  <2>5. \A x \in Listed' \ Listed : x \notin Archived /\ \A j \in Job : x \notin job[j].ids
    BY <2>1, <2>3 DEF NeverUsed
  <2>6. WorkInv'
    BY <2>3, <2>4, <2>5, BesideKeeps
  <2> QED
    BY <2>3, <2>6 DEF Kept
<1>3. ASSUME NEW S \in SUBSET Listed, NEW T \in SUBSET Listed, Deletes(S, T)
      PROVE  WorkInv' /\ HistoryGrows /\ Listed \ Listed' \subseteq deleted'
  <2>1. Kept /\ Listed' = Listed \ S
    BY <1>3, RemoveKeeps DEF Deletes
  <2>2. UNCHANGED <<copies, hidden, mishap, late, astray, job, calls>> /\ deleted' = deleted \cup S
    BY <1>3 DEF Deletes
  <2>3. deleted' \subseteq Item
    BY <2>2 DEF FilesInv, ItemsInv, TypeOK
  <2>4. WorkInv'
    BY <2>1, <2>2, <2>3, BesideKeeps
  <2> QED
    BY <2>1, <2>2, <2>4 DEF Kept
<1> QED
  BY <1>1, <1>2, <1>3

(* Whoever was at work is forgotten; their clean-ups with them. *)
LEMMA RestartKeeps ==
  ASSUME WorkInv, Restart
  PROVE  WorkInv'
<1> USE DEF WorkInv
<1>1. /\ job' = [j \in Job |-> Idle] /\ waiting' = {} /\ calls' = <<>>
      /\ mishap' = (mishap \/ \E j \in Job : job[j].at # "idle")
      /\ UNCHANGED <<list, setup, overridden, slipped, copies, hidden, deleted, late, astray>>
  BY DEF Restart
<1>2. ItemsInv'
  <2>1. ListOK(list', astray', astray' \cup slipped, overridden) /\ waiting' \subseteq waiting
    BY <1>1 DEF ItemsInv
  <2> QED
    BY <1>1, <2>1, ItemsAgain
<1>3. JobsInv'
  BY <1>1, IdleOK DEF JobsInv, RecordOK
<1>4. Archived' = Archived /\ Listed' = Listed
  BY <1>1 DEF Archived, Listed
<1>5. FilesInv'
  <2>1. calls' \in Seq(Job) /\ mishap' \in BOOLEAN
    BY <1>1
  <2> QED
    BY <1>1, <1>4, <2>1 DEF FilesInv
<1>6. CopyInv'
  BY <1>1, IdleType DEF CopyInv
<1>7. TakeInv'
  BY <1>1, IdleType, IdleOK DEF TakeInv, Taken, Holding
<1>8. PlaceInv'
  <2> SUFFICES ASSUME ~mishap', ~late, NEW i \in Listed, i \in Archived, i \notin hidden
               PROVE  FALSE
    BY <1>1, <1>4 DEF PlaceInv, Visible
  <2>1. PICK k \in Job : Attends(job[k])
    BY <1>1 DEF PlaceInv, Attended, Visible
  <2> QED
    BY <1>1, <2>1 DEF Attends
<1> QED
  BY <1>2, <1>3, <1>5, <1>6, <1>7, <1>8

LEMMA StutterKeeps ==
  ASSUME WorkInv, UNCHANGED archvars
  PROVE  WorkInv'
<1> USE DEF WorkInv
<1>1. UNCHANGED <<vars, copies, hidden, deleted, mishap, late, astray, job, calls>>
  BY DEF archvars, archive, past
<1>2. ItemsInv' /\ Archived' = Archived /\ Listed' = Listed
  BY <1>1, ItemsStay DEF Archived
<1>3. UNCHANGED <<slipped, overridden, list>>
  BY <1>1 DEF vars
<1>4. JobsInv' /\ FilesInv'
  BY <1>1, <1>2, <1>3 DEF JobsInv, FilesInv
<1>5. CopyInv' /\ TakeInv' /\ PlaceInv'
  BY <1>1, <1>2 DEF CopyInv, TakeInv, Taken, PlaceInv, Attended, Attends, Visible
<1> QED
  BY <1>2, <1>4, <1>5

-----------------------------------------------------------------------------
(* The invariant, and what it gives.                                       *)

LEMMA InitWorkInv == ArchiveInit => WorkInv
<1> SUFFICES ASSUME ArchiveInit PROVE WorkInv
  OBVIOUS
<1>1. /\ list = NoRows /\ waiting = {} /\ setup \in Setups /\ overridden = FALSE /\ slipped = {}
      /\ copies = NoRows /\ hidden = {} /\ deleted = {} /\ astray = {}
      /\ job = [j \in Job |-> Idle] /\ calls = <<>> /\ mishap = FALSE /\ late = FALSE
  BY DEF ArchiveInit, Init, NoRows
<1>2. DOMAIN NoRows = {} /\ ListOK(NoRows, {}, {}, FALSE) /\ NoRows \in [{} -> Rows]
  BY NothingIsOK DEF NoRows
<1>3. Listed = {} /\ Archived = {}
  BY <1>1, <1>2 DEF Listed, Archived
<1>4. ItemsInv
  <2>1. TypeOK
    BY <1>1, <1>2, <1>3 DEF TypeOK
  <2>2. WaitingInv
    BY <1>1 DEF WaitingInv
  <2>3. ListOK(list, astray, astray \cup slipped, overridden)
    BY <1>1, <1>2, NothingIsOK
  <2> QED
    BY <2>1, <2>2, <2>3 DEF ItemsInv
<1>5. JobsInv
  BY <1>1, IdleOK DEF JobsInv, RecordOK
<1>6. FilesInv
  <2>1. copies \in [Archived -> Rows] /\ RowsLawful(copies)
    BY <1>1, <1>2, <1>3 DEF RowsLawful
  <2>2. calls \in Seq(Job) /\ mishap \in BOOLEAN /\ late \in BOOLEAN
    <3>1. <<>> \in Seq(Job)
      OBVIOUS
    <3>2. calls \in Seq(Job)
      BY <1>1, <3>1, Zenon
    <3> QED
      BY <1>1, <3>2, Zenon
  <2>3. hidden \subseteq Item /\ deleted \subseteq Item /\ astray \subseteq Item /\ Archived \subseteq Item
    BY <1>1, <1>3
  <2> QED
    BY <2>1, <2>2, <2>3 DEF FilesInv
<1>7. CopyInv /\ TakeInv /\ PlaceInv
  BY <1>1, <1>3, IdleType, IdleOK DEF CopyInv, TakeInv, PlaceInv
<1> QED
  BY <1>4, <1>5, <1>6, <1>7 DEF WorkInv

LEMMA NextWorkInv == WorkInv /\ [ArchiveNext]_archvars => WorkInv'
<1> SUFFICES ASSUME WorkInv, ArchiveNext \/ UNCHANGED archvars PROVE WorkInv'
  OBVIOUS
<1>1. CASE \/ (ItemTurn \/ Adds) /\ UNCHANGED <<archive, job, calls>>
           \/ \E S, T \in SUBSET Listed : Deletes(S, T)
  BY <1>1, ItemsMove
<1>2. ASSUME NEW j \in Job, NobodyGoesOn, ArchiveTurn(j) PROVE WorkInv'
  BY <1>2, BeginKeeps, AppendKeeps, RefusedKeeps, TakeKeeps, LookKeeps, TurnsBackKeeps,
     SweepHidesKeeps, ForgetKeeps, UndoKeeps, CleanUpFailsKeeps, Zenon DEF ArchiveTurn
<1>3. ASSUME NEW j \in Job, GoesOn(j) PROVE WorkInv'
  BY <1>3, RemovesKeeps, TurnsBackKeeps, PutBackKeeps, LookKeeps, ReviveWritesKeeps, Zenon DEF GoesOn
<1> QED
  BY <1>1, <1>2, <1>3, RestartKeeps, StutterKeeps, Zenon DEF ArchiveNext

(* Every handler keeps the conjunction. *)
THEOREM WorkInductive == ArchiveSpec => []WorkInv
  BY InitWorkInv, NextWorkInv, PTL DEF ArchiveSpec

(* The rows, and the reports that wait, keep their types. *)
THEOREM TypeCorrect == ArchiveSpec => []TypeOK
<1>1. WorkInv => TypeOK
  BY DEF WorkInv, ItemsInv
<1> QED
  BY WorkInductive, <1>1, PTL

(* So do the archive and the records of its handlers. *)
THEOREM ArchiveTypeCorrect == ArchiveSpec => []ArchiveTypeOK
<1>1. WorkInv => ArchiveTypeOK
  <2> SUFFICES ASSUME WorkInv PROVE ArchiveTypeOK
    OBVIOUS
  <2>1. TypeOK /\ FilesInv
    BY DEF WorkInv, ItemsInv
  <2>2. \A j \in Job :
          /\ job[j].at \in JobSteps /\ job[j].kind \in JobKinds
          /\ job[j].ids \subseteq Item /\ job[j].rest \subseteq Item
    BY OkOfJob DEF Jobs
  <2> QED
    BY <2>1, <2>2 DEF ArchiveTypeOK, FilesInv
<1> QED
  BY WorkInductive, <1>1, PTL

(* No series of calls of any handlers leaves an orphan or a third level    *)
(* but among the rows a restore put back, those it was put over and those  *)
(* that were put under an item on its way to the archive.                  *)
THEOREM TreeAlwaysStands == ArchiveSpec => []TreeStands
<1>1. WorkInv => TreeStands
  BY DEF WorkInv, ItemsInv, ListOK, TreeStands
<1> QED
  BY WorkInductive, <1>1, PTL

(* An item is closed over an open child only if that came back from the    *)
(* archive, was left behind, or slipped in while the report waited.        *)
THEOREM ClosedAlwaysMeansDone == ArchiveSpec => []ClosedMeansDone
<1>1. WorkInv => ClosedMeansDone
  BY DEF WorkInv, ItemsInv, ListOK, ClosedMeansDone
<1> QED
  BY WorkInductive, <1>1, PTL

(* A report is never closed over a check that was unticked, or under an    *)
(* owner who did not make it, however long it waited for the storage and   *)
(* however often the row went to the archive and came back.                *)
THEOREM ReportsAlwaysStand == ArchiveSpec => []ReportStands
<1>1. WorkInv => ReportStands
  BY DEF WorkInv, ItemsInv, ListOK, RowsLawful, ReportStands, Listed
<1> QED
  BY WorkInductive, <1>1, PTL

(* However many restores have asked for the same room before they waited   *)
(* for the archive, the list never grows past its cap.                     *)
THEOREM CapAlwaysHolds == ArchiveSpec => []CapHolds
<1>1. WorkInv => CapHolds
  BY DEF WorkInv, ItemsInv, ListOK, CapHolds, Listed
<1> QED
  BY WorkInductive, <1>1, PTL

(* When nothing is under way and no clean-up was lost, no row is both      *)
(* listed and to be seen in the archive.                                   *)
THEOREM AlwaysInOnePlace == ArchiveSpec => []InOnePlace
<1>1. WorkInv => InOnePlace
  BY DEF WorkInv, PlaceInv, InOnePlace, Attended, Attends, Quiet
<1> QED
  BY WorkInductive, <1>1, PTL

(* A restore never replaces a row, and no two restores put back the same.  *)
THEOREM TakenIsNeverListed == ArchiveSpec => []TakenIsNotListed
<1>1. WorkInv => TakenIsNotListed
  <2> SUFFICES ASSUME WorkInv, ~late, NEW j \in Job, job[j].at = "taken"
               PROVE  job[j].ids \cap Listed = {}
    BY DEF TakenIsNotListed
  <2>1. job[j].ids \subseteq Taken(job[j])
    BY OkOfJob DEF StageOK, Taken, Holding
  <2> QED
    BY <2>1 DEF WorkInv, TakeInv
<1> QED
  BY WorkInductive, <1>1, PTL

-----------------------------------------------------------------------------
(* What a step may do to the rows of the list.                             *)

NothingIsRewound == \A i \in Listed \cap Listed' : list'[i].rev >= list[i].rev \/ late'

LeavesInItsForm ==
  \A i \in Listed \ Listed' :
    i \in deleted' \/ late' \/
    \E kind \in JobKinds, S \in SUBSET Item :
      i \in Archived' /\ copies'[i] = CopyOf(kind, S, list[i])

LEMMA NothingHappens ==
  ASSUME WorkInv, UNCHANGED list
  PROVE  NothingIsRewound /\ LeavesInItsForm
<1>1. Listed' = Listed /\ \A i \in Listed : list[i].rev \in Nat
  BY DEF WorkInv, ItemsInv, TypeOK, Rows, Listed
<1> QED
  BY <1>1 DEF NothingIsRewound, LeavesInItsForm

(* The rows a handler removes are those of which it made the copies.       *)
LEMMA RemovedInItsForm ==
  ASSUME WorkInv, NEW j \in Job, Removes(j)
  PROVE  NothingIsRewound /\ LeavesInItsForm
<1> DEFINE S == job[j].ids
           kind == job[j].kind
<1>1. /\ job[j].at = "appended" /\ Unchanged(j) = S /\ list' = Minus(list, S) /\ copies' = copies
  BY DEF Removes, Leave, ListBecomes
<1>2. Listed' = Listed \ S /\ Archived' = Archived /\ \A i \in Listed' : list'[i] = list[i]
  BY <1>1 DEF Minus, Listed, Archived
<1>3. \A i \in Listed : list[i].rev \in Nat
  BY DEF WorkInv, ItemsInv, TypeOK, Rows
<1>4. kind \in JobKinds /\ S \in SUBSET Item
  BY OkOfJob DEF Jobs
<1>5. \A i \in S : list[i] = job[j].rows[i]
  BY <1>1 DEF Unchanged
<1>6. \A i \in S : i \in Archived /\ copies[i] = CopyOf(kind, S, list[i])
  BY <1>1, <1>5 DEF WorkInv, CopyInv
<1> HIDE DEF S, kind
<1>7. NothingIsRewound
  BY <1>2, <1>3 DEF NothingIsRewound
<1>8. LeavesInItsForm
  BY <1>1, <1>2, <1>4, <1>6 DEF LeavesInItsForm
<1> QED
  BY <1>7, <1>8

(* What comes back was not listed, unless a noted list was written before. *)
LEMMA BackInItsPlace ==
  ASSUME WorkInv, NEW j \in Job, PutBack(j) \/ ReviveWrites(j)
  PROVE  NothingIsRewound /\ LeavesInItsForm
<1> SUFFICES ASSUME ~late' PROVE NothingIsRewound /\ LeavesInItsForm
  BY DEF NothingIsRewound, LeavesInItsForm
<1>1. ~late /\ job[j].at = "taken" /\ (ReviveWrites(j) => list = job[j].latest)
  <2>1. ASSUME PutBack(j) PROVE ~late /\ job[j].at = "taken"
    BY <2>1, Zenon DEF PutBack
  <2>2. ASSUME ReviveWrites(j) PROVE ~late /\ job[j].at = "taken" /\ list = job[j].latest
    BY <2>2, Zenon DEF ReviveWrites
  <2>3. ASSUME PutBack(j), ReviveWrites(j) PROVE FALSE
    BY <2>3, Zenon DEF PutBack, ReviveWrites, JobKinds
  <2> QED
    BY <2>1, <2>2, <2>3
<1>2. Taken(job[j]) \cap Listed = {} /\ Taken(job[j]) = DOMAIN job[j].rows
      /\ job[j].ids \subseteq Taken(job[j])
  BY <1>1, OkOfJob DEF WorkInv, TakeInv, StageOK, Taken, Holding
<1>3. Listed \subseteq Listed' /\ \A i \in Listed : list'[i] = list[i]
  <2>1. ASSUME PutBack(j) PROVE Listed \subseteq Listed' /\ \A i \in Listed : list'[i] = list[i]
    <3>1. PICK i \in job[j].ids : list' = With(i, job[j].rows[i])
      BY <2>1 DEF PutBack, Return, ListBecomes
    <3> QED
      BY <1>2, <3>1 DEF With, Listed
  <2>2. ASSUME ReviveWrites(j) PROVE Listed \subseteq Listed' /\ \A i \in Listed : list'[i] = list[i]
    <3>1. list' = [x \in DOMAIN list \cup DOMAIN job[j].rows |->
                     IF x \in DOMAIN job[j].rows THEN Revived(job[j].rows[x]) ELSE list[x]]
      BY <1>1, <2>2 DEF ReviveWrites, Return, ListBecomes
    <3> QED
      BY <1>2, <3>1 DEF Listed
  <2> QED
    BY <2>1, <2>2
<1>4. \A i \in Listed : list[i].rev \in Nat
  BY DEF WorkInv, ItemsInv, TypeOK, Rows
<1> QED
  BY <1>3, <1>4 DEF NothingIsRewound, LeavesInItsForm

LEMMA ListSteps == WorkInv /\ [ArchiveNext]_archvars => NothingIsRewound /\ LeavesInItsForm
<1> SUFFICES ASSUME WorkInv, ArchiveNext \/ UNCHANGED archvars
             PROVE  NothingIsRewound /\ LeavesInItsForm
  OBVIOUS
<1>1. CASE \/ (ItemTurn \/ Adds) /\ UNCHANGED <<archive, job, calls>>
           \/ \E S, T \in SUBSET Listed : Deletes(S, T)
  BY <1>1, ItemsMove DEF HistoryGrows, NothingIsRewound, LeavesInItsForm
<1>2. ASSUME NEW j \in Job, SweepHides(j) PROVE NothingIsRewound /\ LeavesInItsForm
  <2>1. UNCHANGED list \/ late'
    BY <1>2 DEF SweepHides, vars
  <2> QED
    BY <2>1, NothingHappens DEF NothingIsRewound, LeavesInItsForm
<1>3. ASSUME NEW j \in Job, ArchiveTurn(j), ~SweepHides(j) PROVE UNCHANGED list
  BY <1>3 DEF ArchiveTurn, Begins, CancelBegins, UnarchiveBegins, ReviveBegins, SweepBegins,
    AppendDone, AppendFails, Take, TakesOne, TakeRefused, ReviveFinds, ReviveAsks, LookFails,
    Forget, Undo, CleanUpFails, vars
<1>4. ASSUME NEW j \in Job, GoesOn(j) PROVE NothingIsRewound /\ LeavesInItsForm
  <2>1. CASE Removes(j)
    BY <2>1, RemovedInItsForm
  <2>2. CASE PutBack(j) \/ ReviveWrites(j)
    BY <2>2, BackInItsPlace
  <2>3. CASE RemoveFails(j) \/ CancelConflict(j) \/ SweepStale(j) \/ ReviveLooks(j) \/ PutBackFails(j)
    <3>1. UNCHANGED list
      BY <2>3 DEF RemoveFails, CancelConflict, SweepStale, ReviveLooks, PutBackFails, vars
    <3> QED
      BY <3>1, NothingHappens
  <2> QED
    BY <1>4, <2>1, <2>2, <2>3 DEF GoesOn
<1>5. CASE Restart \/ UNCHANGED archvars
  <2>1. UNCHANGED list
    BY <1>5 DEF Restart, archvars, vars
  <2> QED
    BY <2>1, NothingHappens
<1> QED
  BY <1>1, <1>2, <1>3, <1>4, <1>5, NothingHappens, Zenon DEF ArchiveNext

(* No handler writes a row as it was before it waited, but for those that  *)
(* write a list they noted.                                                *)
THEOREM HistoryIsNeverRewound == ArchiveSpec => HistoryOnlyGrows
<1>1. WorkInv /\ [ArchiveNext]_archvars =>
        [\A i \in Listed \cap Listed' : list'[i].rev >= list[i].rev \/ late']_archvars
  BY ListSteps DEF NothingIsRewound
<1> QED
  BY WorkInductive, <1>1, PTL DEF ArchiveSpec, HistoryOnlyGrows

(* What leaves the list, and was not deleted, is in the archive as it      *)
(* stood when it left: no change that came while the copy was being made   *)
(* is lost.                                                                *)
THEOREM RowsLeaveAsTheyStand == ArchiveSpec => LeavesAsItStands
<1>1. WorkInv /\ [ArchiveNext]_archvars =>
        [\A i \in Listed \ Listed' :
           i \in deleted' \/ late' \/
           \E kind \in JobKinds, S \in SUBSET Item :
             i \in Archived' /\ copies'[i] = CopyOf(kind, S, list[i])]_archvars
  BY ListSteps DEF LeavesInItsForm
<1> QED
  BY WorkInductive, <1>1, PTL DEF ArchiveSpec, LeavesAsItStands

=============================================================================
