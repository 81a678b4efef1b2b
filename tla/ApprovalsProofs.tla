-------------------------- MODULE ApprovalsProofs --------------------------
(***************************************************************************)
(* FourEyes, DecisionsStand, OwnSeatIsOpen and EvidenceStands for any      *)
(* people, documents, lines and stand-ins, any number of handlers that wait*)
(* for the storage, and whatever files there are at the start.             *)
(*                                                                         *)
(* FourEyes is inductive with three facts more, and DecisionsStand then    *)
(* rests on them: a seat is pending exactly while nobody has pressed it (so*)
(* that "every seat I hold is pending" means "I have pressed none"), the   *)
(* steps behind the current one are approved, and what a waiting handler   *)
(* has noted would still pass the judgement of the seat. OwnSeatIsOpen     *)
(* needs that a stand-in is nobody of the line, and that nothing is pressed*)
(* ahead of the current step. EvidenceStands needs to know, of every       *)
(* handler that waits, which files it may delete, list or take off the     *)
(* list.                                                                   *)
(***************************************************************************)
EXTENDS Approvals, TLAPS

USE LinesAssumption, NobodyAssumption

Rows == [status : {"draft", "running", "approved", "rejected", "recalled"},
         drafter : People, line : Seq(SUBSET People), step : Nat,
         seats : [verdict : [People -> Verdicts], by : [People -> People \cup {Nobody}]],
         linked : SUBSET Ids, evidence : Ids \cup {Nobody}]

(* What a row may rely on in every state. *)
SeatsOK(row) ==
    /\ \A a \in People : Pending(row, a) <=> row.seats.by[a] = Nobody
    /\ \A a \in Approvers(row.line) : row.seats.by[a] # row.drafter
    /\ \A a, b \in Approvers(row.line) :
         a # b /\ row.seats.by[a] # Nobody => row.seats.by[a] # row.seats.by[b]

StepsOK(row) ==
    /\ row.status = "running" =>
         row.step \in DOMAIN row.line /\ \A s \in 1..(row.step - 1) : StepApproved(row, s)
    /\ row.status = "approved" => \A s \in DOMAIN row.line : StepApproved(row, s)

DraftOK(row) == row.status = "draft" => row.seats = FreshSeats /\ row.step = 1

RowInv(row) == row \in Rows /\ SeatsOK(row) /\ StepsOK(row) /\ DraftOK(row)

(* The judgement of a seat without the stand-ins of the day. *)
Ready(row, p, a) ==
    /\ row.status = "running" /\ p # row.drafter
    /\ \A b \in Held(row, p) : Pending(row, b)
    /\ a \in Waiting(row)

NotedInv(r) ==
    /\ r.doc \in Documents /\ r.by \in People /\ r.id \in Ids
    /\ Ready(r.noted, r.by, r.seat)

Inv ==
    /\ active \subseteq People
    /\ doc \in [Documents -> Rows \cup {Absent}]
    /\ \A d \in Documents : Exists(d) => RowInv(doc[d])
    /\ handler = [h \in Handlers |-> handler[h]]
    /\ \A h \in Handlers : Doing(h, "decide") => NotedInv(handler[h])

----------------------------------------------------------------------------
LEMMA ApproversArePeople ==
  ASSUME NEW row \in Rows
  PROVE  /\ Approvers(row.line) \subseteq People
         /\ \A s \in DOMAIN row.line : row.line[s] \subseteq Approvers(row.line)
  BY DEF Rows, Approvers, Range

(* A row that is not there is no row. *)
LEMMA AbsentIsNoRow == Absent \notin Rows
  BY DEF Absent, Rows

(* A line without a press. *)
LEMMA FreshRow ==
  ASSUME NEW status \in {"draft", "running"}, NEW p \in People, NEW line \in Lines,
         NEW linked \in SUBSET Ids, status = "running" => line # << >>
  PROVE  RowInv(Row(status, p, line, linked))
<1> DEFINE row == Row(status, p, line, linked)
<1>1. row \in Rows
  BY DEF Row, Rows, FreshSeats, Verdicts
<1>2. row.seats = FreshSeats /\ row.drafter = p /\ row.step = 1 /\ row.status = status /\ row.line = line
  BY DEF Row
<1>3. \A a \in People : row.seats.verdict[a] = "pending" /\ row.seats.by[a] = Nobody
  BY <1>2 DEF FreshSeats
<1>4. SeatsOK(row)
  BY <1>1, <1>2, <1>3, ApproversArePeople DEF SeatsOK, Pending
<1>5. StepsOK(row) /\ DraftOK(row)
  BY <1>2, <1>1 DEF StepsOK, Rows, DraftOK
<1> QED
  BY <1>1, <1>4, <1>5 DEF RowInv

(* Nobody who is ready to press has pressed a seat of the line. *)
LEMMA ReadyHasNotPressed ==
  ASSUME NEW row, RowInv(row), NEW p \in People, NEW a, Ready(row, p, a)
  PROVE  /\ a \in Approvers(row.line) /\ a \in People
         /\ row.seats.by[a] = Nobody
         /\ row.step \in DOMAIN row.line /\ a \in row.line[row.step]
         /\ \A b \in Approvers(row.line) : row.seats.by[b] # p
<1>1. row.step \in DOMAIN row.line /\ a \in row.line[row.step] /\ Pending(row, a)
  BY DEF Ready, Waiting, RowInv, StepsOK
<1>2. a \in Approvers(row.line) /\ a \in People
  BY <1>1, ApproversArePeople DEF RowInv
<1>3. row.seats.by[a] = Nobody
  BY <1>1, <1>2 DEF RowInv, SeatsOK
<1>4. ASSUME NEW b \in Approvers(row.line), row.seats.by[b] = p PROVE FALSE
  <2>1. Pending(row, b)
    BY <1>4 DEF Ready, Held
  <2>2. b \in People
    BY ApproversArePeople DEF RowInv
  <2> QED
    BY <1>4, <2>1, <2>2 DEF RowInv, SeatsOK
<1> QED
  BY <1>1, <1>2, <1>3, <1>4

LEMMA PressedSeats ==
  ASSUME NEW row, RowInv(row), NEW p \in People, NEW a, Ready(row, p, a),
         NEW verdict \in {"approved", "rejected"}
  PROVE  LET next == Pressed(row, p, a, verdict) IN
         /\ next \in Rows /\ SeatsOK(next)
         /\ next.status = "running" /\ next.step = row.step /\ next.line = row.line
         /\ \A b \in People : next.seats.verdict[b] = IF b = a THEN verdict ELSE row.seats.verdict[b]
<1> DEFINE next == Pressed(row, p, a, verdict)
<1>1. next \in Rows
  BY ReadyHasNotPressed DEF Pressed, RowInv, Rows, Verdicts
<1>2. /\ next.status = "running" /\ next.step = row.step /\ next.line = row.line
      /\ next.drafter = row.drafter
  BY DEF Pressed, RowInv, Rows, Ready
<1>3. \A b \in People :
        /\ next.seats.verdict[b] = IF b = a THEN verdict ELSE row.seats.verdict[b]
        /\ next.seats.by[b] = IF b = a THEN p ELSE row.seats.by[b]
  BY DEF Pressed, RowInv, Rows
<1>4. p # Nobody
  OBVIOUS
<1>5. \A b \in People : Pending(next, b) <=> next.seats.by[b] = Nobody
  BY <1>3, <1>4 DEF RowInv, SeatsOK, Pending
<1>6. \A b \in Approvers(row.line) : b \in People
  BY ApproversArePeople DEF RowInv
<1>7. \A b \in Approvers(next.line) : next.seats.by[b] # next.drafter
  BY <1>2, <1>3, <1>6 DEF RowInv, SeatsOK, Ready
<1>8. \A b, c \in Approvers(next.line) :
        b # c /\ next.seats.by[b] # Nobody => next.seats.by[b] # next.seats.by[c]
  BY <1>2, <1>3, <1>6, ReadyHasNotPressed DEF RowInv, SeatsOK
<1> QED
  BY <1>1, <1>2, <1>3, <1>5, <1>7, <1>8 DEF SeatsOK

(* A decision keeps the row sound: the step it leaves is approved. *)
LEMMA DecidedKeeps ==
  ASSUME NEW row, RowInv(row), NEW p \in People, NEW a, Ready(row, p, a),
         NEW verdict \in {"approved", "rejected"}
  PROVE  RowInv(Decided(row, p, a, verdict))
<1> DEFINE next == Pressed(row, p, a, verdict)
           out == Decided(row, p, a, verdict)
<1>1. /\ next \in Rows /\ SeatsOK(next)
      /\ next.status = "running" /\ next.step = row.step /\ next.line = row.line
      /\ \A b \in People : next.seats.verdict[b] = IF b = a THEN verdict ELSE row.seats.verdict[b]
  BY PressedSeats
<1>2. row.step \in DOMAIN row.line /\ \A s \in 1..(row.step - 1) : StepApproved(row, s)
  BY DEF RowInv, StepsOK, Ready
<1>3. row \in Rows /\ row.line \in Seq(SUBSET People) /\ DOMAIN row.line = 1..Len(row.line)
  BY DEF RowInv, Rows
<1>4. ASSUME verdict = "approved" PROVE \A s \in 1..(row.step - 1) : StepApproved(next, s)
  <2>1. \A s \in 1..(row.step - 1) : s \in DOMAIN row.line /\ row.line[s] \subseteq People
    BY <1>2, <1>3, ApproversArePeople
  <2> QED
    BY <1>1, <1>2, <1>4, <2>1 DEF StepApproved
<1>5. CASE verdict = "rejected"
  <2>1. out = [next EXCEPT !.status = "rejected"]
    BY <1>5 DEF Decided
  <2> QED
    BY <1>1, <2>1 DEF RowInv, Rows, SeatsOK, StepsOK, Pending, DraftOK
<1>6. CASE verdict = "approved" /\ ~StepApproved(next, row.step)
  <2>1. out = next
    BY <1>6 DEF Decided
  <2> QED
    BY <1>1, <1>2, <1>4, <1>6, <2>1 DEF RowInv, StepsOK, DraftOK
<1>7. CASE verdict = "approved" /\ StepApproved(next, row.step) /\ row.step = Len(row.line)
  <2>1. out = [next EXCEPT !.status = "approved"]
    BY <1>7 DEF Decided
  <2>2. /\ out \in Rows /\ out.status = "approved" /\ out.line = next.line
        /\ out.seats = next.seats /\ out.drafter = next.drafter
    BY <1>1, <2>1 DEF Rows
  <2>3. \A s \in DOMAIN row.line : StepApproved(next, s)
    BY <1>2, <1>3, <1>4, <1>7
  <2> QED
    BY <1>1, <2>2, <2>3 DEF RowInv, SeatsOK, StepsOK, Pending, StepApproved, DraftOK
<1>8. CASE verdict = "approved" /\ StepApproved(next, row.step) /\ row.step # Len(row.line)
  <2>1. out = [next EXCEPT !.step = @ + 1]
    BY <1>8 DEF Decided
  <2>2. /\ out \in Rows /\ out.status = "running" /\ out.line = next.line
        /\ out.seats = next.seats /\ out.drafter = next.drafter /\ out.step = row.step + 1
    BY <1>1, <2>1 DEF Rows
  <2>3. out.step \in DOMAIN out.line
    BY <1>1, <1>2, <1>3, <1>8, <2>2
  <2>4. \A s \in 1..(out.step - 1) : StepApproved(next, s)
    BY <1>2, <1>3, <1>4, <1>8, <2>2
  <2> QED
    BY <1>1, <2>2, <2>3, <2>4 DEF RowInv, SeatsOK, StepsOK, Pending, StepApproved, DraftOK
<1> QED
  BY <1>5, <1>6, <1>7, <1>8

----------------------------------------------------------------------------
(* Writing one row that is sound, or taking one away. *)
LEMMA WriteKeeps ==
  ASSUME Inv, NEW d \in Documents, NEW row, row = Absent \/ RowInv(row),
         doc' = [doc EXCEPT ![d] = row], handler' = handler, active' = active
  PROVE  Inv'
<1>1. doc' \in [Documents -> Rows \cup {Absent}]
  BY DEF Inv, RowInv
<1>2. \A e \in Documents : doc'[e] # Absent => RowInv(doc'[e])
  BY DEF Inv, Exists
<1> QED
  BY <1>1, <1>2 DEF Inv, Exists, Doing

(* The handlers of the library start and end nothing of the approvals. *)
Spared ==
    /\ handler' = [h \in Handlers |-> handler'[h]]
    /\ \A h \in Handlers : Doing(h, "decide")' => Doing(h, "decide") /\ handler'[h] = handler[h]

LEMMA LibrarySpares == ASSUME Inv, NEW holds, LibraryNext(holds) PROVE Spared
<1>1. ASSUME NEW i \in Ids, Trash(i, holds) \/ Untrash(i) PROVE Spared
  BY <1>1 DEF Spared, Inv, Trash, Untrash, Doing
<1>2. ASSUME NEW k \in Handlers, NEW i \in Ids, Upload(k, i) \/ Purge(k, i, holds) PROVE Spared
  BY <1>2 DEF Spared, Inv, Upload, Purge, Doing, Wait, Free
<1>3. ASSUME NEW k \in Handlers, NEW S, Sweep(k, S, holds) PROVE Spared
  BY <1>3 DEF Spared, Inv, Sweep, Doing, Wait, Free
<1>4. ASSUME NEW k \in Handlers, SweepDelete(k) PROVE Spared
  <2>1. PICK i : handler' = [handler EXCEPT ![k] =
           IF @.ids = {i} THEN Idle ELSE [op |-> "sweep", ids |-> @.ids \ {i}]]
    BY <1>4 DEF SweepDelete
  <2>2. \A h \in Handlers : handler'[h] = IF h # k THEN handler[h] ELSE
          IF handler[k].ids = {i} THEN Idle ELSE [op |-> "sweep", ids |-> handler[k].ids \ {i}]
    BY <2>1 DEF Inv
  <2>3. ~Doing(k, "decide")'
    BY <2>2 DEF Doing
  <2>4. handler' = [h \in Handlers |-> handler'[h]]
    BY <2>1 DEF Inv
  <2> QED
    BY <2>2, <2>3, <2>4 DEF Spared, Doing
<1>5. ASSUME NEW k \in Handlers, PurgeDelete(k) PROVE Spared
  <2>1. handler'[k].op = "purged"
    BY <1>5 DEF PurgeDelete, Inv, Doing
  <2> QED
    BY <1>5, <2>1 DEF Spared, PurgeDelete, Inv, Doing
<1>6. ASSUME NEW k \in Handlers,
             UploadListed(k) \/ UploadFails(k) \/ PurgeRefused(k) \/ PurgeList(k) \/ PurgeListFails(k)
      PROVE Spared
  BY <1>6 DEF Spared, UploadListed, UploadFails, PurgeRefused, PurgeList, PurgeListFails, Done, Inv, Doing
<1> QED
  BY <1>1, <1>2, <1>3, <1>4, <1>5, <1>6 DEF LibraryNext

LEMMA LibraryKeeps ==
  ASSUME Inv, NEW holds, LibraryNext(holds), UNCHANGED <<doc, active>>
  PROVE  Inv'
  BY LibrarySpares DEF Spared, Inv, Exists

(* The step a file was written in the middle of. *)
LEMMA DecideWithFileKeeps ==
  ASSUME Inv, NEW k \in Handlers, NEW d \in Documents, NEW p \in People, NEW a, NEW i \in Ids,
         DecideWithFile(k, d, p, a, i)
  PROVE  Inv'
<1> DEFINE r == [op |-> "decide", doc |-> d, noted |-> doc[d], by |-> p, seat |-> a, id |-> i]
<1>1. handler' = [handler EXCEPT ![k] = r] /\ doc' = doc
  BY DEF DecideWithFile, Wait
<1>2. Ready(doc[d], p, a)
  BY DEF DecideWithFile, MayPress, Ready
<1>3. NotedInv(r)
  BY <1>2 DEF NotedInv
<1>4. handler' = [h \in Handlers |-> handler'[h]] /\ handler'[k] = r
      /\ \A h \in Handlers \ {k} : handler'[h] = handler[h]
  BY <1>1 DEF Inv
<1>5. \A h \in Handlers : Doing(h, "decide")' => NotedInv(handler'[h])
  BY <1>3, <1>4 DEF Inv, Doing
<1>6. active' = active
  BY DEF DecideWithFile
<1> QED
  BY <1>1, <1>4, <1>5, <1>6 DEF Inv, Exists

(* The decision it was written for: the row is still the one noted. *)
LEMMA DecideCommittedKeeps ==
  ASSUME Inv, NEW k \in Handlers, DecideCommitted(k)
  PROVE  Inv'
<1> DEFINE r == handler[k]
           decided == Decided(r.noted, r.by, r.seat, "approved")
           row == [decided EXCEPT !.evidence = r.id]
<1>1. NotedInv(r) /\ doc[r.doc] = r.noted
  BY DEF DecideCommitted, StillAsNoted, Inv
<1>2. RowInv(r.noted)
  <2>1. Absent.status = "absent"
    BY DEF Absent
  <2> QED
    BY <1>1, <2>1 DEF NotedInv, Ready, Inv, Exists
<1>3. RowInv(decided)
  BY <1>1, <1>2, DecidedKeeps DEF NotedInv
<1>4. row \in Rows /\ row.status = decided.status /\ row.line = decided.line
      /\ row.step = decided.step /\ row.seats = decided.seats /\ row.drafter = decided.drafter
  BY <1>1, <1>3 DEF RowInv, Rows, NotedInv
<1>5. RowInv(row)
  BY <1>3, <1>4 DEF RowInv, SeatsOK, StepsOK, Pending, StepApproved, DraftOK
<1>6. doc' = [doc EXCEPT ![r.doc] = row] /\ handler' = [handler EXCEPT ![k] = Idle]
  BY DEF DecideCommitted, Write, Done
<1>7. r.doc \in Documents
  BY <1>1 DEF NotedInv
<1>8. doc' \in [Documents -> Rows \cup {Absent}] /\ \A e \in Documents : doc'[e] # Absent => RowInv(doc'[e])
  BY <1>5, <1>6, <1>7 DEF Inv, Exists, RowInv
<1>9. handler' = [h \in Handlers |-> handler'[h]] /\ handler'[k] = Idle
      /\ \A h \in Handlers \ {k} : handler'[h] = handler[h]
  BY <1>6 DEF Inv
<1>10. \A h \in Handlers : Doing(h, "decide")' => NotedInv(handler'[h])
  BY <1>9 DEF Inv, Doing
<1>11. active' = active
  BY DEF DecideCommitted, Write
<1> QED
  BY <1>8, <1>9, <1>10, <1>11 DEF Inv, Exists

LEMMA DocumentKeeps ==
  ASSUME Inv, NEW d \in Documents, DocumentNext(d)
  PROVE  Inv'
<1> USE DEF libraryVars
<1>1. ASSUME NEW p \in Drafters, NEW line \in Lines, NEW linked \in SUBSET Present,
             NEW submit \in BOOLEAN, Create(d, p, line, linked, submit)
      PROVE  Inv'
  <2>1. p \in People /\ linked \subseteq Ids
    BY <1>1 DEF Create, Listed, Inv
  <2>2. RowInv(Row(IF submit THEN "running" ELSE "draft", p, line, linked))
    BY <1>1, <2>1, FreshRow DEF Create
  <2> QED
    BY <1>1, <2>2, WriteKeeps DEF Create, Write
<1>2. ASSUME NEW line \in Lines, NEW linked \in SUBSET Present, Patch(d, line, linked)
      PROVE  Inv'
  <2> DEFINE row == [doc[d] EXCEPT !.line = line, !.linked = linked]
  <2>1. RowInv(doc[d]) /\ doc[d].status = "draft" /\ linked \subseteq Ids
    BY <1>2 DEF Patch, Inv, Is, Listed
  <2>2. row \in Rows /\ row.status = "draft" /\ row.seats = FreshSeats /\ row.step = 1
        /\ row.drafter = doc[d].drafter
    BY <2>1 DEF RowInv, Rows, DraftOK
  <2>3. \A a \in People : row.seats.verdict[a] = "pending" /\ row.seats.by[a] = Nobody
    BY <2>2 DEF FreshSeats
  <2>4. row.drafter # Nobody /\ Approvers(row.line) \subseteq People
    BY <2>2, ApproversArePeople DEF Rows
  <2>5. SeatsOK(row)
    BY <2>3, <2>4 DEF SeatsOK, Pending
  <2>6. RowInv(row)
    BY <2>2, <2>5 DEF RowInv, StepsOK, DraftOK
  <2> QED
    BY <1>2, <2>6, WriteKeeps DEF Patch, Write
<1>3. ASSUME Delete(d) PROVE Inv'
  BY <1>3, WriteKeeps DEF Delete, Write
<1>4. ASSUME Submit(d) PROVE Inv'
  <2> DEFINE row == [doc[d] EXCEPT !.status = "running"]
  <2>1. RowInv(doc[d]) /\ doc[d].status = "draft" /\ doc[d].line # << >>
    BY <1>4 DEF Submit, Inv, Is
  <2>2. row \in Rows /\ row.status = "running" /\ row.step = 1 /\ row.line = doc[d].line
        /\ row.seats = doc[d].seats /\ row.drafter = doc[d].drafter
    BY <2>1 DEF RowInv, Rows, DraftOK
  <2>3. SeatsOK(row)
    BY <2>1, <2>2 DEF RowInv, SeatsOK, Pending
  <2>4. StepsOK(row) /\ DraftOK(row)
    BY <2>1, <2>2 DEF StepsOK, DraftOK, RowInv, Rows
  <2> QED
    BY <1>4, <2>2, <2>3, <2>4, WriteKeeps DEF Submit, Write, RowInv
<1>5. ASSUME Recall(d) PROVE Inv'
  <2> DEFINE row == [doc[d] EXCEPT !.status = "recalled"]
  <2>1. RowInv(doc[d])
    BY <1>5 DEF Recall, Inv
  <2>2. row \in Rows /\ row.status = "recalled" /\ row.line = doc[d].line
        /\ row.seats = doc[d].seats /\ row.drafter = doc[d].drafter
    BY <2>1 DEF RowInv, Rows
  <2>3. RowInv(row)
    BY <2>1, <2>2 DEF RowInv, SeatsOK, StepsOK, DraftOK, Pending
  <2> QED
    BY <1>5, <2>3, WriteKeeps DEF Recall, Write
<1>6. ASSUME NEW p \in People, NEW a \in People, NEW verdict \in {"approved", "rejected"},
             Decide(d, p, a, verdict)
      PROVE  Inv'
  <2>1. RowInv(doc[d]) /\ Ready(doc[d], p, a)
    BY <1>6 DEF Decide, MayPress, Ready, Inv
  <2>2. RowInv(Decided(doc[d], p, a, verdict))
    BY <2>1, DecidedKeeps
  <2> QED
    BY <1>6, <2>2, WriteKeeps DEF Decide, Write
<1> QED
  BY <1>1, <1>2, <1>3, <1>4, <1>5, <1>6, DecideWithFileKeeps DEF DocumentNext

----------------------------------------------------------------------------
LEMMA InitIsSound == ApprovalInit => Inv
<1> SUFFICES ASSUME ApprovalInit PROVE Inv
  OBVIOUS
<1>1. \A d \in Documents : ~Exists(d)
  BY DEF ApprovalInit, Exists
<1>2. \A h \in Handlers : ~Doing(h, "decide")
  BY DEF ApprovalInit, LibraryInit, Doing
<1> QED
  BY <1>1, <1>2 DEF ApprovalInit, LibraryInit, Inv

LEMMA NextKeeps == Inv /\ [Next]_vars => Inv'
<1> SUFFICES ASSUME Inv, [Next]_vars PROVE Inv'
  OBVIOUS
<1>1. ASSUME LibraryNext(Holds), UNCHANGED <<doc, standsFor, active>> PROVE Inv'
  BY <1>1, LibraryKeeps
<1>2. ASSUME NEW h \in Handlers, DecideCommitted(h) PROVE Inv'
  BY <1>2, DecideCommittedKeeps
<1>3. ASSUME NEW h \in Handlers, DecideGivenUp(h) PROVE Inv'
  BY <1>3 DEF DecideGivenUp, Done, Inv, Exists, Doing
<1>4. ASSUME doc' = doc, handler' = handler, active' \subseteq People PROVE Inv'
  BY <1>4 DEF Inv, Exists, Doing
<1>5. ASSUME NEW a, NEW p, StandIn(a, p) PROVE Inv'
  BY <1>4, <1>5 DEF StandIn, libraryVars, Inv
<1>6. ASSUME NEW p \in People, StandInEnds(p) PROVE Inv'
  BY <1>4, <1>6 DEF StandInEnds, libraryVars, Inv
<1>7. ASSUME NEW p \in Leavers, Deactivate(p) \/ Reactivate(p) PROVE Inv'
  BY <1>4, <1>7, LeaversAssumption DEF Deactivate, Reactivate, libraryVars, Inv
<1>8. ASSUME Restart PROVE Inv'
  BY <1>8 DEF Restart, Inv, Exists, Doing
<1>9. ASSUME UNCHANGED vars PROVE Inv'
  BY <1>4, <1>9 DEF vars, Inv
<1> QED
  BY <1>1, <1>2, <1>3, <1>5, <1>6, <1>7, <1>8, <1>9, DocumentKeeps DEF Next

LEMMA InvGivesFourEyes == Inv => FourEyes
<1> SUFFICES ASSUME Inv, NEW d \in Documents, Exists(d),
                    NEW a \in Approvers(doc[d].line)
             PROVE  /\ doc[d].seats.by[a] # doc[d].drafter
                    /\ \A b \in Approvers(doc[d].line) :
                         a # b /\ doc[d].seats.by[a] # Nobody => doc[d].seats.by[a] # doc[d].seats.by[b]
                    /\ doc[d].status = "approved" =>
                         doc[d].seats.verdict[a] = "approved" /\ doc[d].seats.by[a] # Nobody
  BY DEF FourEyes
<1>1. RowInv(doc[d])
  BY DEF Inv
<1>2. SeatsOK(doc[d]) /\ StepsOK(doc[d]) /\ a \in People
  BY <1>1, ApproversArePeople DEF RowInv
<1>3. ASSUME doc[d].status = "approved" PROVE doc[d].seats.verdict[a] = "approved"
  BY <1>2, <1>3 DEF StepsOK, StepApproved, Approvers, Range
<1> QED
  BY <1>2, <1>3 DEF SeatsOK, Pending

(* Whoever stands in for whom, and whatever a handler has noted before it   *)
(* waited for the evidence: nobody decides on their own document, nobody    *)
(* fills two of its seats, and an approved document has every seat filled.  *)
THEOREM FourEyesHolds == Spec => []FourEyes
<1>1. ApprovalInit => Inv
  BY InitIsSound
<1>2. Inv /\ [Next]_vars => Inv'
  BY NextKeeps
<1>3. Inv => FourEyes
  BY InvGivesFourEyes
<1> QED
  BY <1>1, <1>2, <1>3, PTL DEF Spec
----------------------------------------------------------------------------
(* What a step may make of a row that was sent. *)
GoesOn(row, next) ==
    /\ next # Absent /\ next.status # "draft"
    /\ next.line = row.line /\ next.step >= row.step
    /\ \A a \in People : ~Pending(row, a) =>
        next.seats.verdict[a] = row.seats.verdict[a] /\ next.seats.by[a] = row.seats.by[a]
    /\ row.status # "running" => next = row

LEMMA SameRowGoesOn ==
  ASSUME NEW row \in Rows, row.status # "draft"
  PROVE  GoesOn(row, row)
  BY AbsentIsNoRow DEF GoesOn, Rows

(* A decision writes the seat that is pressed, and no other. *)
LEMMA DecidedGoesOn ==
  ASSUME NEW row, RowInv(row), NEW p \in People, NEW a, Ready(row, p, a),
         NEW verdict \in {"approved", "rejected"}
  PROVE  GoesOn(row, Decided(row, p, a, verdict))
<1> DEFINE next == Pressed(row, p, a, verdict)
           out == Decided(row, p, a, verdict)
<1>1. next \in Rows /\ next.status = "running" /\ next.step = row.step /\ next.line = row.line
  BY PressedSeats
<1>2. \A b \in People : b # a =>
        next.seats.verdict[b] = row.seats.verdict[b] /\ next.seats.by[b] = row.seats.by[b]
  BY DEF Pressed, RowInv, Rows
<1>3. Pending(row, a)
  BY DEF Ready, Waiting
<1>4. /\ out.line = next.line /\ out.step >= next.step
      /\ out.seats = next.seats /\ out.status # "draft"
  <2>1. next.step \in Nat
    BY <1>1 DEF Rows
  <2>2. out \in {next, [next EXCEPT !.status = "rejected"], [next EXCEPT !.status = "approved"],
                 [next EXCEPT !.step = @ + 1]}
    BY DEF Decided
  <2> QED
    BY <1>1, <2>1, <2>2 DEF Rows
<1>5. out # Absent
  BY DecidedKeeps, AbsentIsNoRow DEF RowInv
<1>6. row.status = "running"
  BY DEF Ready
<1> QED
  BY <1>1, <1>2, <1>3, <1>4, <1>5, <1>6 DEF GoesOn

LEMMA DocumentGoesOn ==
  ASSUME Inv, NEW e \in Documents, DocumentNext(e),
         NEW d \in Documents, Exists(d), ~Is(d, "draft")
  PROVE  GoesOn(doc[d], doc'[d])
<1>1. RowInv(doc[d]) /\ doc[d] \in Rows /\ doc[d].status # "draft"
  BY DEF Inv, Is, RowInv
<1>2. GoesOn(doc[d], doc[d])
  BY <1>1, SameRowGoesOn
<1>3. CASE doc'[d] = doc[d]
  BY <1>2, <1>3
<1>4. CASE doc'[d] # doc[d]
  <2>1. PICK row : doc' = [doc EXCEPT ![e] = row]
    BY <1>4 DEF DocumentNext, Create, Patch, Delete, Submit, Recall, Decide, DecideWithFile, Write
  <2>2. e = d
    BY <1>4, <2>1 DEF Inv
  <2>3. CASE Recall(d)
    <3>1. doc'[d] = [doc[d] EXCEPT !.status = "recalled"] /\ doc[d].status = "running"
      BY <2>3 DEF Recall, Write, Is, Inv
    <3>2. /\ doc'[d] \in Rows /\ doc'[d].status = "recalled" /\ doc'[d].line = doc[d].line
          /\ doc'[d].step = doc[d].step /\ doc'[d].seats = doc[d].seats
      BY <1>1, <3>1 DEF Rows
    <3> QED
      BY <1>1, <3>1, <3>2, AbsentIsNoRow DEF GoesOn, Rows
  <2>4. ASSUME NEW p \in People, NEW a \in People, NEW verdict \in {"approved", "rejected"},
               Decide(d, p, a, verdict)
        PROVE  GoesOn(doc[d], doc'[d])
    <3>1. Ready(doc[d], p, a)
      BY <2>4 DEF Decide, MayPress, Ready
    <3>2. doc'[d] = Decided(doc[d], p, a, verdict)
      BY <2>4 DEF Decide, Write, Inv
    <3> QED
      BY <1>1, <3>1, <3>2, DecidedGoesOn
  <2> QED
    BY <1>4, <2>2, <2>3, <2>4 DEF DocumentNext, Create, Patch, Delete, Submit, DecideWithFile, Is
<1> QED
  BY <1>3, <1>4

LEMMA DecideCommittedGoesOn ==
  ASSUME Inv, NEW k \in Handlers, DecideCommitted(k),
         NEW d \in Documents, Exists(d), ~Is(d, "draft")
  PROVE  GoesOn(doc[d], doc'[d])
<1> DEFINE r == handler[k]
           decided == Decided(r.noted, r.by, r.seat, "approved")
           row == [decided EXCEPT !.evidence = r.id]
<1>1. RowInv(doc[d]) /\ doc[d] \in Rows /\ doc[d].status # "draft"
  BY DEF Inv, Is, RowInv
<1>2. NotedInv(r) /\ doc[r.doc] = r.noted /\ doc' = [doc EXCEPT ![r.doc] = row]
  BY DEF DecideCommitted, StillAsNoted, Write, Inv
<1>3. CASE r.doc # d
  <2>1. doc'[d] = doc[d]
    BY <1>2, <1>3 DEF Inv
  <2> QED
    BY <1>1, <2>1, SameRowGoesOn
<1>4. CASE r.doc = d
  <2>1. doc'[d] = row /\ r.noted = doc[d]
    BY <1>2, <1>4 DEF Inv
  <2>2. GoesOn(doc[d], decided) /\ RowInv(decided)
    BY <1>1, <1>2, <2>1, DecidedGoesOn, DecidedKeeps DEF NotedInv
  <2>3. /\ row \in Rows /\ row.status = decided.status /\ row.line = decided.line
        /\ row.step = decided.step /\ row.seats = decided.seats
    BY <1>2, <2>2 DEF RowInv, Rows, NotedInv
  <2>4. doc[d].status = "running"
    BY <1>2, <2>1 DEF NotedInv, Ready
  <2> QED
    BY <2>1, <2>2, <2>3, <2>4, AbsentIsNoRow DEF GoesOn
<1> QED
  BY <1>3, <1>4

LEMMA StepGoesOn ==
  ASSUME Inv, [Next]_vars, NEW d \in Documents, Exists(d), ~Is(d, "draft")
  PROVE  GoesOn(doc[d], doc'[d])
<1>1. doc[d] \in Rows /\ doc[d].status # "draft"
  BY DEF Inv, Is, RowInv
<1>2. CASE doc' = doc
  BY <1>1, <1>2, SameRowGoesOn
<1>3. ASSUME NEW e \in Documents, DocumentNext(e) PROVE GoesOn(doc[d], doc'[d])
  BY <1>3, DocumentGoesOn
<1>4. ASSUME NEW h \in Handlers, DecideCommitted(h) PROVE GoesOn(doc[d], doc'[d])
  BY <1>4, DecideCommittedGoesOn
<1>5. doc' = doc \/ (\E e \in Documents : DocumentNext(e)) \/ \E h \in Handlers : DecideCommitted(h)
  BY DEF Next, DecideGivenUp, StandIn, StandInEnds, Deactivate, Reactivate, Restart, vars
<1> QED
  BY <1>2, <1>3, <1>4, <1>5

(* Two handlers, or a handler and a decision that overtakes it, never take  *)
(* back a press: a document that was sent only goes on, along its line.     *)
THEOREM DecisionsAlwaysStand == Spec => DecisionsStand
<1>1. ApprovalInit => Inv
  BY InitIsSound
<1>2. Inv /\ [Next]_vars => Inv'
  BY NextKeeps
<1>3. ASSUME Inv, [Next]_vars
      PROVE  [\A d \in Documents : Exists(d) /\ ~Is(d, "draft") =>
                /\ doc'[d] # Absent /\ doc'[d].status # "draft"
                /\ doc'[d].line = doc[d].line /\ doc'[d].step >= doc[d].step
                /\ \A a \in People : ~Pending(doc[d], a) =>
                    /\ doc'[d].seats.verdict[a] = doc[d].seats.verdict[a]
                    /\ doc'[d].seats.by[a] = doc[d].seats.by[a]
                /\ ~Is(d, "running") => doc'[d] = doc[d]]_vars
  BY <1>3, StepGoesOn DEF GoesOn, Is
<1> QED
  BY <1>1, <1>2, <1>3, PTL DEF Spec, DecisionsStand

----------------------------------------------------------------------------
(* OwnSeatIsOpen.  The line stands as it was judged, but for accounts that  *)
(* were closed since; a stand-in is nobody of the line; ahead of the        *)
(* current step nothing is pressed, and in it somebody has still to press.  *)
LineOK(row) ==
    /\ \A s \in DOMAIN row.line : row.line[s] # {} /\ row.drafter \notin row.line[s]
    /\ \A s, t \in DOMAIN row.line : s # t => row.line[s] \cap row.line[t] = {}

StandInsOK(row) ==
    \A a \in Approvers(row.line) : row.seats.by[a] \in {Nobody, a} \/ row.seats.by[a] \notin Approvers(row.line)

AheadOK(row) ==
    row.status = "running" =>
        /\ \A a \in Approvers(row.line) : row.seats.verdict[a] # "rejected"
        /\ \A s \in DOMAIN row.line : s > row.step => \A a \in row.line[s] : Pending(row, a)
        /\ Waiting(row) # {}

SeatRow(row) == LineOK(row) /\ StandInsOK(row) /\ AheadOK(row)

SeatInv ==
    /\ \A d \in Documents : Exists(d) => SeatRow(doc[d])
    /\ \A h \in Handlers : Doing(h, "decide") =>
         handler[h].seat = handler[h].by \/ Held(handler[h].noted, handler[h].by) = {}

(* A line without a press. *)
LEMMA FreshSeatRow ==
  ASSUME NEW row \in Rows, row.seats = FreshSeats, row.step = 1, SoundLine(row.line, row.drafter),
         row.status = "running" => row.line # << >>
  PROVE  SeatRow(row)
<1>1. \A a \in People : row.seats.verdict[a] = "pending" /\ row.seats.by[a] = Nobody
  BY DEF FreshSeats
<1>2. LineOK(row)
  BY DEF SoundLine, LineOK
<1>3. Approvers(row.line) \subseteq People /\ \A s \in DOMAIN row.line : row.line[s] \subseteq People
  BY ApproversArePeople
<1>4. StandInsOK(row)
  BY <1>1, <1>3 DEF StandInsOK
<1>5. ASSUME row.status = "running" PROVE Waiting(row) # {}
  <2>1. 1 \in DOMAIN row.line
    BY <1>5 DEF Rows
  <2>2. row.line[1] # {} /\ row.line[1] \subseteq People
    BY <1>2, <1>3, <2>1 DEF LineOK
  <2> QED
    BY <1>1, <2>2 DEF Waiting, Pending
<1>6. AheadOK(row)
  BY <1>1, <1>3, <1>5 DEF AheadOK, Pending
<1> QED
  BY <1>2, <1>4, <1>6 DEF SeatRow

(* What the seats and the line are is all that counts. *)
LEMMA SameSeatRow ==
  ASSUME NEW row, SeatRow(row), NEW next, next.line = row.line, next.drafter = row.drafter,
         next.seats = row.seats, next.step = row.step, next.status = "running" => row.status = "running"
  PROVE  SeatRow(next)
  BY DEF SeatRow, LineOK, StandInsOK, AheadOK, Waiting, Pending

(* A press leaves what is ahead alone; a stand-in is nobody of the line.    *)
LEMMA DecidedSeatRow ==
  ASSUME NEW row, RowInv(row), SeatRow(row), NEW p \in People, NEW a, Ready(row, p, a),
         a = p \/ Held(row, p) = {}, NEW verdict \in {"approved", "rejected"}
  PROVE  SeatRow(Decided(row, p, a, verdict))
<1> DEFINE next == Pressed(row, p, a, verdict)
           out == Decided(row, p, a, verdict)
<1>1. /\ next \in Rows /\ next.status = "running" /\ next.step = row.step /\ next.line = row.line
      /\ \A b \in People : next.seats.verdict[b] = IF b = a THEN verdict ELSE row.seats.verdict[b]
  BY PressedSeats
<1>2. next.drafter = row.drafter /\ \A b \in People : next.seats.by[b] = IF b = a THEN p ELSE row.seats.by[b]
  BY DEF Pressed, RowInv, Rows
<1>3. /\ row \in Rows /\ row.step \in DOMAIN row.line /\ a \in row.line[row.step] /\ row.status = "running"
      /\ Approvers(row.line) \subseteq People /\ \A s \in DOMAIN row.line : row.line[s] \subseteq Approvers(row.line)
  BY ReadyHasNotPressed, ApproversArePeople DEF RowInv, Ready
<1>4. LineOK(next)
  BY <1>1, <1>2 DEF SeatRow, LineOK
<1>5. StandInsOK(next)
  <2>1. p \in Approvers(row.line) => a = p
    BY DEF Held
  <2> QED
    BY <1>1, <1>2, <1>3, <2>1 DEF SeatRow, StandInsOK
<1>6. /\ DOMAIN row.line = 1..Len(row.line) /\ Len(row.line) \in Nat /\ row.step \in Nat
      /\ row.seats.verdict \in [People -> Verdicts]
  BY <1>3 DEF Rows
<1>7. \A s \in DOMAIN row.line : s > row.step => \A b \in row.line[s] : Pending(next, b)
  <2>1. \A s \in DOMAIN row.line : s > row.step => a \notin row.line[s]
    BY <1>3, <1>6 DEF SeatRow, LineOK
  <2>2. \A s \in DOMAIN row.line : s > row.step => \A b \in row.line[s] : b \in People /\ Pending(row, b)
    BY <1>3 DEF SeatRow, AheadOK
  <2> QED
    BY <1>1, <2>1, <2>2 DEF Pending
<1>8. verdict = "approved" => \A b \in Approvers(row.line) : next.seats.verdict[b] # "rejected"
  BY <1>1, <1>3 DEF SeatRow, AheadOK
<1>9. out \in {next, [next EXCEPT !.status = "rejected"], [next EXCEPT !.status = "approved"], [next EXCEPT !.step = @ + 1]}
  BY DEF Decided
<1>10. out.line = next.line /\ out.drafter = next.drafter /\ out.seats = next.seats
  BY <1>1, <1>9 DEF Rows
<1>11. LineOK(out) /\ StandInsOK(out)
  BY <1>4, <1>5, <1>10 DEF LineOK, StandInsOK
<1>12. CASE verdict = "approved" /\ ~StepApproved(next, row.step)
  <2>1. out = next
    BY <1>12 DEF Decided
  <2>2. PICK b \in row.line[row.step] : next.seats.verdict[b] # "approved"
    BY <1>1, <1>12 DEF StepApproved
  <2>3. b \in People /\ b \in Approvers(row.line) /\ next.seats.verdict[b] \in Verdicts
    BY <1>1, <1>3, <2>2 DEF Rows
  <2>4. Pending(next, b)
    BY <1>8, <1>12, <2>2, <2>3 DEF Verdicts, Pending
  <2>5. Waiting(next) # {}
    BY <1>1, <2>2, <2>4 DEF Waiting
  <2>6. AheadOK(next)
    BY <1>1, <1>7, <1>8, <1>12, <2>5 DEF AheadOK
  <2> QED
    BY <1>11, <2>1, <2>6 DEF SeatRow
<1>13. CASE verdict = "approved" /\ StepApproved(next, row.step) /\ row.step # Len(row.line)
  <2>1. out = [next EXCEPT !.step = @ + 1]
    BY <1>13 DEF Decided
  <2>2. out.status = "running" /\ out.step = row.step + 1
    BY <1>1, <2>1 DEF Rows
  <2>3. row.step + 1 \in DOMAIN row.line /\ row.step + 1 > row.step
    BY <1>3, <1>6, <1>13
  <2>4. row.line[row.step + 1] # {} /\ \A b \in row.line[row.step + 1] : Pending(next, b)
    BY <1>7, <2>3 DEF SeatRow, LineOK
  <2>5. Waiting(out) # {}
    BY <1>1, <1>10, <2>2, <2>4 DEF Waiting, Pending
  <2>6. \A s \in DOMAIN row.line : s > row.step + 1 => \A b \in row.line[s] : Pending(next, b)
    BY <1>6, <1>7
  <2>7. AheadOK(out)
    BY <1>1, <1>8, <1>10, <1>13, <2>2, <2>5, <2>6 DEF AheadOK, Pending
  <2> QED
    BY <1>11, <2>7 DEF SeatRow
<1>14. CASE verdict = "rejected" \/ (verdict = "approved" /\ StepApproved(next, row.step) /\ row.step = Len(row.line))
  <2>1. out \in {[next EXCEPT !.status = "rejected"], [next EXCEPT !.status = "approved"]}
    BY <1>14 DEF Decided
  <2>2. out.status # "running"
    BY <1>1, <2>1 DEF Rows
  <2> QED
    BY <1>11, <2>2 DEF SeatRow, AheadOK
<1> QED
  BY <1>12, <1>13, <1>14

LEMMA MayPressIsReady ==
  ASSUME NEW row, NEW p, NEW a, MayPress(row, p, a)
  PROVE  Ready(row, p, a) /\ (a = p \/ Held(row, p) = {})
  BY DEF MayPress, Ready

(* One row is written, and no handler begins to wait. *)
LEMMA SeatWrite ==
  ASSUME Inv, SeatInv, NEW d \in Documents, NEW row, row = Absent \/ SeatRow(row),
         doc' = [doc EXCEPT ![d] = row], handler' = handler
  PROVE  SeatInv'
<1>1. \A e \in Documents : Exists(e)' => SeatRow(doc'[e])
  BY DEF Inv, SeatInv, Exists
<1> QED
  BY <1>1 DEF SeatInv, Doing

LEMMA DocumentSeats ==
  ASSUME Inv, SeatInv, NEW d \in Documents, DocumentNext(d)
  PROVE  SeatInv'
<1> USE DEF libraryVars
<1>1. ASSUME NEW p \in Drafters, NEW line \in Lines, NEW linked \in SUBSET Present,
             NEW submit \in BOOLEAN, Create(d, p, line, linked, submit)
      PROVE  SeatInv'
  <2> DEFINE row == Row(IF submit THEN "running" ELSE "draft", p, line, linked)
  <2>1. p \in People /\ linked \subseteq Ids /\ SoundLine(line, p) /\ (submit => line # << >>)
    BY <1>1 DEF Create, Listed, Inv
  <2>2. row \in Rows
    BY <2>1, FreshRow DEF RowInv
  <2>3. /\ row.seats = FreshSeats /\ row.step = 1 /\ row.line = line /\ row.drafter = p
        /\ row.status = IF submit THEN "running" ELSE "draft"
    BY DEF Row
  <2>4. SeatRow(row)
    BY <2>1, <2>2, <2>3, FreshSeatRow
  <2> QED
    BY <1>1, <2>4, SeatWrite DEF Create, Write
<1>2. ASSUME NEW line \in Lines, NEW linked \in SUBSET Present, Patch(d, line, linked)
      PROVE  SeatInv'
  <2> DEFINE row == [doc[d] EXCEPT !.line = line, !.linked = linked]
  <2>1. RowInv(doc[d]) /\ doc[d].status = "draft" /\ SeatRow(doc[d]) /\ linked \subseteq Ids
    BY <1>2 DEF Patch, Inv, Is, SeatInv, Listed
  <2>2. /\ row \in Rows /\ row.status = "draft" /\ row.seats = FreshSeats /\ row.step = 1
        /\ row.line = line /\ row.drafter = doc[d].drafter
    BY <2>1 DEF RowInv, Rows, DraftOK
  <2>3. CASE line = doc[d].line
    <3>1. row.seats = doc[d].seats /\ row.step = doc[d].step
      BY <2>1 DEF RowInv, Rows
    <3> QED
      BY <2>1, <2>2, <2>3, <3>1, SameSeatRow, SeatWrite, <1>2 DEF Patch, Write
  <2>4. CASE SoundLine(line, doc[d].drafter)
    <3>1. SeatRow(row)
      BY <2>2, <2>4, FreshSeatRow
    <3> QED
      BY <3>1, SeatWrite, <1>2 DEF Patch, Write
  <2> QED
    BY <1>2, <2>3, <2>4 DEF Patch
<1>3. ASSUME Delete(d) PROVE SeatInv'
  BY <1>3, SeatWrite DEF Delete, Write
<1>4. ASSUME Submit(d) PROVE SeatInv'
  <2> DEFINE row == [doc[d] EXCEPT !.status = "running"]
  <2>1. RowInv(doc[d]) /\ doc[d].status = "draft" /\ doc[d].line # << >> /\ SoundLine(doc[d].line, doc[d].drafter)
    BY <1>4 DEF Submit, Inv, Is
  <2>2. row \in Rows /\ row.step = 1 /\ row.line = doc[d].line /\ row.seats = FreshSeats
        /\ row.drafter = doc[d].drafter
    BY <2>1 DEF RowInv, Rows, DraftOK
  <2>3. SeatRow(row)
    BY <2>1, <2>2, FreshSeatRow
  <2> QED
    BY <1>4, <2>3, SeatWrite DEF Submit, Write
<1>5. ASSUME Recall(d) PROVE SeatInv'
  <2> DEFINE row == [doc[d] EXCEPT !.status = "recalled"]
  <2>1. RowInv(doc[d]) /\ SeatRow(doc[d])
    BY <1>5 DEF Recall, Inv, SeatInv
  <2>2. /\ row.status = "recalled" /\ row.line = doc[d].line /\ row.step = doc[d].step
        /\ row.seats = doc[d].seats /\ row.drafter = doc[d].drafter
    BY <2>1 DEF RowInv, Rows
  <2>3. SeatRow(row)
    BY <2>1, <2>2, SameSeatRow
  <2> QED
    BY <1>5, <2>3, SeatWrite DEF Recall, Write
<1>6. ASSUME NEW p \in People, NEW a \in People, NEW verdict \in {"approved", "rejected"},
             Decide(d, p, a, verdict)
      PROVE  SeatInv'
  <2>1. RowInv(doc[d]) /\ SeatRow(doc[d]) /\ MayPress(doc[d], p, a)
    BY <1>6 DEF Decide, Inv, SeatInv
  <2>2. SeatRow(Decided(doc[d], p, a, verdict))
    BY <2>1, MayPressIsReady, DecidedSeatRow
  <2> QED
    BY <1>6, <2>2, SeatWrite DEF Decide, Write
<1>7. ASSUME NEW k \in Handlers, NEW p \in People, NEW a \in People, NEW i \in Ids,
             DecideWithFile(k, d, p, a, i)
      PROVE  SeatInv'
  <2> DEFINE r == [op |-> "decide", doc |-> d, noted |-> doc[d], by |-> p, seat |-> a, id |-> i]
  <2>1. handler' = [handler EXCEPT ![k] = r] /\ doc' = doc
    BY <1>7 DEF DecideWithFile, Wait
  <2>2. r.seat = r.by \/ Held(r.noted, r.by) = {}
    BY <1>7, MayPressIsReady DEF DecideWithFile
  <2>3. handler'[k] = r /\ \A h \in Handlers \ {k} : handler'[h] = handler[h]
    BY <2>1 DEF Inv
  <2> HIDE DEF r
  <2> QED
    BY <2>1, <2>2, <2>3 DEF SeatInv, Doing, Exists
<1> QED
  BY <1>1, <1>2, <1>3, <1>4, <1>5, <1>6, <1>7 DEF DocumentNext

LEMMA DecideCommittedSeats ==
  ASSUME Inv, SeatInv, NEW k \in Handlers, DecideCommitted(k)
  PROVE  SeatInv'
<1> DEFINE r == handler[k]
           decided == Decided(r.noted, r.by, r.seat, "approved")
           row == [decided EXCEPT !.evidence = r.id]
<1>1. /\ NotedInv(r) /\ doc[r.doc] = r.noted
      /\ r.seat = r.by \/ Held(r.noted, r.by) = {}
  BY DEF DecideCommitted, StillAsNoted, Inv, SeatInv
<1>2. RowInv(r.noted) /\ SeatRow(r.noted) /\ r.by \in People /\ Ready(r.noted, r.by, r.seat)
  <2>1. Absent.status = "absent"
    BY DEF Absent
  <2> QED
    BY <1>1, <2>1 DEF NotedInv, Ready, Inv, Exists, SeatInv
<1>3. RowInv(decided) /\ SeatRow(decided)
  BY <1>1, <1>2, DecidedKeeps, DecidedSeatRow
<1>4. /\ row.status = decided.status /\ row.line = decided.line
      /\ row.step = decided.step /\ row.seats = decided.seats /\ row.drafter = decided.drafter
  BY <1>3 DEF RowInv, Rows
<1>5. SeatRow(row)
  BY <1>3, <1>4, SameSeatRow
<1>6. doc' = [doc EXCEPT ![r.doc] = row] /\ handler' = [handler EXCEPT ![k] = Idle] /\ r.doc \in Documents
  BY <1>1 DEF DecideCommitted, Write, Done, NotedInv
<1>7. \A e \in Documents : doc'[e] # Absent => SeatRow(doc'[e])
  BY <1>5, <1>6 DEF Inv, Exists, SeatInv
<1>8. \A h \in Handlers : Doing(h, "decide")' => Doing(h, "decide") /\ handler'[h] = handler[h]
  BY <1>6 DEF Inv, Doing
<1> QED
  BY <1>7, <1>8 DEF SeatInv, Exists

LEMMA NextSeats == Inv /\ SeatInv /\ [Next]_vars => SeatInv'
<1> SUFFICES ASSUME Inv, SeatInv, [Next]_vars PROVE SeatInv'
  OBVIOUS
<1>1. ASSUME doc' = doc, \A h \in Handlers : Doing(h, "decide")' => Doing(h, "decide") /\ handler'[h] = handler[h]
      PROVE  SeatInv'
  BY <1>1 DEF SeatInv, Exists
<1>2. ASSUME LibraryNext(Holds), UNCHANGED <<doc, standsFor, active>> PROVE SeatInv'
  BY <1>1, <1>2, LibrarySpares DEF Spared
<1>3. ASSUME NEW h \in Handlers, DecideGivenUp(h) PROVE SeatInv'
  BY <1>1, <1>3 DEF DecideGivenUp, Done, Inv, Doing
<1>4. CASE Restart \/ UNCHANGED vars
  BY <1>1, <1>4 DEF Restart, vars, Doing
<1>5. ASSUME NEW a, NEW p, StandIn(a, p) \/ StandInEnds(p) \/ Deactivate(p) \/ Reactivate(p) PROVE SeatInv'
  BY <1>1, <1>5 DEF StandIn, StandInEnds, Deactivate, Reactivate, libraryVars, Doing
<1> QED
  BY <1>2, <1>3, <1>4, <1>5, DocumentSeats, DecideCommittedSeats DEF Next

LEMMA InitSeats == ApprovalInit => SeatInv
  BY DEF ApprovalInit, LibraryInit, SeatInv, Exists, Doing

LEMMA SeatIsOpen ==
  ASSUME NEW row, RowInv(row), SeatRow(row), row.status = "running", NEW a \in Waiting(row)
  PROVE  MayPress(row, a, a)
<1>1. /\ row.step \in DOMAIN row.line /\ a \in row.line[row.step] /\ Pending(row, a)
      /\ \A s \in 1..(row.step - 1) : StepApproved(row, s)
  BY DEF RowInv, StepsOK, Waiting
<1>2. a # row.drafter /\ a \in Approvers(row.line)
  BY <1>1, ApproversArePeople DEF RowInv, SeatRow, LineOK
<1>3. \A b \in Held(row, a) : Pending(row, b)
  <2> SUFFICES ASSUME NEW b \in Approvers(row.line), row.seats.by[b] = a, b # a PROVE FALSE
    BY <1>1 DEF Held
  <2>1. a # Nobody
    BY <1>2, ApproversArePeople DEF RowInv
  <2> QED
    BY <1>2, <2>1 DEF SeatRow, StandInsOK
<1> QED
  BY <1>1, <1>2, <1>3 DEF MayPress

(* Whoever stands in for whom: an approver whose turn it is can press their *)
(* own seat, and a running document always waits for somebody.              *)
THEOREM OwnSeatIsAlwaysOpen == Spec => []OwnSeatIsOpen
<1>1. ApprovalInit => Inv /\ SeatInv
  BY InitIsSound, InitSeats
<1>2. Inv /\ SeatInv /\ [Next]_vars => (Inv /\ SeatInv)'
  BY NextKeeps, NextSeats
<1>3. Inv /\ SeatInv => OwnSeatIsOpen
  <2> SUFFICES ASSUME Inv, SeatInv, NEW d \in Documents, Exists(d), Is(d, "running")
               PROVE  Waiting(doc[d]) # {} /\ \A a \in Waiting(doc[d]) : MayPress(doc[d], a, a)
    BY DEF OwnSeatIsOpen
  <2>1. RowInv(doc[d]) /\ SeatRow(doc[d]) /\ doc[d].status = "running"
    BY DEF Inv, SeatInv, Is
  <2> QED
    BY <2>1, SeatIsOpen DEF SeatRow, AheadOK
<1> QED
  BY <1>1, <1>2, <1>3, PTL DEF Spec

----------------------------------------------------------------------------
(* EvidenceStands.  Nothing knows an id that was not given to a file; the   *)
(* file of a handler that waits for it, and an evidence, is in no trash, in *)
(* no list that a purge has noted as trash, and nobody is about to delete   *)
(* it; what draft, running and approved documents point to is held, and so  *)
(* leaves the library only under a purge's older list.                      *)
Purging(h) == Doing(h, "purge") \/ Doing(h, "purged")

Mentions(h, i) ==
    \/ (Doing(h, "upload") \/ Doing(h, "decide") \/ Purging(h)) /\ handler[h].id = i
    \/ Doing(h, "sweep") /\ i \in handler[h].ids
    \/ Purging(h) /\ handler[h].noted[i] # "absent"

Threatens(h, i) ==
    \/ (Doing(h, "upload") \/ Purging(h)) /\ handler[h].id = i
    \/ Doing(h, "sweep") /\ i \in handler[h].ids
    \/ Purging(h) /\ handler[h].noted[i] = "trashed"

Safe(i) ==
    /\ i \in given /\ i \in bytes /\ library[i] # "trashed"
    /\ \A h \in Handlers : ~Threatens(h, i)

Hidden(i) == library[i] = "absent" /\ \A h \in Handlers : Purging(h) => handler[h].noted[i] = "absent"

LibraryInv ==
    /\ library \in [Ids -> RowStates] /\ given \subseteq Ids
    /\ \A h \in Handlers : Purging(h) => handler[h].noted \in [Ids -> RowStates]
    /\ \A i \in Ids \ given : library[i] = "absent" /\ \A h \in Handlers : ~Mentions(h, i)

Awaits(r) ==
    /\ Decided(r.noted, r.by, r.seat, "approved").status = "approved"
    /\ r.noted.evidence = Nobody

WaitingInv ==
    \A h \in Handlers : Doing(h, "decide") =>
        /\ Safe(handler[h].id) /\ Hidden(handler[h].id) /\ Awaits(handler[h])
        /\ \A k \in Handlers \ {h} : Doing(k, "decide") => handler[k].id # handler[h].id
        /\ \A d \in Documents : Exists(d) => doc[d].evidence # handler[h].id

FilesInv ==
    \A d \in Documents : Exists(d) =>
        /\ doc[d].evidence # Nobody =>
             Safe(doc[d].evidence) /\ doc[d].status = "approved" /\ doc[d].evidence \in Listed \cup erased
        /\ d \in WithEvidence /\ doc[d].status = "approved" => doc[d].evidence # Nobody
        /\ doc[d].status \in {"draft", "running", "approved"} => doc[d].linked \subseteq Listed \cup erased

EvidenceInv == LibraryInv /\ WaitingInv /\ FilesInv

(* What a step of the library has to leave alone. *)
LeavesFiles ==
    /\ \A i \in Ids : Safe(i) /\ (Hidden(i) \/ i \in Holds) => Safe(i)'
    /\ \A i \in Ids : Safe(i) /\ Hidden(i) => Hidden(i)'
    /\ \A i \in Holds : i \in Listed \cup erased => i \in (Listed \cup erased)'

LEMMA EvidenceKept ==
  ASSUME Inv, EvidenceInv, doc' = doc, LeavesFiles, LibraryInv',
         \A h \in Handlers : Doing(h, "decide")' => Doing(h, "decide") /\ handler'[h] = handler[h]
  PROVE  EvidenceInv'
<1>1. WaitingInv'
  <2> SUFFICES ASSUME NEW h \in Handlers, Doing(h, "decide")'
               PROVE  /\ Safe(handler[h].id)' /\ Hidden(handler[h].id)' /\ Awaits(handler[h])'
                      /\ \A k \in Handlers \ {h} : Doing(k, "decide")' => handler'[k].id # handler'[h].id
                      /\ \A d \in Documents : Exists(d)' => doc'[d].evidence # handler'[h].id
    BY DEF WaitingInv
  <2>1. Doing(h, "decide") /\ handler'[h] = handler[h]
    OBVIOUS
  <2>2. PICK i \in Ids : i = handler[h].id
    BY <2>1 DEF Inv, NotedInv
  <2>3. Safe(i) /\ Hidden(i) /\ Awaits(handler[h])
    BY <2>1, <2>2 DEF EvidenceInv, WaitingInv
  <2>4. Safe(i)' /\ Hidden(i)'
    BY <2>3 DEF LeavesFiles
  <2>5. Safe(handler[h].id)' /\ Hidden(handler[h].id)'
    BY <2>1, <2>2, <2>4 DEF Safe, Hidden
  <2>6. Awaits(handler[h])'
    BY <2>1, <2>3 DEF Awaits, Decided, Pressed, StepApproved
  <2> QED
    BY <2>1, <2>5, <2>6 DEF EvidenceInv, WaitingInv, Exists
<1>2. FilesInv'
  <2> SUFFICES ASSUME NEW d \in Documents, Exists(d)
               PROVE  /\ doc[d].evidence # Nobody =>
                           /\ Safe(doc[d].evidence)' /\ doc[d].status = "approved"
                           /\ doc[d].evidence \in (Listed \cup erased)'
                      /\ d \in WithEvidence /\ doc[d].status = "approved" => doc[d].evidence # Nobody
                      /\ doc[d].status \in {"draft", "running", "approved"} => doc[d].linked \subseteq (Listed \cup erased)'
    BY DEF FilesInv, Exists
  <2>1. doc[d].status \in {"draft", "running", "approved"} =>
          /\ doc[d].linked \subseteq Holds /\ doc[d].evidence \in Holds
    BY DEF Holds
  <2>2. ASSUME doc[d].evidence # Nobody
        PROVE  Safe(doc[d].evidence)' /\ doc[d].evidence \in (Listed \cup erased)' /\ doc[d].status = "approved"
    <3>1. PICK i \in Ids : i = doc[d].evidence
      BY <2>2 DEF Inv, RowInv, Rows
    <3>2. Safe(i) /\ i \in Listed \cup erased /\ doc[d].status = "approved"
      BY <2>2, <3>1 DEF EvidenceInv, FilesInv
    <3>3. Safe(i)' /\ i \in (Listed \cup erased)'
      BY <2>1, <3>1, <3>2 DEF LeavesFiles
    <3> QED
      BY <3>1, <3>2, <3>3 DEF Safe
  <2>3. doc[d].status \in {"draft", "running", "approved"} => doc[d].linked \subseteq (Listed \cup erased)'
    BY <2>1 DEF LeavesFiles, EvidenceInv, FilesInv
  <2> QED
    BY <2>2, <2>3 DEF EvidenceInv, FilesInv
<1> QED
  BY <1>1, <1>2 DEF EvidenceInv

(* The library. *)
LEMMA TrashEvidence ==
  ASSUME Inv, EvidenceInv, NEW j \in Ids, Trash(j, Holds) \/ Untrash(j)
  PROVE  LeavesFiles /\ LibraryInv'
<1>1. PICK s \in RowStates : library' = [library EXCEPT ![j] = s]
  BY DEF Trash, Untrash, RowStates
<1>2. UNCHANGED <<bytes, given, handler, erased>>
  BY DEF Trash, Untrash
<1>3. \A i \in Ids : library'[i] = IF i = j THEN s ELSE library[i]
  BY <1>1 DEF EvidenceInv, LibraryInv
<1>4. j \in given
  BY DEF Trash, Untrash, Listed, Trashed, EvidenceInv, LibraryInv
<1>5. \A h \in Handlers : \A i \in Ids : (Threatens(h, i)' <=> Threatens(h, i)) /\ (Mentions(h, i)' <=> Mentions(h, i))
  BY <1>2 DEF Threatens, Mentions, Purging, Doing
<1>6. LibraryInv'
  BY <1>1, <1>2, <1>3, <1>4, <1>5 DEF EvidenceInv, LibraryInv, Purging, Doing
<1>7. \A i \in Ids : Safe(i) /\ (Hidden(i) \/ i \in Holds) => (i # j \/ s = "listed") /\ (Hidden(i) => i # j)
  BY <1>1, <1>3 DEF Trash, Untrash, Listed, Trashed, Hidden, Safe
<1>8. \A i \in Holds : i \in Listed => i \in Listed'
  BY <1>1, <1>3 DEF Trash, Untrash, Listed, Trashed
<1>9. \A i \in Ids : Safe(i) /\ (Hidden(i) \/ i \in Holds) => Safe(i)'
  BY <1>2, <1>3, <1>5, <1>7 DEF Safe
<1>10. \A i \in Ids : Safe(i) /\ Hidden(i) => Hidden(i)'
  BY <1>2, <1>3, <1>7 DEF Hidden, Purging, Doing
<1> QED
  BY <1>2, <1>6, <1>8, <1>9, <1>10 DEF LeavesFiles

(* The handler of k goes on with r, and the others wait as before. *)
GoesOnWith(k, r) ==
    /\ handler'[k] = r
    /\ \A h \in Handlers \ {k} :
        /\ handler'[h] = handler[h] /\ (Purging(h)' <=> Purging(h))
        /\ \A i \in Ids : (Threatens(h, i)' <=> Threatens(h, i)) /\ (Mentions(h, i)' <=> Mentions(h, i))

LEMMA HandlerStep ==
  ASSUME Inv, NEW k \in Handlers, NEW r, handler' = [handler EXCEPT ![k] = r]
  PROVE  GoesOnWith(k, r)
<1>1. handler'[k] = r /\ \A h \in Handlers \ {k} : handler'[h] = handler[h]
  BY DEF Inv
<1>2. \A h \in Handlers \ {k} : Purging(h)' <=> Purging(h)
  BY <1>1 DEF Purging, Doing
<1>3. \A h \in Handlers \ {k} : \A i \in Ids :
        (Threatens(h, i)' <=> Threatens(h, i)) /\ (Mentions(h, i)' <=> Mentions(h, i))
  BY <1>1, <1>2 DEF Threatens, Mentions, Doing
<1> QED
  BY <1>1, <1>2, <1>3 DEF GoesOnWith

(* A handler that threatens no file it did not threaten before. *)
LEMMA HandlerLeavesFiles ==
  ASSUME Inv, EvidenceInv, NEW k \in Handlers, NEW r, handler' = [handler EXCEPT ![k] = r],
         given \subseteq given',
         \A i \in Ids : Safe(i) /\ (Hidden(i) \/ i \in Holds) =>
            /\ i \in bytes' /\ library'[i] # "trashed" /\ ~Threatens(k, i)'
            /\ Hidden(i) => library'[i] = "absent" /\ (Purging(k)' => r.noted[i] = "absent"),
         \A i \in Holds : i \in Listed \cup erased => i \in (Listed \cup erased)'
  PROVE  LeavesFiles
<1>1. GoesOnWith(k, r)
  BY HandlerStep
<1>2. \A i \in Ids : Safe(i) /\ (Hidden(i) \/ i \in Holds) => Safe(i)'
  BY <1>1 DEF Safe, GoesOnWith
<1>3. \A i \in Ids : Safe(i) /\ Hidden(i) => Hidden(i)'
  BY <1>1 DEF Hidden, GoesOnWith
<1> QED
  BY <1>2, <1>3 DEF LeavesFiles

LEMMA UploadEvidence ==
  ASSUME Inv, EvidenceInv, NEW k \in Handlers, NEW j \in Ids, Upload(k, j)
  PROVE  LeavesFiles /\ LibraryInv'
<1> DEFINE r == [op |-> "upload", id |-> j]
<1>1. /\ handler' = [handler EXCEPT ![k] = r] /\ UNCHANGED <<library, erased>>
      /\ j \notin given /\ given' = given \cup {j} /\ bytes' = bytes \cup {j}
  BY DEF Upload, Put, Wait
<1>2. GoesOnWith(k, r)
  BY <1>1, HandlerStep
<1>3. /\ \A i \in Ids : (Threatens(k, i)' => i = j) /\ (Mentions(k, i)' => i = j)
      /\ ~Purging(k)'
  BY <1>2 DEF GoesOnWith, Threatens, Mentions, Purging, Doing
<1> HIDE DEF r
<1>4. LibraryInv'
  BY <1>1, <1>2, <1>3 DEF GoesOnWith, EvidenceInv, LibraryInv
<1>5. \A i \in Ids : Safe(i) => i # j
  BY <1>1 DEF Safe
<1> QED
  BY <1>1, <1>3, <1>4, <1>5, HandlerLeavesFiles DEF Safe, Hidden, Listed

LEMMA UploadEndsEvidence ==
  ASSUME Inv, EvidenceInv, NEW k \in Handlers, UploadListed(k) \/ UploadFails(k)
  PROVE  LeavesFiles /\ LibraryInv'
<1> DEFINE j == handler[k].id
<1>1. Doing(k, "upload") /\ handler' = [handler EXCEPT ![k] = Idle] /\ UNCHANGED <<given, erased>>
  BY DEF UploadListed, UploadFails, Done
<1>2. GoesOnWith(k, Idle)
  BY <1>1, HandlerStep
<1>3. /\ \A i \in Ids : ~Threatens(k, i)' /\ ~Mentions(k, i)'
      /\ ~Purging(k)'
  BY <1>2 DEF GoesOnWith, Threatens, Mentions, Purging, Doing
<1>4. \A i \in Ids : i = j => Mentions(k, i) /\ Threatens(k, i)
  BY <1>1 DEF Threatens, Mentions
<1>5. /\ library' \in [Ids -> RowStates]
      /\ \A i \in Ids : i # j => library'[i] = library[i]
      /\ \A i \in Ids : library[i] = "listed" => library'[i] = "listed"
  BY DEF UploadListed, UploadFails, EvidenceInv, LibraryInv, RowStates
<1>6. \A i \in Ids : i # j /\ i \in bytes => i \in bytes'
  BY DEF UploadListed, UploadFails, TryDelete
<1> HIDE DEF j
<1>7. LibraryInv'
  BY <1>1, <1>2, <1>3, <1>4, <1>5 DEF GoesOnWith, EvidenceInv, LibraryInv
<1>8. \A i \in Ids : Safe(i) => i # j
  BY <1>4 DEF Safe
<1>9. \A i \in Holds : i \in Listed \cup erased => i \in (Listed \cup erased)'
  BY <1>1, <1>5 DEF Listed
<1>10. \A i \in Ids : Safe(i) /\ (Hidden(i) \/ i \in Holds) =>
         /\ i \in bytes' /\ library'[i] # "trashed" /\ ~Threatens(k, i)'
         /\ Hidden(i) => library'[i] = "absent" /\ (Purging(k)' => Idle.noted[i] = "absent")
  BY <1>3, <1>5, <1>6, <1>8 DEF Safe, Hidden
<1> QED
  BY <1>1, <1>7, <1>9, <1>10, HandlerLeavesFiles

LEMMA SweepEvidence ==
  ASSUME Inv, EvidenceInv, NEW k \in Handlers, NEW S, Sweep(k, S, Holds)
  PROVE  LeavesFiles /\ LibraryInv'
<1> DEFINE r == [op |-> "sweep", ids |-> S]
<1>1. /\ handler' = [handler EXCEPT ![k] = r] /\ UNCHANGED <<bytes, given, erased>>
      /\ S \subseteq Trashed \ Holds
  BY DEF Sweep, Wait
<1>2. GoesOnWith(k, r)
  BY <1>1, HandlerStep
<1>3. /\ \A i \in Ids : (Threatens(k, i)' => i \in S) /\ (Mentions(k, i)' => i \in S)
      /\ ~Purging(k)'
  BY <1>2 DEF GoesOnWith, Threatens, Mentions, Purging, Doing
<1> HIDE DEF r
<1>4. /\ library' \in [Ids -> RowStates]
      /\ \A i \in Ids : library'[i] = IF i \in S THEN "absent" ELSE library[i]
  BY DEF Sweep, EvidenceInv, LibraryInv, RowStates
<1>5. \A i \in S : i \in Ids /\ library[i] = "trashed"
  BY <1>1 DEF Trashed
<1>6. LibraryInv'
  BY <1>1, <1>2, <1>3, <1>4, <1>5 DEF GoesOnWith, EvidenceInv, LibraryInv
<1>7. \A i \in Ids : Safe(i) => i \notin S
  BY <1>5 DEF Safe
<1>8. \A i \in Holds : i \in Listed \cup erased => i \in (Listed \cup erased)'
  BY <1>1, <1>4 DEF Listed
<1> QED
  BY <1>1, <1>3, <1>4, <1>6, <1>7, <1>8, HandlerLeavesFiles DEF Safe, Hidden

LEMMA SweepDeleteEvidence ==
  ASSUME Inv, EvidenceInv, NEW k \in Handlers, SweepDelete(k)
  PROVE  LeavesFiles /\ LibraryInv'
<1>1. PICK j \in handler[k].ids : /\ TryDelete(j)
        /\ handler' = [handler EXCEPT ![k] =
             IF @.ids = {j} THEN Idle ELSE [op |-> "sweep", ids |-> @.ids \ {j}]]
  BY DEF SweepDelete
<1>2. PICK r : r = IF handler[k].ids = {j} THEN Idle ELSE [op |-> "sweep", ids |-> handler[k].ids \ {j}]
  OBVIOUS
<1>3. handler' = [handler EXCEPT ![k] = r] /\ UNCHANGED <<library, given, erased>> /\ Doing(k, "sweep")
  BY <1>1, <1>2 DEF SweepDelete
<1>4. GoesOnWith(k, r)
  BY <1>3, HandlerStep
<1>5. /\ \A i \in Ids : (Threatens(k, i)' => i \in handler[k].ids) /\ (Mentions(k, i)' => i \in handler[k].ids)
      /\ ~Purging(k)'
  BY <1>2, <1>4 DEF GoesOnWith, Threatens, Mentions, Purging, Doing
<1>6. \A i \in handler[k].ids : i \in Ids => Threatens(k, i) /\ Mentions(k, i)
  BY <1>3 DEF Threatens, Mentions
<1>7. LibraryInv'
  BY <1>3, <1>4, <1>5, <1>6 DEF GoesOnWith, EvidenceInv, LibraryInv
<1>8. \A i \in Ids : Safe(i) => i \notin handler[k].ids
  BY <1>6 DEF Safe
<1>9. \A i \in bytes : i # j => i \in bytes'
  BY <1>1 DEF TryDelete
<1> QED
  BY <1>3, <1>5, <1>7, <1>8, <1>9, HandlerLeavesFiles DEF Safe, Hidden, Listed

LEMMA PurgeEvidence ==
  ASSUME Inv, EvidenceInv, NEW k \in Handlers, NEW j \in Ids, Purge(k, j, Holds)
  PROVE  LeavesFiles /\ LibraryInv'
<1> DEFINE r == [op |-> "purge", id |-> j, noted |-> library]
<1>1. /\ handler' = [handler EXCEPT ![k] = r] /\ UNCHANGED <<library, bytes, given, erased>>
      /\ library[j] = "trashed"
  BY DEF Purge, Wait, Trashed
<1>2. GoesOnWith(k, r) /\ r.noted = library
  BY <1>1, HandlerStep
<1>3. \A i \in Ids : /\ Threatens(k, i)' => i = j \/ library[i] = "trashed"
                     /\ Mentions(k, i)' => i = j \/ library[i] # "absent"
  BY <1>2 DEF GoesOnWith, Threatens, Mentions, Purging, Doing
<1> HIDE DEF r
<1>4. LibraryInv'
  BY <1>1, <1>2, <1>3 DEF GoesOnWith, EvidenceInv, LibraryInv
<1> QED
  BY <1>1, <1>2, <1>3, <1>4, HandlerLeavesFiles DEF Safe, Hidden, Listed

(* The bytes go, and the handler waits on with what it has noted. *)
LEMMA PurgeDeleteEvidence ==
  ASSUME Inv, EvidenceInv, NEW k \in Handlers, PurgeDelete(k)
  PROVE  LeavesFiles /\ LibraryInv'
<1> DEFINE r == [op |-> "purged", id |-> handler[k].id, noted |-> handler[k].noted]
<1>1. /\ handler' = [handler EXCEPT ![k] = r] /\ UNCHANGED <<library, given, erased>>
      /\ Doing(k, "purge") /\ bytes' = bytes \ {handler[k].id}
  BY DEF PurgeDelete, Inv
<1>2. GoesOnWith(k, r) /\ r.noted = handler[k].noted
  BY <1>1, HandlerStep
<1>3. \A i \in Ids : (Threatens(k, i)' => Threatens(k, i)) /\ (Mentions(k, i)' => Mentions(k, i))
  BY <1>1, <1>2 DEF GoesOnWith, Threatens, Mentions, Purging, Doing
<1>4. Purging(k) /\ \A i \in Ids : i = handler[k].id => Threatens(k, i)
  BY <1>1 DEF Threatens, Purging
<1> HIDE DEF r
<1>5. LibraryInv'
  BY <1>1, <1>2, <1>3, <1>4 DEF GoesOnWith, EvidenceInv, LibraryInv
<1>6. \A i \in Ids : Safe(i) /\ (Hidden(i) \/ i \in Holds) =>
         /\ i \in bytes' /\ library'[i] # "trashed" /\ ~Threatens(k, i)'
         /\ Hidden(i) => library'[i] = "absent" /\ (Purging(k)' => r.noted[i] = "absent")
  BY <1>1, <1>2, <1>3, <1>4 DEF Safe, Hidden
<1>7. \A i \in Holds : i \in Listed \cup erased => i \in (Listed \cup erased)'
  BY <1>1 DEF Listed
<1> QED
  BY <1>1, <1>5, <1>6, <1>7, HandlerLeavesFiles

(* The noted list is written: what it does not list is remembered. *)
LEMMA PurgeListEvidence ==
  ASSUME Inv, EvidenceInv, NEW k \in Handlers, PurgeList(k)
  PROVE  LeavesFiles /\ LibraryInv'
<1> DEFINE j == handler[k].id
           left == [handler[k].noted EXCEPT ![j] = "absent"]
<1>1. /\ handler' = [handler EXCEPT ![k] = Idle] /\ UNCHANGED <<bytes, given>> /\ Doing(k, "purged")
      /\ library' = left /\ erased' = erased \cup {i \in Listed : left[i] # "listed"}
  BY DEF PurgeList, Done
<1>2. GoesOnWith(k, Idle)
  BY <1>1, HandlerStep
<1>3. /\ \A i \in Ids : ~Threatens(k, i)' /\ ~Mentions(k, i)'
      /\ ~Purging(k)'
  BY <1>2 DEF GoesOnWith, Threatens, Mentions, Purging, Doing
<1>4. Purging(k) /\ handler[k].noted \in [Ids -> RowStates]
  BY <1>1 DEF Purging, EvidenceInv, LibraryInv
<1>5. /\ left \in [Ids -> RowStates]
      /\ \A i \in Ids : left[i] = IF i = j THEN "absent" ELSE handler[k].noted[i]
  BY <1>4 DEF RowStates
<1>6. \A i \in Ids : /\ i = j \/ handler[k].noted[i] = "trashed" => Threatens(k, i)
                     /\ i = j \/ handler[k].noted[i] # "absent" => Mentions(k, i)
  BY <1>4 DEF Threatens, Mentions
<1> HIDE DEF j, left
<1>7. LibraryInv'
  BY <1>1, <1>2, <1>3, <1>5, <1>6 DEF GoesOnWith, EvidenceInv, LibraryInv
<1>8. \A i \in Ids : Safe(i) => ~Threatens(k, i)
  BY DEF Safe
<1>9. \A i \in Holds : i \in Listed \cup erased => i \in (Listed \cup erased)'
  BY <1>1 DEF Listed
<1>10. \A i \in Ids : Safe(i) /\ (Hidden(i) \/ i \in Holds) =>
         /\ i \in bytes' /\ library'[i] # "trashed" /\ ~Threatens(k, i)'
         /\ Hidden(i) => library'[i] = "absent" /\ (Purging(k)' => Idle.noted[i] = "absent")
  BY <1>1, <1>3, <1>4, <1>5, <1>6, <1>8 DEF Safe, Hidden
<1> QED
  BY <1>1, <1>7, <1>9, <1>10, HandlerLeavesFiles

LEMMA PurgeEndsEvidence ==
  ASSUME Inv, EvidenceInv, NEW k \in Handlers, PurgeRefused(k) \/ PurgeListFails(k)
  PROVE  LeavesFiles /\ LibraryInv'
<1>1. /\ handler' = [handler EXCEPT ![k] = Idle] /\ UNCHANGED <<library, given, erased>>
      /\ bytes \subseteq bytes'
  BY DEF PurgeRefused, PurgeListFails, Done
<1>2. GoesOnWith(k, Idle)
  BY <1>1, HandlerStep
<1>3. /\ \A i \in Ids : ~Threatens(k, i)' /\ ~Mentions(k, i)'
      /\ ~Purging(k)'
  BY <1>2 DEF GoesOnWith, Threatens, Mentions, Purging, Doing
<1>4. LibraryInv'
  BY <1>1, <1>2, <1>3 DEF GoesOnWith, EvidenceInv, LibraryInv
<1> QED
  BY <1>1, <1>3, <1>4, HandlerLeavesFiles DEF Safe, Hidden, Listed

LEMMA LibraryEvidence ==
  ASSUME Inv, EvidenceInv, LibraryNext(Holds), doc' = doc
  PROVE  EvidenceInv'
<1>1. LeavesFiles /\ LibraryInv'
  BY TrashEvidence, UploadEvidence, UploadEndsEvidence, SweepEvidence, SweepDeleteEvidence,
     PurgeEvidence, PurgeDeleteEvidence, PurgeListEvidence, PurgeEndsEvidence DEF LibraryNext
<1> QED
  BY <1>1, LibrarySpares, EvidenceKept DEF Spared

(* A handler that gives up a decision deletes the file nothing points to. *)
LEMMA DecideGivenUpEvidence ==
  ASSUME Inv, EvidenceInv, NEW k \in Handlers, DecideGivenUp(k)
  PROVE  EvidenceInv'
<1>1. PICK j \in Ids : j = handler[k].id
  BY DEF DecideGivenUp, Inv, NotedInv
<1>2. /\ handler' = [handler EXCEPT ![k] = Idle] /\ UNCHANGED <<library, given, erased, doc>>
      /\ Doing(k, "decide") /\ \A i \in bytes : i # j => i \in bytes'
  BY <1>1 DEF DecideGivenUp, Done, TryDelete
<1>3. GoesOnWith(k, Idle)
  BY <1>2, HandlerStep
<1>4. /\ \A i \in Ids : ~Threatens(k, i)' /\ ~Mentions(k, i)'
      /\ ~Purging(k)' /\ ~Doing(k, "decide")'
  BY <1>3 DEF GoesOnWith, Threatens, Mentions, Purging, Doing
<1>5. LibraryInv'
  BY <1>2, <1>3, <1>4 DEF GoesOnWith, EvidenceInv, LibraryInv
<1>6. \A i \in Ids : Safe(i) /\ i # j => Safe(i)'
  BY <1>2, <1>3, <1>4 DEF Safe, GoesOnWith
<1>7. \A i \in Ids : Hidden(i) => Hidden(i)'
  BY <1>2, <1>3, <1>4 DEF Hidden, GoesOnWith
<1>8. \A h \in Handlers : Doing(h, "decide")' => h # k /\ Doing(h, "decide") /\ handler'[h] = handler[h]
  BY <1>3, <1>4 DEF GoesOnWith, Doing
<1>9. WaitingInv'
  <2> SUFFICES ASSUME NEW h \in Handlers, Doing(h, "decide")'
               PROVE  /\ Safe(handler[h].id)' /\ Hidden(handler[h].id)' /\ Awaits(handler[h])'
                      /\ \A m \in Handlers \ {h} : Doing(m, "decide")' => handler'[m].id # handler'[h].id
                      /\ \A d \in Documents : Exists(d)' => doc'[d].evidence # handler'[h].id
    BY DEF WaitingInv
  <2>1. h # k /\ Doing(h, "decide") /\ handler'[h] = handler[h]
    BY <1>8
  <2>2. PICK i \in Ids : i = handler[h].id
    BY <2>1 DEF Inv, NotedInv
  <2>3. Safe(i) /\ Hidden(i) /\ Awaits(handler[h]) /\ i # j
    BY <1>1, <1>2, <2>1, <2>2 DEF EvidenceInv, WaitingInv
  <2>4. Safe(handler[h].id)' /\ Hidden(handler[h].id)'
    BY <1>6, <1>7, <2>1, <2>2, <2>3 DEF Safe, Hidden
  <2>5. Awaits(handler[h])'
    BY <2>1, <2>3 DEF Awaits, Decided, Pressed, StepApproved
  <2> QED
    BY <1>2, <1>8, <2>1, <2>4, <2>5 DEF EvidenceInv, WaitingInv, Exists
<1>10. FilesInv'
  <2>1. ASSUME NEW d \in Documents, Exists(d), doc[d].evidence # Nobody PROVE Safe(doc[d].evidence)'
    <3>1. PICK i \in Ids : i = doc[d].evidence
      BY <2>1 DEF Inv, RowInv, Rows
    <3>2. Safe(i) /\ i # j
      BY <1>1, <1>2, <2>1, <3>1 DEF EvidenceInv, WaitingInv, FilesInv
    <3> QED
      BY <1>2, <1>6, <3>1, <3>2 DEF Safe
  <2> QED
    BY <1>2, <2>1 DEF EvidenceInv, FilesInv, Exists, Listed
<1> QED
  BY <1>5, <1>9, <1>10 DEF EvidenceInv

(* The documents.  A row without an evidence, whose files are there. *)
FileRow(d, row) ==
    /\ row.evidence = Nobody /\ (d \in WithEvidence => row.status # "approved")
    /\ row.status \in {"draft", "running", "approved"} => row.linked \subseteq Listed \cup erased

LEMMA SameLibrary ==
  ASSUME UNCHANGED libraryVars
  PROVE  /\ \A i : (Safe(i)' <=> Safe(i)) /\ (Hidden(i)' <=> Hidden(i))
         /\ LibraryInv' <=> LibraryInv
         /\ (Listed \cup erased)' = Listed \cup erased
         /\ \A h : Doing(h, "decide")' <=> Doing(h, "decide")
<1>1. UNCHANGED <<library, bytes, given, handler, erased>>
  BY DEF libraryVars
<1>2. \A h, i : (Threatens(h, i)' <=> Threatens(h, i)) /\ (Mentions(h, i)' <=> Mentions(h, i)) /\ (Purging(h)' <=> Purging(h))
  BY <1>1 DEF Threatens, Mentions, Purging, Doing
<1>3. \A i : (Safe(i)' <=> Safe(i)) /\ (Hidden(i)' <=> Hidden(i))
  BY <1>1, <1>2 DEF Safe, Hidden
<1>4. LibraryInv' <=> LibraryInv
  BY <1>1, <1>2 DEF LibraryInv
<1> QED
  BY <1>1, <1>3, <1>4 DEF Listed, Doing

LEMMA SameAwaits ==
  ASSUME NEW h, handler'[h] = handler[h]
  PROVE  Awaits(handler[h])' <=> Awaits(handler[h])
  BY DEF Awaits, Decided, Pressed, StepApproved

LEMMA DocumentWrite ==
  ASSUME Inv, EvidenceInv, NEW d \in Documents, NEW row, row = Absent \/ FileRow(d, row),
         doc' = [doc EXCEPT ![d] = row], UNCHANGED libraryVars
  PROVE  EvidenceInv'
<1>1. handler' = handler /\ \A e \in Documents : doc'[e] = IF e = d THEN row ELSE doc[e]
  BY DEF libraryVars, Inv
<1>2. WaitingInv'
  <2> SUFFICES ASSUME NEW h \in Handlers, Doing(h, "decide")'
               PROVE  /\ Safe(handler[h].id)' /\ Hidden(handler[h].id)' /\ Awaits(handler[h])'
                      /\ \A m \in Handlers \ {h} : Doing(m, "decide")' => handler'[m].id # handler'[h].id
                      /\ \A e \in Documents : Exists(e)' => doc'[e].evidence # handler'[h].id
    BY DEF WaitingInv
  <2>1. Doing(h, "decide") /\ handler[h].id \in Ids
    BY SameLibrary DEF Inv, NotedInv
  <2>2. Safe(handler[h].id)' /\ Hidden(handler[h].id)'
    BY <1>1, <2>1, SameLibrary DEF EvidenceInv, WaitingInv, Safe, Hidden
  <2>3. Awaits(handler[h])'
    BY <1>1, <2>1, SameAwaits DEF EvidenceInv, WaitingInv
  <2>4. \A e \in Documents : Exists(e)' => doc'[e].evidence # handler'[h].id
    BY <1>1, <2>1 DEF EvidenceInv, WaitingInv, Exists, FileRow
  <2> QED
    BY <1>1, <2>1, <2>2, <2>3, <2>4, SameLibrary DEF EvidenceInv, WaitingInv
<1>3. FilesInv'
  <2> SUFFICES ASSUME NEW e \in Documents, Exists(e)'
               PROVE  /\ doc'[e].evidence # Nobody =>
                           /\ Safe(doc[e].evidence)' /\ doc'[e].status = "approved"
                           /\ doc'[e].evidence \in (Listed \cup erased)'
                      /\ e \in WithEvidence /\ doc'[e].status = "approved" => doc'[e].evidence # Nobody
                      /\ doc'[e].status \in {"draft", "running", "approved"} => doc'[e].linked \subseteq (Listed \cup erased)'
    BY DEF FilesInv
  <2>1. CASE e = d
    BY <1>1, <2>1, SameLibrary DEF Exists, FileRow
  <2>2. CASE e # d
    <3>1. doc'[e] = doc[e] /\ Exists(e)
      BY <1>1, <2>2 DEF Exists
    <3>2. Safe(doc[e].evidence) => Safe(doc[e].evidence)'
      BY <3>1, SameLibrary DEF Safe
    <3> QED
      BY <3>1, <3>2, SameLibrary DEF EvidenceInv, FilesInv
  <2> QED
    BY <2>1, <2>2
<1> QED
  BY <1>2, <1>3, SameLibrary DEF EvidenceInv

LEMMA DecidedFiles ==
  ASSUME NEW row \in Rows, NEW p, NEW a, NEW verdict \in {"approved", "rejected"}
  PROVE  /\ Decided(row, p, a, verdict).linked = row.linked
         /\ Decided(row, p, a, verdict).evidence = row.evidence
<1> DEFINE next == Pressed(row, p, a, verdict)
<1>1. /\ next.linked = row.linked /\ next.evidence = row.evidence
      /\ next = [next EXCEPT !.step = @]
      /\ DOMAIN next = DOMAIN row
  BY DEF Pressed, Rows
<1>2. \A s : /\ [next EXCEPT !.status = s].linked = row.linked
             /\ [next EXCEPT !.status = s].evidence = row.evidence
             /\ [next EXCEPT !.step = s].linked = row.linked
             /\ [next EXCEPT !.step = s].evidence = row.evidence
  BY <1>1 DEF Pressed, Rows
<1> QED
  BY <1>1, <1>2 DEF Decided

(* The file of a decision that waits is new, and nothing knows its id. *)
LEMMA DecideWithFileEvidence ==
  ASSUME Inv, EvidenceInv, NEW k \in Handlers, NEW d \in Documents, NEW p \in People, NEW a \in People,
         NEW j \in Ids, DecideWithFile(k, d, p, a, j)
  PROVE  EvidenceInv'
<1>1. PICK r : r = [op |-> "decide", doc |-> d, noted |-> doc[d], by |-> p, seat |-> a, id |-> j]
  OBVIOUS
<1>2. /\ handler' = [handler EXCEPT ![k] = r] /\ UNCHANGED <<library, erased, doc>>
      /\ j \notin given /\ given' = given \cup {j} /\ bytes' = bytes \cup {j}
  BY <1>1 DEF DecideWithFile, Put, Wait
<1>3. GoesOnWith(k, r)
  BY <1>2, HandlerStep
<1>4. /\ \A i \in Ids : ~Threatens(k, i)' /\ (Mentions(k, i)' => i = j)
      /\ ~Purging(k)'
  BY <1>1, <1>3 DEF GoesOnWith, Threatens, Mentions, Purging, Doing
<1>5. LibraryInv'
  BY <1>2, <1>3, <1>4 DEF GoesOnWith, EvidenceInv, LibraryInv
<1>6. \A i \in Ids : /\ Safe(i) => Safe(i)' /\ i # j
                     /\ Hidden(i) => Hidden(i)'
  BY <1>2, <1>3, <1>4 DEF Safe, Hidden, GoesOnWith
<1>7. Safe(j)' /\ Hidden(j)'
  <2>1. library[j] = "absent" /\ \A h \in Handlers : ~Mentions(h, j)
    BY <1>2 DEF EvidenceInv, LibraryInv
  <2>2. \A h \in Handlers : ~Threatens(h, j)
    BY <2>1 DEF Threatens, Mentions
  <2>3. \A h \in Handlers : Purging(h) => handler[h].noted[j] = "absent"
    BY <2>1 DEF Mentions
  <2> QED
    BY <1>2, <1>3, <1>4, <2>1, <2>2, <2>3 DEF Safe, Hidden, GoesOnWith
<1>8. Awaits(r)
  <2>1. Exists(d) /\ NeedsEvidence(d, Decided(doc[d], p, a, "approved"))
    BY DEF DecideWithFile
  <2>2. doc[d] \in Rows
    BY <2>1 DEF Inv, RowInv
  <2>3. /\ r.noted = doc[d] /\ r.by = p /\ r.seat = a
        /\ Decided(doc[d], p, a, "approved").evidence = doc[d].evidence
    BY <1>1, <2>2, DecidedFiles
  <2> QED
    BY <2>1, <2>3 DEF NeedsEvidence, Awaits
<1>9. WaitingInv'
  <2> SUFFICES ASSUME NEW h \in Handlers, Doing(h, "decide")'
               PROVE  /\ Safe(handler[h].id)' /\ Hidden(handler[h].id)' /\ Awaits(handler[h])'
                      /\ \A m \in Handlers \ {h} : Doing(m, "decide")' => handler'[m].id # handler'[h].id
                      /\ \A e \in Documents : Exists(e)' => doc'[e].evidence # handler'[h].id
    BY DEF WaitingInv
  <2>1. \A m \in Handlers \ {k} : Doing(m, "decide")' =>
          /\ Doing(m, "decide") /\ handler'[m] = handler[m] /\ handler[m].id \in Ids
          /\ Safe(handler[m].id) /\ Hidden(handler[m].id) /\ handler[m].id # j
    BY <1>3, <1>6 DEF GoesOnWith, Doing, EvidenceInv, WaitingInv, Inv, NotedInv
  <2>2. \A e \in Documents : Exists(e) => doc[e].evidence # j
    BY <1>6, NobodyAssumption DEF EvidenceInv, FilesInv, Inv, RowInv, Rows
  <2>3. handler'[k].id = j /\ handler'[k] = r
    BY <1>1, <1>3 DEF GoesOnWith
  <2>4. CASE h = k
    <3>1. Safe(handler[h].id)' /\ Hidden(handler[h].id)'
      BY <1>7, <2>3, <2>4 DEF Safe, Hidden
    <3>2. Awaits(handler[h])'
      BY <1>8, <2>3, <2>4 DEF Awaits, Decided, Pressed, StepApproved
    <3> QED
      BY <1>2, <2>1, <2>2, <2>3, <2>4, <3>1, <3>2 DEF Exists
  <2>5. CASE h # k
    <3>1. PICK i \in Ids : i = handler[h].id
      BY <2>1, <2>5
    <3>2. Safe(i)' /\ Hidden(i)' /\ handler'[h].id = i /\ i # j
      BY <1>6, <2>1, <2>5, <3>1
    <3>3. Safe(handler[h].id)' /\ Hidden(handler[h].id)'
      BY <3>2 DEF Safe, Hidden
    <3>4. Awaits(handler[h])'
      BY <2>1, <2>5, SameAwaits DEF EvidenceInv, WaitingInv
    <3> QED
      BY <1>2, <2>1, <2>3, <2>5, <3>2, <3>3, <3>4 DEF Exists, EvidenceInv, WaitingInv
  <2> QED
    BY <2>4, <2>5
<1>10. FilesInv'
  <2>1. ASSUME NEW e \in Documents, Exists(e), doc[e].evidence # Nobody PROVE Safe(doc[e].evidence)'
    <3>1. PICK i \in Ids : i = doc[e].evidence
      BY <2>1 DEF Inv, RowInv, Rows
    <3>2. Safe(i)'
      BY <1>6, <2>1, <3>1 DEF EvidenceInv, FilesInv
    <3> QED
      BY <1>2, <3>1, <3>2 DEF Safe
  <2> QED
    BY <1>2, <2>1 DEF EvidenceInv, FilesInv, Exists, Listed
<1> QED
  BY <1>5, <1>9, <1>10 DEF EvidenceInv

(* The decision and its evidence, in one step. *)
LEMMA DecideCommittedEvidence ==
  ASSUME Inv, EvidenceInv, NEW k \in Handlers, DecideCommitted(k)
  PROVE  EvidenceInv'
<1>1. PICK r : r = handler[k]
  OBVIOUS
<1>2. PICK row : row = [Decided(r.noted, r.by, r.seat, "approved") EXCEPT !.evidence = r.id]
  OBVIOUS
<1>3. /\ handler' = [handler EXCEPT ![k] = Idle] /\ UNCHANGED <<bytes, given, erased>>
      /\ Doing(k, "decide") /\ doc[r.doc] = r.noted
      /\ doc' = [doc EXCEPT ![r.doc] = row]
      /\ library' = [library EXCEPT ![r.id] = "listed"]
  BY <1>1, <1>2 DEF DecideCommitted, Write, Done, StillAsNoted
<1>4. /\ r.doc \in Documents /\ r.id \in Ids /\ Exists(r.doc) /\ RowInv(r.noted)
      /\ r.noted.status = "running" /\ Ready(r.noted, r.by, r.seat) /\ r.by \in People
      /\ Safe(r.id) /\ Hidden(r.id) /\ Awaits(r)
  <2>1. NotedInv(r)
    BY <1>1, <1>3 DEF Inv
  <2>2. Absent.status = "absent"
    BY DEF Absent
  <2>3. r.noted.status = "running"
    BY <2>1 DEF NotedInv, Ready
  <2>4. Exists(r.doc) /\ RowInv(r.noted)
    BY <1>3, <2>1, <2>2, <2>3 DEF NotedInv, Inv, Exists
  <2>5. Safe(r.id) /\ Hidden(r.id) /\ Awaits(r)
    BY <1>1, <1>3 DEF EvidenceInv, WaitingInv
  <2> QED
    BY <2>1, <2>3, <2>4, <2>5 DEF NotedInv
<1>5. row.evidence = r.id /\ row.linked = r.noted.linked /\ row.status = "approved"
  <2>1. Decided(r.noted, r.by, r.seat, "approved") \in Rows
    BY <1>4, DecidedKeeps DEF RowInv
  <2>2. Decided(r.noted, r.by, r.seat, "approved").linked = r.noted.linked
    BY <1>4, DecidedFiles DEF RowInv
  <2> QED
    BY <1>2, <1>4, <2>1, <2>2 DEF Awaits, Rows
<1>6. GoesOnWith(k, Idle)
  BY <1>3, HandlerStep
<1>7. /\ \A i \in Ids : ~Threatens(k, i)' /\ ~Mentions(k, i)'
      /\ ~Purging(k)' /\ ~Doing(k, "decide")'
  BY <1>6 DEF GoesOnWith, Threatens, Mentions, Purging, Doing
<1>8. /\ library' \in [Ids -> RowStates]
      /\ \A i \in Ids : library'[i] = IF i = r.id THEN "listed" ELSE library[i]
  BY <1>3, <1>4 DEF EvidenceInv, LibraryInv, RowStates
<1>9. LibraryInv'
  BY <1>3, <1>4, <1>6, <1>7, <1>8 DEF GoesOnWith, EvidenceInv, LibraryInv, Safe
<1>10. \A i \in Ids : /\ Safe(i) => Safe(i)'
                      /\ Hidden(i) /\ i # r.id => Hidden(i)'
                      /\ i \in Listed \cup erased => i \in (Listed \cup erased)'
  BY <1>3, <1>6, <1>7, <1>8 DEF Safe, Hidden, GoesOnWith, Listed
<1>11. \A h \in Handlers : Doing(h, "decide")' =>
        /\ h # k /\ Doing(h, "decide") /\ handler'[h] = handler[h] /\ handler[h].id \in Ids
        /\ Safe(handler[h].id) /\ Hidden(handler[h].id) /\ handler[h].id # r.id
  BY <1>1, <1>3, <1>6, <1>7 DEF GoesOnWith, Doing, EvidenceInv, WaitingInv, Inv, NotedInv
<1>12. \A e \in Documents : doc'[e] = IF e = r.doc THEN row ELSE doc[e]
  BY <1>3 DEF Inv
<1>13. WaitingInv'
  <2> SUFFICES ASSUME NEW h \in Handlers, Doing(h, "decide")'
               PROVE  /\ Safe(handler[h].id)' /\ Hidden(handler[h].id)' /\ Awaits(handler[h])'
                      /\ \A m \in Handlers \ {h} : Doing(m, "decide")' => handler'[m].id # handler'[h].id
                      /\ \A e \in Documents : Exists(e)' => doc'[e].evidence # handler'[h].id
    BY DEF WaitingInv
  <2>1. PICK i \in Ids : i = handler[h].id
    BY <1>11
  <2>2. Safe(i)' /\ Hidden(i)' /\ handler'[h].id = i /\ i # r.id
    BY <1>10, <1>11, <2>1
  <2>3. Safe(handler[h].id)' /\ Hidden(handler[h].id)'
    BY <2>2 DEF Safe, Hidden
  <2>4. Awaits(handler[h])'
    BY <1>11, SameAwaits DEF EvidenceInv, WaitingInv
  <2>5. \A e \in Documents : Exists(e)' => doc'[e].evidence # handler'[h].id
    BY <1>5, <1>11, <1>12, <2>2 DEF Exists, EvidenceInv, WaitingInv
  <2> QED
    BY <1>11, <2>3, <2>4, <2>5 DEF EvidenceInv, WaitingInv
<1>14. FilesInv'
  <2> SUFFICES ASSUME NEW e \in Documents, Exists(e)'
               PROVE  /\ doc'[e].evidence # Nobody =>
                           /\ Safe(doc[e].evidence)' /\ doc'[e].status = "approved"
                           /\ doc'[e].evidence \in (Listed \cup erased)'
                      /\ e \in WithEvidence /\ doc'[e].status = "approved" => doc'[e].evidence # Nobody
                      /\ doc'[e].status \in {"draft", "running", "approved"} => doc'[e].linked \subseteq (Listed \cup erased)'
    BY DEF FilesInv
  <2>1. CASE e = r.doc
    <3>1. doc'[e] = row
      BY <1>12, <2>1
    <3>2. Safe(doc[e].evidence)'
      BY <1>4, <1>5, <1>10, <3>1 DEF Safe
    <3>3. row.evidence \in (Listed \cup erased)'
      BY <1>4, <1>5, <1>8 DEF Listed
    <3>4. r.noted.linked \subseteq Ids /\ r.noted.linked \subseteq Listed \cup erased
      BY <1>3, <1>4 DEF EvidenceInv, FilesInv, RowInv, Rows
    <3>5. r.noted.linked \subseteq (Listed \cup erased)'
      BY <1>10, <3>4
    <3>6. row.evidence # Nobody
      BY <1>4, <1>5
    <3> QED
      BY <1>5, <3>1, <3>2, <3>3, <3>5, <3>6
  <2>2. CASE e # r.doc
    <3>1. doc'[e] = doc[e] /\ Exists(e) /\ doc[e] \in Rows
      BY <1>12, <2>2 DEF Exists, Inv, RowInv
    <3>2. ASSUME doc[e].evidence # Nobody
          PROVE  Safe(doc[e].evidence)' /\ doc[e].evidence \in (Listed \cup erased)'
      <4>1. PICK i \in Ids : i = doc[e].evidence
        BY <3>1, <3>2 DEF Rows
      <4>2. Safe(i)' /\ i \in (Listed \cup erased)'
        BY <1>10, <3>1, <3>2, <4>1 DEF EvidenceInv, FilesInv
      <4> QED
        BY <3>1, <4>1, <4>2 DEF Safe
    <3>3. doc[e].linked \subseteq Listed \cup erased => doc[e].linked \subseteq (Listed \cup erased)'
      BY <1>10, <3>1 DEF Rows
    <3> QED
      BY <3>1, <3>2, <3>3 DEF EvidenceInv, FilesInv
  <2> QED
    BY <2>1, <2>2
<1> QED
  BY <1>9, <1>13, <1>14 DEF EvidenceInv

LEMMA DocumentEvidence ==
  ASSUME Inv, EvidenceInv, NEW d \in Documents, DocumentNext(d)
  PROVE  EvidenceInv'
<1>1. ASSUME NEW p \in Drafters, NEW line \in Lines, NEW linked \in SUBSET Present,
             NEW submit \in BOOLEAN, Create(d, p, line, linked, submit)
      PROVE  EvidenceInv'
  <2> DEFINE row == Row(IF submit THEN "running" ELSE "draft", p, line, linked)
  <2>1. FileRow(d, row)
    BY <1>1 DEF Create, Row, FileRow
  <2> QED
    BY <1>1, <2>1, DocumentWrite DEF Create, Write
<1>2. ASSUME NEW line \in Lines, NEW linked \in SUBSET Present, Patch(d, line, linked)
      PROVE  EvidenceInv'
  <2> DEFINE row == [doc[d] EXCEPT !.line = line, !.linked = linked]
  <2>1. Exists(d) /\ doc[d].status = "draft" /\ doc[d] \in Rows /\ linked \subseteq Listed
    BY <1>2 DEF Patch, Inv, RowInv, Is
  <2>2. doc[d].evidence = Nobody
    BY <2>1 DEF EvidenceInv, FilesInv
  <2>3. FileRow(d, row)
    BY <2>1, <2>2 DEF FileRow, Rows
  <2> QED
    BY <1>2, <2>3, DocumentWrite DEF Patch, Write
<1>3. ASSUME Delete(d) PROVE EvidenceInv'
  BY <1>3, DocumentWrite DEF Delete, Write
<1>4. ASSUME NEW status \in {"running", "recalled"}, Exists(d), doc[d].status \in {"draft", "running"},
             Write(d, [doc[d] EXCEPT !.status = status]), UNCHANGED libraryVars
      PROVE  EvidenceInv'
  <2> DEFINE row == [doc[d] EXCEPT !.status = status]
  <2>1. doc[d] \in Rows /\ doc[d].evidence = Nobody /\ doc[d].linked \subseteq Listed \cup erased
    BY <1>4 DEF Inv, RowInv, EvidenceInv, FilesInv
  <2>2. FileRow(d, row)
    BY <2>1 DEF FileRow, Rows
  <2> QED
    BY <1>4, <2>2, DocumentWrite DEF Write
<1>5. ASSUME NEW p \in People, NEW a \in People, NEW verdict \in {"approved", "rejected"},
             Decide(d, p, a, verdict)
      PROVE  EvidenceInv'
  <2> DEFINE row == Decided(doc[d], p, a, verdict)
  <2>1. Exists(d) /\ doc[d].status = "running" /\ doc[d] \in Rows /\ ~NeedsEvidence(d, row)
    BY <1>5 DEF Decide, MayPress, Inv, RowInv
  <2>2. doc[d].evidence = Nobody /\ doc[d].linked \subseteq Listed \cup erased
    BY <2>1 DEF EvidenceInv, FilesInv
  <2>3. row.evidence = Nobody /\ row.linked = doc[d].linked
    BY <2>1, <2>2, DecidedFiles
  <2>4. FileRow(d, row)
    BY <2>1, <2>2, <2>3 DEF FileRow, NeedsEvidence
  <2> QED
    BY <1>5, <2>4, DocumentWrite DEF Decide, Write
<1>6. ASSUME Submit(d) \/ Recall(d) PROVE EvidenceInv'
  BY <1>4, <1>6 DEF Submit, Recall, Is
<1> QED
  BY <1>1, <1>2, <1>3, <1>5, <1>6, DecideWithFileEvidence DEF DocumentNext

(* What waited in memory is gone: its bytes may be left over. *)
LEMMA RestartEvidence ==
  ASSUME Inv, EvidenceInv, Restart
  PROVE  EvidenceInv'
<1>1. \A h \in Handlers : handler'[h] = Idle
  BY DEF Restart
<1>2. UNCHANGED <<library, bytes, given, erased, doc>>
  BY DEF Restart
<1>3. \A h \in Handlers : ~Purging(h)' /\ ~Doing(h, "decide")' /\ \A i : ~Threatens(h, i)' /\ ~Mentions(h, i)'
  BY <1>1 DEF Purging, Doing, Threatens, Mentions
<1>4. LibraryInv' /\ WaitingInv'
  BY <1>2, <1>3 DEF EvidenceInv, LibraryInv, WaitingInv
<1>5. \A d \in Documents : Safe(doc[d].evidence) => Safe(doc[d].evidence)'
  BY <1>2, <1>3 DEF Safe
<1>6. FilesInv'
  BY <1>2, <1>5 DEF EvidenceInv, FilesInv, Exists, Listed
<1> QED
  BY <1>4, <1>6 DEF EvidenceInv

LEMMA NothingMoves ==
  ASSUME EvidenceInv, doc' = doc, UNCHANGED libraryVars
  PROVE  EvidenceInv'
<1>1. handler' = handler
  BY DEF libraryVars
<1>2. \A h \in Handlers : (Awaits(handler[h])' <=> Awaits(handler[h]))
  BY <1>1, SameAwaits
<1>3. WaitingInv'
  <2>1. \A h \in Handlers : /\ Safe(handler[h].id) => Safe(handler[h].id)'
                            /\ Hidden(handler[h].id) => Hidden(handler[h].id)'
    BY <1>1, SameLibrary DEF Safe, Hidden
  <2> QED
    BY <1>1, <1>2, <2>1, SameLibrary DEF EvidenceInv, WaitingInv, Exists
<1>4. FilesInv'
  <2>1. \A d \in Documents : Safe(doc[d].evidence) => Safe(doc[d].evidence)'
    BY SameLibrary DEF Safe
  <2> QED
    BY <2>1, SameLibrary DEF EvidenceInv, FilesInv, Exists
<1> QED
  BY <1>3, <1>4, SameLibrary DEF EvidenceInv

LEMMA NextEvidence == Inv /\ EvidenceInv /\ [Next]_vars => EvidenceInv'
<1> SUFFICES ASSUME Inv, EvidenceInv, [Next]_vars PROVE EvidenceInv'
  OBVIOUS
<1>1. ASSUME NEW a, NEW p, StandIn(a, p) \/ StandInEnds(p) \/ Deactivate(p) \/ Reactivate(p) PROVE EvidenceInv'
  BY <1>1, NothingMoves DEF StandIn, StandInEnds, Deactivate, Reactivate
<1>2. CASE UNCHANGED vars
  BY <1>2, NothingMoves DEF vars, libraryVars
<1> QED
  BY <1>1, <1>2, LibraryEvidence, DocumentEvidence, DecideCommittedEvidence, DecideGivenUpEvidence,
     RestartEvidence DEF Next

LEMMA InitEvidence == ApprovalInit => EvidenceInv
<1> SUFFICES ASSUME ApprovalInit PROVE EvidenceInv
  OBVIOUS
<1>1. \A h \in Handlers : handler[h] = Idle
  BY DEF ApprovalInit, LibraryInit
<1>2. \A h \in Handlers : ~Purging(h) /\ ~Doing(h, "decide") /\ \A i : ~Mentions(h, i)
  BY <1>1 DEF Purging, Doing, Mentions
<1>3. LibraryInv
  BY <1>2, PresentAssumption DEF ApprovalInit, LibraryInit, LibraryInv, RowStates
<1>4. WaitingInv /\ FilesInv
  BY <1>2 DEF ApprovalInit, WaitingInv, FilesInv, Exists
<1> QED
  BY <1>3, <1>4 DEF EvidenceInv

(* Whatever waits for the storage while a document is approved, in whatever *)
(* order it ends and whatever fails: the evidence of an approved document   *)
(* has its bytes and its row, and what the document points to is listed,    *)
(* unless a purge wrote an older list over the row.                         *)
THEOREM EvidenceAlwaysStands == Spec => []EvidenceStands
<1>1. ApprovalInit => Inv /\ EvidenceInv
  BY InitIsSound, InitEvidence
<1>2. Inv /\ EvidenceInv /\ [Next]_vars => (Inv /\ EvidenceInv)'
  BY NextKeeps, NextEvidence
<1>3. Inv /\ EvidenceInv => EvidenceStands
  BY DEF EvidenceInv, FilesInv, Safe, EvidenceStands, Is
<1> QED
  BY <1>1, <1>2, <1>3, PTL DEF Spec
=============================================================================
