----------------------------- MODULE Approvals -----------------------------
(***************************************************************************)
(* Approval documents (approval-routing.mjs, approval-forms.mjs): a draft  *)
(* is sent along a line of steps, each with the seats of its approvers;    *)
(* each approver, or who stands in for them, approves or rejects; the last *)
(* approval of a document with an evidence form writes a file into the     *)
(* library, in the middle of the handler.                                  *)
(*                                                                         *)
(* A seat is named by the approver it belongs to: an approver appears once *)
(* in a line.  Titles, values, amounts, copies, the history's texts and    *)
(* the notices are left out, and so is the version number: every write     *)
(* raises it, so that "the version is the one that was read" is "the row   *)
(* is the one that was read".                                              *)
(***************************************************************************)
EXTENDS DocumentLibrary, Sequences, Functions

CONSTANTS
    People,        \* the members of the company
    Documents,     \* the approval documents
    WithEvidence,  \* the documents whose form has an evidence category
    Lines,         \* the approval lines that are asked for
    Drafters,      \* bound: the people who draft
    Leavers,       \* bound: the people whose account may be closed and opened
    StandIns,      \* bound: <<a, p>> where p may be asked to stand in for a
    Nobody

ASSUME LinesAssumption == Lines \subseteq Seq(SUBSET People)
ASSUME LeaversAssumption == Leavers \subseteq People
ASSUME NobodyAssumption == Nobody \notin People /\ Nobody \notin Ids

VARIABLES
    doc,        \* the row of each document
    standsFor,  \* standsFor[a]: who stands in for a today, or Nobody
    active      \* the people whose account is active

vars == <<library, bytes, given, handler, erased, doc, standsFor, active>>

Absent == [status |-> "absent"]
Approvers(line) == UNION Range(line)

(* normalizeApprovalLine: no step without approvers, nobody twice, not the *)
(* drafter, and only people who have an active account.                    *)
SoundLine(line, drafter) ==
    /\ \A s \in DOMAIN line : line[s] # {} /\ line[s] \subseteq active \ {drafter}
    /\ \A s, t \in DOMAIN line : s # t => line[s] \cap line[t] = {}

Verdicts == {"pending", "approved", "rejected"}
FreshSeats == [verdict |-> [a \in People |-> "pending"], by |-> [a \in People |-> Nobody]]

Row(status, drafter, line, linked) ==
    [status |-> status, drafter |-> drafter, line |-> line, step |-> 1,
     seats |-> FreshSeats, linked |-> linked, evidence |-> Nobody]

Exists(d) == doc[d] # Absent
Is(d, status) == doc[d].status = status
Pending(row, a) == row.seats.verdict[a] = "pending"
Waiting(row) == {a \in row.line[row.step] : Pending(row, a)}

(* Mutant: only the seat with the name of p. *)
MutHeld(row, p) == {a \in Approvers(row.line) : a = p}

(* The seats of p: the one with their name and the ones they pressed. *)
Held(row, p) == {a \in Approvers(row.line) : a = p \/ row.seats.by[a] = p}

StepApproved(row, s) == \A a \in row.line[s] : row.seats.verdict[a] = "approved"

(* Mutant: a person of the line may press for somebody else first. *)
MutMayPress(row, p, a) ==
    /\ row.status = "running" /\ p # row.drafter /\ a \in Waiting(row)
    /\ \A b \in Held(row, p) : Pending(row, b)
    /\ a = p \/ standsFor[a] = p

(* approvalSeatFor: may p press the seat of a? *)
MayPress(row, p, a) ==
    /\ row.status = "running"
    /\ \A s \in 1..(row.step - 1) : StepApproved(row, s)
    /\ p # row.drafter
    /\ \A b \in Held(row, p) : Pending(row, b)
    /\ a \in Waiting(row)
    /\ a = p \/ (Held(row, p) = {} /\ standsFor[a] = p)

(* applyApprovalDecision *)
Pressed(row, p, a, verdict) ==
    [row EXCEPT !.seats.verdict[a] = verdict, !.seats.by[a] = p]

Decided(row, p, a, verdict) ==
    LET next == Pressed(row, p, a, verdict)
        last == row.step = Len(row.line)
    IN CASE verdict = "rejected" -> [next EXCEPT !.status = "rejected"]
         [] verdict = "approved" /\ ~StepApproved(next, row.step) -> next
         [] verdict = "approved" /\ StepApproved(next, row.step) /\ last ->
              [next EXCEPT !.status = "approved"]
         [] OTHER -> [next EXCEPT !.step = @ + 1]

(* Mutant: the evidence itself is not counted. *)
MutHolds == UNION {doc[d].linked : d \in {e \in Documents : Exists(e) /\ ~(doc[e].status \in {"rejected", "recalled"})}}

(* documentReferenceHold: what the documents that are drafts, running or   *)
(* approved point to.                                                      *)
Holds == UNION {doc[d].linked \cup {doc[d].evidence} :
            d \in {e \in Documents : Exists(e) /\ doc[e].status \in {"draft", "running", "approved"}}}

Write(d, row) ==
    /\ doc' = [doc EXCEPT ![d] = row]
    /\ UNCHANGED <<standsFor, active>>

----------------------------------------------------------------------------
ApprovalInit ==
    /\ LibraryInit
    /\ doc = [d \in Documents |-> Absent]
    /\ standsFor = [p \in People |-> Nobody]
    /\ active = People

Create(d, p, line, linked, submit) ==
    /\ ~Exists(d) /\ p \in active
    /\ SoundLine(line, p)
    /\ submit => line # << >>
    /\ linked \subseteq Listed
    /\ Write(d, Row(IF submit THEN "running" ELSE "draft", p, line, linked))
    /\ UNCHANGED libraryVars

Patch(d, line, linked) ==
    /\ Exists(d) /\ Is(d, "draft") /\ doc[d].drafter \in active
    /\ \/ line = doc[d].line
       \/ SoundLine(line, doc[d].drafter)
    /\ linked \subseteq Listed
    /\ Write(d, [doc[d] EXCEPT !.line = line, !.linked = linked])
    /\ UNCHANGED libraryVars

Delete(d) ==
    /\ Exists(d) /\ Is(d, "draft")
    /\ Write(d, Absent)
    /\ UNCHANGED libraryVars

(* The line is judged once more: someone may have left meanwhile. *)
Submit(d) ==
    /\ Exists(d) /\ Is(d, "draft") /\ doc[d].drafter \in active
    /\ doc[d].line # << >> /\ SoundLine(doc[d].line, doc[d].drafter)
    /\ Write(d, [doc[d] EXCEPT !.status = "running"])
    /\ UNCHANGED libraryVars

Recall(d) ==
    /\ Exists(d) /\ Is(d, "running") /\ doc[d].drafter \in active
    /\ \A a \in Approvers(doc[d].line) : Pending(doc[d], a)
    /\ Write(d, [doc[d] EXCEPT !.status = "recalled"])
    /\ UNCHANGED libraryVars

NeedsEvidence(d, row) == row.status = "approved" /\ d \in WithEvidence /\ row.evidence = Nobody

Decide(d, p, a, verdict) ==
    /\ Exists(d) /\ p \in active /\ MayPress(doc[d], p, a)
    /\ ~NeedsEvidence(d, Decided(doc[d], p, a, verdict))
    /\ Write(d, Decided(doc[d], p, a, verdict))
    /\ UNCHANGED libraryVars

(* The last approval of a document with an evidence form: the handler      *)
(* notes the row, and waits for the file to be written.  An application    *)
(* made without a file storage would approve at once and note in the       *)
(* history that there is no evidence; the servers of this repository have  *)
(* one (server/index.mjs:47, worker/index.mjs:580).                        *)
DecideWithFile(h, d, p, a, i) ==
    /\ Exists(d) /\ p \in active /\ MayPress(doc[d], p, a)
    /\ NeedsEvidence(d, Decided(doc[d], p, a, "approved"))
    /\ Put(i)
    /\ Wait(h, [op |-> "decide", doc |-> d, noted |-> doc[d], by |-> p, seat |-> a, id |-> i])
    /\ UNCHANGED <<library, erased, doc, standsFor, active>>

(* Mutant: the row is not compared. *)
MutStillAsNoted(h) == Exists(handler[h].doc)

StillAsNoted(h) == doc[handler[h].doc] = handler[h].noted

(* Both lists are read again, and committed together. *)
DecideCommitted(h) ==
    /\ Doing(h, "decide") /\ StillAsNoted(h)
    /\ LET r == handler[h] IN
        /\ Write(r.doc, [Decided(r.noted, r.by, r.seat, "approved") EXCEPT !.evidence = r.id])
        /\ library' = [library EXCEPT ![r.id] = "listed"]
    /\ Done(h)
    /\ UNCHANGED <<bytes, given, erased>>

(* A conflict, or a commit that fails: the file is deleted if possible. *)
DecideGivenUp(h) ==
    /\ Doing(h, "decide")
    /\ TryDelete(handler[h].id)
    /\ Done(h)
    /\ UNCHANGED <<library, given, erased, doc, standsFor, active>>

----------------------------------------------------------------------------
(* normalizeDelegate: nobody stands in for someone who stands in for       *)
(* another.  Only the rows whose period contains today are kept here: a    *)
(* row begins or ends with its owner's or an administrator's request, or   *)
(* with a day; two rows that are both in force today overlap today.        *)
StandIn(a, p) ==
    /\ a \in active /\ p \in active \ {a}
    /\ standsFor[p] = Nobody
    /\ \A b \in People \ {a} : standsFor[b] # a
    /\ standsFor' = [standsFor EXCEPT ![a] = p]
    /\ UNCHANGED <<doc, active, libraryVars>>

StandInEnds(a) ==
    /\ standsFor[a] # Nobody
    /\ standsFor' = [standsFor EXCEPT ![a] = Nobody]
    /\ UNCHANGED <<doc, active, libraryVars>>

Deactivate(p) ==
    /\ p \in active
    /\ active' = active \ {p}
    /\ UNCHANGED <<doc, standsFor, libraryVars>>

Reactivate(p) ==
    /\ p \notin active
    /\ active' = active \cup {p}
    /\ UNCHANGED <<doc, standsFor, libraryVars>>

Restart ==
    /\ \E h \in Handlers : ~Free(h)
    /\ handler' = [h \in Handlers |-> Idle]
    /\ UNCHANGED <<library, bytes, given, erased, doc, standsFor, active>>

DocumentNext(d) ==
    \/ \E p \in Drafters, line \in Lines, linked \in SUBSET Present, submit \in BOOLEAN :
        Create(d, p, line, linked, submit)
    \/ \E line \in Lines, linked \in SUBSET Present : Patch(d, line, linked)
    \/ Delete(d) \/ Submit(d) \/ Recall(d)
    \/ \E p, a \in People :
        \/ \E verdict \in {"approved", "rejected"} : Decide(d, p, a, verdict)
        \/ \E h \in Handlers, i \in Ids : DecideWithFile(h, d, p, a, i)

Next ==
    \/ LibraryNext(Holds) /\ UNCHANGED <<doc, standsFor, active>>
    \/ \E d \in Documents : DocumentNext(d)
    \/ \E h \in Handlers : DecideCommitted(h) \/ DecideGivenUp(h)
    \/ \E pair \in StandIns : StandIn(pair[1], pair[2])
    \/ \E p \in People : StandInEnds(p)
    \/ \E p \in Leavers : Deactivate(p) \/ Reactivate(p)
    \/ Restart

Spec == ApprovalInit /\ [][Next]_vars

----------------------------------------------------------------------------
(* A line is one that was asked for, a seat is pressed by a person of the   *)
(* company or by nobody, a document that was sent is at a step of its line, *)
(* and a handler that waits for evidence has noted a running row.           *)
ApprovalTypeOK ==
    /\ library \in [Ids -> RowStates] /\ bytes \subseteq given /\ given \subseteq Ids
    /\ active \subseteq People /\ standsFor \in [People -> People \cup {Nobody}]
    /\ \A d \in Documents : Exists(d) =>
        /\ doc[d].drafter \in People /\ doc[d].line \in Lines
        /\ doc[d].seats.verdict \in [People -> Verdicts]
        /\ doc[d].seats.by \in [People -> People \cup {Nobody}]
        /\ doc[d].status # "draft" => doc[d].step \in DOMAIN doc[d].line
    /\ \A h \in Handlers : Doing(h, "decide") => handler[h].noted.status = "running"

(* Nobody decides on their own document and nobody fills two seats of one,  *)
(* whoever stands in for whom from day to day; an approved document has a   *)
(* press of its own in every seat.                                          *)
FourEyes == \A d \in Documents : Exists(d) =>
    LET row == doc[d]
        seats == Approvers(row.line)
    IN /\ \A a \in seats : row.seats.by[a] # row.drafter
       /\ \A a, b \in seats : a # b /\ row.seats.by[a] # Nobody => row.seats.by[a] # row.seats.by[b]
       /\ row.status = "approved" =>
            \A a \in seats : row.seats.verdict[a] = "approved" /\ row.seats.by[a] # Nobody

(* An approver whose turn it is can press their own seat: no press for      *)
(* somebody else has locked them out, and no step behind is open.           *)
OwnSeatIsOpen == \A d \in Documents : Exists(d) /\ Is(d, "running") =>
    /\ Waiting(doc[d]) # {}
    /\ \A a \in Waiting(doc[d]) : MayPress(doc[d], a, a)

(* What an approved document rests on is in the library: its evidence, with *)
(* the bytes, and the files it points to - unless a purge wrote an older    *)
(* list over them.                                                          *)
EvidenceStands == \A d \in Documents : Exists(d) =>
    /\ d \in WithEvidence /\ Is(d, "approved") =>
        doc[d].evidence \in bytes /\ doc[d].evidence \in Listed \cup erased
    /\ doc[d].status \in {"running", "approved"} => doc[d].linked \subseteq Listed \cup erased

(* The same without the exception, as DOCUMENT_HOLD_MESSAGE says it         *)
(* (app.mjs:2667): the file an approved document rests on is not deleted.   *)
EvidenceIsKept == \A d \in WithEvidence :
    Exists(d) /\ Is(d, "approved") => doc[d].evidence \in Listed

(* No step takes back a decision, sends a document back to an earlier step, *)
(* changes its line once it is sent, or touches a document that is closed.  *)
DecisionsStand == [][\A d \in Documents : Exists(d) /\ ~Is(d, "draft") =>
    /\ doc'[d] # Absent /\ doc'[d].status # "draft"
    /\ doc'[d].line = doc[d].line /\ doc'[d].step >= doc[d].step
    /\ \A a \in People : ~Pending(doc[d], a) =>
        /\ doc'[d].seats.verdict[a] = doc[d].seats.verdict[a]
        /\ doc'[d].seats.by[a] = doc[d].seats.by[a]
    /\ ~Is(d, "running") => doc'[d] = doc[d]]_vars
=============================================================================
