---------------------------- MODULE UsageLedger ----------------------------
(***************************************************************************)
(* The ledger of AI usage (billing-service.mjs) of one customer in one     *)
(* month, the requests that call the model (app.mjs, meeting-notes.mjs,    *)
(* performance-routes.mjs, review-materials.mjs) and the hourly job that   *)
(* books what they could not (index.mjs).  A request reserves points,      *)
(* calls the model, books what was used and, if that fails, notes it for   *)
(* the job.  Each of these is one serializable transaction of Postgres.    *)
(* A transaction may be refused by the service, may fail, or may be        *)
(* committed without the caller hearing of it.                             *)
(***************************************************************************)
EXTENDS Integers, FiniteSets, FiniteSetsExt

CONSTANTS
  Call,         \* calls of the model, one request each
  NoCall,       \* no call
  Limit,        \* points of the plan, whose limitAction is "block"
  Estimates,    \* points a call may be estimated to cost
  Amounts       \* points it may turn out to have cost

ASSUME UsageLedgerAssumption ==
  /\ IsFiniteSet(Call) /\ NoCall \notin Call
  /\ Limit \in Nat /\ Estimates \subseteq Nat /\ Amounts \subseteq Nat

VARIABLES
  phase,        \* how far the request has come, or the accounting it answered
  used,         \* what the model says the call has cost
  reservation,  \* billing_usage_reservations
  expired,      \* reservations whose expiresAt has passed
  events,       \* billing_usage_events: the calls that are booked
  queue,        \* billing_reconciliation_queue: the state of each call's row
  turn,         \* the job: the rows it has listed and the one it is at
  late,         \* history: calls whose reservation lapsed before it was kept
  outage        \* history: calls whose note was lost to the storage

ledger == <<reservation, expired, events, queue>>
vars == <<phase, used, ledger, turn, late, outage>>

Waiting == {"calling", "recording", "queueing", "releasing"}
Answers ==
  {"refused", "failed", "recorded", "not-recorded",
   "reconciliation-pending", "reconciliation-unavailable"}
Phases == {"idle", "gone"} \cup Waiting \cup Answers

Reservations ==
  [status : {"none", "pending", "committed", "released"},
   estimated : Nat, reconciliationPending : BOOLEAN]
NoReservation ==
  [status |-> "none", estimated |-> 0, reconciliationPending |-> FALSE]

NoTurn == [listed |-> {}, at |-> NoCall, booked |-> FALSE]

TypeOK ==
  /\ phase \in [Call -> Phases]
  /\ used \in [Call -> Nat]
  /\ reservation \in [Call -> Reservations]
  /\ expired \subseteq Call
  /\ events \subseteq Call
  /\ queue \in [Call -> {"none", "pending", "resolved"}]
  /\ turn \in [listed : SUBSET Call, at : Call \cup {NoCall}, booked : BOOLEAN]
  /\ late \subseteq Call
  /\ outage \subseteq Call

Init ==
  /\ phase = [c \in Call |-> "idle"]
  /\ used = [c \in Call |-> 0]
  /\ reservation = [c \in Call |-> NoReservation]
  /\ expired = {}
  /\ events = {}
  /\ queue = [c \in Call |-> "none"]
  /\ turn = NoTurn
  /\ late = {}
  /\ outage = {}

Goes(c, to) == phase' = [phase EXCEPT ![c] = to]

-----------------------------------------------------------------------------
(* The transactions of the service: what one does if it is committed.      *)

MutHolds(c) == reservation[c].status = "pending"
MutHoldsUnlessExpired(c) == MutHolds(c) /\ c \notin expired

(* listActiveUsageReservations *)
Holds(c) ==
  /\ reservation[c].status = "pending"
  /\ reservation[c].reconciliationPending \/ c \notin expired

Active == {c \in Call : Holds(c)}

Points(cost, calls) == MapThenSumSet(LAMBDA c : cost[c], calls)
Estimated == [c \in Call |-> reservation[c].estimated]
Booked == Points(used, events)
Held == Points(Estimated, Active)

(* A limit of 0 counts as used up to 100 percent, which is not over 100:   *)
(* everything fits.                                                        *)
Fits(points) == Limit = 0 \/ Booked + Held + points <= Limit

ReserveUsage(c, points) ==
  /\ Fits(points)
  /\ reservation' = [reservation EXCEPT
       ![c] = [NoReservation EXCEPT !.status = "pending", !.estimated = points]]
  /\ UNCHANGED <<expired, events, queue>>

ReleaseUsageReservation(c) ==
  /\ reservation' =
       IF reservation[c].status # "pending" \/ reservation[c].reconciliationPending
       THEN reservation
       ELSE [reservation EXCEPT ![c].status = "released"]
  /\ UNCHANGED <<expired, events, queue>>

MutRecordable(c) == reservation[c].status = "pending" /\ c \notin expired

Recordable(c) ==
  /\ reservation[c].status = "pending"
  /\ reservation[c].reconciliationPending \/ c \notin expired

MutRecordUsageEvent(c) ==
  /\ Recordable(c)
  /\ events' = events \cup {c}
  /\ reservation' = [reservation EXCEPT ![c].status = "committed"]
  /\ UNCHANGED <<expired, queue>>

(* The event of a call has an id of its own: booked twice, it is found.    *)
RecordUsageEvent(c) ==
  \/ c \in events /\ UNCHANGED ledger
  \/ /\ c \notin events /\ Recordable(c)
     /\ events' = events \cup {c}
     /\ reservation' = [reservation EXCEPT
          ![c].status = "committed", ![c].reconciliationPending = FALSE]
     /\ UNCHANGED <<expired, queue>>

MutQueueable(c) == reservation[c].status = "pending" /\ c \notin expired

Queueable(c) == reservation[c].status = "pending"

RecordReconciliationPending(c) ==
  /\ queue[c] = "none" /\ Queueable(c)
  /\ queue' = [queue EXCEPT ![c] = "pending"]
  /\ reservation' = [reservation EXCEPT ![c].reconciliationPending = TRUE]
  /\ UNCHANGED <<expired, events>>

-----------------------------------------------------------------------------
(* The request.                                                            *)

Reserve(c) ==
  /\ phase[c] = "idle"
  /\ \E points \in Estimates :
       /\ ReserveUsage(c, points)
       /\ \E to \in {"calling", "refused"} : Goes(c, to)
  /\ UNCHANGED <<used, turn, late, outage>>

(* The limit is exceeded, or the transaction fails. *)
ReserveRefused(c) ==
  /\ phase[c] = "idle" /\ Goes(c, "refused")
  /\ UNCHANGED <<used, ledger, turn, late, outage>>

ModelAnswers(c) ==
  /\ phase[c] = "calling" /\ Goes(c, "recording")
  /\ \E amount \in Amounts : used' = [used EXCEPT ![c] = amount]
  /\ UNCHANGED <<ledger, turn, late, outage>>

(* The call throws; or, for a chat and a draft of a journal, the answer    *)
(* has no text, which is thrown before providerSucceeded is set.           *)
ModelFails(c) ==
  /\ phase[c] = "calling" /\ Goes(c, "releasing")
  /\ UNCHANGED <<used, ledger, turn, late, outage>>

Release(c) ==
  /\ phase[c] = "releasing" /\ Goes(c, "failed")
  /\ ReleaseUsageReservation(c) \/ UNCHANGED ledger
  /\ UNCHANGED <<used, turn, late, outage>>

Record(c) ==
  /\ phase[c] = "recording"
  /\ RecordUsageEvent(c)
  /\ \E to \in {"recorded", "queueing", "not-recorded"} : Goes(c, to)
  /\ UNCHANGED <<used, turn, late, outage>>

(* Refused or failed.  The synthesis of a review (review-materials.mjs)    *)
(* notes nothing for the job.                                              *)
RecordFails(c) ==
  /\ phase[c] = "recording"
  /\ \E to \in {"queueing", "not-recorded"} : Goes(c, to)
  /\ UNCHANGED <<used, ledger, turn, late, outage>>

Queue(c) ==
  /\ phase[c] = "queueing"
  /\ RecordReconciliationPending(c)
  /\ \E to \in {"reconciliation-pending", "reconciliation-unavailable"} :
       Goes(c, to)
  /\ UNCHANGED <<used, turn, late, outage>>

QueueRefused(c) ==
  /\ phase[c] = "queueing" /\ ~Queueable(c)
  /\ Goes(c, "reconciliation-unavailable")
  /\ UNCHANGED <<used, ledger, turn, late, outage>>

QueueFails(c) ==
  /\ phase[c] = "queueing" /\ Goes(c, "reconciliation-unavailable")
  /\ outage' = outage \cup {c}
  /\ UNCHANGED <<used, ledger, turn, late>>

-----------------------------------------------------------------------------
(* The job: reconcilePendingUsageBatch.                                    *)

JobLists ==
  /\ turn = NoTurn
  /\ \E c \in Call : queue[c] = "pending"
  /\ turn' = [NoTurn EXCEPT !.listed = {c \in Call : queue[c] = "pending"}]
  /\ UNCHANGED <<phase, used, ledger, late, outage>>

JobTakes(c) ==
  /\ turn.at = NoCall /\ c \in turn.listed
  /\ turn' = [turn EXCEPT !.listed = @ \ {c}, !.at = c]
  /\ UNCHANGED <<phase, used, ledger, late, outage>>

JobRecords(c) ==
  /\ turn.at = c /\ ~turn.booked
  /\ RecordUsageEvent(c)
  /\ turn' = [turn EXCEPT !.booked = TRUE]
  /\ UNCHANGED <<phase, used, late, outage>>

JobResolves(c) ==
  /\ turn.at = c /\ turn.booked
  /\ queue' = [queue EXCEPT ![c] = "resolved"]
  /\ turn' = [turn EXCEPT !.at = NoCall, !.booked = FALSE]
  /\ UNCHANGED <<phase, used, reservation, expired, events, late, outage>>

(* An error, with the transaction rolled back or committed unheard: the    *)
(* attempt is counted and the next row is taken.                           *)
JobMoves(c) ==
  /\ turn.at = c
  /\ \/ UNCHANGED ledger
     \/ ~turn.booked /\ RecordUsageEvent(c)
  /\ turn' = [turn EXCEPT !.at = NoCall, !.booked = FALSE]
  /\ UNCHANGED <<phase, used, late, outage>>

-----------------------------------------------------------------------------
(* Time and the process.                                                   *)

Expire(c) ==
  /\ reservation[c].status = "pending" /\ c \notin expired
  /\ expired' = expired \cup {c}
  /\ late' = IF reservation[c].reconciliationPending THEN late ELSE late \cup {c}
  /\ UNCHANGED <<phase, used, reservation, events, queue, turn, outage>>

Crash ==
  /\ phase' = [c \in Call |-> IF phase[c] \in Waiting THEN "gone" ELSE phase[c]]
  /\ turn' = NoTurn
  /\ UNCHANGED <<used, ledger, late, outage>>

RequestNext(c) ==
  \/ Reserve(c) \/ ReserveRefused(c)
  \/ ModelAnswers(c) \/ ModelFails(c) \/ Release(c)
  \/ Record(c) \/ RecordFails(c)
  \/ Queue(c) \/ QueueRefused(c) \/ QueueFails(c)

JobNext(c) == JobTakes(c) \/ JobRecords(c) \/ JobResolves(c) \/ JobMoves(c)

Next ==
  \/ \E c \in Call : RequestNext(c) \/ JobNext(c) \/ Expire(c)
  \/ JobLists
  \/ Crash

Spec == Init /\ [][Next]_vars

(* Time passes; the scheduler starts the job again and again; no outage    *)
(* and no series of crashes meets every attempt at a row.                  *)
FairSpec ==
  /\ Spec
  /\ WF_vars(JobLists)
  /\ \A c \in Call :
       /\ WF_vars(Expire(c))
       /\ SF_vars(JobTakes(c)) /\ SF_vars(JobRecords(c)) /\ SF_vars(JobResolves(c))

-----------------------------------------------------------------------------
(* The three tables tell one story about each call: what is booked is      *)
(* committed, what is resolved is booked, and a reservation is kept beyond *)
(* its time exactly as long as a row waits to be booked.                   *)
OneStory ==
  \A c \in Call :
    /\ c \in events <=> reservation[c].status = "committed"
    /\ queue[c] = "resolved" => c \in events
    /\ reservation[c].reconciliationPending <=> queue[c] = "pending" /\ c \notin events
    /\ reservation[c].reconciliationPending => reservation[c].status = "pending"

(* The accounting a user is told is the truth.  Of the calls that were to  *)
(* be noted for the job, only those are missing whose note met an outage:  *)
(* a reservation that has run out turns none of them away.                 *)
AccountingIsTrue ==
  \A c \in Call :
    /\ phase[c] = "recorded" => c \in events
    /\ phase[c] = "reconciliation-pending" => queue[c] # "none"
    /\ phase[c] = "reconciliation-unavailable" =>
         c \in events \/ queue[c] # "none" \/ c \in outage

(* What is not held to the limit: a call that outlived its reservation,    *)
(* and what a booked call cost beyond its estimate.                        *)
Excess ==
  [c \in Call |->
     IF c \in late THEN IF c \in events THEN used[c] ELSE Estimated[c]
     ELSE IF c \in events /\ used[c] > Estimated[c] THEN used[c] - Estimated[c]
     ELSE 0]

(* With limitAction "block" the points booked and held exceed the limit by *)
(* that and nothing else, whatever requests and the job do to each other.  *)
WithinLimit == Booked + Held <= Limit + Points(Excess, events \cup Active)
LimitHolds == Limit > 0 => WithinLimit

-----------------------------------------------------------------------------
(* The inductive invariant. *)

(* What a request knows of its reservation at each of its waits. *)
RequestInv ==
  \A c \in Call :
    /\ phase[c] = "idle" =>
         reservation[c] = NoReservation /\ c \notin events /\ queue[c] = "none"
    /\ phase[c] \in {"calling", "recording", "queueing"} =>
         reservation[c].status \in {"pending", "committed"}

(* The job is only at rows that exist, and at a booked call after booking. *)
JobInv ==
  /\ \A c \in turn.listed : queue[c] # "none"
  /\ turn.at # NoCall => queue[turn.at] # "none"
  /\ turn.booked => turn.at \in events

IInv == TypeOK /\ OneStory /\ AccountingIsTrue /\ RequestInv /\ JobInv

-----------------------------------------------------------------------------
(* What is noted is booked in the end, once the storage is back. *)
NotedIsBooked ==
  \A c \in Call : queue[c] = "pending" ~> (queue[c] = "resolved" /\ c \in events)

(* No reservation holds points for ever, whatever became of its request. *)
HoldsEnd == \A c \in Call : <>[]~Holds(c)

=============================================================================
