-------------------------- MODULE WebhookDispatch --------------------------
(***************************************************************************)
(* The outbound webhooks of one customer (webhook-dispatch.mjs,            *)
(* webhook-routes.mjs): rows are queued with the change they tell of, a    *)
(* drain reads what is due, sends for as long as it takes, and then writes *)
(* what came of it over the lists as they are by then.  One drain runs at  *)
(* a time; whoever asks meanwhile has it run once more.  The lists are     *)
(* committed by the JSON adapter, in one step; a row whose own commit      *)
(* fails, or comes later, is in memory only until some commit takes it.    *)
(*                                                                         *)
(* A row is numbered by the time it was asked for, so that the stored      *)
(* order (newest first) and the sending order (oldest first) are orders of *)
(* the numbers.  Signatures, addresses, payloads and the channels of the   *)
(* notifications are left out; the time until the next attempt is over at  *)
(* some moment (BackOffEnds).                                              *)
(***************************************************************************)
EXTENDS Naturals, FiniteSets

CONSTANTS
    Endpoints,
    MaxRows,         \* MAX_DELIVERIES_PER_TENANT
    MaxAttempts,     \* the attempt after which a row is given up
    StopAfter,       \* DISABLE_AFTER_FAILURES
    Limit,           \* the rows one pass sends at most
    MaxPasses,       \* the passes of one drain
    LastRow,         \* bound: the number of rows that are queued
    Disturbances,    \* bound: what people and faults do besides
    None

ASSUME WebhookAssumption ==
    /\ {MaxRows, MaxAttempts, StopAfter, Limit, MaxPasses} \subseteq Nat \ {0}
    /\ LastRow \in Nat /\ Disturbances \in Nat

Rows == 1..LastRow
Deliveries == [to : Endpoints, status : {"pending", "failed", "gave-up", "delivered"},
               attempts : Nat, waits : BOOLEAN]
Passes == [todo : SUBSET Rows, noted : [Rows -> Deliveries \cup {None}],
           result : [Rows -> Deliveries \cup {None}],
           failures : [Endpoints -> Nat], tried : SUBSET Endpoints]

ASSUME NoneAssumption == None \notin Deliveries /\ None \notin Passes

VARIABLES
    row,       \* the rows in memory
    saved,     \* the rows as they were last committed
    endpoint,  \* the stored endpoints
    drain,     \* the pass that is under way, or None
    asked,     \* somebody asked for a drain (or for one more pass)
    passes,    \* the passes the drain has made
    queued,    \* the rows that were queued so far
    disturbed, \* bound: the disturbances so far
    received,  \* history: how often the other side received the row
    doubtful,  \* history: rows whose outcome was not noted, or not learned
    streak,    \* history: failures in a row since the endpoint was switched on
    unsettled  \* history: endpoints of which the stored failures may be too many:
               \* switched on while a pass sent, or a pass was not noted

stored == <<row, saved, endpoint>>
history == <<received, doubtful, streak, unsettled>>
vars == <<row, saved, endpoint, drain, asked, passes, queued, disturbed, received, doubtful, streak, unsettled>>

Open == {"pending", "failed"}
Kept == {r \in Rows : row[r] # None}
OpenRows(rows) == {r \in Rows : rows[r] # None /\ rows[r].status \in Open}
Live(e) == endpoint[e].there /\ endpoint[e].on

Newest(S, n) == {r \in S : Cardinality({s \in S : s > r}) < n}
Oldest(S, n) == {r \in S : Cardinality({s \in S : s < r}) < n}

(* capDeliveries: what is closed goes first; beyond that, what is open. *)
Capped(rows) ==
    LET all == {r \in Rows : rows[r] # None}
        open == OpenRows(rows)
        room == IF Cardinality(open) > MaxRows THEN 0 ELSE MaxRows - Cardinality(open)
        keep == Newest(open, MaxRows) \cup Newest(all \ open, room)
    IN [r \in Rows |-> IF r \in keep THEN rows[r] ELSE None]

(* applyOutcome *)
Outcome(old, result) ==
    LET attempts == old.attempts + 1
        status == IF result = "failed" /\ attempts >= MaxAttempts THEN "gave-up" ELSE result
    IN [to |-> old.to, status |-> status, attempts |-> attempts, waits |-> status = "failed"]

Due == {r \in Kept : row[r].status \in Open /\ ~row[r].waits /\ Live(row[r].to)}

Disturb == disturbed < Disturbances /\ disturbed' = disturbed + 1

----------------------------------------------------------------------------
Init ==
    /\ row = [r \in Rows |-> None] /\ saved = row
    /\ endpoint = [e \in Endpoints |-> [there |-> TRUE, on |-> TRUE, stopped |-> FALSE, failures |-> 0]]
    /\ drain = None /\ asked = FALSE /\ passes = 0 /\ queued = 0 /\ disturbed = 0
    /\ received = [r \in Rows |-> 0] /\ doubtful = {} /\ unsettled = {}
    /\ streak = [e \in Endpoints |-> 0]

(* queueWebhookDeliveries: the record with one row more. *)
Added(e) == Capped([row EXCEPT ![queued + 1] =
                      [to |-> e, status |-> "pending", attempts |-> 0, waits |-> FALSE]])

(* The row, the commit it rides on, and the kick. *)
Queue(e) ==
    /\ Live(e) /\ queued < LastRow
    /\ queued' = queued + 1
    /\ row' = Added(e) /\ saved' = row'
    /\ asked' = TRUE
    /\ UNCHANGED <<endpoint, drain, passes, disturbed, history>>

(* The row of an announcement whose commit fails stays in memory, without a *)
(* kick; that of an alert is kicked, and its commit left to the timer.      *)
QueueUnsaved(e) ==
    /\ Live(e) /\ queued < LastRow /\ Disturb
    /\ queued' = queued + 1
    /\ row' = Added(e)
    /\ asked' \in {asked, TRUE}
    /\ UNCHANGED <<saved, endpoint, drain, passes, history>>

(* Some other commit, which writes the whole record. *)
Saves ==
    /\ saved # row /\ saved' = row
    /\ UNCHANGED <<row, endpoint, drain, asked, passes, queued, disturbed, history>>

(* Mutant: the sweep looks for new rows only. *)
MutSweep ==
    /\ ~asked /\ \E r \in Due : row[r].status = "pending"
    /\ asked' = TRUE
    /\ UNCHANGED <<stored, drain, passes, queued, disturbed, history>>

(* The hourly sweep. *)
Sweep ==
    /\ ~asked /\ Due # {}
    /\ asked' = TRUE
    /\ UNCHANGED <<stored, drain, passes, queued, disturbed, history>>

(* The row r with another status, ready to be sent. *)
As(r, status, attempts) == [to |-> row[r].to, status |-> status, attempts |-> attempts, waits |-> FALSE]

BackOffEnds(r) ==
    /\ r \in Kept /\ row[r].waits
    /\ row' = [row EXCEPT ![r] = As(r, row[r].status, row[r].attempts)]
    /\ saved' = [saved EXCEPT ![r] = IF @ = None THEN None ELSE row'[r]]
    /\ UNCHANGED <<endpoint, drain, asked, passes, queued, disturbed, history>>

(* runDrain, up to the first send. *)
Begin ==
    /\ drain = None /\ asked
    /\ asked' = FALSE
    /\ drain' = [todo |-> Oldest(Due, Limit), noted |-> row, result |-> [r \in Rows |-> None],
                 failures |-> [e \in Endpoints |-> endpoint[e].failures], tried |-> {}]
    /\ UNCHANGED <<stored, passes, queued, disturbed, history>>

(* The oldest row is sent.  Of a failure one does not know whether the      *)
(* other side took it (a timeout, a 5xx); a refusal (3xx, 4xx) it did not.  *)
Send(r, result, arrived) ==
    /\ drain # None /\ r \in drain.todo /\ \A s \in drain.todo : r <= s
    /\ result # "failed" => (arrived <=> result = "delivered")
    /\ LET e == drain.noted[r].to
       IN /\ drain' = [todo |-> drain.todo \ {r}, noted |-> drain.noted,
                        result |-> [drain.result EXCEPT ![r] = Outcome(drain.noted[r], result)],
                        failures |-> [drain.failures EXCEPT ![e] = IF result = "delivered" THEN 0 ELSE @ + 1],
                        tried |-> drain.tried \cup {e}]
          /\ streak' = [streak EXCEPT ![e] =
                IF result = "delivered" THEN 0 ELSE IF @ < StopAfter THEN @ + 1 ELSE @]
    /\ received' = [received EXCEPT ![r] = IF arrived /\ @ < 2 THEN @ + 1 ELSE @]
    /\ doubtful' = IF arrived /\ result # "delivered" THEN doubtful \cup {r} ELSE doubtful
    /\ UNCHANGED <<stored, asked, passes, queued, disturbed, unsettled>>

(* The pass is over: another one if somebody asked. *)
EndPass ==
    /\ drain' = None
    /\ IF asked /\ passes + 1 < MaxPasses
       THEN passes' = passes + 1 /\ asked' = asked
       ELSE passes' = 0 /\ asked' = FALSE

(* Mutants: a row that changed meanwhile is left alone; the list that was   *)
(* read is written.                                                         *)
MutOverlay == [r \in Rows |-> IF row[r] = drain.noted[r] /\ drain.result[r] # None THEN drain.result[r] ELSE row[r]]
MutOverlayOld == [r \in Rows |-> IF drain.result[r] # None THEN drain.result[r] ELSE drain.noted[r]]

(* The outcomes are laid over the rows as they are now, the counters over  *)
(* the endpoints as they are now.                                          *)
Overlay == [r \in Rows |-> IF row[r] # None /\ drain.result[r] # None THEN drain.result[r] ELSE row[r]]

Counted(e) ==
    LET n == drain.failures[e] IN
    IF e \notin drain.tried THEN endpoint[e]
    ELSE IF n >= StopAfter /\ endpoint[e].on
         THEN [endpoint[e] EXCEPT !.failures = n, !.on = FALSE, !.stopped = TRUE]
         ELSE [endpoint[e] EXCEPT !.failures = n]

Write ==
    /\ drain # None /\ drain.todo = {}
    /\ row' = Overlay
    /\ saved' = IF \A r \in Rows : drain.result[r] = None THEN saved ELSE row'
    /\ endpoint' = [e \in Endpoints |-> Counted(e)]
    /\ EndPass
    /\ UNCHANGED <<queued, disturbed, received, doubtful, streak, unsettled>>

NotNoted == {r \in Rows : drain.result[r] # None /\ drain.result[r].status = "delivered"}

ForgetPass ==
    /\ doubtful' = doubtful \cup NotNoted
    /\ unsettled' = unsettled \cup drain.tried

(* The commit fails: the lists are put back, and nothing was learned. *)
WriteFails ==
    /\ drain # None /\ drain.todo = {} /\ Disturb
    /\ ForgetPass
    /\ EndPass
    /\ UNCHANGED <<stored, queued, received, streak>>

(* The server stops and starts: what was asked for is forgotten as well,    *)
(* and what was in memory only.                                             *)
Restart ==
    /\ drain # None \/ asked \/ saved # row
    /\ Disturb
    /\ IF drain = None THEN UNCHANGED <<doubtful, unsettled>> ELSE ForgetPass
    /\ drain' = None /\ asked' = FALSE /\ passes' = 0
    /\ row' = saved
    /\ UNCHANGED <<saved, endpoint, queued, received, streak>>

----------------------------------------------------------------------------
(* POST /api/webhooks/deliveries/:id/retry *)
Retry(r) ==
    /\ r \in Kept /\ row[r].status # "delivered" /\ Live(row[r].to) /\ Disturb
    /\ row' = [row EXCEPT ![r] = As(r, "pending", 0)] /\ saved' = row'
    /\ asked' = TRUE
    /\ UNCHANGED <<endpoint, drain, passes, queued, history>>

(* Mutant: switching on does not clear the failures. *)
MutSwitchOn(e) ==
    /\ endpoint[e].there /\ Disturb
    /\ endpoint' = [endpoint EXCEPT ![e] =
                      [there |-> TRUE, on |-> TRUE, stopped |-> FALSE, failures |-> endpoint[e].failures]]
    /\ streak' = [streak EXCEPT ![e] = 0]
    /\ unsettled' = IF drain # None THEN unsettled \cup {e} ELSE unsettled \ {e}
    /\ saved' = row
    /\ UNCHANGED <<row, drain, asked, passes, queued, received, doubtful>>

(* PATCH /api/webhooks/:id *)
SwitchOn(e) ==
    /\ endpoint[e].there /\ Disturb
    /\ endpoint' = [endpoint EXCEPT ![e] = [there |-> TRUE, on |-> TRUE, stopped |-> FALSE, failures |-> 0]]
    /\ streak' = [streak EXCEPT ![e] = 0]
    /\ unsettled' = IF drain # None THEN unsettled \cup {e} ELSE unsettled \ {e}
    /\ saved' = row
    /\ UNCHANGED <<row, drain, asked, passes, queued, received, doubtful>>

SwitchOff(e) ==
    /\ Live(e) /\ Disturb
    /\ endpoint' = [endpoint EXCEPT ![e] =
                      [there |-> TRUE, on |-> FALSE, stopped |-> FALSE, failures |-> endpoint[e].failures]]
    /\ saved' = row
    /\ UNCHANGED <<row, drain, asked, passes, queued, history>>

(* DELETE /api/webhooks/:id *)
Remove(e) ==
    /\ endpoint[e].there /\ Disturb
    /\ endpoint' = [endpoint EXCEPT ![e] = [there |-> FALSE, on |-> FALSE, stopped |-> FALSE, failures |-> 0]]
    /\ row' = [r \in Rows |-> IF r \in OpenRows(row) /\ row[r].to = e
                              THEN As(r, "gave-up", row[r].attempts) ELSE row[r]]
    /\ saved' = row'
    /\ UNCHANGED <<drain, asked, passes, queued, history>>

Drain ==
    \/ Begin \/ Write
    \/ \E r \in Rows, result \in {"delivered", "failed", "gave-up"}, arrived \in BOOLEAN :
          Send(r, result, arrived)

Next ==
    \/ \E e \in Endpoints : Queue(e) \/ QueueUnsaved(e) \/ SwitchOn(e) \/ SwitchOff(e) \/ Remove(e)
    \/ \E r \in Rows : BackOffEnds(r) \/ Retry(r)
    \/ Saves \/ Sweep \/ Drain \/ WriteFails \/ Restart

(* The process goes on, its requests are answered or time out, the clock   *)
(* goes on, and the scheduler sweeps every hour.                           *)
Spec == /\ Init /\ [][Next]_vars
        /\ WF_vars(Drain) /\ WF_vars(Sweep) /\ \A r \in Rows : WF_vars(BackOffEnds(r))

----------------------------------------------------------------------------
(* Deliveries and endpoints keep to their types, whatever a drain writes     *)
(* over them.                                                               *)
WebhookTypeOK ==
    /\ row \in [Rows -> Deliveries \cup {None}]
    /\ drain \in Passes \cup {None}
    /\ \A r \in Kept : row[r].attempts <= MaxAttempts /\ (row[r].waits => row[r].status = "failed")
    /\ Cardinality(Kept) <= MaxRows
    /\ \A e \in Endpoints : endpoint[e].stopped => ~endpoint[e].on

(* An event reaches the other side twice only if the first time was not     *)
(* learned, or learned and not noted: at least once, and not more often     *)
(* than a sender can know.                                                  *)
TwiceOnlyInDoubt == \A r \in Rows : received[r] > 1 => r \in doubtful

(* An endpoint is stopped by itself only after StopAfter failures in a row  *)
(* since it was switched on - unless that was while a pass sent to it.      *)
StopIsEarned == \A e \in Endpoints : endpoint[e].stopped => streak[e] >= StopAfter \/ e \in unsettled

(* The same without the exception (webhook-routes.mjs:992: switching on     *)
(* clears the failures, else the next failure would switch it off again).   *)
SwitchingOnClears == \A e \in Endpoints : endpoint[e].stopped => streak[e] >= StopAfter

(* A removed endpoint leaves no open row (webhook-routes.mjs:1009: all that *)
(* is not closed is closed, else it would stay for ever).                   *)
RemovedIsClosed == \A r \in OpenRows(row) : endpoint[row[r].to].there

(* No step forgets an event that is still to be told, except for the cap   *)
(* and, when the server stops, for a row no commit has taken along yet; and *)
(* what was delivered is never opened again.                                *)
NothingForgotten == [][
    /\ \A r \in OpenRows(row) : row'[r] = None =>
          Cardinality(OpenRows(row')) = MaxRows \/ (saved[r] = None /\ row' = saved)
    /\ \A r \in Kept : row[r].status = "delivered" /\ row'[r] # None => row'[r] = row[r]]_vars

(* Every event is told or given up, as long as its endpoint is there and on *)
(* (or is dropped by the cap): none stays open because a pass had already   *)
(* read the list when it came, because its own commit or a pass's failed or *)
(* because the server stopped.                                              *)
EveryEventEnds == \A r \in Rows :
    (row[r] # None /\ row[r].status \in Open) ~>
    (row[r] = None \/ row[r].status \notin Open \/ ~Live(row[r].to))
=============================================================================
