--------------------------- MODULE WebhookProofs ---------------------------
(***************************************************************************)
(* TwiceOnlyInDoubt, StopIsEarned, NothingForgotten and the types with the *)
(* cap, for any endpoints, any number of rows and any limits.              *)
(*                                                                         *)
(* What carries the first: a row that was received is in doubt, closed as  *)
(* delivered, or has the outcome "delivered" in the pass under way, and    *)
(* nothing opens a delivered row while a pass still has an older outcome   *)
(* for it. The second rests on the stored failures, and those the pass     *)
(* under way counts, being no more than there were since the endpoint was  *)
(* switched on. The cap rests on counting: what is above an element numbers*)
(* a finite set of numbers without gaps. And what is committed agrees with *)
(* the rows in memory, so that a restart brings back only what a step may  *)
(* bring back.                                                             *)
(***************************************************************************)
EXTENDS WebhookDispatch, FiniteSetTheorems, TLAPS

USE WebhookAssumption, NoneAssumption DEF Rows

Typed ==
    /\ row \in [Rows -> Deliveries \cup {None}]
    /\ drain \in Passes \cup {None}
    /\ received \in [Rows -> 0..2]
    /\ endpoint \in [Endpoints -> [there : BOOLEAN, on : BOOLEAN, stopped : BOOLEAN, failures : Nat]]
    /\ queued \in 0..LastRow

Delivered(x, r) == x[r] # None /\ x[r].status = "delivered"

(* Where a row that was received, beyond doubt, has gone. *)
Settled(r) ==
    \/ received[r] = 0 \/ r \in doubtful
    \/ row[r] = None \/ row[r].status = "delivered"
    \/ drain # None /\ Delivered(drain.result, r)

(* What the pass under way may rely on. *)
PassOK ==
    /\ \A r \in drain.todo : /\ drain.noted[r] # None /\ drain.result[r] = None
                             /\ received[r] = 0 \/ r \in doubtful
    /\ \A r \in Rows : r \in drain.todo \/ drain.result[r] # None
                       => r <= queued /\ ~Delivered(row, r)

Inv ==
    /\ Typed
    /\ \A r \in Rows : r > queued => received[r] = 0 /\ row[r] = None
    /\ \A r \in Rows : Settled(r) /\ (received[r] > 1 => r \in doubtful)
    /\ drain # None => PassOK

(* The shape of rows: only a failed one waits, and an open one has attempts *)
(* left.                                                                    *)
Shape(d) == /\ d.attempts <= MaxAttempts
            /\ d.status \in Open => d.attempts < MaxAttempts
            /\ d.waits => d.status = "failed"

Known(r) ==
    \/ received[r] = 0 \/ r \in doubtful
    \/ drain # None /\ Delivered(drain.result, r)

(* What the committed rows may rely on. *)
SavedOK ==
    /\ saved \in [Rows -> Deliveries \cup {None}]
    /\ \A r \in Rows : saved[r] # None =>
         /\ r <= queued /\ row[r] \in {None, saved[r]}
         /\ Known(r) \/ saved[r].status = "delivered"
         /\ Shape(saved[r])
    /\ Cardinality({r \in Rows : saved[r] # None}) <= MaxRows

----------------------------------------------------------------------------
(* The cap keeps a row as it is or drops it. *)
LEMMA CapDropsOrKeeps ==
  ASSUME NEW rows \in [Rows -> Deliveries \cup {None}]
  PROVE  /\ Capped(rows) \in [Rows -> Deliveries \cup {None}]
         /\ \A r \in Rows : Capped(rows)[r] \in {rows[r], None}
  BY DEF Capped

LEMMA OutcomeOfDelivery ==
  ASSUME NEW old \in Deliveries, NEW result \in {"delivered", "failed", "gave-up"}
  PROVE  /\ Outcome(old, result) \in Deliveries
         /\ result = "delivered" => Outcome(old, result).status = "delivered"
  BY DEF Outcome, Deliveries

LEMMA InitIsSound == Init => Inv
<1> SUFFICES ASSUME Init PROVE Inv
  OBVIOUS
<1>1. Typed
  <2>1. row \in [Rows -> Deliveries \cup {None}] /\ drain \in Passes \cup {None}
    BY DEF Init
  <2>2. received \in [Rows -> 0..2] /\ queued \in 0..LastRow
    BY DEF Init
  <2>3. endpoint \in [Endpoints -> [there : BOOLEAN, on : BOOLEAN, stopped : BOOLEAN, failures : Nat]]
    BY DEF Init
  <2> QED
    BY <2>1, <2>2, <2>3 DEF Typed
<1>2. \A r \in Rows : received[r] = 0 /\ row[r] = None
  BY DEF Init
<1> QED
  BY <1>1, <1>2 DEF Init, Inv, Settled

LEMMA QueueKeeps ==
  ASSUME Inv, NEW e \in Endpoints, Queue(e) \/ QueueUnsaved(e)
  PROVE  Inv'
<1> DEFINE new == [to |-> e, status |-> "pending", attempts |-> 0, waits |-> FALSE]
           rows == [row EXCEPT ![queued + 1] = new]
<1>0. queued < LastRow /\ queued + 1 \in Rows
  <2>1. queued < LastRow
    BY DEF Queue, QueueUnsaved
  <2> QED
    BY <2>1 DEF Inv, Typed
<1>1. new \in Deliveries /\ new.status = "pending"
  BY DEF Deliveries
<1>2. queued + 1 \in Rows /\ rows \in [Rows -> Deliveries \cup {None}]
  BY <1>0, <1>1 DEF Inv, Typed
<1>3. row' = Capped(rows)
  BY DEF Queue, QueueUnsaved, Added
<1>4. /\ row' \in [Rows -> Deliveries \cup {None}]
      /\ \A r \in Rows : row'[r] \in {rows[r], None}
  BY <1>2, <1>3, CapDropsOrKeeps
<1>5. /\ queued' = queued + 1 /\ drain' = drain /\ received' = received /\ doubtful' = doubtful
      /\ endpoint' = endpoint
  BY DEF Queue, QueueUnsaved, history
<1>6. Typed'
  BY <1>2, <1>4, <1>5 DEF Inv, Typed
<1>7. \A r \in Rows : r # queued + 1 => row'[r] \in {row[r], None}
  BY <1>4, <1>2 DEF Inv, Typed
<1>10. \A r \in Rows : r > queued' => row'[r] = None /\ received'[r] = 0
  BY <1>5, <1>7 DEF Inv, Typed
<1>8. \A r \in Rows : Settled(r)'
  BY <1>5, <1>7, <1>2 DEF Inv, Settled, Delivered, Typed
<1>9. drain # None => PassOK'
  <2> SUFFICES ASSUME drain # None PROVE PassOK'
    OBVIOUS
  <2>1. PassOK
    BY DEF Inv
  <2>2. \A r \in Rows : r \in drain.todo \/ drain.result[r] # None => r # queued + 1
    BY <2>1 DEF PassOK, Inv, Typed
  <2> QED
    BY <2>1, <2>2, <1>5, <1>7 DEF PassOK, Delivered, Inv, Typed
<1> QED
  BY <1>5, <1>6, <1>8, <1>9, <1>10 DEF Inv, Typed

LEMMA BeginKeeps == ASSUME Inv, Begin PROVE Inv'
<1>1. Oldest(Due, Limit) \subseteq Due /\ Due \subseteq Rows
  BY DEF Oldest, Due, Kept
<1>2. \A r \in Due : row[r] # None /\ row[r].status # "delivered"
  BY DEF Due, Kept, Open
<1>3. /\ drain' = [todo |-> Oldest(Due, Limit), noted |-> row, result |-> [r \in Rows |-> None],
                   failures |-> [e \in Endpoints |-> endpoint[e].failures], tried |-> {}]
      /\ drain = None /\ row' = row /\ endpoint' = endpoint /\ queued' = queued
      /\ received' = received /\ doubtful' = doubtful
  BY DEF Begin, stored, history
<1>4. drain' \in Passes
  BY <1>1, <1>3 DEF Passes, Inv, Typed
<1>5. \A r \in Due : received[r] = 0 \/ r \in doubtful
  BY <1>1, <1>2, <1>3 DEF Inv, Settled
<1>6. \A r \in Due : r <= queued
  BY <1>1, <1>2 DEF Inv, Typed
<1> QED
  BY <1>1, <1>2, <1>3, <1>4, <1>5, <1>6 DEF Inv, Typed, Settled, PassOK, Delivered

LEMMA SendKeeps ==
  ASSUME Inv, NEW r \in Rows, NEW result \in {"delivered", "failed", "gave-up"},
         NEW arrived \in BOOLEAN, Send(r, result, arrived)
  PROVE  Inv'
<1> DEFINE e == drain.noted[r].to
           out == Outcome(drain.noted[r], result)
<1>1. drain \in Passes /\ PassOK /\ r \in drain.todo /\ drain # None
  BY DEF Send, Inv, Typed
<1>2. drain.noted[r] \in Deliveries /\ e \in Endpoints
  BY <1>1 DEF PassOK, Passes, Deliveries
<1>3. out \in Deliveries /\ (result = "delivered" => out.status = "delivered")
  BY <1>2, OutcomeOfDelivery
<1>4. drain' = [todo |-> drain.todo \ {r}, noted |-> drain.noted,
                result |-> [drain.result EXCEPT ![r] = out],
                failures |-> [drain.failures EXCEPT ![e] = IF result = "delivered" THEN 0 ELSE drain.failures[e] + 1],
                tried |-> drain.tried \cup {e}]
  BY <1>1, <1>2 DEF Send, Passes
<1>5. /\ drain'.todo = drain.todo \ {r} /\ drain'.noted = drain.noted
      /\ drain'.result = [drain.result EXCEPT ![r] = out]
      /\ drain' \in Passes /\ drain' # None
  <2>1. [drain.result EXCEPT ![r] = out] \in [Rows -> Deliveries \cup {None}]
    BY <1>1, <1>3 DEF Passes
  <2>2. [drain.failures EXCEPT ![e] = IF result = "delivered" THEN 0 ELSE drain.failures[e] + 1] \in [Endpoints -> Nat]
    BY <1>1, <1>2 DEF Passes
  <2> HIDE DEF out, e
  <2>3. /\ drain'.todo = drain.todo \ {r} /\ drain'.noted = drain.noted
        /\ drain'.result = [drain.result EXCEPT ![r] = out]
    BY <1>4
  <2>4. drain' \in Passes
    BY <1>1, <1>2, <1>4, <2>1, <2>2 DEF Passes
  <2> QED
    BY <2>3, <2>4
<1>6. /\ UNCHANGED <<row, endpoint, queued>>
      /\ received' = [received EXCEPT ![r] = IF arrived /\ received[r] < 2 THEN received[r] + 1 ELSE received[r]]
      /\ doubtful' = IF arrived /\ result # "delivered" THEN doubtful \cup {r} ELSE doubtful
      /\ result # "failed" => (arrived <=> result = "delivered")
  BY DEF Send, stored, Inv, Typed
<1>7. Typed'
  BY <1>5, <1>6 DEF Inv, Typed
<1>8. r <= queued /\ (received[r] = 0 \/ r \in doubtful)
  BY <1>1 DEF PassOK, Inv, Typed
<1>9. Settled(r)' /\ (received'[r] > 1 => r \in doubtful')
  BY <1>1, <1>3, <1>5, <1>6, <1>8 DEF Settled, Delivered, Inv, Typed, Passes
<1>10. \A s \in Rows : s # r => received'[s] = received[s] /\ (s \in doubtful' <=> s \in doubtful)
                               /\ drain'.result[s] = drain.result[s]
  BY <1>1, <1>5, <1>6 DEF Inv, Typed, Passes
<1>11. \A s \in Rows : s # r => Settled(s)' /\ (received'[s] > 1 => s \in doubtful')
  BY <1>1, <1>5, <1>6, <1>10 DEF Settled, Delivered, Inv
<1>12. PassOK'
  BY <1>1, <1>5, <1>6, <1>8, <1>10 DEF PassOK, Delivered, Passes
<1>13. \A s \in Rows : s > queued' => received'[s] = 0 /\ row'[s] = None
  BY <1>6, <1>8, <1>10 DEF Inv, Typed
<1> QED
  BY <1>6, <1>7, <1>9, <1>11, <1>12, <1>13 DEF Inv

(* The outcomes are laid over the rows: what was received, beyond doubt, is *)
(* delivered now.                                                           *)
LEMMA WriteKeeps == ASSUME Inv, Write PROVE Inv'
<1>1. /\ drain \in Passes /\ PassOK /\ drain # None /\ drain.todo = {} /\ drain' = None
      /\ row' = Overlay /\ endpoint' = [e \in Endpoints |-> Counted(e)]
      /\ UNCHANGED <<queued, received, doubtful>>
  BY DEF Write, EndPass, Inv, Typed
<1>2. \A r \in Rows : row'[r] = IF row[r] # None /\ drain.result[r] # None THEN drain.result[r] ELSE row[r]
  BY <1>1 DEF Overlay
<1>3. row' \in [Rows -> Deliveries \cup {None}]
  BY <1>1 DEF Overlay, Passes, Inv, Typed
<1>4. endpoint' \in [Endpoints -> [there : BOOLEAN, on : BOOLEAN, stopped : BOOLEAN, failures : Nat]]
  BY <1>1 DEF Counted, Passes, Inv, Typed
<1>5. \A r \in Rows : Settled(r)'
  BY <1>1, <1>2 DEF Settled, Delivered, PassOK, Inv
<1> QED
  BY <1>1, <1>2, <1>3, <1>4, <1>5 DEF Inv, Typed

LEMMA ForgetKeeps ==
  ASSUME Inv, drain # None, ForgetPass, drain' = None, UNCHANGED <<row, endpoint, queued, received>>
  PROVE  Inv'
  BY DEF ForgetPass, NotNoted, Inv, Typed, Settled, Delivered

LEMMA WriteFailsKeeps == ASSUME Inv, WriteFails PROVE Inv'
  BY ForgetKeeps DEF WriteFails, EndPass, stored

(* What was committed has been told already only if nobody can know, or it  *)
(* says so.                                                                 *)
LEMMA RestartKeeps == ASSUME Inv, SavedOK, Restart PROVE Inv'
<1>1. row' = saved /\ drain' = None /\ UNCHANGED <<endpoint, queued, received>>
  BY DEF Restart
<1>2. \A r \in Rows : r \in doubtful => r \in doubtful'
  BY DEF Restart, ForgetPass
<1>3. \A r \in Rows : Known(r) => received[r] = 0 \/ r \in doubtful'
  BY <1>2 DEF Restart, ForgetPass, NotNoted, Known, Delivered
<1>4. Typed'
  BY <1>1 DEF Inv, Typed, SavedOK
<1>5. \A r \in Rows : Settled(r)' /\ (received'[r] > 1 => r \in doubtful')
  BY <1>1, <1>2, <1>3 DEF Inv, Settled, SavedOK
<1>6. \A r \in Rows : r > queued' => received'[r] = 0 /\ row'[r] = None
  BY <1>1 DEF Inv, Typed, SavedOK
<1> QED
  BY <1>1, <1>4, <1>5, <1>6 DEF Inv

(* What people do to rows leaves delivered what is delivered, and makes     *)
(* nothing else of it.                                                      *)
LEMMA RowsKeep ==
  ASSUME Inv, row' \in [Rows -> Deliveries \cup {None}],
         \A r \in Rows : \/ row'[r] = row[r]
                         \/ row[r] # None /\ row'[r] # None /\ (row'[r].status = "delivered" <=> row[r].status = "delivered"),
         endpoint' \in [Endpoints -> [there : BOOLEAN, on : BOOLEAN, stopped : BOOLEAN, failures : Nat]],
         UNCHANGED <<drain, queued, received, doubtful>>
  PROVE  Inv'
<1>1. Typed' /\ \A r \in Rows : r > queued' => received'[r] = 0 /\ row'[r] = None
  BY DEF Inv, Typed
<1>2. \A r \in Rows : Settled(r)' /\ (received'[r] > 1 => r \in doubtful')
  BY DEF Inv, Settled, Delivered
<1>3. drain' # None => PassOK'
  BY DEF Inv, PassOK, Delivered
<1> QED
  BY <1>1, <1>2, <1>3 DEF Inv

LEMMA RetryKeeps == ASSUME Inv, NEW r \in Rows, Retry(r) PROVE Inv'
<1> DEFINE again == As(r, "pending", 0)
<1>1. row[r] \in Deliveries /\ row[r] # None /\ row[r].status # "delivered"
  BY DEF Retry, Kept, Inv, Typed
<1>2. again \in Deliveries /\ again.status = "pending" /\ again # None
  <2>1. again \in Deliveries
    BY <1>1 DEF Deliveries, As
  <2>2. again.status = "pending"
    BY DEF As
  <2> QED
    BY <2>1, <2>2
<1>3. row' = [row EXCEPT ![r] = again] /\ UNCHANGED <<drain, queued, received, doubtful, endpoint>>
  BY <1>1 DEF Retry, history, Inv, Typed
<1> HIDE DEF again
<1> QED
  BY <1>1, <1>2, <1>3, RowsKeep DEF Inv, Typed

LEMMA BackOffKeeps == ASSUME Inv, NEW r \in Rows, BackOffEnds(r) PROVE Inv'
<1> DEFINE again == As(r, row[r].status, row[r].attempts)
<1>1. row[r] \in Deliveries /\ row[r] # None
  BY DEF BackOffEnds, Kept, Inv, Typed
<1>2. again \in Deliveries /\ again.status = row[r].status /\ again # None
  <2>1. again \in Deliveries
    BY <1>1 DEF Deliveries, As
  <2>2. again.status = row[r].status
    BY DEF As
  <2> QED
    BY <2>1, <2>2
<1>3. row' = [row EXCEPT ![r] = again] /\ UNCHANGED <<drain, queued, received, doubtful, endpoint>>
  BY <1>1 DEF BackOffEnds, history, Inv, Typed
<1> HIDE DEF again
<1> QED
  BY <1>1, <1>2, <1>3, RowsKeep DEF Inv, Typed

LEMMA RemoveKeeps == ASSUME Inv, NEW e \in Endpoints, Remove(e) PROVE Inv'
<1>1. \A r \in OpenRows(row) : /\ row[r] \in Deliveries /\ row[r].status # "delivered"
                               /\ As(r, "gave-up", row[r].attempts) \in Deliveries
                               /\ As(r, "gave-up", row[r].attempts).status = "gave-up"
  BY DEF As, Inv, Typed, Deliveries, OpenRows, Open
<1>2. row' = [r \in Rows |-> IF r \in OpenRows(row) /\ row[r].to = e
                             THEN As(r, "gave-up", row[r].attempts) ELSE row[r]]
  BY DEF Remove
<1>3. row' \in [Rows -> Deliveries \cup {None}]
  BY <1>1, <1>2 DEF Inv, Typed
<1>4. \A r \in Rows : \/ row'[r] = row[r]
                      \/ row[r] # None /\ row'[r] # None /\ (row'[r].status = "delivered" <=> row[r].status = "delivered")
  BY <1>1, <1>2
<1>5. /\ endpoint' = [endpoint EXCEPT ![e] = [there |-> FALSE, on |-> FALSE, stopped |-> FALSE, failures |-> 0]]
      /\ UNCHANGED <<drain, queued, received, doubtful>>
  BY DEF Remove, history
<1>6. endpoint' \in [Endpoints -> [there : BOOLEAN, on : BOOLEAN, stopped : BOOLEAN, failures : Nat]]
  BY <1>5 DEF Inv, Typed
<1> QED
  BY <1>3, <1>4, <1>5, <1>6, RowsKeep

LEMMA SwitchKeeps == ASSUME Inv, NEW e \in Endpoints, SwitchOn(e) \/ SwitchOff(e) PROVE Inv'
<1>1. UNCHANGED <<row, drain, queued, received, doubtful>>
  BY DEF SwitchOn, SwitchOff, history
<1>2. PICK on \in BOOLEAN, n \in Nat :
        endpoint' = [endpoint EXCEPT ![e] = [there |-> TRUE, on |-> on, stopped |-> FALSE, failures |-> n]]
  <2>1. CASE SwitchOn(e)
    BY <2>1 DEF SwitchOn
  <2>2. CASE SwitchOff(e)
    <3>1. endpoint[e].failures \in Nat
      BY DEF Inv, Typed
    <3> QED
      BY <2>2, <3>1 DEF SwitchOff
  <2> QED
    BY <2>1, <2>2
<1>3. endpoint' \in [Endpoints -> [there : BOOLEAN, on : BOOLEAN, stopped : BOOLEAN, failures : Nat]]
  BY <1>2 DEF Inv, Typed
<1> QED
  BY <1>1, <1>3, RowsKeep DEF Inv, Typed

LEMMA NextKeeps == ASSUME Inv, SavedOK, [Next]_vars PROVE Inv'
<1>1. ASSUME NEW r \in Rows, BackOffEnds(r) PROVE Inv'
  BY <1>1, BackOffKeeps
<1>2. CASE Sweep \/ Saves
  BY <1>2 DEF Sweep, Saves, stored, history, Inv, Typed, Settled, PassOK, Delivered
<1>3. CASE UNCHANGED vars
  BY <1>3 DEF vars, Inv, Typed, Settled, PassOK, Delivered
<1>4. CASE Drain
  BY <1>4, BeginKeeps, WriteKeeps, SendKeeps DEF Drain
<1> QED
  BY <1>1, <1>2, <1>3, <1>4, QueueKeeps, SwitchKeeps, RemoveKeeps, RetryKeeps,
     WriteFailsKeeps, RestartKeeps DEF Next

----------------------------------------------------------------------------
(* The rows, and those the pass has noted and marked. *)
Shapes ==
    /\ \A r \in Rows : row[r] # None => Shape(row[r])
    /\ drain # None =>
         /\ \A r \in Rows : drain.result[r] # None => Shape(drain.result[r])
         /\ \A r \in drain.todo : drain.noted[r] # None => drain.noted[r].attempts < MaxAttempts
    /\ Cardinality(Kept) <= MaxRows

(* The failures that are stored, or counted by the pass under way, are no   *)
(* more than there were since the endpoint was switched on; and nothing is  *)
(* being sent to an endpoint that has been stopped.                         *)
AtMost(n, e) == n <= streak[e] \/ streak[e] = StopAfter

Streak(e) ==
    /\ streak[e] \in 0..StopAfter
    /\ endpoint[e].stopped => ~endpoint[e].on
    /\ endpoint[e].stopped => streak[e] = StopAfter \/ e \in unsettled
    /\ drain = None /\ e \notin unsettled => AtMost(endpoint[e].failures, e)
    /\ drain # None /\ e \notin unsettled =>
         /\ e \notin drain.tried => AtMost(endpoint[e].failures, e)
         /\ AtMost(drain.failures[e], e)
    /\ drain # None /\ endpoint[e].stopped => \A r \in drain.todo : drain.noted[r].to # e

Streaks == streak \in [Endpoints -> Nat] /\ \A e \in Endpoints : Streak(e)

----------------------------------------------------------------------------
(* The newest n of a set: counting what is above an element numbers the set *)
(* from 0 without gaps, so there are n of them, or the whole set.           *)
Above(S, x) == {s \in S : s > x}

LEMMA AboveShrinks ==
  ASSUME NEW S \in SUBSET Nat, IsFiniteSet(S), NEW x \in S, NEW y \in S, x < y
  PROVE  Cardinality(Above(S, y)) < Cardinality(Above(S, x))
<1>1. Above(S, y) \in SUBSET (Above(S, x) \ {y}) /\ y \in Above(S, x) /\ Above(S, x) \in SUBSET S
  <2>1. x \in Nat /\ y \in Nat /\ \A s \in S : s \in Nat
    OBVIOUS
  <2>2. \A s \in Above(S, y) : s \in Above(S, x) /\ s # y
    BY <2>1 DEF Above
  <2> QED
    BY <2>1, <2>2 DEF Above
<1>2. IsFiniteSet(Above(S, x)) /\ Cardinality(Above(S, x)) \in Nat
  BY <1>1, FS_Subset, FS_CardinalityType
<1>3. IsFiniteSet(Above(S, x) \ {y}) /\ Cardinality(Above(S, x) \ {y}) = Cardinality(Above(S, x)) - 1
  BY <1>1, <1>2, FS_RemoveElement
<1>4. Cardinality(Above(S, y)) <= Cardinality(Above(S, x) \ {y}) /\ Cardinality(Above(S, y)) \in Nat
  BY <1>1, <1>3, FS_Subset, FS_CardinalityType
<1> QED
  BY <1>2, <1>3, <1>4

LEMMA CountFromZero ==
  ASSUME NEW n \in Nat
  PROVE  IsFiniteSet(0..(n - 1)) /\ Cardinality(0..(n - 1)) = n
<1>1. 0 \in Int /\ n - 1 \in Int
  OBVIOUS
<1>2. IsFiniteSet(0..(n - 1)) /\ Cardinality(0..(n - 1)) = IF 0 > n - 1 THEN 0 ELSE (n - 1) - 0 + 1
  BY <1>1, FS_Interval
<1> QED
  BY <1>2

LEMMA RankIsOnto ==
  ASSUME NEW S \in SUBSET Nat, IsFiniteSet(S), NEW i \in Nat, i < Cardinality(S)
  PROVE  \E x \in S : Cardinality(Above(S, x)) = i
<1> DEFINE T == 0..(Cardinality(S) - 1)
           rank == [x \in S |-> Cardinality(Above(S, x))]
<1>1. Cardinality(S) \in Nat
  BY FS_CardinalityType
<1>2. IsFiniteSet(T) /\ Cardinality(T) = Cardinality(S)
  BY <1>1, CountFromZero
<1>3. ASSUME NEW x \in S PROVE Cardinality(Above(S, x)) \in T
  <2>1. Above(S, x) \in SUBSET (S \ {x})
    BY DEF Above
  <2>2. IsFiniteSet(S \ {x}) /\ Cardinality(S \ {x}) = Cardinality(S) - 1
    BY FS_RemoveElement
  <2>3. Cardinality(Above(S, x)) <= Cardinality(S) - 1 /\ IsFiniteSet(Above(S, x))
    BY <2>1, <2>2, FS_Subset
  <2>4. Cardinality(Above(S, x)) \in Nat
    BY <2>3, FS_CardinalityType
  <2> QED
    BY <1>1, <2>3, <2>4
<1>4. rank \in [S -> T]
  BY <1>3
<1>5. \A x, y \in S : rank[x] = rank[y] => x = y
  <2> SUFFICES ASSUME NEW x \in S, NEW y \in S, x # y PROVE rank[x] # rank[y]
    OBVIOUS
  <2>1. x < y \/ y < x
    OBVIOUS
  <2>2. Cardinality(Above(S, x)) \in Int /\ Cardinality(Above(S, y)) \in Int
    BY <1>3
  <2>3. Cardinality(Above(S, x)) # Cardinality(Above(S, y))
    BY <2>1, <2>2, AboveShrinks
  <2> QED
    BY <2>3
<1>6. rank \in Injection(S, T)
  BY <1>4, <1>5 DEF Injection, IsInjective
<1>7. rank \in Surjection(S, T)
  BY <1>2, <1>6, FS_Injection
<1>8. i \in T
  BY <1>1
<1> QED
  BY <1>7, <1>8 DEF Surjection

LEMMA NewestIsCounted ==
  ASSUME NEW S \in SUBSET Nat, IsFiniteSet(S), NEW n \in Nat
  PROVE  /\ IsFiniteSet(Newest(S, n)) /\ Cardinality(Newest(S, n)) \in 0..n
         /\ Newest(S, n) # S => Cardinality(Newest(S, n)) = n
<1> DEFINE N == Newest(S, n)
           rank == [x \in N |-> Cardinality(Above(S, x))]
<1>1. N \in SUBSET S /\ \A x \in S : x \in N <=> Cardinality(Above(S, x)) < n
  BY DEF Newest, Above
<1>2. IsFiniteSet(N) /\ Cardinality(N) \in Nat
  BY <1>1, FS_Subset, FS_CardinalityType
<1>3. \A x \in S : Cardinality(Above(S, x)) \in Nat
  <2> SUFFICES ASSUME NEW x \in S PROVE Cardinality(Above(S, x)) \in Nat
    OBVIOUS
  <2>1. Above(S, x) \in SUBSET S
    BY DEF Above
  <2> QED
    BY <2>1, FS_Subset, FS_CardinalityType
<1>4. IsFiniteSet(0..(n - 1)) /\ Cardinality(0..(n - 1)) = n
  BY CountFromZero
<1>5. \A x, y \in N : x # y => Cardinality(Above(S, x)) # Cardinality(Above(S, y))
  <2> SUFFICES ASSUME NEW x \in N, NEW y \in N, x # y PROVE Cardinality(Above(S, x)) # Cardinality(Above(S, y))
    OBVIOUS
  <2>1. x \in S /\ y \in S
    BY <1>1
  <2>2. x \in Nat /\ y \in Nat
    BY <2>1
  <2>3. x < y \/ y < x
    BY <2>2
  <2> QED
    BY <1>3, <2>1, <2>3, AboveShrinks
<1>6. rank \in [N -> 0..(n - 1)]
  <2>1. ASSUME NEW x \in N PROVE Cardinality(Above(S, x)) \in 0..(n - 1)
    <3>1. x \in S /\ Cardinality(Above(S, x)) < n
      BY <1>1
    <3>2. Cardinality(Above(S, x)) \in Nat
      BY <1>3, <3>1
    <3> QED
      BY <3>1, <3>2
  <2> QED
    BY <2>1
<1>7. rank \in Injection(N, 0..(n - 1))
  BY <1>5, <1>6 DEF Injection, IsInjective
<1>8. Cardinality(N) <= n /\ (Cardinality(N) = n <=> rank \in Surjection(N, 0..(n - 1)))
  BY <1>4, <1>7, FS_Injection
<1>9. ASSUME N # S PROVE rank \in Surjection(N, 0..(n - 1))
  <2>1. PICK x \in S : x \notin N
    BY <1>1, <1>9
  <2>2. n <= Cardinality(Above(S, x)) /\ Above(S, x) \in SUBSET (S \ {x})
    <3>1. n <= Cardinality(Above(S, x))
      BY <1>1, <1>3, <2>1
    <3>2. x \in Nat
      BY <2>1
    <3>3. ASSUME NEW s \in Above(S, x) PROVE s \in S \ {x}
      <4>1. s \in S /\ s \in Nat /\ s > x
        BY <3>3 DEF Above
      <4> QED
        BY <3>2, <4>1
    <3> QED
      BY <3>1, <3>3
  <2>3. Cardinality(Above(S, x)) <= Cardinality(S \ {x}) /\ Cardinality(S \ {x}) = Cardinality(S) - 1
    BY <2>2, FS_Subset, FS_RemoveElement
  <2>4. Cardinality(S) \in Nat /\ Cardinality(Above(S, x)) \in Nat
    BY <1>3, FS_CardinalityType
  <2>5. ASSUME NEW i \in 0..(n - 1) PROVE \E y \in N : rank[y] = i
    <3>1. PICK y \in S : Cardinality(Above(S, y)) = i
      BY <2>2, <2>3, <2>4, RankIsOnto
    <3> QED
      BY <1>1, <3>1
  <2> QED
    BY <1>6, <2>5 DEF Surjection
<1> QED
  BY <1>2, <1>8, <1>9

(* The cap: what is dropped from the open rows leaves MaxRows open ones, and *)
(* no more rows than that are kept.                                         *)
LEMMA CapCounts ==
  ASSUME NEW rows \in [Rows -> Deliveries \cup {None}]
  PROVE  /\ \A r \in OpenRows(rows) : Capped(rows)[r] = None => Cardinality(OpenRows(Capped(rows))) = MaxRows
         /\ Cardinality({r \in Rows : Capped(rows)[r] # None}) <= MaxRows
<1> DEFINE all == {r \in Rows : rows[r] # None}
           open == OpenRows(rows)
           room == IF Cardinality(open) > MaxRows THEN 0 ELSE MaxRows - Cardinality(open)
           first == Newest(open, MaxRows)
           rest == Newest(all \ open, room)
           keep == first \cup rest
<1>1. Capped(rows) = [r \in Rows |-> IF r \in keep THEN rows[r] ELSE None]
  BY DEF Capped
<1>2. Rows \in SUBSET Nat /\ IsFiniteSet(Rows) /\ MaxRows \in Nat
  BY FS_Interval
<1>3. /\ open \in SUBSET Rows /\ all \ open \in SUBSET Rows /\ open \in SUBSET all
      /\ open \in SUBSET Nat /\ all \ open \in SUBSET Nat
  BY <1>2 DEF OpenRows
<1>4. IsFiniteSet(open) /\ IsFiniteSet(all \ open) /\ Cardinality(open) \in Nat
  BY <1>2, <1>3, FS_Subset, FS_CardinalityType
<1>5. room \in Nat
  BY <1>2, <1>4
<1>6. /\ IsFiniteSet(first) /\ Cardinality(first) \in 0..MaxRows
      /\ first # open => Cardinality(first) = MaxRows
  <2> HIDE DEF open
  <2> QED
    BY <1>2, <1>3, <1>4, NewestIsCounted
<1>7. IsFiniteSet(rest) /\ Cardinality(rest) \in 0..room
  <2> HIDE DEF open, all, room
  <2> QED
    BY <1>3, <1>4, <1>5, NewestIsCounted
<1>8. first \in SUBSET open /\ rest \in SUBSET (all \ open)
  BY DEF Newest
<1>9. OpenRows(Capped(rows)) = first
  BY <1>1, <1>3, <1>8 DEF OpenRows
<1>10. Cardinality(keep) <= MaxRows /\ IsFiniteSet(keep)
  <2> HIDE DEF room, first, rest, open, all
  <2>1. first \cap rest = {}
    BY <1>8
  <2>2. Cardinality(keep) = Cardinality(first) + Cardinality(rest) /\ IsFiniteSet(keep)
    <3>1. Cardinality(keep) = Cardinality(first) + Cardinality(rest) - Cardinality(first \cap rest) /\ IsFiniteSet(keep)
      BY <1>6, <1>7, FS_Union
    <3>2. Cardinality(first \cap rest) = 0
      BY <2>1, FS_EmptySet
    <3> QED
      BY <1>6, <1>7, <3>1, <3>2
  <2>3. Cardinality(first) <= Cardinality(open)
    BY <1>4, <1>8, FS_Subset
  <2> QED
    BY <1>2, <1>4, <1>6, <1>7, <2>2, <2>3 DEF room
<1>11. {r \in Rows : Capped(rows)[r] # None} \in SUBSET keep
  BY <1>1
<1>12. Cardinality({r \in Rows : Capped(rows)[r] # None}) <= MaxRows
  <2>1. Cardinality({r \in Rows : Capped(rows)[r] # None}) <= Cardinality(keep)
    BY <1>10, <1>11, FS_Subset
  <2>2. Cardinality(keep) \in Nat /\ Cardinality({r \in Rows : Capped(rows)[r] # None}) \in Nat
    BY <1>10, <1>11, FS_Subset, FS_CardinalityType
  <2> QED
    BY <1>2, <1>10, <2>1, <2>2
<1>13. ASSUME NEW r \in OpenRows(rows), Capped(rows)[r] = None PROVE first # open
  BY <1>1, <1>3, <1>13 DEF OpenRows
<1> QED
  BY <1>6, <1>9, <1>12, <1>13

----------------------------------------------------------------------------
(* The shapes. *)
LEMMA SameRowsKept ==
  ASSUME Shapes, \A r \in Rows : row'[r] = None <=> row[r] = None
  PROVE  Cardinality(Kept)' <= MaxRows
<1>1. Kept' = Kept
  BY DEF Kept
<1> QED
  BY <1>1 DEF Shapes

LEMMA QueueShapes ==
  ASSUME Inv, Shapes, NEW e \in Endpoints, Queue(e) \/ QueueUnsaved(e)
  PROVE  Shapes'
<1> DEFINE new == [to |-> e, status |-> "pending", attempts |-> 0, waits |-> FALSE]
           rows == [row EXCEPT ![queued + 1] = new]
<1>0. queued < LastRow /\ queued + 1 \in Rows
  <2>1. queued < LastRow
    BY DEF Queue, QueueUnsaved
  <2> QED
    BY <2>1 DEF Inv, Typed
<1>1. new \in Deliveries /\ Shape(new)
  BY DEF Deliveries, Shape, Open
<1>2. queued + 1 \in Rows /\ rows \in [Rows -> Deliveries \cup {None}]
  BY <1>0, <1>1 DEF Inv, Typed
<1>3. row' = Capped(rows) /\ drain' = drain
  BY DEF Queue, QueueUnsaved, Added
<1>4. \A r \in Rows : row'[r] \in {rows[r], None}
  BY <1>2, <1>3, CapDropsOrKeeps
<1>5. Cardinality(Kept)' <= MaxRows
  <2>1. Kept' = {r \in Rows : Capped(rows)[r] # None}
    BY <1>3 DEF Kept
  <2> QED
    BY <1>2, <2>1, CapCounts
<1>6. \A r \in Rows : row'[r] # None => Shape(row'[r])
  <2> HIDE DEF new
  <2>1. \A r \in Rows : rows[r] = IF r = queued + 1 THEN new ELSE row[r]
    BY <1>2 DEF Inv, Typed
  <2> QED
    BY <1>1, <1>4, <2>1 DEF Shapes
<1> QED
  BY <1>3, <1>5, <1>6 DEF Shapes, Shape

LEMMA BeginShapes == ASSUME Inv, Shapes, Begin PROVE Shapes'
<1>1. /\ drain' = [todo |-> Oldest(Due, Limit), noted |-> row, result |-> [r \in Rows |-> None],
                   failures |-> [e \in Endpoints |-> endpoint[e].failures], tried |-> {}]
      /\ row' = row
  BY DEF Begin, stored
<1>2. drain'.todo \in SUBSET Due /\ drain'.noted = row /\ drain'.result = [r \in Rows |-> None]
  BY <1>1 DEF Oldest
<1>3. \A r \in Due : row[r].attempts < MaxAttempts
  BY DEF Due, Kept, Shapes, Shape
<1>4. Cardinality(Kept)' <= MaxRows
  BY <1>1, SameRowsKept
<1> QED
  BY <1>1, <1>2, <1>3, <1>4 DEF Shapes, Shape

LEMMA SendShapes ==
  ASSUME Inv, Shapes, NEW r \in Rows, NEW result \in {"delivered", "failed", "gave-up"},
         NEW arrived \in BOOLEAN, Send(r, result, arrived)
  PROVE  Shapes'
<1> DEFINE out == Outcome(drain.noted[r], result)
<1>1. drain # None /\ drain \in Passes /\ r \in drain.todo /\ drain.noted[r] \in Deliveries
  BY DEF Send, Inv, Typed, PassOK, Passes
<1>2. /\ drain'.todo = drain.todo \ {r} /\ drain'.noted = drain.noted
      /\ drain'.result = [drain.result EXCEPT ![r] = out]
      /\ row' = row
  BY DEF Send, stored
<1>3. Shape(out)
  <2>1. drain.noted[r].attempts \in Nat /\ drain.noted[r].attempts < MaxAttempts /\ MaxAttempts \in Nat
    BY <1>1 DEF Shapes, Deliveries
  <2>2. /\ out.attempts = drain.noted[r].attempts + 1
        /\ out.status = IF result = "failed" /\ out.attempts >= MaxAttempts THEN "gave-up" ELSE result
        /\ out.waits => out.status = "failed"
    BY DEF Outcome
  <2> HIDE DEF out
  <2> QED
    BY <2>1, <2>2 DEF Shape, Open
<1>4. Cardinality(Kept)' <= MaxRows
  BY <1>2, SameRowsKept
<1> HIDE DEF out
<1>5. \A s \in Rows : drain'.result[s] # None => Shape(drain'.result[s])
  BY <1>1, <1>2, <1>3 DEF Shapes, Passes
<1> QED
  BY <1>1, <1>2, <1>4, <1>5 DEF Shapes, Shape

LEMMA WriteShapes == ASSUME Inv, Shapes, Write PROVE Shapes'
<1>1. drain # None /\ drain' = None /\ row' = Overlay
  BY DEF Write, EndPass
<1>2. \A r \in Rows : row'[r] = IF row[r] # None /\ drain.result[r] # None THEN drain.result[r] ELSE row[r]
  BY <1>1 DEF Overlay
<1>3. Cardinality(Kept)' <= MaxRows
  BY <1>2, SameRowsKept
<1> QED
  BY <1>1, <1>2, <1>3 DEF Shapes, Shape

(* The rows are the same, or have a new status, and the pass is the same or *)
(* over.                                                                    *)
LEMMA RowsShaped ==
  ASSUME Shapes, drain' \in {drain, None},
         \A r \in Rows : \/ row'[r] = row[r]
                         \/ row[r] # None /\ row'[r] # None /\ Shape(row'[r])
  PROVE  Shapes'
<1>1. Cardinality(Kept)' <= MaxRows
  BY SameRowsKept
<1>2. \A r \in Rows : row'[r] # None => Shape(row'[r])
  BY DEF Shapes
<1> QED
  BY <1>1, <1>2 DEF Shapes, Shape

LEMMA RetryShapes ==
  ASSUME Inv, Shapes, NEW r \in Rows, Retry(r) \/ BackOffEnds(r) PROVE Shapes'
<1>1. PICK status \in {"pending", "failed", "gave-up", "delivered"}, attempts \in Nat :
        /\ row' = [row EXCEPT ![r] = As(r, status, attempts)]
        /\ attempts <= MaxAttempts /\ (status \in Open => attempts < MaxAttempts)
  <2>1. CASE Retry(r)
    <3>1. /\ row' = [row EXCEPT ![r] = As(r, "pending", 0)]
          /\ 0 <= MaxAttempts /\ ("pending" \in Open => 0 < MaxAttempts)
      BY <2>1 DEF Retry
    <3>2. 0 \in Nat /\ "pending" \in {"pending", "failed", "gave-up", "delivered"}
      OBVIOUS
    <3> QED
      BY <3>1, <3>2, Zenon
  <2>2. CASE BackOffEnds(r)
    <3>1. row[r] \in Deliveries /\ Shape(row[r]) /\ row' = [row EXCEPT ![r] = As(r, row[r].status, row[r].attempts)]
      BY <2>2 DEF BackOffEnds, Kept, Shapes, Inv, Typed
    <3> QED
      BY <3>1 DEF Shape, Deliveries
  <2> QED
    BY <2>1, <2>2
<1>2. row[r] \in Deliveries /\ row[r] # None /\ drain' = drain
  BY DEF Retry, BackOffEnds, Kept, Inv, Typed
<1> DEFINE again == As(r, status, attempts)
<1>3. again \in Deliveries
  BY <1>2 DEF As, Deliveries
<1>4. Shape(again)
  BY <1>1 DEF As, Shape
<1>5. \A s \in Rows : row'[s] = IF s = r THEN again ELSE row[s]
  BY <1>1 DEF Inv, Typed
<1> HIDE DEF again
<1>6. \A s \in Rows : row'[s] = row[s] \/ (row[s] # None /\ row'[s] # None /\ Shape(row'[s]))
  BY <1>2, <1>3, <1>4, <1>5
<1> QED
  BY <1>2, <1>6, RowsShaped

LEMMA RemoveShapes == ASSUME Inv, Shapes, NEW e \in Endpoints, Remove(e) PROVE Shapes'
<1>1. ASSUME NEW r \in OpenRows(row)
      PROVE  /\ row[r] # None /\ As(r, "gave-up", row[r].attempts) \in Deliveries
             /\ Shape(As(r, "gave-up", row[r].attempts))
  <2>1. r \in Rows /\ row[r] # None /\ row[r] \in Deliveries /\ row[r].attempts <= MaxAttempts
    BY DEF OpenRows, Inv, Typed, Shapes, Shape
  <2> QED
    BY <2>1 DEF As, Shape, Open, Deliveries
<1>2. \A r \in Rows : row'[r] = IF r \in OpenRows(row) /\ row[r].to = e
                                THEN As(r, "gave-up", row[r].attempts) ELSE row[r]
  BY DEF Remove
<1>3. drain' = drain
  BY DEF Remove
<1>4. \A r \in Rows : row'[r] = row[r] \/ (row[r] # None /\ row'[r] # None /\ Shape(row'[r]))
  BY <1>1, <1>2
<1> QED
  BY <1>3, <1>4, RowsShaped

LEMMA RestartShapes == ASSUME SavedOK, Restart PROVE Shapes'
<1>1. row' = saved /\ drain' = None
  BY DEF Restart
<1>2. Cardinality(Kept)' <= MaxRows
  BY <1>1 DEF Kept, SavedOK
<1> QED
  BY <1>1, <1>2 DEF SavedOK, Shapes, Shape

LEMMA ShapesKept == ASSUME Inv, Shapes, SavedOK, [Next]_vars PROVE Shapes'
<1>1. CASE Drain
  BY <1>1, BeginShapes, SendShapes, WriteShapes DEF Drain
<1>2. ASSUME drain' \in {drain, None}, row' = row PROVE Shapes'
  BY <1>2, RowsShaped
<1>3. CASE Sweep \/ Saves \/ WriteFails \/ UNCHANGED vars
  BY <1>2, <1>3 DEF Sweep, Saves, WriteFails, EndPass, stored, vars
<1>4. ASSUME NEW e \in Endpoints, SwitchOn(e) \/ SwitchOff(e) PROVE Shapes'
  BY <1>2, <1>4 DEF SwitchOn, SwitchOff
<1>5. ASSUME NEW r \in Rows, BackOffEnds(r) \/ Retry(r) PROVE Shapes'
  BY <1>5, RetryShapes
<1> QED
  BY <1>1, <1>3, <1>4, <1>5, QueueShapes, RemoveShapes, RestartShapes DEF Next

LEMMA InitShapes == ASSUME Init PROVE Shapes
<1>1. \A r \in Rows : row[r] = None
  BY DEF Init
<1>2. Kept = {} /\ drain = None
  BY <1>1 DEF Kept, Init
<1> QED
  BY <1>1, <1>2, FS_EmptySet DEF Shapes

----------------------------------------------------------------------------
(* What is committed. *)
LEMMA Committed == ASSUME Inv', Shapes', saved' = row' PROVE SavedOK'
<1>1. \A r \in Rows : saved'[r] # None => /\ r <= queued' /\ Shape(saved'[r])
                                         /\ (Known(r)' \/ saved'[r].status = "delivered")
  BY DEF Inv, Typed, Settled, Known, Shapes, Shape
<1>2. Cardinality({r \in Rows : saved[r] # None})' <= MaxRows
  BY DEF Shapes, Kept
<1>3. saved' \in [Rows -> Deliveries \cup {None}]
  BY DEF Inv, Typed
<1> QED
  BY <1>1, <1>2, <1>3 DEF SavedOK, Shape

LEMMA NotCommitted ==
  ASSUME SavedOK, saved' = saved, queued \in Nat, queued' \in {queued, queued + 1},
         \A r \in Rows : r <= queued => row'[r] \in {row[r], None},
         \A r \in Rows : Known(r) => Known(r)'
  PROVE  SavedOK'
<1>1. \A r \in Rows : saved'[r] # None => /\ r <= queued' /\ row'[r] \in {None, saved'[r]}
                                         /\ (Known(r)' \/ saved'[r].status = "delivered")
                                         /\ Shape(saved'[r])
  BY DEF SavedOK
<1>2. Cardinality({r \in Rows : saved[r] # None})' <= MaxRows
  BY DEF SavedOK
<1>3. saved' \in [Rows -> Deliveries \cup {None}]
  BY DEF SavedOK
<1> QED
  BY <1>1, <1>2, <1>3 DEF SavedOK, Shape

LEMMA UnsavedSaved ==
  ASSUME Inv, SavedOK, NEW e \in Endpoints, QueueUnsaved(e)
  PROVE  SavedOK'
<1> DEFINE new == [to |-> e, status |-> "pending", attempts |-> 0, waits |-> FALSE]
           rows == [row EXCEPT ![queued + 1] = new]
<1>1. queued + 1 \in Rows /\ rows \in [Rows -> Deliveries \cup {None}] /\ queued \in Nat
  BY DEF QueueUnsaved, Inv, Typed, Deliveries
<1>2. row' = Capped(rows) /\ saved' = saved /\ queued' = queued + 1 /\ UNCHANGED <<drain, received, doubtful>>
  BY DEF QueueUnsaved, Added, history
<1>3. \A r \in Rows : r <= queued => rows[r] = row[r]
  BY <1>1 DEF Inv, Typed
<1>4. \A r \in Rows : r <= queued => row'[r] \in {row[r], None}
  <2> HIDE DEF rows
  <2> QED
    BY <1>1, <1>2, <1>3, CapDropsOrKeeps
<1>5. \A r \in Rows : Known(r) => Known(r)'
  BY <1>2 DEF Known, Delivered
<1> QED
  BY <1>1, <1>2, <1>4, <1>5, NotCommitted

LEMMA SendSaved ==
  ASSUME Inv, SavedOK, NEW r \in Rows, NEW result \in {"delivered", "failed", "gave-up"},
         NEW arrived \in BOOLEAN, Send(r, result, arrived)
  PROVE  SavedOK'
<1> DEFINE out == Outcome(drain.noted[r], result)
<1>1. drain # None /\ drain \in Passes /\ PassOK /\ r \in drain.todo /\ drain.noted[r] \in Deliveries
  BY DEF Send, Inv, Typed, PassOK, Passes
<1>2. out \in Deliveries /\ (result = "delivered" => out.status = "delivered")
  BY <1>1, OutcomeOfDelivery
<1>3. drain'.result = [drain.result EXCEPT ![r] = out] /\ UNCHANGED <<row, saved, queued>>
  BY DEF Send, stored
<1>4. drain' # None
  <2> DEFINE e == drain.noted[r].to
             counts == [drain.failures EXCEPT ![e] = IF result = "delivered" THEN 0 ELSE @ + 1]
  <2>1. e \in Endpoints /\ counts \in [Endpoints -> Nat]
    BY <1>1 DEF Passes, Deliveries
  <2>2. [drain.result EXCEPT ![r] = out] \in [Rows -> Deliveries \cup {None}]
    BY <1>1, <1>2 DEF Passes
  <2>3. drain' = [todo |-> drain.todo \ {r}, noted |-> drain.noted,
                  result |-> [drain.result EXCEPT ![r] = out],
                  failures |-> counts, tried |-> drain.tried \cup {e}]
    BY DEF Send
  <2> HIDE DEF out, counts, e
  <2>4. drain' \in Passes
    BY <1>1, <2>1, <2>2, <2>3 DEF Passes
  <2> QED
    BY <2>4
<1>5. /\ received' = [received EXCEPT ![r] = IF arrived /\ received[r] < 2 THEN received[r] + 1 ELSE received[r]]
      /\ doubtful' = IF arrived /\ result # "delivered" THEN doubtful \cup {r} ELSE doubtful
      /\ received \in [Rows -> 0..2]
  BY DEF Send, Inv, Typed
<1>6. drain'.result[r] = out /\ \A s \in Rows : s # r => drain'.result[s] = drain.result[s]
  BY <1>1, <1>3 DEF Passes
<1> HIDE DEF out
<1>7. ASSUME NEW s \in Rows, Known(s) PROVE Known(s)'
  <2>1. CASE s # r
    BY <1>4, <1>5, <1>6, <1>7, <2>1 DEF Known, Delivered
  <2>2. CASE s = r /\ result = "delivered"
    BY <1>2, <1>4, <1>6, <2>2 DEF Known, Delivered
  <2>3. CASE s = r /\ result # "delivered"
    <3>1. received[r] = 0 \/ r \in doubtful
      BY <1>1 DEF PassOK
    <3> QED
      BY <1>5, <2>3, <3>1 DEF Known
  <2> QED
    BY <2>1, <2>2, <2>3
<1>8. queued \in Nat
  BY DEF Inv, Typed
<1> QED
  BY <1>3, <1>7, <1>8, NotCommitted

LEMMA BackOffSaved ==
  ASSUME Inv, Shapes, SavedOK, NEW r \in Rows, BackOffEnds(r)
  PROVE  SavedOK'
<1> DEFINE again == As(r, row[r].status, row[r].attempts)
<1>1. row[r] \in Deliveries /\ Shape(row[r]) /\ row[r] # None
  BY DEF BackOffEnds, Kept, Inv, Typed, Shapes
<1>2. again \in Deliveries /\ Shape(again) /\ again.status = row[r].status
  <2>1. /\ again = [to |-> row[r].to, status |-> row[r].status, attempts |-> row[r].attempts, waits |-> FALSE]
        /\ again.status = row[r].status /\ again.attempts = row[r].attempts /\ again.waits = FALSE
    BY DEF As
  <2> HIDE DEF again
  <2>2. Shape(again)
    BY <1>1, <2>1 DEF Shape
  <2> QED
    BY <1>1, <2>1, <2>2 DEF Deliveries
<1>3. /\ row' = [row EXCEPT ![r] = again]
      /\ saved' = [saved EXCEPT ![r] = IF @ = None THEN None ELSE row'[r]]
      /\ UNCHANGED <<drain, queued, received, doubtful>>
  BY DEF BackOffEnds, history
<1> HIDE DEF again
<1>4. \A s \in Rows : /\ row'[s] = IF s = r THEN again ELSE row[s]
                     /\ saved'[s] = IF s = r /\ saved[r] # None THEN again ELSE saved[s]
  BY <1>3 DEF Inv, Typed, SavedOK
<1>5. saved' \in [Rows -> Deliveries \cup {None}]
  BY <1>2, <1>3, <1>4 DEF SavedOK
<1>6. \A s \in Rows : Known(s)' <=> Known(s)
  BY <1>3 DEF Known, Delivered
<1>7. \A s \in Rows : saved'[s] # None =>
         /\ s <= queued' /\ row'[s] \in {None, saved'[s]}
         /\ Known(s)' \/ saved'[s].status = "delivered"
         /\ Shape(saved'[s])
  BY <1>1, <1>2, <1>3, <1>4, <1>6 DEF SavedOK
<1>8. {s \in Rows : saved'[s] # None} = {s \in Rows : saved[s] # None}
  BY <1>2, <1>4
<1>9. Cardinality({s \in Rows : saved[s] # None})' <= MaxRows
  BY <1>8 DEF SavedOK
<1> QED
  BY <1>5, <1>7, <1>9 DEF SavedOK, Shape

LEMMA NextSaved == ASSUME Inv, Shapes, SavedOK, [Next]_vars, Inv', Shapes' PROVE SavedOK'
<1>1. queued \in Nat
  BY DEF Inv, Typed
<1>2. ASSUME UNCHANGED <<row, saved, queued>>, \A r \in Rows : Known(r) => Known(r)' PROVE SavedOK'
  BY <1>1, <1>2, NotCommitted
<1>3. CASE Begin
  BY <1>2, <1>3 DEF Begin, stored, history, Known
<1>4. CASE Write
  <2>1. drain # None /\ drain' = None /\ UNCHANGED <<queued, received, doubtful>>
    BY <1>4 DEF Write, EndPass
  <2>2. CASE \A r \in Rows : drain.result[r] = None
    <3>1. \A r \in Rows : row'[r] = row[r]
      BY <1>4, <2>2 DEF Write, Overlay
    <3>2. saved' = saved
      BY <1>4, <2>2 DEF Write
    <3>3. \A r \in Rows : Known(r) => Known(r)'
      BY <2>1, <2>2 DEF Known, Delivered
    <3> QED
      BY <1>1, <2>1, <3>1, <3>2, <3>3, NotCommitted
  <2>3. CASE ~(\A r \in Rows : drain.result[r] = None)
    BY <1>4, <2>3, Committed DEF Write
  <2> QED
    BY <2>2, <2>3
<1>5. CASE WriteFails
  <2>1. /\ UNCHANGED <<row, saved, queued, received>> /\ drain # None
        /\ doubtful' = doubtful \cup NotNoted
    BY <1>5 DEF WriteFails, ForgetPass, stored
  <2>2. \A r \in Rows : Known(r) => Known(r)'
    BY <2>1 DEF NotNoted, Known, Delivered
  <2> QED
    BY <1>2, <2>1, <2>2
<1>6. CASE Sweep \/ UNCHANGED vars
  BY <1>2, <1>6 DEF Sweep, stored, history, vars, Known, Delivered
<1>7. CASE Restart
  BY <1>7, Committed DEF Restart
<1>8. ASSUME NEW e \in Endpoints, Queue(e) \/ SwitchOn(e) \/ SwitchOff(e) \/ Remove(e) PROVE SavedOK'
  BY <1>8, Committed DEF Queue, SwitchOn, SwitchOff, Remove
<1>9. ASSUME NEW r \in Rows, Retry(r) PROVE SavedOK'
  BY <1>9, Committed DEF Retry
<1>10. CASE Saves
  BY <1>10, Committed DEF Saves
<1> QED
  BY <1>3, <1>4, <1>5, <1>6, <1>7, <1>8, <1>9, <1>10, UnsavedSaved, SendSaved, BackOffSaved DEF Next, Drain

LEMMA InitSaved == ASSUME Init PROVE SavedOK
<1>1. \A r \in Rows : saved[r] = None
  BY DEF Init
<1>2. {r \in Rows : saved[r] # None} = {}
  BY <1>1
<1>3. saved \in [Rows -> Deliveries \cup {None}]
  BY DEF Init
<1> QED
  BY <1>1, <1>2, <1>3, FS_EmptySet DEF SavedOK

----------------------------------------------------------------------------
(* The failures in a row. *)
LEMMA QuietStreaks ==
  ASSUME Streaks, UNCHANGED <<endpoint, drain, streak, unsettled>> PROVE Streaks'
  BY DEF Streaks, Streak, AtMost

LEMMA BeginStreaks == ASSUME Inv, Streaks, Begin PROVE Streaks'
<1>1. /\ drain' = [todo |-> Oldest(Due, Limit), noted |-> row, result |-> [r \in Rows |-> None],
                   failures |-> [e \in Endpoints |-> endpoint[e].failures], tried |-> {}]
      /\ drain = None /\ UNCHANGED <<endpoint, streak, unsettled>>
  BY DEF Begin, stored, history
<1>2. /\ drain'.todo \in SUBSET Due /\ drain'.noted = row /\ drain'.tried = {}
      /\ drain'.failures = [e \in Endpoints |-> endpoint[e].failures]
  BY <1>1 DEF Oldest
<1>3. \A r \in Due : endpoint[row[r].to].on
  BY DEF Due, Live
<1>4. ASSUME NEW e \in Endpoints PROVE Streak(e)'
  <2>1. Streak(e)
    BY DEF Streaks
  <2>2. AtMost(endpoint[e].failures, e) = AtMost(endpoint[e].failures, e)'
    BY <1>1 DEF AtMost
  <2>3. e \notin unsettled => AtMost(endpoint[e].failures, e)' /\ AtMost(drain.failures[e], e)'
    BY <1>1, <1>2, <2>1 DEF Streak, AtMost
  <2> QED
    BY <1>1, <1>2, <1>3, <2>1, <2>3 DEF Streak
<1> QED
  BY <1>1, <1>4 DEF Streaks

LEMMA SendStreaks ==
  ASSUME Inv, Streaks, NEW r \in Rows, NEW result \in {"delivered", "failed", "gave-up"},
         NEW arrived \in BOOLEAN, Send(r, result, arrived)
  PROVE  Streaks'
<1>1. drain # None /\ drain \in Passes /\ r \in drain.todo /\ drain.noted[r] \in Deliveries
  BY DEF Send, Inv, Typed, PassOK, Passes
<1>0. PICK e \in Endpoints : e = drain.noted[r].to
  BY <1>1 DEF Deliveries
<1>2. /\ drain' # None /\ drain'.todo = drain.todo \ {r} /\ drain'.noted = drain.noted
      /\ drain'.failures = [drain.failures EXCEPT ![e] = IF result = "delivered" THEN 0 ELSE drain.failures[e] + 1]
      /\ drain'.tried = drain.tried \cup {e}
      /\ UNCHANGED <<endpoint, unsettled>>
  <2>2. drain' = [todo |-> drain.todo \ {r}, noted |-> drain.noted,
                  result |-> [drain.result EXCEPT ![r] = Outcome(drain.noted[r], result)],
                  failures |-> [drain.failures EXCEPT ![e] = IF result = "delivered" THEN 0 ELSE drain.failures[e] + 1],
                  tried |-> drain.tried \cup {e}]
    BY <1>0, <1>1 DEF Send, Passes
  <2>3. drain' # None
    <3>1. [drain.failures EXCEPT ![e] = IF result = "delivered" THEN 0 ELSE drain.failures[e] + 1] \in [Endpoints -> Nat]
      BY <1>1 DEF Passes
    <3>2. [drain.result EXCEPT ![r] = Outcome(drain.noted[r], result)] \in [Rows -> Deliveries \cup {None}]
      BY <1>1, OutcomeOfDelivery DEF Passes
    <3>3. drain' \in Passes
      BY <1>1, <2>2, <3>1, <3>2 DEF Passes
    <3> QED
      BY <3>3
  <2> QED
    BY <2>2, <2>3 DEF Send, stored
<1>3. streak' = [streak EXCEPT ![e] = IF result = "delivered" THEN 0
                                      ELSE IF streak[e] < StopAfter THEN streak[e] + 1 ELSE streak[e]]
  BY <1>0, <1>1 DEF Send, Streaks
<1>4. streak \in [Endpoints -> Nat] /\ streak[e] \in 0..StopAfter
  BY DEF Streaks, Streak
<1>5. /\ streak' \in [Endpoints -> Nat]
      /\ streak'[e] = IF result = "delivered" THEN 0
                      ELSE IF streak[e] < StopAfter THEN streak[e] + 1 ELSE streak[e]
  BY <1>3, <1>4
<1>6. drain'.failures[e] = IF result = "delivered" THEN 0 ELSE drain.failures[e] + 1
  BY <1>1, <1>2 DEF Passes
<1>7. Streak(e)'
  <2>1. Streak(e) /\ drain.failures[e] \in Nat /\ e \in drain'.tried
    BY <1>1, <1>2 DEF Streaks, Passes
  <2>2. ~endpoint[e].stopped
    BY <1>0, <1>1, <2>1 DEF Streak
  <2>3. streak'[e] \in 0..StopAfter
    BY <1>4, <1>5
  <2>4. e \notin unsettled => AtMost(drain.failures[e], e)'
    BY <1>1, <1>2, <1>4, <1>5, <1>6, <2>1 DEF Streak, AtMost
  <2> QED
    BY <1>2, <2>1, <2>2, <2>3, <2>4 DEF Streak
<1>8. ASSUME NEW f \in Endpoints, f # e PROVE Streak(f)'
  <2>1. Streak(f)
    BY DEF Streaks
  <2>2. streak'[f] = streak[f] /\ drain'.failures[f] = drain.failures[f] /\ (f \in drain'.tried <=> f \in drain.tried)
    BY <1>1, <1>2, <1>3, <1>8 DEF Streaks, Passes
  <2> QED
    BY <1>1, <1>2, <2>1, <2>2 DEF Streak, AtMost
<1> QED
  BY <1>5, <1>7, <1>8 DEF Streaks

LEMMA WriteStreaks == ASSUME Inv, Streaks, Write PROVE Streaks'
<1>1. /\ drain # None /\ drain \in Passes /\ drain' = None /\ UNCHANGED <<streak, unsettled>>
      /\ endpoint' = [e \in Endpoints |-> Counted(e)]
  BY DEF Write, EndPass, Inv, Typed
<1>2. ASSUME NEW e \in Endpoints PROVE Streak(e)'
  <2>1. /\ Streak(e) /\ drain.failures[e] \in Nat
        /\ endpoint[e] \in [there : BOOLEAN, on : BOOLEAN, stopped : BOOLEAN, failures : Nat]
    BY <1>1 DEF Streaks, Passes, Inv, Typed
  <2>2. endpoint'[e] = Counted(e)
    BY <1>1
  <2>3. CASE e \notin drain.tried
    BY <1>1, <2>1, <2>2, <2>3 DEF Counted, Streak, AtMost
  <2>4. CASE e \in drain.tried /\ drain.failures[e] >= StopAfter /\ endpoint[e].on
    <3>1. endpoint'[e] = [endpoint[e] EXCEPT !.failures = drain.failures[e], !.on = FALSE, !.stopped = TRUE]
      BY <2>2, <2>4 DEF Counted
    <3>2. endpoint'[e].failures = drain.failures[e] /\ endpoint'[e].on = FALSE
      BY <2>1, <3>1
    <3>3. e \notin unsettled => streak[e] = StopAfter
      BY <1>1, <2>1, <2>4 DEF Streak, AtMost
    <3> QED
      BY <1>1, <2>1, <3>2, <3>3 DEF Streak, AtMost
  <2>5. CASE e \in drain.tried /\ ~(drain.failures[e] >= StopAfter /\ endpoint[e].on)
    <3>1. endpoint'[e] = [endpoint[e] EXCEPT !.failures = drain.failures[e]]
      BY <2>2, <2>5 DEF Counted
    <3>2. /\ endpoint'[e].failures = drain.failures[e] /\ endpoint'[e].on = endpoint[e].on
          /\ endpoint'[e].stopped = endpoint[e].stopped
      BY <2>1, <3>1
    <3> QED
      BY <1>1, <2>1, <3>2 DEF Streak, AtMost
  <2> QED
    BY <2>3, <2>4, <2>5
<1> QED
  BY <1>1, <1>2 DEF Streaks

(* A pass that is not noted: the stored failures may be too many for those   *)
(* it tried.                                                                *)
LEMMA ForgetStreaks ==
  ASSUME Streaks, drain # None, ForgetPass, drain' = None, UNCHANGED <<endpoint, streak>>
  PROVE  Streaks'
  BY DEF ForgetPass, Streaks, Streak, AtMost

LEMMA RestartStreaks == ASSUME Streaks, Restart PROVE Streaks'
<1>1. CASE drain # None
  BY <1>1, ForgetStreaks DEF Restart, stored
<1>2. CASE drain = None
  <2>1. UNCHANGED <<endpoint, drain, streak, unsettled>>
    BY <1>2 DEF Restart, stored
  <2> QED
    BY <2>1, QuietStreaks
<1> QED
  BY <1>1, <1>2

(* One endpoint has been changed by hand, and is not stopped then. *)
LEMMA ChangedStreaks ==
  ASSUME Inv, Streaks, NEW e \in Endpoints, NEW there \in BOOLEAN, NEW on \in BOOLEAN, NEW n \in Nat,
         endpoint' = [endpoint EXCEPT ![e] = [there |-> there, on |-> on, stopped |-> FALSE, failures |-> n]],
         UNCHANGED <<drain, streak, unsettled>>, n = endpoint[e].failures \/ n = 0
  PROVE  Streaks'
<1>1. ASSUME NEW f \in Endpoints, f # e PROVE Streak(f)'
  <2>1. Streak(f) /\ endpoint'[f] = endpoint[f]
    BY <1>1 DEF Streaks, Inv, Typed
  <2> QED
    BY <2>1 DEF Streak, AtMost
<1>2. Streak(e)'
  <2>1. Streak(e) /\ ~endpoint'[e].stopped /\ endpoint'[e].failures = n
    BY DEF Streaks, Inv, Typed
  <2> QED
    BY <2>1 DEF Streak, AtMost
<1> QED
  BY <1>1, <1>2 DEF Streaks

LEMMA SwitchOnStreaks == ASSUME Inv, Streaks, NEW e \in Endpoints, SwitchOn(e) PROVE Streaks'
<1>1. /\ endpoint' = [endpoint EXCEPT ![e] = [there |-> TRUE, on |-> TRUE, stopped |-> FALSE, failures |-> 0]]
      /\ streak' = [streak EXCEPT ![e] = 0] /\ drain' = drain
      /\ unsettled' = IF drain # None THEN unsettled \cup {e} ELSE unsettled \ {e}
  BY DEF SwitchOn
<1>2. ASSUME NEW f \in Endpoints, f # e PROVE Streak(f)'
  <2>1. Streak(f) /\ endpoint'[f] = endpoint[f] /\ streak'[f] = streak[f] /\ (f \in unsettled' <=> f \in unsettled)
    BY <1>1, <1>2 DEF Streaks, Inv, Typed
  <2> QED
    BY <1>1, <2>1 DEF Streak, AtMost
<1>3. Streak(e)'
  <2>1. /\ ~endpoint'[e].stopped /\ endpoint'[e].failures = 0 /\ streak'[e] = 0
        /\ drain # None => e \in unsettled'
    BY <1>1 DEF Streaks, Inv, Typed
  <2> QED
    BY <1>1, <2>1 DEF Streak, AtMost
<1> QED
  BY <1>1, <1>2, <1>3 DEF Streaks

LEMMA NextStreaks == ASSUME Inv, Streaks, [Next]_vars PROVE Streaks'
<1>1. CASE Drain
  BY <1>1, BeginStreaks, SendStreaks, WriteStreaks DEF Drain
<1>2. CASE WriteFails
  BY <1>2, ForgetStreaks DEF WriteFails, EndPass, stored
<1>3. ASSUME NEW e \in Endpoints, Queue(e) \/ QueueUnsaved(e) \/ SwitchOn(e) \/ SwitchOff(e) \/ Remove(e) PROVE Streaks'
  <2>1. CASE Queue(e) \/ QueueUnsaved(e)
    BY <2>1, QuietStreaks DEF Queue, QueueUnsaved, history
  <2>2. CASE SwitchOff(e)
    <3>1. endpoint[e].failures \in Nat
      BY DEF Inv, Typed
    <3> QED
      BY <2>2, <3>1, ChangedStreaks DEF SwitchOff, history
  <2>3. CASE Remove(e)
    BY <2>3, ChangedStreaks DEF Remove, history
  <2> QED
    BY <1>3, <2>1, <2>2, <2>3, SwitchOnStreaks
<1>4. ASSUME NEW r \in Rows, BackOffEnds(r) \/ Retry(r) PROVE Streaks'
  BY <1>4, QuietStreaks DEF BackOffEnds, Retry, history
<1>5. CASE Sweep \/ Saves \/ UNCHANGED vars
  BY <1>5, QuietStreaks DEF Sweep, Saves, stored, history, vars
<1> QED
  BY <1>1, <1>2, <1>3, <1>4, <1>5, RestartStreaks DEF Next

LEMMA InitStreaks == ASSUME Init PROVE Streaks
  BY DEF Init, Streaks, Streak, AtMost

----------------------------------------------------------------------------
(* The invariant holds of every state a drain, its faults and the people    *)
(* around it can reach.                                                     *)
THEOREM DrainIsSound == Spec => [](Inv /\ Shapes /\ SavedOK /\ Streaks)
<1>1. Init => Inv /\ Shapes /\ SavedOK /\ Streaks
  BY InitIsSound, InitShapes, InitSaved, InitStreaks
<1>2. Inv /\ Shapes /\ SavedOK /\ Streaks /\ [Next]_vars => (Inv /\ Shapes /\ SavedOK /\ Streaks)'
  BY NextKeeps, ShapesKept, NextSaved, NextStreaks
<1> QED
  BY <1>1, <1>2, PTL DEF Spec

(* For any number of rows, endpoints, attempts and failures: an event goes  *)
(* out twice only if nobody could know that it had arrived                  *)
(* (webhook-dispatch.mjs, runDrain).                                        *)
THEOREM NeverTwiceKnowingly == Spec => []TwiceOnlyInDoubt
<1>1. Inv /\ Shapes /\ SavedOK /\ Streaks => TwiceOnlyInDoubt
  BY DEF Inv, TwiceOnlyInDoubt
<1> QED
  BY <1>1, DrainIsSound, PTL

(* Types; the list never holds more than MAX_DELIVERIES_PER_TENANT rows; no *)
(* row is tried more often than it should be, only a failed one waits.      *)
THEOREM CapAlwaysHolds == Spec => []WebhookTypeOK
<1>1. Inv /\ Shapes /\ SavedOK /\ Streaks => WebhookTypeOK
  BY DEF Inv, Typed, Shapes, Shape, Streaks, Streak, WebhookTypeOK, Kept
<1> QED
  BY <1>1, DrainIsSound, PTL

(* An endpoint stops by itself only after DISABLE_AFTER_FAILURES failures   *)
(* in a row, for any number of passes, faults and interventions, except     *)
(* after a switch in the middle of a pass or a pass that was not noted.     *)
THEOREM StopIsAlwaysEarned == Spec => []StopIsEarned
<1>1. Streaks => StopIsEarned
  BY DEF Streaks, Streak, StopIsEarned
<1> QED
  BY <1>1, DrainIsSound, PTL

(* What a step may forget. *)
Remembers ==
    /\ \A r \in OpenRows(row) : row'[r] = None =>
          Cardinality(OpenRows(row')) = MaxRows \/ (saved[r] = None /\ row' = saved)
    /\ \A r \in Kept : row[r].status = "delivered" /\ row'[r] # None => row'[r] = row[r]

LEMMA QueueRemembers ==
  ASSUME Inv, NEW e \in Endpoints, Queue(e) \/ QueueUnsaved(e)
  PROVE  Remembers
<1> DEFINE new == [to |-> e, status |-> "pending", attempts |-> 0, waits |-> FALSE]
           rows == [row EXCEPT ![queued + 1] = new]
<1>0. queued < LastRow /\ queued + 1 \in Rows
  <2>1. queued < LastRow
    BY DEF Queue, QueueUnsaved
  <2> QED
    BY <2>1 DEF Inv, Typed
<1>1. queued + 1 \in Rows /\ rows \in [Rows -> Deliveries \cup {None}] /\ row[queued + 1] = None
  BY <1>0 DEF Inv, Typed, Deliveries
<1>2. row' = Capped(rows)
  BY DEF Queue, QueueUnsaved, Added
<1> HIDE DEF new
<1>3. \A r \in Rows : row[r] # None => rows[r] = row[r]
  BY <1>1 DEF Inv, Typed
<1>4. OpenRows(row) \in SUBSET OpenRows(rows)
  BY <1>3 DEF OpenRows
<1>5. \A r \in OpenRows(row) : row'[r] = None => Cardinality(OpenRows(row')) = MaxRows
  <2> HIDE DEF rows
  <2> QED
    BY <1>1, <1>2, <1>4, CapCounts
<1>6. \A r \in Kept : row'[r] # None => row'[r] = row[r]
  BY <1>1, <1>2, <1>3, CapDropsOrKeeps DEF Kept
<1> QED
  BY <1>5, <1>6 DEF Remembers

LEMMA OthersRemember ==
  ASSUME \A r \in Rows : row[r] # None => row'[r] # None /\ (row[r].status = "delivered" => row'[r] = row[r])
  PROVE  Remembers
  BY DEF Remembers, OpenRows, Kept

LEMMA RestartRemembers == ASSUME SavedOK, Restart PROVE Remembers
  BY DEF Restart, SavedOK, Remembers, OpenRows, Kept

LEMMA NextRemembers == ASSUME Inv, Shapes, SavedOK, Next PROVE Remembers \/ UNCHANGED row
<1>1. CASE Write
  <2>1. PassOK /\ row' = Overlay
    BY <1>1 DEF Write, Inv
  <2>2. \A r \in Rows : row'[r] = IF row[r] # None /\ drain.result[r] # None THEN drain.result[r] ELSE row[r]
    BY <2>1 DEF Overlay
  <2> QED
    BY <2>1, <2>2, OthersRemember DEF PassOK, Delivered
<1>2. ASSUME NEW r \in Rows, BackOffEnds(r) PROVE Remembers
  <2>1. row[r] # None /\ row[r].status # "delivered" /\ row[r] \in Deliveries
    BY <1>2 DEF BackOffEnds, Kept, Shapes, Shape, Inv, Typed
  <2>2. As(r, row[r].status, row[r].attempts) \in Deliveries
    BY <2>1 DEF As, Deliveries
  <2>3. \A s \in Rows : row'[s] = IF s = r THEN As(r, row[r].status, row[r].attempts) ELSE row[s]
    BY <1>2 DEF BackOffEnds, Inv, Typed
  <2> QED
    BY <2>1, <2>2, <2>3, OthersRemember
<1>3. ASSUME NEW r \in Rows, Retry(r) PROVE Remembers
  <2>1. row[r] # None /\ row[r].status # "delivered" /\ row[r] \in Deliveries
    BY <1>3 DEF Retry, Kept, Inv, Typed
  <2>2. As(r, "pending", 0) \in Deliveries
    BY <2>1 DEF As, Deliveries
  <2>3. \A s \in Rows : row'[s] = IF s = r THEN As(r, "pending", 0) ELSE row[s]
    BY <1>3 DEF Retry, Inv, Typed
  <2> QED
    BY <2>1, <2>2, <2>3, OthersRemember
<1>4. ASSUME NEW e \in Endpoints, Remove(e) PROVE Remembers
  <2>1. ASSUME NEW r \in OpenRows(row)
        PROVE  row[r].status # "delivered" /\ As(r, "gave-up", row[r].attempts) \in Deliveries
    <3>1. row[r] \in Deliveries /\ row[r].status \in Open
      BY DEF OpenRows, Inv, Typed
    <3> QED
      BY <3>1 DEF As, Deliveries, Open
  <2>2. \A r \in Rows : row'[r] = IF r \in OpenRows(row) /\ row[r].to = e
                                  THEN As(r, "gave-up", row[r].attempts) ELSE row[r]
    BY <1>4 DEF Remove
  <2> QED
    BY <2>1, <2>2, OthersRemember
<1>5. CASE Begin \/ Sweep \/ Saves \/ WriteFails
  BY <1>5 DEF Begin, Sweep, Saves, WriteFails, stored
<1>6. ASSUME NEW r \in Rows, NEW result \in {"delivered", "failed", "gave-up"}, NEW arrived \in BOOLEAN,
             Send(r, result, arrived)
      PROVE  UNCHANGED row
  BY <1>6 DEF Send, stored
<1>7. ASSUME NEW e \in Endpoints, SwitchOn(e) \/ SwitchOff(e) PROVE UNCHANGED row
  BY <1>7 DEF SwitchOn, SwitchOff
<1> QED
  BY <1>1, <1>2, <1>3, <1>4, <1>5, <1>6, <1>7, QueueRemembers, RestartRemembers DEF Next, Drain

(* No step drops an open row but the cap, and a restart of what was never   *)
(* committed; and none opens what is delivered  *)
(* (the pass that writes its outcomes over a list that has changed, a       *)
(* removal, a retry by hand).                                               *)
THEOREM NothingIsForgotten == Spec => NothingForgotten
<1>1. Inv /\ Shapes /\ SavedOK /\ Streaks /\ [Next]_vars =>
        [/\ \A r \in OpenRows(row) : row'[r] = None =>
               Cardinality(OpenRows(row')) = MaxRows \/ (saved[r] = None /\ row' = saved)
         /\ \A r \in Kept : row[r].status = "delivered" /\ row'[r] # None => row'[r] = row[r]]_vars
  <2> SUFFICES ASSUME Inv, Shapes, SavedOK, Next PROVE Remembers
    BY DEF Remembers
  <2>1. CASE UNCHANGED row
    BY <2>1 DEF Remembers, OpenRows
  <2> QED
    BY <2>1, NextRemembers
<1> QED
  BY <1>1, DrainIsSound, PTL DEF Spec, NothingForgotten
=============================================================================
