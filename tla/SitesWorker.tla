----------------------------- MODULE SitesWorker -----------------------------
(***************************************************************************)
(* The worker that serves the API in the Sites deployment                  *)
(* (worker/index.mjs).  The whole state is one row of a D1 database with a *)
(* revision; the files are objects of an R2 bucket.  A request takes the   *)
(* request lock, a lease that its heartbeat renews, reads the row, lets    *)
(* the application of server/app.mjs work on its copy, puts an uploaded    *)
(* file into the bucket, asks whether the lock is still its own, and swaps *)
(* the row if the revision is still the one it read; then it removes a     *)
(* deleted file, and where that fails it swaps back.                       *)
(*                                                                         *)
(* Every step on the database or the bucket is an action, and between any  *)
(* two of them the lease may run out, another request may take the lock,   *)
(* and the isolate may be evicted.  The state is the table of the          *)
(* documents and which requests have changed it; a request that makes a    *)
(* document makes the one that bears its number.  The rate limits of the   *)
(* log-in routes and the set-up of the tables are left out.                *)
(***************************************************************************)
EXTENDS Naturals, FiniteSets

CONSTANTS
    Requests,    \* requests, and runs of the cron trigger
    Old,         \* a document that was there before
    Asks,        \* what they may ask for
    MaxFaults,   \* bound: failing calls of D1 and R2
    MaxStops,    \* bound: evicted isolates
    None

Ids == Requests \cup {Old}

(* "generate": the application makes a document itself, such as the        *)
(* evidence of an approval, and writes its file to the directory of the    *)
(* isolate only.                                                           *)
Kinds == {"read", "write", "upload", "generate", "trash", "purge", "restore"}

ASSUME SitesAssumption ==
    /\ Old \notin Requests /\ None \notin Ids
    /\ Asks \subseteq [kind : Kinds, id : Ids]
    /\ MaxFaults \in Nat /\ MaxStops \in Nat

VARIABLES
    stored,   \* app_state: revision and payload
    objects,  \* the bucket
    lock,     \* request_locks: the owner, and whether its lease is running
    pc,       \* where a request is
    asked,    \* what it asks for
    snap,     \* the row as it has read it
    lost,     \* requests whose heartbeat found that the lock was taken
    answer,   \* what was answered
    faults, stops,  \* bounds: how often so far
    unheard,   \* history: requests whose swap threw
    overtaken, \* history: requests whose swap back came too late
    trashed,   \* history: documents that have been in the trash
    generated  \* history: documents that the application made

disk == <<stored, objects>>
counters == <<faults, stops>>
history == <<unheard, overtaken, trashed, generated>>
vars == <<disk, lock, pc, asked, snap, lost, answer, counters, history>>

Rows == [Ids -> {"none", "kept", "trashed"}]
States == [revision : Nat, rows : Rows, done : SUBSET Requests]

First == [revision |-> 1, rows |-> [id \in Ids |-> IF id = Old THEN "kept" ELSE "none"], done |-> {}]
Nothing == [kind |-> "read", id |-> Old]

Init ==
    /\ stored = First
    /\ objects = {Old}
    /\ lock = [owner |-> None, running |-> FALSE]
    /\ pc = [r \in Requests |-> "waiting"]
    /\ asked = [r \in Requests |-> Nothing]
    /\ snap = [r \in Requests |-> First]
    /\ lost = {} /\ answer = [r \in Requests |-> "none"]
    /\ faults = 0 /\ stops = 0
    /\ unheard = {} /\ overtaken = {} /\ trashed = {} /\ generated = {}

----------------------------------------------------------------------------
(* What the application makes of a state (server/app.mjs): a file goes to   *)
(* the trash, from there it is restored or deleted for good.  Anything else *)
(* it refuses, and changes nothing.                                         *)
Accepts(ask, state) ==
    CASE ask.kind \in {"write", "upload", "generate"} -> TRUE
      [] ask.kind = "trash" -> state.rows[ask.id] = "kept"
      [] ask.kind \in {"purge", "restore"} -> state.rows[ask.id] = "trashed"
      [] OTHER -> FALSE

RowAfter(ask) ==
    CASE ask.kind \in {"upload", "generate", "restore"} -> "kept"
      [] ask.kind = "trash" -> "trashed"
      [] OTHER -> "none"

Target(r, ask) == IF ask.kind \in {"upload", "generate"} THEN r ELSE ask.id

Worked(r, ask, state) ==
    [revision |-> state.revision + 1,
     rows |-> IF ask.kind = "write" THEN state.rows
              ELSE [id \in Ids |-> IF id = Target(r, ask) THEN RowAfter(ask) ELSE state.rows[id]],
     done |-> state.done \cup {r}]

After(r) == Worked(r, asked[r], snap[r])

----------------------------------------------------------------------------
To(r, place) == pc' = [pc EXCEPT ![r] = place]
Answers(r, what) == answer' = [answer EXCEPT ![r] = what] /\ To(r, "ending")
Forgets(r) ==
    /\ asked' = [asked EXCEPT ![r] = Nothing] /\ snap' = [snap EXCEPT ![r] = First]
    /\ lost' = lost \ {r}
Faulty == faults < MaxFaults /\ faults' = faults + 1

(* acquireRequestLock *)
Takeable == lock.owner = None \/ ~lock.running

Acquire(r, ask) ==
    /\ pc[r] = "waiting" /\ Takeable
    /\ lock' = [owner |-> r, running |-> TRUE]
    /\ asked' = [asked EXCEPT ![r] = ask]
    /\ To(r, "locked")
    /\ UNCHANGED <<disk, snap, lost, answer, counters, history>>

Busy(r) ==
    /\ pc[r] = "waiting" /\ ~Takeable
    /\ answer' = [answer EXCEPT ![r] = "busy"] /\ To(r, "done")
    /\ UNCHANGED <<disk, lock, asked, snap, lost, counters, history>>

(* The heartbeat renews the lease, also one that has run out, as long as    *)
(* nobody else has taken the lock.                                          *)
Working(r) == pc[r] \in {"locked", "loaded", "staged", "checked", "swapped", "undoing"}

Beat(r) ==
    /\ Working(r)
    /\ IF lock.owner = r THEN lock' = [owner |-> r, running |-> TRUE] /\ UNCHANGED lost
                         ELSE lost' = lost \cup {r} /\ UNCHANGED lock
    /\ UNCHANGED <<disk, pc, asked, snap, answer, counters, history>>

LeaseEnds ==
    /\ lock.running
    /\ lock' = [owner |-> lock.owner, running |-> FALSE]
    /\ UNCHANGED <<disk, pc, asked, snap, lost, answer, counters, history>>

(* loadRuntimeState *)
Load(r) ==
    /\ pc[r] = "locked"
    /\ snap' = [snap EXCEPT ![r] = stored]
    /\ To(r, "loaded")
    /\ UNCHANGED <<disk, lock, asked, lost, answer, counters, history>>

(* The application works on the copy; then an uploaded file, and no other,  *)
(* is put into the bucket (prepareBinaryMutation, stagedR2Put).             *)
MutStaged(r) == objects

Staged(r) == IF asked[r].kind = "upload" THEN objects \cup {r} ELSE objects
Unstaged(r) == IF asked[r].kind = "upload" THEN objects \ {r} ELSE objects

Stage(r) ==
    /\ pc[r] = "loaded"
    /\ objects' = Staged(r)
    /\ To(r, "staged")
    /\ UNCHANGED <<stored, lock, asked, snap, lost, answer, counters, history>>

StageFails(r) ==
    /\ pc[r] = "loaded" /\ asked[r].kind = "upload" /\ Faulty
    /\ objects' \in {objects, Staged(r)}
    /\ Answers(r, "error")
    /\ UNCHANGED <<stored, lock, asked, snap, lost, stops, history>>

(* assertHealthy: the heartbeat has found nothing, and the lease is running *)
(* in its own name.                                                         *)
Healthy(r) == r \notin lost /\ lock.owner = r /\ lock.running

Check(r) ==
    /\ pc[r] = "staged" /\ Healthy(r)
    /\ IF Accepts(asked[r], snap[r]) THEN To(r, "checked") /\ UNCHANGED answer
                                     ELSE Answers(r, "unchanged")
    /\ UNCHANGED <<disk, lock, asked, snap, lost, counters, history>>

LockLost(r) ==
    /\ pc[r] = "staged" /\ ~Healthy(r)
    /\ objects' = Unstaged(r)
    /\ Answers(r, "lost")
    /\ UNCHANGED <<stored, lock, asked, snap, lost, counters, history>>

(* Another error there is answered without taking the file back. *)
CheckFails(r) ==
    /\ pc[r] = "staged" /\ Faulty
    /\ Answers(r, "error")
    /\ UNCHANGED <<disk, lock, asked, snap, lost, stops, history>>

(* compareAndSwapState *)
MutSameRevision(r, revision) == TRUE

SameRevision(r, revision) == stored.revision = revision

Swapped(r) ==
    /\ stored' = After(r)
    /\ trashed' = IF asked[r].kind = "trash" THEN trashed \cup {asked[r].id} ELSE trashed
    /\ generated' = IF asked[r].kind = "generate" THEN generated \cup {r} ELSE generated

Swap(r) ==
    /\ pc[r] = "checked" /\ SameRevision(r, snap[r].revision)
    /\ Swapped(r)
    /\ To(r, "swapped")
    /\ UNCHANGED <<objects, lock, asked, snap, lost, answer, counters, unheard, overtaken>>

Conflict(r) ==
    /\ pc[r] = "checked" /\ ~SameRevision(r, snap[r].revision)
    /\ objects' = Unstaged(r)
    /\ Answers(r, "conflict")
    /\ UNCHANGED <<stored, lock, asked, snap, lost, counters, history>>

(* The call throws; whether the row was written is not known.               *)
SwapThrows(r) ==
    /\ pc[r] = "checked" /\ Faulty
    /\ \/ SameRevision(r, snap[r].revision) /\ Swapped(r)
       \/ UNCHANGED <<stored, trashed, generated>>
    /\ objects' = Unstaged(r)
    /\ unheard' = unheard \cup {r}
    /\ Answers(r, "error")
    /\ UNCHANGED <<lock, asked, snap, lost, stops, overtaken>>

(* commitAfterState: a DELETE of a document, to the trash or for good,      *)
(* removes the object.                                                      *)
Removes(r) == asked[r].kind \in {"trash", "purge"}

Finish(r) ==
    /\ pc[r] = "swapped"
    /\ objects' = IF Removes(r) THEN objects \ {asked[r].id} ELSE objects
    /\ Answers(r, "saved")
    /\ UNCHANGED <<stored, lock, asked, snap, lost, counters, history>>

(* It fails, and the object is put back, which may fail as well ...         *)
RemoveFails(r) ==
    /\ pc[r] = "swapped" /\ Removes(r) /\ Faulty
    /\ objects' \in {objects, objects \ {asked[r].id}}
    /\ To(r, "undoing")
    /\ UNCHANGED <<stored, lock, asked, snap, lost, answer, stops, history>>

(* ... and so is the row, unless someone else has written it since.         *)
MutTakenBack(r) == [revision |-> snap[r].revision + 2, rows |-> snap[r].rows, done |-> snap[r].done \cup {r}]

TakenBack(r) == [revision |-> snap[r].revision + 2, rows |-> snap[r].rows, done |-> snap[r].done]

SwapBack(r) ==
    /\ pc[r] = "undoing"
    /\ IF SameRevision(r, snap[r].revision + 1)
       THEN /\ stored' = TakenBack(r)
            /\ UNCHANGED overtaken
       ELSE overtaken' = overtaken \cup {r} /\ UNCHANGED stored
    /\ Answers(r, "notSaved")
    /\ UNCHANGED <<objects, lock, asked, snap, lost, counters, unheard, trashed, generated>>

(* finally: the heartbeat is stopped, the lock released if it is one's own. *)
Release(r) ==
    /\ pc[r] = "ending"
    /\ lock' = IF lock.owner = r THEN [owner |-> None, running |-> FALSE] ELSE lock
    /\ To(r, "done") /\ Forgets(r)
    /\ UNCHANGED <<disk, answer, counters, history>>

(* The isolate is evicted. *)
Stop(r) ==
    /\ Working(r) \/ pc[r] = "ending"
    /\ stops < MaxStops /\ stops' = stops + 1
    /\ To(r, "dead") /\ Forgets(r)
    /\ UNCHANGED <<disk, lock, answer, faults, history>>

Step(r) ==
    \/ \E ask \in Asks : Acquire(r, ask)
    \/ Load(r) \/ Stage(r) \/ Check(r) \/ LockLost(r) \/ Swap(r) \/ Conflict(r)
    \/ Finish(r) \/ SwapBack(r) \/ Release(r)

Fault(r) == StageFails(r) \/ CheckFails(r) \/ SwapThrows(r) \/ RemoveFails(r) \/ Stop(r)

Next == LeaseEnds \/ \E r \in Requests : Step(r) \/ Busy(r) \/ Beat(r) \/ Fault(r)

Spec == Init /\ [][Next]_vars

----------------------------------------------------------------------------
(* The state, the lock and the requests keep to their types.               *)
SitesTypeOK ==
    /\ stored \in States /\ objects \subseteq Ids
    /\ lock \in [owner : Requests \cup {None}, running : BOOLEAN]
    /\ pc \in [Requests -> {"waiting", "locked", "loaded", "staged", "checked", "swapped", "undoing",
                            "ending", "done", "dead"}]
    /\ asked \in [Requests -> [kind : Kinds, id : Ids]] /\ snap \in [Requests -> States]
    /\ lost \subseteq Requests
    /\ answer \in [Requests -> {"none", "busy", "unchanged", "lost", "error", "conflict", "saved", "notSaved"}]
    /\ faults \in 0..MaxFaults /\ stops \in 0..MaxStops
    /\ unheard \subseteq Requests /\ overtaken \subseteq Requests
    /\ trashed \subseteq Ids /\ generated \subseteq Requests

(* What was answered with success is in the state and stays there, although *)
(* the lock may have changed hands at any moment.                           *)
SavedIsStored == \A r \in Requests : answer[r] = "saved" => r \in stored.done

(* What was answered with an error is not in the state, unless its swap was *)
(* not heard of, or its swap back came too late.                            *)
RefusedIsNowhere ==
    \A r \in Requests :
        answer[r] \in {"busy", "unchanged", "lost", "error", "conflict", "notSaved"} /\ r \in stored.done
            => r \in unheard \cup overtaken

Serial(r) ==
    \/ stored' = Worked(r, asked[r], stored)
    \/ stored = Worked(r, asked[r], snap[r]) /\ stored' = TakenBack(r)

(* The requests change the state one after the other: every change is the   *)
(* work of one request on the state as it stood, or takes the last one back.*)
OneAfterTheOther == [][stored' # stored => \E r \in Requests : Serial(r)]_vars

(* A document that was uploaded, is listed and was never in the trash has   *)
(* its file, whatever lock, lease or call failed on the way, but for an     *)
(* upload whose swap was not heard of.  Nothing is said of the documents    *)
(* that the application makes: their files do not reach the bucket.         *)
FileIsThere ==
    \A id \in Ids :
        stored.rows[id] = "kept" /\ id \notin trashed \cup unheard \cup generated => id \in objects

(* The same of a document in the trash, or restored from it (app.mjs:3314:  *)
(* the file stays as it is, so that a restored document works as before).   *)
TrashKeepsFile ==
    \A id \in Ids : stored.rows[id] # "none" /\ id \notin unheard \cup generated => id \in objects
=============================================================================
