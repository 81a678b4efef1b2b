----------------------------- MODULE SitesProofs -----------------------------
(***************************************************************************)
(* SavedIsStored, RefusedIsNowhere, OneAfterTheOther and FileIsThere for   *)
(* any number of requests. None of them rests on the lock: what carries the*)
(* first three is that a request that has read the row of the current      *)
(* revision has read the current row, and that a request that has swapped  *)
(* it finds its own work there as long as the revision is the one it left. *)
(* FileIsThere holds of every table that anybody still holds, the one that *)
(* was read and may be put back included.                                  *)
(***************************************************************************)
EXTENDS SitesWorker, TLAPS

USE SitesAssumption

Places == {"waiting", "locked", "loaded", "staged", "checked", "swapped", "undoing", "ending", "done", "dead"}
Refusals == {"busy", "unchanged", "lost", "error", "conflict", "notSaved"}

Typed ==
    /\ stored \in States
    /\ pc \in [Requests -> Places]
    /\ asked \in [Requests -> [kind : Kinds, id : Ids]]
    /\ snap \in [Requests -> States]
    /\ answer \in [Requests -> Refusals \cup {"none", "saved"}]

(* What holds of one request. *)
NotYet(r) == pc[r] \in {"waiting", "locked", "loaded", "staged", "checked"} => r \notin stored.done
Noted(r) == pc[r] \in {"loaded", "staged", "checked", "swapped", "undoing"}
                => r \notin snap[r].done /\ snap[r].revision <= stored.revision
Current(r) == pc[r] \in {"loaded", "staged", "checked"} /\ snap[r].revision = stored.revision => snap[r] = stored
Mine(r) == pc[r] \in {"swapped", "undoing"}
               => /\ r \in stored.done /\ snap[r].revision < stored.revision
                  /\ stored.revision = snap[r].revision + 1 => stored = After(r)
Silent(r) == pc[r] \notin {"ending", "done", "dead"} => answer[r] = "none"
Saved(r) == answer[r] = "saved" => r \in stored.done
Refused(r) == answer[r] \in Refusals /\ r \in stored.done => r \in unheard \cup overtaken

Local(r) == NotYet(r) /\ Noted(r) /\ Current(r) /\ Mine(r) /\ Silent(r) /\ Saved(r) /\ Refused(r)

Inv == Typed /\ \A r \in Requests : Local(r)

----------------------------------------------------------------------------
LEMMA WorkedIsAState ==
  ASSUME NEW r \in Requests, NEW ask \in [kind : Kinds, id : Ids], NEW state \in States
  PROVE  /\ Worked(r, ask, state) \in States
         /\ Worked(r, ask, state).revision = state.revision + 1
         /\ Worked(r, ask, state).done = state.done \cup {r}
<1>1. RowAfter(ask) \in {"none", "kept", "trashed"}
  BY DEF RowAfter
<1>2. [id \in Ids |-> IF id = Target(r, ask) THEN RowAfter(ask) ELSE state.rows[id]] \in Rows
  BY <1>1 DEF States, Rows
<1> QED
  BY <1>2 DEF Worked, States

LEMMA FirstIsAState == First \in States /\ Nothing \in [kind : Kinds, id : Ids]
  BY DEF First, Nothing, States, Rows, Ids, Kinds

(* What a step of one request does to the row. *)
Rewrites(r) ==
    \/ stored' = stored
    \/ pc[r] = "checked" /\ stored.revision = snap[r].revision /\ stored' = After(r)
    \/ pc[r] = "undoing" /\ stored.revision = snap[r].revision + 1 /\ stored' = TakenBack(r)

(* What it leaves to the others. *)
Spares(r) ==
    /\ \A q \in Requests \ {r} : pc'[q] = pc[q] /\ asked'[q] = asked[q] /\ snap'[q] = snap[q] /\ answer'[q] = answer[q]
    /\ unheard \subseteq unheard' /\ overtaken \subseteq overtaken'

LEMMA RewritesTyped ==
  ASSUME Inv, NEW r \in Requests, Rewrites(r)
  PROVE  /\ stored' \in States
         /\ stored' # stored => stored'.revision = stored.revision + 1
         /\ stored'.done \subseteq stored.done \cup {r}
         /\ stored.done \subseteq stored'.done \cup {r}
<1> stored \in States /\ snap[r] \in States /\ asked[r] \in [kind : Kinds, id : Ids]
  BY DEF Inv, Typed
<1>1. CASE stored' = stored
  BY <1>1
<1>2. CASE pc[r] = "checked" /\ stored.revision = snap[r].revision /\ stored' = After(r)
  <2>1. snap[r] = stored
    BY <1>2 DEF Inv, Local, Current
  <2> QED
    BY <1>2, <2>1, WorkedIsAState DEF After
<1>3. CASE pc[r] = "undoing" /\ stored.revision = snap[r].revision + 1 /\ stored' = TakenBack(r)
  <2>1. stored = After(r)
    BY <1>3 DEF Inv, Local, Mine
  <2>2. stored.done = snap[r].done \cup {r}
    BY <2>1, WorkedIsAState DEF After
  <2>3. stored' = [revision |-> snap[r].revision + 2, rows |-> snap[r].rows, done |-> snap[r].done]
    BY <1>3 DEF TakenBack
  <2> QED
    BY <1>3, <2>2, <2>3 DEF States
<1> QED
  BY <1>1, <1>2, <1>3 DEF Rewrites

LEMMA OthersKeep ==
  ASSUME Inv, NEW r \in Requests, Rewrites(r), Spares(r)
  PROVE  \A q \in Requests \ {r} : Local(q)'
<1> SUFFICES ASSUME NEW q \in Requests \ {r} PROVE Local(q)'
  OBVIOUS
<1>1. /\ stored \in States /\ stored' \in States /\ snap[q] \in States
      /\ stored' # stored => stored'.revision = stored.revision + 1
      /\ q \in stored'.done <=> q \in stored.done
  BY RewritesTyped DEF Inv, Typed
<1>2. pc'[q] = pc[q] /\ asked'[q] = asked[q] /\ snap'[q] = snap[q] /\ answer'[q] = answer[q]
  BY DEF Spares
<1>3. Local(q)
  BY DEF Inv
<1>4. stored.revision \in Nat /\ stored'.revision \in Nat /\ snap[q].revision \in Nat
  BY <1>1 DEF States
<1>5. NotYet(q)' /\ Silent(q)' /\ Saved(q)'
  BY <1>1, <1>2, <1>3 DEF Local, NotYet, Silent, Saved
<1>6. Noted(q)'
  BY <1>1, <1>2, <1>3, <1>4 DEF Local, Noted
<1>7. Current(q)'
  BY <1>1, <1>2, <1>3, <1>4 DEF Local, Current, Noted
<1>8. Mine(q)'
  <2>1. After(q)' = After(q)
    BY <1>2 DEF After, Worked
  <2> QED
    BY <2>1, <1>1, <1>2, <1>3, <1>4 DEF Local, Mine
<1>9. Refused(q)'
  BY <1>1, <1>2, <1>3 DEF Local, Refused, Spares
<1> QED
  BY <1>5, <1>6, <1>7, <1>8, <1>9 DEF Local

LEMMA StepKeeps ==
  ASSUME Inv, NEW r \in Requests, Rewrites(r), Spares(r), Typed', Local(r)'
  PROVE  Inv'
<1>1. \A q \in Requests \ {r} : Local(q)'
  BY OthersKeep
<1> QED
  BY <1>1 DEF Inv

----------------------------------------------------------------------------
(* The steps of one request. *)
LEMMA AcquireKeeps == ASSUME Inv, NEW r \in Requests, NEW ask \in Asks, Acquire(r, ask) PROVE Inv'
<1> USE DEF Acquire, To, disk, counters, history
<1>1. Rewrites(r) /\ Spares(r)
  BY DEF Inv, Typed, Rewrites, Spares
<1>2. Typed'
  BY FirstIsAState DEF Inv, Typed, Places, Refusals
<1>3. Local(r)'
  BY FirstIsAState DEF Inv, Typed, Local, NotYet, Noted, Current, Mine, Silent, Saved, Refused, Refusals, States
<1> QED
  BY <1>1, <1>2, <1>3, StepKeeps

LEMMA BusyKeeps == ASSUME Inv, NEW r \in Requests, Busy(r) PROVE Inv'
<1> USE DEF Busy, To, disk, counters, history
<1>1. Rewrites(r) /\ Spares(r)
  BY DEF Inv, Typed, Rewrites, Spares
<1>2. Typed'
  BY FirstIsAState DEF Inv, Typed, Places, Refusals
<1>3. Local(r)'
  BY FirstIsAState DEF Inv, Typed, Local, NotYet, Noted, Current, Mine, Silent, Saved, Refused, Refusals, States
<1> QED
  BY <1>1, <1>2, <1>3, StepKeeps

LEMMA BeatKeeps == ASSUME Inv, NEW r \in Requests, Beat(r) PROVE Inv'
<1> USE DEF Beat, disk, counters, history
<1>1. Rewrites(r) /\ Spares(r)
  BY DEF Inv, Typed, Rewrites, Spares
<1>2. Typed'
  BY FirstIsAState DEF Inv, Typed, Places, Refusals
<1>3. After(r)' = After(r)
  BY DEF After, Worked
<1>4. Local(r)'
  BY <1>3 DEF Inv, Local, NotYet, Noted, Current, Mine, Silent, Saved, Refused, Refusals
<1> QED
  BY <1>1, <1>2, <1>4, StepKeeps

LEMMA LoadKeeps == ASSUME Inv, NEW r \in Requests, Load(r) PROVE Inv'
<1> USE DEF Load, To, disk, counters, history
<1>1. Rewrites(r) /\ Spares(r)
  BY DEF Inv, Typed, Rewrites, Spares
<1>2. Typed'
  BY FirstIsAState DEF Inv, Typed, Places, Refusals
<1>3. Local(r)'
  BY FirstIsAState DEF Inv, Typed, Local, NotYet, Noted, Current, Mine, Silent, Saved, Refused, Refusals, States
<1> QED
  BY <1>1, <1>2, <1>3, StepKeeps

LEMMA StageKeeps == ASSUME Inv, NEW r \in Requests, Stage(r) PROVE Inv'
<1> USE DEF Stage, To, disk, counters, history
<1>1. Rewrites(r) /\ Spares(r)
  BY DEF Inv, Typed, Rewrites, Spares
<1>2. Typed'
  BY FirstIsAState DEF Inv, Typed, Places, Refusals
<1>3. Local(r)'
  BY FirstIsAState DEF Inv, Typed, Local, NotYet, Noted, Current, Mine, Silent, Saved, Refused, Refusals, States
<1> QED
  BY <1>1, <1>2, <1>3, StepKeeps

LEMMA StageFailsKeeps == ASSUME Inv, NEW r \in Requests, StageFails(r) PROVE Inv'
<1> USE DEF StageFails, Answers, To, disk, counters, history
<1>1. Rewrites(r) /\ Spares(r)
  BY DEF Inv, Typed, Rewrites, Spares
<1>2. Typed'
  BY FirstIsAState DEF Inv, Typed, Places, Refusals
<1>3. Local(r)'
  BY FirstIsAState DEF Inv, Typed, Local, NotYet, Noted, Current, Mine, Silent, Saved, Refused, Refusals, States
<1> QED
  BY <1>1, <1>2, <1>3, StepKeeps

LEMMA CheckKeeps == ASSUME Inv, NEW r \in Requests, Check(r) PROVE Inv'
<1> USE DEF Check, Answers, To, disk, counters, history
<1>1. Rewrites(r) /\ Spares(r)
  BY DEF Inv, Typed, Rewrites, Spares
<1>2. Typed'
  BY FirstIsAState DEF Inv, Typed, Places, Refusals
<1>3. Local(r)'
  BY FirstIsAState DEF Inv, Typed, Local, NotYet, Noted, Current, Mine, Silent, Saved, Refused, Refusals, States
<1> QED
  BY <1>1, <1>2, <1>3, StepKeeps

LEMMA LockLostKeeps == ASSUME Inv, NEW r \in Requests, LockLost(r) PROVE Inv'
<1> USE DEF LockLost, Answers, To, disk, counters, history
<1>1. Rewrites(r) /\ Spares(r)
  BY DEF Inv, Typed, Rewrites, Spares
<1>2. Typed'
  BY FirstIsAState DEF Inv, Typed, Places, Refusals
<1>3. Local(r)'
  BY FirstIsAState DEF Inv, Typed, Local, NotYet, Noted, Current, Mine, Silent, Saved, Refused, Refusals, States
<1> QED
  BY <1>1, <1>2, <1>3, StepKeeps

LEMMA CheckFailsKeeps == ASSUME Inv, NEW r \in Requests, CheckFails(r) PROVE Inv'
<1> USE DEF CheckFails, Answers, To, disk, counters, history
<1>1. Rewrites(r) /\ Spares(r)
  BY DEF Inv, Typed, Rewrites, Spares
<1>2. Typed'
  BY FirstIsAState DEF Inv, Typed, Places, Refusals
<1>3. Local(r)'
  BY FirstIsAState DEF Inv, Typed, Local, NotYet, Noted, Current, Mine, Silent, Saved, Refused, Refusals, States
<1> QED
  BY <1>1, <1>2, <1>3, StepKeeps

LEMMA ConflictKeeps == ASSUME Inv, NEW r \in Requests, Conflict(r) PROVE Inv'
<1> USE DEF Conflict, Answers, To, disk, counters, history
<1>1. Rewrites(r) /\ Spares(r)
  BY DEF Inv, Typed, Rewrites, Spares
<1>2. Typed'
  BY FirstIsAState DEF Inv, Typed, Places, Refusals
<1>3. Local(r)'
  BY FirstIsAState DEF Inv, Typed, Local, NotYet, Noted, Current, Mine, Silent, Saved, Refused, Refusals, States
<1> QED
  BY <1>1, <1>2, <1>3, StepKeeps

LEMMA FinishKeeps == ASSUME Inv, NEW r \in Requests, Finish(r) PROVE Inv'
<1> USE DEF Finish, Answers, To, disk, counters, history
<1>1. Rewrites(r) /\ Spares(r)
  BY DEF Inv, Typed, Rewrites, Spares
<1>2. Typed'
  BY FirstIsAState DEF Inv, Typed, Places, Refusals
<1>3. Local(r)'
  BY FirstIsAState DEF Inv, Typed, Local, NotYet, Noted, Current, Mine, Silent, Saved, Refused, Refusals, States
<1> QED
  BY <1>1, <1>2, <1>3, StepKeeps

LEMMA RemoveFailsKeeps == ASSUME Inv, NEW r \in Requests, RemoveFails(r) PROVE Inv'
<1> USE DEF RemoveFails, To, disk, counters, history
<1>1. Rewrites(r) /\ Spares(r)
  BY DEF Inv, Typed, Rewrites, Spares
<1>2. Typed'
  BY FirstIsAState DEF Inv, Typed, Places, Refusals
<1>3. After(r)' = After(r)
  BY DEF After, Worked
<1>4. Local(r)'
  BY <1>3 DEF Inv, Local, NotYet, Noted, Current, Mine, Silent, Saved, Refused, Refusals
<1> QED
  BY <1>1, <1>2, <1>4, StepKeeps

LEMMA ReleaseKeeps == ASSUME Inv, NEW r \in Requests, Release(r) PROVE Inv'
<1> USE DEF Release, Forgets, To, disk, counters, history
<1>1. Rewrites(r) /\ Spares(r)
  BY DEF Inv, Typed, Rewrites, Spares
<1>2. Typed'
  BY FirstIsAState DEF Inv, Typed, Places, Refusals
<1>3. Local(r)'
  BY FirstIsAState DEF Inv, Typed, Local, NotYet, Noted, Current, Mine, Silent, Saved, Refused, Refusals, States
<1> QED
  BY <1>1, <1>2, <1>3, StepKeeps

LEMMA StopKeeps == ASSUME Inv, NEW r \in Requests, Stop(r) PROVE Inv'
<1> USE DEF Stop, Working, Forgets, To, disk, counters, history
<1>1. Rewrites(r) /\ Spares(r)
  BY DEF Inv, Typed, Rewrites, Spares
<1>2. Typed'
  BY FirstIsAState DEF Inv, Typed, Places, Refusals
<1>3. Local(r)'
  BY FirstIsAState DEF Inv, Typed, Local, NotYet, Noted, Current, Mine, Silent, Saved, Refused, Refusals, States
<1> QED
  BY <1>1, <1>2, <1>3, StepKeeps

(* The swap: what was read under this revision is what is there.            *)
LEMMA SwapRewrites ==
  ASSUME Inv, NEW r \in Requests, pc[r] = "checked", SameRevision(r, snap[r].revision), Swapped(r)
  PROVE  /\ Rewrites(r) /\ stored' = Worked(r, asked[r], stored)
         /\ stored' \in States /\ r \in stored'.done /\ stored'.revision = snap[r].revision + 1
<1>1. snap[r] = stored
  BY DEF Inv, Local, Current, SameRevision
<1>2. stored \in States /\ asked[r] \in [kind : Kinds, id : Ids]
  BY DEF Inv, Typed
<1>3. stored' = After(r) /\ After(r) = Worked(r, asked[r], stored)
  BY <1>1 DEF Swapped, After
<1> QED
  BY <1>1, <1>2, <1>3, WorkedIsAState DEF Rewrites, SameRevision

LEMMA SwapKeeps == ASSUME Inv, NEW r \in Requests, Swap(r) PROVE Inv'
<1> USE DEF Swap, To
<1>1. /\ Rewrites(r) /\ stored' \in States
      /\ r \in stored'.done /\ stored'.revision = snap[r].revision + 1
  BY SwapRewrites
<1>2. Spares(r)
  BY DEF Inv, Typed, Spares
<1>3. Typed'
  BY <1>1 DEF Inv, Typed, Places
<1>4. stored' = After(r) /\ After(r)' = After(r)
  BY DEF Swapped, After, Worked
<1>5. snap[r].revision \in Nat
  BY DEF Inv, Typed, States
<1>6. Local(r)'
  BY <1>1, <1>4, <1>5 DEF Inv, Typed, Local, NotYet, Noted, Current, Mine, Silent, Saved, Refused, Refusals
<1> QED
  BY <1>1, <1>2, <1>3, <1>6, StepKeeps

LEMMA SwapThrowsKeeps == ASSUME Inv, NEW r \in Requests, SwapThrows(r) PROVE Inv'
<1> USE DEF SwapThrows, Answers, To
<1>1. Rewrites(r) /\ stored' \in States
  <2>1. CASE SameRevision(r, snap[r].revision) /\ Swapped(r)
    BY <2>1, SwapRewrites
  <2>2. CASE stored' = stored
    BY <2>2 DEF Rewrites, Inv, Typed
  <2> QED
    BY <2>1, <2>2
<1>2. Spares(r)
  BY DEF Inv, Typed, Spares
<1>3. Typed'
  BY <1>1 DEF Inv, Typed, Places, Refusals
<1>4. Local(r)'
  BY <1>1 DEF Inv, Typed, Local, NotYet, Noted, Current, Mine, Silent, Saved, Refused, Refusals
<1> QED
  BY <1>1, <1>2, <1>3, <1>4, StepKeeps

(* The swap back: the row is its own work, and becomes what it was.         *)
LEMMA SwapBackKeeps == ASSUME Inv, NEW r \in Requests, SwapBack(r) PROVE Inv'
<1> USE DEF SwapBack, Answers, To, counters
<1>1. Rewrites(r)
  BY DEF Rewrites, SameRevision
<1>2. Spares(r)
  BY DEF Inv, Typed, Spares
<1>3. stored' \in States
  BY <1>1, RewritesTyped
<1>4. Typed'
  BY <1>3 DEF Inv, Typed, Places, Refusals
<1>5. r \in stored'.done => r \in overtaken'
  <2>1. r \notin snap[r].done
    BY DEF Inv, Local, Noted
  <2> QED
    BY <2>1 DEF TakenBack
<1>6. Local(r)'
  BY <1>5 DEF Inv, Typed, Local, NotYet, Noted, Current, Mine, Silent, Saved, Refused, Refusals
<1> QED
  BY <1>1, <1>2, <1>4, <1>6, StepKeeps

LEMMA LeaseEndsKeeps == ASSUME Inv, LeaseEnds PROVE Inv'
<1>1. UNCHANGED <<stored, pc, asked, snap, answer, unheard, overtaken>>
  BY DEF LeaseEnds, disk, history
<1> QED
  BY <1>1 DEF Inv, Typed, Local, NotYet, Noted, Current, Mine, Silent, Saved, Refused, After, Worked

----------------------------------------------------------------------------
LEMMA InitIsSound == Init => Inv
<1> SUFFICES ASSUME Init PROVE Inv
  OBVIOUS
<1>1. Typed
  BY FirstIsAState DEF Init, Typed, Places
<1>2. First.done = {}
  BY DEF First
<1>3. ASSUME NEW r \in Requests PROVE Local(r)
  <2>1. r \notin stored.done
    BY <1>2 DEF Init
  <2> QED
    BY <1>2, <2>1 DEF Init, Local, NotYet, Noted, Current, Mine, Silent, Saved, Refused
<1> QED
  BY <1>1, <1>3 DEF Inv

LEMMA NextKeeps == Inv /\ [Next]_vars => Inv'
<1> SUFFICES ASSUME Inv, [Next]_vars PROVE Inv'
  OBVIOUS
<1>1. CASE LeaseEnds
  BY <1>1, LeaseEndsKeeps
<1>2. ASSUME NEW r \in Requests, Step(r) PROVE Inv'
  BY <1>2, AcquireKeeps, LoadKeeps, StageKeeps, CheckKeeps, LockLostKeeps, SwapKeeps, ConflictKeeps,
     FinishKeeps, SwapBackKeeps, ReleaseKeeps DEF Step
<1>3. ASSUME NEW r \in Requests, Busy(r) \/ Beat(r) PROVE Inv'
  BY <1>3, BusyKeeps, BeatKeeps
<1>4. ASSUME NEW r \in Requests, Fault(r) PROVE Inv'
  BY <1>4, StageFailsKeeps, CheckFailsKeeps, SwapThrowsKeeps, RemoveFailsKeeps, StopKeeps DEF Fault
<1>5. CASE UNCHANGED vars
  <2>1. UNCHANGED <<stored, pc, asked, snap, answer, unheard, overtaken>>
    BY <1>5 DEF vars, disk, history
  <2> QED
    BY <2>1 DEF Inv, Typed, Local, NotYet, Noted, Current, Mine, Silent, Saved, Refused, After, Worked
<1> QED
  BY <1>1, <1>2, <1>3, <1>4, <1>5 DEF Next

(* The invariant holds of every state the worker can reach. *)
THEOREM WorkerIsSound == Spec => []Inv
<1> QED
  BY InitIsSound, NextKeeps, PTL DEF Spec

(* What was answered with success is in the state and stays there, for any  *)
(* requests, evictions and failures, whoever has the lock.                  *)
THEOREM SavedIsStoredHolds == Spec => []SavedIsStored
<1>1. Inv => SavedIsStored
  BY DEF Inv, Local, Saved, SavedIsStored
<1> QED
  BY <1>1, WorkerIsSound, PTL

(* What was answered with an error is nowhere, but for a swap that was not  *)
(* heard of and a swap back that came too late.                             *)
THEOREM RefusedIsNowhereHolds == Spec => []RefusedIsNowhere
<1>1. Inv => RefusedIsNowhere
  BY DEF Inv, Local, Refused, Refusals, RefusedIsNowhere
<1> QED
  BY <1>1, WorkerIsSound, PTL

LEMMA StepIsSerial ==
  ASSUME Inv, NEW r \in Requests, Step(r) \/ Busy(r) \/ Beat(r) \/ Fault(r)
  PROVE  stored' = stored \/ Serial(r)
<1>1. CASE Swap(r)
  BY <1>1, SwapRewrites DEF Swap, Serial
<1>2. CASE SwapThrows(r)
  <2>1. CASE SameRevision(r, snap[r].revision) /\ Swapped(r)
    BY <1>2, <2>1, SwapRewrites DEF SwapThrows, Serial
  <2>2. CASE stored' = stored
    BY <2>2
  <2> QED
    BY <1>2, <2>1, <2>2 DEF SwapThrows
<1>3. CASE SwapBack(r)
  <2>1. CASE SameRevision(r, snap[r].revision + 1)
    <3>1. stored = After(r)
      BY <1>3, <2>1 DEF SwapBack, SameRevision, Inv, Local, Mine
    <3> QED
      BY <1>3, <2>1, <3>1 DEF SwapBack, After, Serial
  <2> QED
    BY <1>3, <2>1 DEF SwapBack
<1>4. CASE \E ask \in Asks : Acquire(r, ask)
  BY <1>4 DEF Acquire, disk
<1>5. CASE Load(r) \/ Stage(r) \/ Check(r) \/ LockLost(r) \/ Conflict(r) \/ Finish(r) \/ Release(r)
  BY <1>5 DEF Load, Stage, Check, LockLost, Conflict, Finish, Release, disk
<1>6. CASE Busy(r) \/ Beat(r) \/ StageFails(r) \/ CheckFails(r) \/ RemoveFails(r) \/ Stop(r)
  BY <1>6 DEF Busy, Beat, StageFails, CheckFails, RemoveFails, Stop, disk
<1> QED
  BY <1>1, <1>2, <1>3, <1>4, <1>5, <1>6 DEF Step, Fault

(* Every change of the stored row is the work of one request on the row as  *)
(* it stood, or takes the last change back.                                 *)
THEOREM OneAfterTheOtherHolds == Spec => OneAfterTheOther
<1>1. Inv /\ [Next]_vars => [stored' # stored => \E r \in Requests : Serial(r)]_vars
  <2>1. CASE LeaseEnds
    BY <2>1 DEF LeaseEnds, disk
  <2>2. ASSUME Inv, NEW r \in Requests, Step(r) \/ Busy(r) \/ Beat(r) \/ Fault(r)
        PROVE  stored' = stored \/ Serial(r)
    BY <2>2, StepIsSerial
  <2> QED
    BY <2>1, <2>2 DEF Next
<1> QED
  BY <1>1, WorkerIsSound, PTL DEF Spec, OneAfterTheOther

----------------------------------------------------------------------------
(* FileIsThere.  A row is read, worked on and may be put back, so the claim *)
(* is made of every table anybody holds: what it lists as a file has its    *)
(* file, and an upload that has not been swapped yet is in none of them,    *)
(* which is why its file may be taken back.                                 *)
Early(r) == pc[r] \in {"waiting", "locked", "loaded", "staged", "checked"}
Excused == trashed \cup unheard \cup generated
Held == {stored, First} \cup {snap[r] : r \in Requests}

Sheltered(s) ==
    /\ \A id \in Ids : s.rows[id] = "trashed" => id \in trashed
    /\ \A id \in Ids : s.rows[id] = "kept" => id \in objects \cup Excused
    /\ \A r \in Requests : s.rows[r] # "none" => r \in s.done
    /\ \A r \in Requests : Early(r) => r \notin s.done

Ready(r) ==
    /\ pc[r] = "checked" => Accepts(asked[r], snap[r])
    /\ pc[r] \in {"staged", "checked"} /\ asked[r].kind = "upload" => r \in objects \cup trashed
    /\ pc[r] = "swapped" /\ Removes(r) => asked[r].id \in trashed

Files == (\A s \in Held : Sheltered(s)) /\ (\A r \in Requests : Ready(r))

(* The same after a step, of a table that was held before it or is new.     *)
ShelteredNext(s) ==
    /\ \A id \in Ids : s.rows[id] = "trashed" => id \in trashed'
    /\ \A id \in Ids : s.rows[id] = "kept" => id \in objects' \cup Excused'
    /\ \A r \in Requests : s.rows[r] # "none" => r \in s.done
    /\ \A r \in Requests : Early(r)' => r \notin s.done

(* What a step may take out of the bucket.                                  *)
TakesOut(r) ==
    \A id \in objects \ objects' : id \in trashed \/ (id = r /\ (r \in unheard' \/ Early(r)))

LEMMA TableKept ==
  ASSUME Files, NEW r \in Requests, Spares(r), Excused \subseteq Excused', trashed \subseteq trashed', TakesOut(r),
         Early(r)' => Early(r), NEW s, NEW t \in Held, s.rows = t.rows, s.done = t.done
  PROVE  ShelteredNext(s)
<1>1. Sheltered(t)
  BY DEF Files
<1>2. \A q \in Requests : Early(q)' => Early(q)
  BY DEF Spares, Early
<1>3. ASSUME NEW id \in Ids, s.rows[id] = "kept" PROVE id \in objects' \cup Excused'
  <2>1. id \in objects \cup Excused
    BY <1>1, <1>3 DEF Sheltered
  <2>2. id = r /\ Early(r) => FALSE
    BY <1>1, <1>3 DEF Sheltered
  <2> QED
    BY <2>1, <2>2 DEF TakesOut, Spares, Excused
<1> QED
  BY <1>1, <1>2, <1>3 DEF Sheltered, ShelteredNext

LEMMA FilesKept ==
  ASSUME Files, NEW r \in Requests, Spares(r), Excused \subseteq Excused', trashed \subseteq trashed', TakesOut(r),
         Early(r)' => Early(r), Ready(r)',
         \A s \in Held' : (\E t \in Held : s.rows = t.rows /\ s.done = t.done) \/ ShelteredNext(s)
  PROVE  Files'
<1>1. \A s \in Held' : ShelteredNext(s)
  BY TableKept
<1>2. ASSUME NEW q \in Requests \ {r} PROVE Ready(q)'
  <2>1. pc'[q] = pc[q] /\ asked'[q] = asked[q] /\ snap'[q] = snap[q]
    BY DEF Spares
  <2>2. Ready(q)
    BY DEF Files
  <2>3. q \in objects \cup trashed => q \in objects' \cup trashed'
    BY DEF TakesOut
  <2> QED
    BY <2>1, <2>2, <2>3 DEF Ready, Removes, Accepts
<1>3. \A q \in Requests : Ready(q)'
  BY <1>2
<1> QED
  BY <1>1, <1>3 DEF Files, Sheltered, ShelteredNext

(* A step that writes no new table and takes nothing out.                   *)
LEMMA QuietKept ==
  ASSUME Files, NEW r \in Requests, Spares(r), UNCHANGED <<stored, trashed, generated>>, TakesOut(r),
         Early(r)' => Early(r), Ready(r)', snap'[r] \in Held
  PROVE  Files'
<1>1. Held' \subseteq Held
  BY DEF Spares, Held
<1>2. Excused \subseteq Excused'
  BY DEF Spares, Excused
<1> QED
  BY <1>1, <1>2, FilesKept

(* The swap: what the application accepted is sheltered once it is written. *)
LEMMA SwapShelters ==
  ASSUME Inv, Files, NEW r \in Requests, pc[r] = "checked", SameRevision(r, snap[r].revision),
         Swapped(r), Spares(r), objects \ objects' \subseteq unheard', ~Early(r)'
  PROVE  ShelteredNext(stored')
<1>1. /\ stored' = Worked(r, asked[r], stored)
      /\ stored'.done = stored.done \cup {r}
  BY SwapRewrites, WorkedIsAState DEF Inv, Typed
<1>2. snap[r] = stored
  BY DEF Inv, Local, Current, SameRevision
<1>3. Sheltered(stored) /\ Ready(r)
  BY DEF Files, Held
<1>4. Accepts(asked[r], stored)
  BY <1>2, <1>3 DEF Ready
<1>5. asked[r] \in [kind : Kinds, id : Ids] /\ asked[r].id \in Ids
  BY DEF Inv, Typed
<1>6. trashed \subseteq trashed' /\ unheard \subseteq unheard' /\ generated \subseteq generated'
  BY DEF Swapped, Spares
<1>7. \A id \in Ids : id \in objects \cup Excused => id \in objects' \cup Excused'
  BY <1>6 DEF Excused
<1>8. \A q \in Requests : Early(q)' => q \notin stored'.done
  BY <1>1, <1>3 DEF Sheltered, Spares, Early
<1>9. CASE asked[r].kind = "write"
  <2>1. stored'.rows = stored.rows
    BY <1>1, <1>9 DEF Worked
  <2> QED
    BY <2>1, <1>1, <1>3, <1>6, <1>7, <1>8 DEF Sheltered, ShelteredNext
<1>10. CASE asked[r].kind # "write"
  <2>1. /\ \A id \in Ids : stored'.rows[id] = IF id = Target(r, asked[r]) THEN RowAfter(asked[r]) ELSE stored.rows[id]
        /\ Target(r, asked[r]) \in Ids
    BY <1>1, <1>5, <1>10 DEF Worked, Target, Ids
  <2>2. RowAfter(asked[r]) = "trashed" => Target(r, asked[r]) \in trashed'
    BY <1>10 DEF RowAfter, Target, Swapped
  <2>3. RowAfter(asked[r]) = "kept" => Target(r, asked[r]) \in objects' \cup Excused'
    <3>1. CASE asked[r].kind = "generate"
      BY <3>1 DEF Target, Swapped, Excused
    <3>2. CASE asked[r].kind = "upload"
      <4>1. r \in objects \cup trashed /\ r \in Ids
        BY <1>3, <3>2 DEF Ready, Ids
      <4> QED
        BY <1>7, <3>2, <4>1 DEF Target, Excused
    <3>3. CASE asked[r].kind = "restore"
      <4>1. asked[r].id \in trashed
        BY <1>3, <1>4, <1>5, <3>3 DEF Accepts, Sheltered
      <4> QED
        BY <1>5, <1>7, <3>3, <4>1 DEF Target, Excused
    <3> QED
      BY <3>1, <3>2, <3>3 DEF RowAfter
  <2>4. RowAfter(asked[r]) # "none" /\ Target(r, asked[r]) \in Requests => Target(r, asked[r]) \in stored'.done
    BY <1>1, <1>3, <1>4, <1>5 DEF RowAfter, Target, Accepts, Sheltered, Kinds
  <2>5. \A q \in Requests : q \in Ids
    BY DEF Ids
  <2> QED
    BY <2>1, <2>2, <2>3, <2>4, <2>5, <1>1, <1>3, <1>6, <1>7, <1>8 DEF Sheltered, ShelteredNext
<1> QED
  BY <1>9, <1>10

LEMMA BusyFiles == ASSUME Inv, Files, NEW r \in Requests, Busy(r) PROVE Files'
<1> USE DEF Busy, To, disk, counters, history
<1>1. Ready(r)
  BY DEF Files
<1>2. Spares(r) /\ (Early(r)' => Early(r)) /\ snap'[r] \in Held
  BY DEF Inv, Typed, Spares, Early, Held
<1>3. TakesOut(r)
  BY <1>1 DEF TakesOut, Ready, Unstaged, Staged, Early, Inv, Typed
<1>4. Ready(r)'
  BY <1>1 DEF Ready, Removes, Accepts, Staged, Inv, Typed
<1> QED
  BY <1>2, <1>3, <1>4, QuietKept

LEMMA BeatFiles == ASSUME Inv, Files, NEW r \in Requests, Beat(r) PROVE Files'
<1> USE DEF Beat, disk, counters, history
<1>1. Ready(r)
  BY DEF Files
<1>2. Spares(r) /\ (Early(r)' => Early(r)) /\ snap'[r] \in Held
  BY DEF Inv, Typed, Spares, Early, Held
<1>3. TakesOut(r)
  BY <1>1 DEF TakesOut, Ready, Unstaged, Staged, Early, Inv, Typed
<1>4. Ready(r)'
  BY <1>1 DEF Ready, Removes, Accepts, Staged, Inv, Typed
<1> QED
  BY <1>2, <1>3, <1>4, QuietKept

LEMMA LoadFiles == ASSUME Inv, Files, NEW r \in Requests, Load(r) PROVE Files'
<1> USE DEF Load, To, disk, counters, history
<1>1. Ready(r)
  BY DEF Files
<1>2. Spares(r) /\ (Early(r)' => Early(r)) /\ snap'[r] \in Held
  BY DEF Inv, Typed, Spares, Early, Held
<1>3. TakesOut(r)
  BY <1>1 DEF TakesOut, Ready, Unstaged, Staged, Early, Inv, Typed
<1>4. Ready(r)'
  BY <1>1 DEF Ready, Removes, Accepts, Staged, Inv, Typed
<1> QED
  BY <1>2, <1>3, <1>4, QuietKept

LEMMA StageFiles == ASSUME Inv, Files, NEW r \in Requests, Stage(r) PROVE Files'
<1> USE DEF Stage, To, counters, history
<1>1. Ready(r)
  BY DEF Files
<1>2. Spares(r) /\ (Early(r)' => Early(r)) /\ snap'[r] \in Held
  BY DEF Inv, Typed, Spares, Early, Held
<1>3. TakesOut(r)
  BY <1>1 DEF TakesOut, Ready, Unstaged, Staged, Early, Inv, Typed
<1>4. Ready(r)'
  BY <1>1 DEF Ready, Removes, Accepts, Staged, Inv, Typed
<1> QED
  BY <1>2, <1>3, <1>4, QuietKept

LEMMA StageFailsFiles == ASSUME Inv, Files, NEW r \in Requests, StageFails(r) PROVE Files'
<1> USE DEF StageFails, Answers, To, disk, counters, history
<1>1. Ready(r)
  BY DEF Files
<1>2. Spares(r) /\ (Early(r)' => Early(r)) /\ snap'[r] \in Held
  BY DEF Inv, Typed, Spares, Early, Held
<1>3. TakesOut(r)
  BY <1>1 DEF TakesOut, Ready, Unstaged, Staged, Early, Inv, Typed
<1>4. Ready(r)'
  BY <1>1 DEF Ready, Removes, Accepts, Staged, Inv, Typed
<1> QED
  BY <1>2, <1>3, <1>4, QuietKept

LEMMA CheckFiles == ASSUME Inv, Files, NEW r \in Requests, Check(r) PROVE Files'
<1> USE DEF Check, Answers, To, disk, counters, history
<1>1. Ready(r)
  BY DEF Files
<1>2. Spares(r) /\ (Early(r)' => Early(r)) /\ snap'[r] \in Held
  BY DEF Inv, Typed, Spares, Early, Held
<1>3. TakesOut(r)
  BY <1>1 DEF TakesOut, Ready, Unstaged, Staged, Early, Inv, Typed
<1>4. Ready(r)'
  BY <1>1 DEF Ready, Removes, Accepts, Staged, Inv, Typed
<1> QED
  BY <1>2, <1>3, <1>4, QuietKept

LEMMA LockLostFiles == ASSUME Inv, Files, NEW r \in Requests, LockLost(r) PROVE Files'
<1> USE DEF LockLost, Answers, To, disk, counters, history
<1>1. Ready(r)
  BY DEF Files
<1>2. Spares(r) /\ (Early(r)' => Early(r)) /\ snap'[r] \in Held
  BY DEF Inv, Typed, Spares, Early, Held
<1>3. TakesOut(r)
  BY <1>1 DEF TakesOut, Ready, Unstaged, Staged, Early, Inv, Typed
<1>4. Ready(r)'
  BY <1>1 DEF Ready, Removes, Accepts, Staged, Inv, Typed
<1> QED
  BY <1>2, <1>3, <1>4, QuietKept

LEMMA CheckFailsFiles == ASSUME Inv, Files, NEW r \in Requests, CheckFails(r) PROVE Files'
<1> USE DEF CheckFails, Answers, To, disk, counters, history
<1>1. Ready(r)
  BY DEF Files
<1>2. Spares(r) /\ (Early(r)' => Early(r)) /\ snap'[r] \in Held
  BY DEF Inv, Typed, Spares, Early, Held
<1>3. TakesOut(r)
  BY <1>1 DEF TakesOut, Ready, Unstaged, Staged, Early, Inv, Typed
<1>4. Ready(r)'
  BY <1>1 DEF Ready, Removes, Accepts, Staged, Inv, Typed
<1> QED
  BY <1>2, <1>3, <1>4, QuietKept

LEMMA ConflictFiles == ASSUME Inv, Files, NEW r \in Requests, Conflict(r) PROVE Files'
<1> USE DEF Conflict, Answers, To, disk, counters, history
<1>1. Ready(r)
  BY DEF Files
<1>2. Spares(r) /\ (Early(r)' => Early(r)) /\ snap'[r] \in Held
  BY DEF Inv, Typed, Spares, Early, Held
<1>3. TakesOut(r)
  BY <1>1 DEF TakesOut, Ready, Unstaged, Staged, Early, Inv, Typed
<1>4. Ready(r)'
  BY <1>1 DEF Ready, Removes, Accepts, Staged, Inv, Typed
<1> QED
  BY <1>2, <1>3, <1>4, QuietKept

LEMMA FinishFiles == ASSUME Inv, Files, NEW r \in Requests, Finish(r) PROVE Files'
<1> USE DEF Finish, Answers, To, disk, counters, history
<1>1. Ready(r)
  BY DEF Files
<1>2. Spares(r) /\ (Early(r)' => Early(r)) /\ snap'[r] \in Held
  BY DEF Inv, Typed, Spares, Early, Held
<1>3. TakesOut(r)
  BY <1>1 DEF TakesOut, Ready, Unstaged, Staged, Early, Inv, Typed
<1>4. Ready(r)'
  BY <1>1 DEF Ready, Removes, Accepts, Staged, Inv, Typed
<1> QED
  BY <1>2, <1>3, <1>4, QuietKept

LEMMA RemoveFailsFiles == ASSUME Inv, Files, NEW r \in Requests, RemoveFails(r) PROVE Files'
<1> USE DEF RemoveFails, To, disk, counters, history
<1>1. Ready(r)
  BY DEF Files
<1>2. Spares(r) /\ (Early(r)' => Early(r)) /\ snap'[r] \in Held
  BY DEF Inv, Typed, Spares, Early, Held
<1>3. TakesOut(r)
  BY <1>1 DEF TakesOut, Ready, Unstaged, Staged, Early, Inv, Typed
<1>4. Ready(r)'
  BY <1>1 DEF Ready, Removes, Accepts, Staged, Inv, Typed
<1> QED
  BY <1>2, <1>3, <1>4, QuietKept

LEMMA ReleaseFiles == ASSUME Inv, Files, NEW r \in Requests, Release(r) PROVE Files'
<1> USE DEF Release, Forgets, To, disk, counters, history
<1>1. Ready(r)
  BY DEF Files
<1>2. Spares(r) /\ (Early(r)' => Early(r)) /\ snap'[r] \in Held
  BY DEF Inv, Typed, Spares, Early, Held
<1>3. TakesOut(r)
  BY <1>1 DEF TakesOut, Ready, Unstaged, Staged, Early, Inv, Typed
<1>4. Ready(r)'
  BY <1>1 DEF Ready, Removes, Accepts, Staged, Inv, Typed
<1> QED
  BY <1>2, <1>3, <1>4, QuietKept

LEMMA StopFiles == ASSUME Inv, Files, NEW r \in Requests, Stop(r) PROVE Files'
<1> USE DEF Stop, Working, Forgets, To, disk, counters, history
<1>1. Ready(r)
  BY DEF Files
<1>2. Spares(r) /\ (Early(r)' => Early(r)) /\ snap'[r] \in Held
  BY DEF Inv, Typed, Spares, Early, Held
<1>3. TakesOut(r)
  BY <1>1 DEF TakesOut, Ready, Unstaged, Staged, Early, Inv, Typed
<1>4. Ready(r)'
  BY <1>1 DEF Ready, Removes, Accepts, Staged, Inv, Typed
<1> QED
  BY <1>2, <1>3, <1>4, QuietKept

LEMMA AcquireFiles == ASSUME Inv, Files, NEW r \in Requests, NEW ask \in Asks, Acquire(r, ask) PROVE Files'
<1> USE DEF Acquire, To, disk, counters, history
<1>1. Ready(r)'
  BY DEF Ready, Inv, Typed
<1>2. Spares(r) /\ (Early(r)' => Early(r)) /\ snap'[r] \in Held /\ TakesOut(r)
  BY DEF Inv, Typed, Spares, Early, Held, TakesOut
<1> QED
  BY <1>1, <1>2, QuietKept

LEMMA SwapFiles == ASSUME Inv, Files, NEW r \in Requests, Swap(r) PROVE Files'
<1> USE DEF Swap, To
<1>1. Spares(r) /\ ~Early(r)' /\ snap' = snap
  BY DEF Inv, Typed, Spares, Early
<1>2. ShelteredNext(stored')
  BY <1>1, SwapShelters
<1>3. \A s \in Held' : s \in Held \/ s = stored'
  BY <1>1 DEF Held
<1>4. trashed \subseteq trashed' /\ TakesOut(r) /\ Excused \subseteq Excused'
  BY DEF Swapped, TakesOut, Excused
<1>5. Ready(r)'
  <2>1. Ready(r) /\ Sheltered(snap[r])
    BY DEF Files, Held
  <2>2. asked[r].id \in Ids
    BY DEF Inv, Typed
  <2>3. Removes(r) => asked[r].id \in trashed'
    BY <2>1, <2>2 DEF Removes, Ready, Accepts, Sheltered, Swapped
  <2> QED
    BY <2>3 DEF Ready, Removes, Inv, Typed
<1> QED
  BY <1>1, <1>2, <1>3, <1>4, <1>5, FilesKept

LEMMA SwapThrowsFiles == ASSUME Inv, Files, NEW r \in Requests, SwapThrows(r) PROVE Files'
<1> USE DEF SwapThrows, Answers, To
<1>1. Spares(r) /\ ~Early(r)' /\ snap' = snap
  BY DEF Inv, Typed, Spares, Early
<1>2. objects \ objects' \subseteq unheard' /\ objects \ objects' \subseteq {r} /\ r \in unheard'
  BY DEF Unstaged
<1>3. trashed \subseteq trashed' /\ TakesOut(r) /\ Excused \subseteq Excused'
  BY <1>2 DEF Swapped, TakesOut, Excused
<1>4. stored' = stored \/ ShelteredNext(stored')
  BY <1>1, <1>2, SwapShelters
<1>5. \A s \in Held' : s \in Held \/ s = stored'
  BY <1>1 DEF Held
<1>6. stored \in Held
  BY DEF Held
<1>7. Ready(r)'
  BY DEF Ready, Inv, Typed
<1> QED
  BY <1>1, <1>3, <1>4, <1>5, <1>6, <1>7, FilesKept

(* The swap back: the table is the one that was read.                       *)
LEMMA SwapBackFiles == ASSUME Inv, Files, NEW r \in Requests, SwapBack(r) PROVE Files'
<1> USE DEF SwapBack, Answers, To, counters
<1>1. Spares(r) /\ ~Early(r)' /\ snap' = snap /\ trashed' = trashed /\ TakesOut(r)
      /\ Excused' = Excused
  BY DEF Inv, Typed, Spares, Early, TakesOut, Excused
<1>2. stored' = stored \/ (stored'.rows = snap[r].rows /\ stored'.done = snap[r].done)
  BY DEF TakenBack
<1>3. \A s \in Held' : s \in Held \/ s = stored'
  BY <1>1 DEF Held
<1>4. stored \in Held /\ snap[r] \in Held
  BY DEF Held
<1>5. Ready(r)'
  BY DEF Ready, Inv, Typed
<1> QED
  BY <1>1, <1>2, <1>3, <1>4, <1>5, FilesKept

LEMMA UnchangedFiles ==
  ASSUME Files, UNCHANGED <<stored, objects, pc, asked, snap, unheard, trashed, generated>> PROVE Files'
<1>1. Held' = Held
  BY DEF Held
<1> QED
  BY <1>1 DEF Files, Sheltered, Ready, Removes, Accepts, Early, Excused

LEMMA InitFiles == Init => Files
<1> SUFFICES ASSUME Init PROVE Files
  OBVIOUS
<1>1. Held = {First}
  BY DEF Init, Held
<1>2. Sheltered(First)
  BY DEF Init, First, Sheltered, Ids
<1> QED
  BY <1>1, <1>2 DEF Init, Files, Ready

LEMMA NextFiles == Inv /\ Files /\ [Next]_vars => Files'
<1> SUFFICES ASSUME Inv, Files, [Next]_vars PROVE Files'
  OBVIOUS
<1>1. CASE LeaseEnds \/ UNCHANGED vars
  <2>1. UNCHANGED <<stored, objects, pc, asked, snap, unheard, trashed, generated>>
    BY <1>1 DEF LeaseEnds, vars, disk, history
  <2> QED
    BY <2>1, UnchangedFiles
<1>2. ASSUME NEW r \in Requests, Step(r) PROVE Files'
  BY <1>2, AcquireFiles, LoadFiles, StageFiles, CheckFiles, LockLostFiles, SwapFiles, ConflictFiles,
     FinishFiles, SwapBackFiles, ReleaseFiles DEF Step
<1>3. ASSUME NEW r \in Requests, Busy(r) \/ Beat(r) PROVE Files'
  BY <1>3, BusyFiles, BeatFiles
<1>4. ASSUME NEW r \in Requests, Fault(r) PROVE Files'
  BY <1>4, StageFailsFiles, CheckFailsFiles, SwapThrowsFiles, RemoveFailsFiles, StopFiles DEF Fault
<1> QED
  BY <1>1, <1>2, <1>3, <1>4 DEF Next

(* A document that was uploaded, is listed and was never in the trash has   *)
(* its file, for any requests, evictions and failures, whoever has the      *)
(* lock, but for an upload whose swap was not heard of.                     *)
THEOREM FileIsAlwaysThere == Spec => []FileIsThere
<1>1. Inv /\ Files => FileIsThere
  BY DEF Files, Held, Sheltered, FileIsThere, Excused
<1>2. Spec => [](Inv /\ Files)
  BY InitIsSound, NextKeeps, InitFiles, NextFiles, PTL DEF Spec
<1> QED
  BY <1>1, <1>2, PTL
=============================================================================
