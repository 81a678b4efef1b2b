-------------------------- MODULE MCWorkspaceStore --------------------------
(***************************************************************************)
(* WorkspaceStore for TLC.  Three requests are enough for one to begin,    *)
(* one to overtake it and one to read between the two, and the two rows    *)
(* tell writes to the same row from writes to different rows.              *)
(***************************************************************************)
EXTENDS WorkspaceStore

CONSTANTS r1, r2, r3, x1, x2

MCReq == {r1, r2, r3}
MCRow == {x1, x2}
MCOneListed == {x1}

Setup(backend, fails, kinds) ==
  [backend |-> backend, fails |-> fails, kinds |-> kinds]

(* The set-ups in which the writers are safe. *)
MCSafe ==
  {Setup("json", TRUE, {"put", "row", "unarchive"}),
   Setup("postgres", FALSE, {"put", "submit", "row", "unarchive"})}

(* Postgres whose transactions can fail, for the liveness of the queue. *)
MCFailingQueue ==
  {Setup("postgres", TRUE, {"put", "row"}), Setup("postgres", TRUE, {"blind"})}

(* One set-up for each disagreement. *)
MCSubmitUndo == {Setup("json", TRUE, {"submit", "row"})}
MCPutUndo    == {Setup("postgres", TRUE, {"put"})}

(* A PUT that does not say which version it was made from. *)
MCBlindPut == {Setup("json", FALSE, {"blind", "row"})}

(* "A failed adapter commit must not leave an uncommitted value visible to *)
(* later requests": a write that was answered with an error is nowhere,    *)
(* not in memory, not durable, not in a clone still to be committed.       *)
RefusedLeavesNoTrace ==
  \A r \in Req : pc[r] \in {"conflict", "refused", "failed"} =>
    \A x \in Row :
      /\ r \notin mem.rows[x] /\ r \notin db[x]
      /\ \A i \in 1..Len(queue) : r \notin queue[i].rows[x]

=============================================================================
