--------------------------- MODULE WorkspaceStore ---------------------------
(***************************************************************************)
(* The workspace store of one tenant and the requests that write one key   *)
(* of it ("work-items").  server/app.mjs keeps the store in memory and     *)
(* every handler changes that one object: a handler reads the record,      *)
(* often awaits (are the attachments readable, take a row from the         *)
(* archive), writes a new record and commits the whole store.  Commits are *)
(* synchronous with the JSON adapter; with the Postgres adapter they are   *)
(* whole clones, queued and run one transaction at a time.  A commit that  *)
(* fails is undone in memory by the handler that asked for it.             *)
(*                                                                         *)
(* A row's content is the set of writes it incorporates: a request's own   *)
(* name stands for what that request changed in the row.  A row that is    *)
(* not in the list has the empty set.                                      *)
(***************************************************************************)
EXTENDS Naturals, Sequences

CONSTANTS
  Req,            \* the write requests of a behaviour
  Row,            \* the row ids of the key
  Seed,           \* stands for the content a row had at the start
  Listed,         \* the rows in the list at the start
  Deployments,    \* the set-ups considered, one of which a behaviour runs in
  MaxQueue        \* bound: clones in the queue when the timer adds one

(* "put": PUT /api/workspace/:key of the whole list, with If-Match, as the *)
(* browser sends it; "blind": a PUT of another client, without it.         *)
(* "submit": POST .../:id/transition, which awaits the evidence check.     *)
(* "row": commitRow of work-item-edit (edit, comment): no await before it. *)
(* "unarchive": POST .../archive/:id/restore, which awaits the archive.    *)
Puts == {"put", "blind"}
AllKinds == Puts \cup {"submit", "row", "unarchive"}

(* A set-up: the store adapter, whether its commits can fail (disk full,   *)
(* connection lost), and the handlers that are called.                     *)
AllDeployments ==
  [backend : {"json", "postgres"}, fails : BOOLEAN, kinds : SUBSET AllKinds]

ASSUME WorkspaceAssumption ==
  /\ Seed \notin Req /\ Listed \subseteq Row
  /\ Deployments \subseteq AllDeployments
  /\ MaxQueue \in Nat

NoReq == Seed     \* a commit no request waits for; a record no request wrote

Lists   == [Row -> SUBSET (Req \cup {Seed})]
(* A record is known by identity (===): which request made the object. *)
Records == [by : Req \cup {NoReq}, rows : Lists]
Clones  == [for : Req \cup {NoReq}, rows : Lists]

VARIABLES
  mem,      \* workspaceStore.tenants[t][key]: the record every handler shares
  db,       \* the list a restart would load
  queue,    \* commitTail: the clones not yet committed
  pc,       \* how far each request has come
  seen,     \* the list the client sent it against
  base,     \* the record the handler captured when it began
  undo,     \* the record the handler puts back if its commit fails
  kind,     \* the handler that serves each request
  row,      \* the row each request is about
  setup     \* the deployment; it, kind and row never change

workload == <<kind, row, setup>>
vars == <<mem, db, queue, pc, seen, base, undo, kind, row, setup>>

Done == {"ok", "conflict", "refused", "failed", "lost"}
Phases == {"idle", "read", "waiting", "committing", "committed"} \cup Done

-----------------------------------------------------------------------------
(* What a handler asks of the list when it begins: submit and row work on  *)
(* a listed row, unarchive on one that is not.                             *)
Admissible(r) ==
  /\ kind[r] \in {"submit", "row"} => mem.rows[row[r]] # {}
  /\ kind[r] = "unarchive" => mem.rows[row[r]] = {}

(* The PUT refuses an If-Match that is not the version of the list now, if *)
(* there is one.  A version is a hash of the content.                      *)
StaleVersion(r) == kind[r] = "put" /\ seen[r] # mem.rows

(* rebaseRowWrite: the list is the one that was read, or at least this row *)
(* of it is.                                                               *)
RowUnchanged(r) ==
  \/ mem.by = base[r].by
  \/ mem.rows[row[r]] = base[r].rows[row[r]]

(* The Mut definitions are slips in the definition that follows them; the  *)
(* properties below must tell each of them from the code.                  *)

(* The PUT trusts the If-Match check it made before its await. *)
MutStillValid(r) == kind[r] = "submit" => RowUnchanged(r)

(* Whether the handler still writes after its await: the PUT only if the   *)
(* record is the object it checked, the transition only if its row is the  *)
(* row it checked.  The restore does not look again.                       *)
StillValid(r) ==
  /\ kind[r] \in Puts => mem.by = base[r].by
  /\ kind[r] = "submit" => RowUnchanged(r)

(* The handlers that have no await write in the turn in which they begin. *)
MayWrite(r) ==
  IF kind[r] = "row" THEN pc[r] = "read" /\ Admissible(r)
                     ELSE pc[r] = "waiting" /\ StillValid(r)

(* The list the handler makes its new list from: what the client sent, or  *)
(* the list as it is.                                                      *)
Source(r) == IF kind[r] \in Puts THEN seen[r] ELSE mem.rows

NewRecord(r) ==
  [by |-> r, rows |-> [Source(r) EXCEPT ![row[r]] = @ \cup {r}]]

(* The record put back when the commit fails: the PUT and the transition   *)
(* restore what they captured when they began, the others what was there   *)
(* when they wrote.                                                        *)
Rollback(r) == IF kind[r] \in Puts \cup {"submit"} THEN base[r] ELSE mem

-----------------------------------------------------------------------------
(* A client reads the list and sends a write against what it read. *)
ClientSend(r) ==
  /\ pc[r] = "idle"
  /\ seen' = [seen EXCEPT ![r] = mem.rows]
  /\ pc' = [pc EXCEPT ![r] = "read"]
  /\ UNCHANGED <<mem, db, queue, base, undo, workload>>

(* The handler refuses at once. *)
RefuseAtOnce(r) ==
  /\ pc[r] = "read"
  /\ \/ ~Admissible(r) /\ pc' = [pc EXCEPT ![r] = "refused"]
     \/ StaleVersion(r) /\ pc' = [pc EXCEPT ![r] = "conflict"]
  /\ UNCHANGED <<mem, db, queue, seen, base, undo, workload>>

(* The handler up to its await. *)
Begin(r) ==
  /\ pc[r] = "read" /\ kind[r] # "row"
  /\ Admissible(r) /\ ~StaleVersion(r)
  /\ base' = [base EXCEPT ![r] = mem]
  /\ pc' = [pc EXCEPT ![r] = "waiting"]
  /\ UNCHANGED <<mem, db, queue, seen, undo, workload>>

(* The await answers no: an attachment is not readable, the row is not in  *)
(* the archive.                                                            *)
Refuse(r) ==
  /\ pc[r] = "waiting"
  /\ pc' = [pc EXCEPT ![r] = "refused"]
  /\ UNCHANGED <<mem, db, queue, seen, base, undo, workload>>

(* The await is over and the list has changed under the handler: 409. *)
Conflict(r) ==
  /\ pc[r] = "waiting" /\ ~StillValid(r)
  /\ pc' = [pc EXCEPT ![r] = "conflict"]
  /\ UNCHANGED <<mem, db, queue, seen, base, undo, workload>>

(* The JSON adapter writes the file before commitWorkspaceStore returns. *)
ApplyJson(r) ==
  /\ setup.backend = "json"
  /\ MayWrite(r)
  /\ mem' = NewRecord(r)
  /\ db' = NewRecord(r).rows
  /\ pc' = [pc EXCEPT ![r] = "committed"]
  /\ UNCHANGED <<queue, seen, base, undo, workload>>

(* It throws instead, and the handler undoes its write before anyone else  *)
(* runs.                                                                   *)
ApplyJsonFails(r) ==
  /\ setup.backend = "json" /\ setup.fails
  /\ MayWrite(r)
  /\ mem' = Rollback(r)
  /\ pc' = [pc EXCEPT ![r] = "failed"]
  /\ UNCHANGED <<db, queue, seen, base, undo, workload>>

(* The Postgres adapter clones the store and queues the transaction. *)
ApplyPostgres(r) ==
  /\ setup.backend = "postgres"
  /\ MayWrite(r)
  /\ mem' = NewRecord(r)
  /\ queue' = Append(queue, [for |-> r, rows |-> NewRecord(r).rows])
  /\ undo' = [undo EXCEPT ![r] = Rollback(r)]
  /\ pc' = [pc EXCEPT ![r] = "committing"]
  /\ UNCHANGED <<db, seen, base, workload>>

(* The handler of a commit that is done answers before the next            *)
(* transaction can have finished.                                          *)
NobodyToAnswer == \A r \in Req : pc[r] # "committed"

(* Every handler that waits is told when the first transaction is done. *)
MutCommitHead ==
  /\ queue # <<>> /\ NobodyToAnswer
  /\ db' = Head(queue).rows
  /\ queue' = Tail(queue)
  /\ pc' = [r \in Req |-> IF pc[r] = "committing" THEN "committed" ELSE pc[r]]
  /\ UNCHANGED <<mem, seen, base, undo, workload>>

CommitHead ==
  /\ queue # <<>> /\ NobodyToAnswer
  /\ db' = Head(queue).rows
  /\ queue' = Tail(queue)
  /\ pc' = [r \in Req |-> IF r = Head(queue).for THEN "committed" ELSE pc[r]]
  /\ UNCHANGED <<mem, seen, base, undo, workload>>

(* The queue swallows the error and the handler never hears of it. *)
MutCommitHeadFails ==
  /\ setup.fails
  /\ queue # <<>> /\ NobodyToAnswer
  /\ queue' = Tail(queue)
  /\ UNCHANGED <<mem, db, pc, seen, base, undo, workload>>

(* The transaction is rolled back; only its own handler hears of it, and   *)
(* the clones behind it in the queue still run.                            *)
CommitHeadFails ==
  /\ setup.fails
  /\ queue # <<>> /\ NobodyToAnswer
  /\ queue' = Tail(queue)
  /\ LET r == Head(queue).for
     IN  IF r = NoReq
           THEN UNCHANGED <<mem, pc>>
           ELSE /\ mem' = undo[r]
                /\ pc' = [pc EXCEPT ![r] = "failed"]
  /\ UNCHANGED <<db, seen, base, undo, workload>>

Answer(r) ==
  /\ pc[r] = "committed"
  /\ pc' = [pc EXCEPT ![r] = "ok"]
  /\ UNCHANGED <<mem, db, queue, seen, base, undo, workload>>

(* scheduleAuditCommit: a timer commits the store on nobody's behalf. *)
TimerCommit ==
  \/ /\ setup.backend = "json"
     /\ db' = mem.rows
     /\ UNCHANGED <<mem, queue, pc, seen, base, undo, workload>>
  \/ /\ setup.backend = "postgres" /\ Len(queue) < MaxQueue
     /\ queue' = Append(queue, [for |-> NoReq, rows |-> mem.rows])
     /\ UNCHANGED <<mem, db, pc, seen, base, undo, workload>>

(* The server stops and starts again: memory is what was durable, and the  *)
(* clients of requests under way never hear of them.                       *)
Restart ==
  /\ mem' = [by |-> NoReq, rows |-> db]
  /\ queue' = <<>>
  /\ pc' = [r \in Req |-> IF pc[r] \in Done \cup {"idle"} THEN pc[r] ELSE "lost"]
  /\ UNCHANGED <<db, seen, base, undo, workload>>

-----------------------------------------------------------------------------
StartRows == [x \in Row |-> IF x \in Listed THEN {Seed} ELSE {}]
StartRecord == [by |-> NoReq, rows |-> StartRows]

Init ==
  /\ mem = StartRecord
  /\ db = StartRows
  /\ queue = <<>>
  /\ pc = [r \in Req |-> "idle"]
  /\ seen = [r \in Req |-> StartRows]
  /\ base = [r \in Req |-> StartRecord]
  /\ undo = [r \in Req |-> StartRecord]
  /\ setup \in Deployments
  /\ kind \in [Req -> setup.kinds] /\ row \in [Req -> Row]

Handle(r) ==
  \/ RefuseAtOnce(r) \/ Begin(r) \/ Refuse(r) \/ Conflict(r)
  \/ ApplyJson(r) \/ ApplyJsonFails(r) \/ ApplyPostgres(r) \/ Answer(r)

Next ==
  \/ \E r \in Req : ClientSend(r) \/ Handle(r)
  \/ CommitHead \/ CommitHeadFails
  \/ TimerCommit \/ Restart

(* Node runs every ready callback and the pool answers every transaction.  *)
Fairness ==
  /\ \A r \in Req : WF_vars(Handle(r))
  /\ WF_vars(CommitHead \/ CommitHeadFails)

Spec == Init /\ [][Next]_vars
FairSpec == Spec /\ Fairness

-----------------------------------------------------------------------------
TypeOK ==
  /\ mem \in Records /\ db \in Lists
  /\ queue \in Seq(Clones)
  /\ pc \in [Req -> Phases]
  /\ setup \in Deployments
  /\ kind \in [Req -> setup.kinds] /\ row \in [Req -> Row]
  /\ seen \in [Req -> Lists]
  /\ base \in [Req -> Records] /\ undo \in [Req -> Records]

(* A write that was answered with success is in what later requests read.  *)
NoLostUpdate == \A r \in Req : pc[r] = "ok" => r \in mem.rows[row[r]]

(* ... and in what a restart would load. *)
AnsweredIsDurable == \A r \in Req : pc[r] = "ok" => r \in db[row[r]]

(* Success is answered only for a write that is durable at that moment. *)
SuccessMeansDurable ==
  [][\A r \in Req : pc[r] # "ok" /\ pc'[r] = "ok" => r \in db'[row[r]]]_vars

(* Every request that arrived is answered, whatever happens to the commits *)
(* queued before its own, unless the server is restarted under it.         *)
EveryRequestAnswered ==
  \A r \in Req : pc[r] = "read" ~> pc[r] \in Done

=============================================================================
