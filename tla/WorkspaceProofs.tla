--------------------------- MODULE WorkspaceProofs ---------------------------
(***************************************************************************)
(* What the workspace store promises its writers, for any number of        *)
(* requests, rows and queued commits.  The promises hold where a commit    *)
(* that fails is undone before anybody has seen the write (Sound), and     *)
(* there for one reason: a handler that waited writes over the very        *)
(* record it checked, so that memory only ever gains writes.  The          *)
(* invariant says where the mark of a request can be: nowhere before it is *)
(* written (NoTraceInv), in memory and in every clone queued behind its    *)
(* own afterwards (MarkInv).                                               *)
(***************************************************************************)
EXTENDS WorkspaceStore, TLAPS

USE WorkspaceAssumption

(* A set-up in which an undo cannot take back what somebody else wrote:    *)
(* no queued commit fails, and no handler that may be overtaken while it   *)
(* waits (submit) puts back the record it captured before.  Nor does a     *)
(* client send a list without saying which version it was made from.       *)
Sound(s) ==
  /\ "blind" \notin s.kinds
  /\ s.fails => s.backend = "json" /\ "submit" \notin s.kinds

Unwritten == {"idle", "read", "waiting", "conflict", "refused", "failed"}

(* Nothing is queued with the JSON adapter: what memory holds is durable. *)
JsonInv == setup.backend = "json" => queue = <<>> /\ db = mem.rows

(* A record is the same object only if it has the same content, as far as  *)
(* a handler that waits can tell.                                          *)
IdentityInv ==
  \A r \in Req : pc[r] = "waiting" =>
    /\ mem.by = base[r].by => mem = base[r]
    /\ kind[r] = "put" => seen[r] = base[r].rows

(* What is not written is in no list anybody holds or has read. *)
NoTraceInv ==
  \A r \in Req : pc[r] \in Unwritten =>
    /\ mem.by # r /\ \A q \in Req : base[q].by # r
    /\ \A x \in Row :
         /\ r \notin mem.rows[x] /\ r \notin db[x]
         /\ \A i \in DOMAIN queue : r \notin queue[i].rows[x]
         /\ \A q \in Req : r \notin seen[q][x] /\ r \notin base[q].rows[x]

(* What is written stays in memory; what is durable is also in every clone *)
(* that is still to be committed, and what is queued in every clone from   *)
(* its own on.                                                             *)
MarkInv ==
  \A r \in Req :
    /\ pc[r] \in {"committing", "committed", "ok"} => r \in mem.rows[row[r]]
    /\ pc[r] \in {"committed", "ok"} =>
         /\ r \in db[row[r]]
         /\ \A i \in DOMAIN queue : r \in queue[i].rows[row[r]]
    /\ \A i \in DOMAIN queue : queue[i].for = r =>
         /\ pc[r] = "committing"
         /\ \A j \in DOMAIN queue : queue[j].for = r => j = i
         /\ \A j \in DOMAIN queue : j >= i => r \in queue[j].rows[row[r]]

SoundInv == JsonInv /\ IdentityInv /\ NoTraceInv /\ MarkInv

(* What holds of the queue whatever fails. *)
QueueInv ==
  /\ setup.backend = "json" => queue = <<>>
  /\ \A i \in DOMAIN queue : queue[i].for # NoReq =>
       queue[i].for \in queue[i].rows[row[queue[i].for]]
  /\ setup.backend = "postgres" =>
       \A r \in Req : pc[r] = "committed" => r \in db[row[r]]

IInv == TypeOK /\ QueueInv /\ (Sound(setup) => SoundInv)

-----------------------------------------------------------------------------
(* A handler leaves a list, with its own mark in its own row. *)
LEMMA NewRecordMarks ==
  ASSUME TypeOK, NEW r \in Req
  PROVE  /\ NewRecord(r) \in Records /\ NewRecord(r).by = r
         /\ \A x \in Row : NewRecord(r).rows[x] =
              IF x = row[r] THEN Source(r)[x] \cup {r} ELSE Source(r)[x]
<1>1. Source(r) \in Lists /\ row[r] \in Row
  BY DEF Source, TypeOK, Records
<1>2. [Source(r) EXCEPT ![row[r]] = @ \cup {r}] \in Lists
  BY <1>1 DEF Lists
<1> QED
  BY <1>1, <1>2 DEF NewRecord, Records, Lists

(* ... which is what it queues. *)
LEMMA CloneOf ==
  ASSUME TypeOK, NEW r \in Req
  PROVE  /\ [for |-> r, rows |-> NewRecord(r).rows] \in Clones
         /\ row[r] \in Row /\ r \in NewRecord(r).rows[row[r]]
<1>1. NewRecord(r).rows \in Lists
  BY NewRecordMarks DEF Records
<1>2. row[r] \in Row
  BY DEF TypeOK
<1> QED
  BY <1>1, <1>2, NewRecordMarks DEF Clones

(* The record a failed commit leaves is one. *)
LEMMA RollbackType ==
  ASSUME TypeOK, NEW r \in Req
  PROVE  Rollback(r) \in Records
  BY DEF Rollback, TypeOK

(* The head of the queue is committed, the others move up. *)
LEMMA QueueMovesUp ==
  ASSUME TypeOK, queue # <<>>, queue' = Tail(queue)
  PROVE  /\ 1 \in DOMAIN queue /\ Head(queue) = queue[1] /\ Head(queue) \in Clones
         /\ queue' \in Seq(Clones)
         /\ \A i \in DOMAIN queue' : i + 1 \in DOMAIN queue /\ queue'[i] = queue[i + 1]
         /\ DOMAIN queue \subseteq Nat
         /\ \A i \in DOMAIN queue' : i \in Nat /\ i >= 1
  BY DEF TypeOK

(* A new clone stands last. *)
LEMMA QueueGrows ==
  ASSUME TypeOK, NEW clone \in Clones, queue' = Append(queue, clone)
  PROVE  /\ queue' \in Seq(Clones)
         /\ DOMAIN queue' = DOMAIN queue \cup {Len(queue) + 1}
         /\ queue'[Len(queue) + 1] = clone
         /\ \A i \in DOMAIN queue : queue'[i] = queue[i] /\ i <= Len(queue)
         /\ DOMAIN queue \subseteq Nat /\ Len(queue) + 1 \notin DOMAIN queue
         /\ Len(queue) \in Nat
  BY DEF TypeOK

-----------------------------------------------------------------------------
LEMMA InitTypeOK == Init => TypeOK
<1> SUFFICES ASSUME Init PROVE TypeOK
  OBVIOUS
<1>1. StartRows \in Lists
  BY DEF StartRows, Lists
<1>2. StartRecord \in Records
  BY <1>1 DEF StartRecord, Records, NoReq
<1> QED
  BY <1>1, <1>2 DEF Init, TypeOK, Phases

LEMMA TypeKept == TypeOK /\ [Next]_vars => TypeOK'
<1> SUFFICES ASSUME TypeOK, [Next]_vars PROVE TypeOK'
  OBVIOUS
<1> USE DEF TypeOK
<1>1. ASSUME NEW r \in Req, ClientSend(r) PROVE TypeOK'
  BY <1>1 DEF ClientSend, workload, Phases, Records
<1>2. ASSUME NEW r \in Req, RefuseAtOnce(r) PROVE TypeOK'
  BY <1>2 DEF RefuseAtOnce, workload, Phases, Done
<1>3. ASSUME NEW r \in Req, Begin(r) PROVE TypeOK'
  BY <1>3 DEF Begin, workload, Phases
<1>4. ASSUME NEW r \in Req, Refuse(r) \/ Conflict(r) PROVE TypeOK'
  BY <1>4 DEF Refuse, Conflict, workload, Phases, Done
<1>5. ASSUME NEW r \in Req, ApplyJson(r) PROVE TypeOK'
  BY <1>5, NewRecordMarks DEF ApplyJson, workload, Phases, Records
<1>6. ASSUME NEW r \in Req, ApplyJsonFails(r) PROVE TypeOK'
  BY <1>6, RollbackType DEF ApplyJsonFails, workload, Phases, Done
<1>7. ASSUME NEW r \in Req, ApplyPostgres(r) PROVE TypeOK'
  <2>1. [for |-> r, rows |-> NewRecord(r).rows] \in Clones
    BY NewRecordMarks DEF Clones, Records
  <2> QED
    BY <1>7, <2>1, NewRecordMarks, RollbackType DEF ApplyPostgres, workload, Phases
<1>8. ASSUME NEW r \in Req, Answer(r) PROVE TypeOK'
  BY <1>8 DEF Answer, workload, Phases, Done
<1>9. CASE CommitHead
  <2>1. Head(queue).rows \in Lists /\ queue' \in Seq(Clones)
    BY <1>9, QueueMovesUp DEF CommitHead, Clones
  <2> QED
    BY <1>9, <2>1 DEF CommitHead, workload, Phases
<1>10. CASE CommitHeadFails
  <2>1. Head(queue) \in Clones /\ queue' \in Seq(Clones)
    BY <1>10, QueueMovesUp DEF CommitHeadFails
  <2> QED
    BY <1>10, <2>1 DEF CommitHeadFails, workload, Phases, Clones, Done, NoReq
<1>11. CASE TimerCommit
  <2>1. [for |-> NoReq, rows |-> mem.rows] \in Clones /\ mem.rows \in Lists
    BY DEF Clones, Records
  <2>2. queue' \in Seq(Clones)
    BY <1>11, <2>1, QueueGrows DEF TimerCommit
  <2> QED
    BY <1>11, <2>1, <2>2 DEF TimerCommit, workload
<1>12. CASE Restart
  BY <1>12 DEF Restart, workload, Phases, Done, Records, NoReq
<1>13. CASE UNCHANGED vars
  BY <1>13 DEF vars, workload
<1> QED
  BY <1>1, <1>2, <1>3, <1>4, <1>5, <1>6, <1>7, <1>8, <1>9, <1>10, <1>11, <1>12, <1>13
     DEF Next, Handle

-----------------------------------------------------------------------------
(* Whatever fails, success is answered for what is durable.                *)

LEMMA InitQueueInv == Init => QueueInv
  BY DEF Init, QueueInv

(* A handler that only goes on, without a commit. *)
LEMMA QuietKeepsQueueInv ==
  ASSUME TypeOK, QueueInv, UNCHANGED <<db, queue, row, setup>>,
         \A r \in Req : pc'[r] = "committed" => pc[r] = "committed"
  PROVE  QueueInv'
  BY DEF QueueInv

LEMMA QueueInvKept ==
  ASSUME TypeOK, QueueInv, [Next]_vars
  PROVE  QueueInv'
<1>1. ASSUME NEW r \in Req,
             \/ ClientSend(r) \/ RefuseAtOnce(r) \/ Begin(r) \/ Refuse(r) \/ Conflict(r)
             \/ ApplyJsonFails(r) \/ Answer(r)
      PROVE  QueueInv'
  <2>1. UNCHANGED <<db, queue, row, setup>>
    BY <1>1 DEF ClientSend, RefuseAtOnce, Begin, Refuse, Conflict, ApplyJsonFails,
                Answer, workload
  <2>2. \A q \in Req : pc'[q] = "committed" => pc[q] = "committed"
    BY <1>1 DEF ClientSend, RefuseAtOnce, Begin, Refuse, Conflict, ApplyJsonFails,
                Answer, TypeOK
  <2> QED
    BY <2>1, <2>2, QuietKeepsQueueInv
<1>2. ASSUME NEW r \in Req, ApplyJson(r) PROVE QueueInv'
  BY <1>2 DEF ApplyJson, QueueInv, workload
<1>3. ASSUME NEW r \in Req, ApplyPostgres(r) PROVE QueueInv'
  <2> DEFINE clone == [for |-> r, rows |-> NewRecord(r).rows]
  <2>1. /\ setup.backend = "postgres" /\ queue' = Append(queue, clone)
        /\ UNCHANGED <<db, row, setup>> /\ pc' = [pc EXCEPT ![r] = "committing"]
    BY <1>3 DEF ApplyPostgres, workload
  <2>2. clone \in Clones /\ row[r] \in Row /\ r \in clone.rows[row[r]]
    BY CloneOf
  <2>3. \A i \in DOMAIN queue' : queue'[i] = clone \/ (i \in DOMAIN queue /\ queue'[i] = queue[i])
    BY <2>1, <2>2, QueueGrows
  <2> HIDE DEF clone
  <2>4. clone.for = r
    BY DEF clone
  <2> QED
    BY <2>1, <2>2, <2>3, <2>4 DEF QueueInv, TypeOK
<1>4. CASE CommitHead
  <2>1. /\ 1 \in DOMAIN queue /\ Head(queue) = queue[1]
        /\ \A i \in DOMAIN queue' : i + 1 \in DOMAIN queue /\ queue'[i] = queue[i + 1]
    BY <1>4, QueueMovesUp DEF CommitHead
  <2>2. queue # <<>> /\ \A r \in Req : pc[r] # "committed"
    BY <1>4 DEF CommitHead, NobodyToAnswer
  <2>3. \A r \in Req : pc'[r] = "committed" => r = queue[1].for
    BY <1>4, <2>1, <2>2 DEF CommitHead
  <2>4. db' = queue[1].rows /\ UNCHANGED <<row, setup>>
    BY <1>4, <2>1 DEF CommitHead, workload
  <2>5. \A r \in Req : r # NoReq
    BY DEF NoReq
  <2> QED
    BY <2>1, <2>2, <2>3, <2>4, <2>5 DEF QueueInv
<1>5. CASE CommitHeadFails
  <2>1. \A i \in DOMAIN queue' : i + 1 \in DOMAIN queue /\ queue'[i] = queue[i + 1]
    BY <1>5, QueueMovesUp DEF CommitHeadFails
  <2>2. queue # <<>> /\ \A r \in Req : pc'[r] # "committed"
    BY <1>5 DEF CommitHeadFails, NobodyToAnswer, TypeOK
  <2>3. UNCHANGED <<db, row, setup>>
    BY <1>5 DEF CommitHeadFails, workload
  <2> QED
    BY <2>1, <2>2, <2>3 DEF QueueInv
<1>6. CASE TimerCommit
  <2>1. UNCHANGED <<pc, row, setup>>
    BY <1>6 DEF TimerCommit, workload
  <2>2. CASE setup.backend = "json"
    BY <1>6, <2>1, <2>2 DEF TimerCommit, QueueInv
  <2>3. CASE setup.backend = "postgres"
    <3> DEFINE clone == [for |-> NoReq, rows |-> mem.rows]
    <3>1. clone \in Clones /\ clone.for = NoReq
      BY DEF Clones, Records, TypeOK
    <3>2. queue' = Append(queue, clone) /\ db' = db
      BY <1>6, <2>3 DEF TimerCommit
    <3>3. \A i \in DOMAIN queue' : queue'[i] = clone \/ (i \in DOMAIN queue /\ queue'[i] = queue[i])
      BY <3>1, <3>2, QueueGrows
    <3> HIDE DEF clone
    <3> QED
      BY <2>1, <2>3, <3>1, <3>2, <3>3 DEF QueueInv
  <2> QED
    BY <1>6, <2>2, <2>3 DEF TimerCommit
<1>7. CASE Restart
  BY <1>7 DEF Restart, QueueInv, Done, workload, TypeOK
<1>8. CASE UNCHANGED vars
  BY <1>8 DEF vars, workload, QueueInv
<1> QED
  BY <1>1, <1>2, <1>3, <1>4, <1>5, <1>6, <1>7, <1>8 DEF Next, Handle

-----------------------------------------------------------------------------
(* In a sound set-up a handler that waited writes over what it has read,   *)
(* and an undo changes nothing.                                            *)
LEMMA WritesOverMemory ==
  ASSUME TypeOK, IdentityInv, Sound(setup), NEW r \in Req, MayWrite(r)
  PROVE  /\ Source(r) = mem.rows /\ pc[r] \in Unwritten
         /\ (setup.fails => Rollback(r) = mem)
<1>1. CASE kind[r] = "put"
  <2>1. pc[r] = "waiting" /\ mem.by = base[r].by
    BY <1>1 DEF MayWrite, StillValid, Puts
  <2> QED
    BY <1>1, <2>1 DEF IdentityInv, Source, Rollback, Unwritten, Puts
<1>2. CASE kind[r] # "put"
  <2>1. pc[r] \in {"read", "waiting"}
    BY DEF MayWrite
  <2>2. kind[r] \in setup.kinds
    BY DEF TypeOK
  <2> QED
    BY <1>2, <2>1, <2>2 DEF Source, Rollback, Unwritten, Sound, Puts
<1> QED
  BY <1>1, <1>2

(* What a write leaves in memory: what was there, and its mark. *)
LEMMA WriteAddsItsMark ==
  ASSUME TypeOK, IdentityInv, Sound(setup), NEW r \in Req, MayWrite(r)
  PROVE  /\ NewRecord(r).by = r /\ NewRecord(r).rows \in Lists /\ row[r] \in Row
         /\ \A x \in Row : NewRecord(r).rows[x] =
              IF x = row[r] THEN mem.rows[x] \cup {r} ELSE mem.rows[x]
<1>1. Source(r) = mem.rows
  BY WritesOverMemory
<1>2. NewRecord(r).rows \in Lists /\ row[r] \in Row
  BY CloneOf DEF Clones
<1>3. \A x \in Row : NewRecord(r).rows[x] =
        IF x = row[r] THEN mem.rows[x] \cup {r} ELSE mem.rows[x]
  BY <1>1, NewRecordMarks
<1> QED
  BY <1>2, <1>3, NewRecordMarks

(* The handlers that change no list: a client that sends, a refusal, an    *)
(* answer, and a commit that fails and is undone.                          *)
LEMMA QuietKeepsSound ==
  ASSUME IInv, Sound(setup), NEW r \in Req,
         \/ ClientSend(r) \/ RefuseAtOnce(r) \/ Begin(r) \/ Refuse(r) \/ Conflict(r)
         \/ ApplyJsonFails(r) \/ Answer(r)
  PROVE  SoundInv'
<1> USE DEF IInv
<1>1. UNCHANGED <<mem, db, queue, kind, row, setup>>
  <2>1. CASE ApplyJsonFails(r)
    <3>1. setup.fails /\ MayWrite(r) /\ mem' = Rollback(r)
      BY <2>1 DEF ApplyJsonFails
    <3> QED
      BY <2>1, <3>1, WritesOverMemory DEF ApplyJsonFails, workload, SoundInv
  <2> QED
    BY <2>1 DEF ClientSend, RefuseAtOnce, Begin, Refuse, Conflict, Answer, workload
<1>2. JsonInv'
  BY <1>1 DEF SoundInv, JsonInv
<1>3. \A q \in Req : /\ pc'[q] \in Unwritten => pc[q] \in Unwritten
                     /\ pc'[q] \in {"committing", "committed", "ok"} =>
                          \/ pc[q] = pc'[q]
                          \/ pc[q] = "committed" /\ pc'[q] = "ok"
                     /\ pc[q] = "committing" => pc'[q] = "committing"
  BY WritesOverMemory DEF ClientSend, RefuseAtOnce, Begin, Refuse, Conflict, ApplyJsonFails,
     Answer, Unwritten, TypeOK, SoundInv
<1>4. MarkInv'
  BY <1>1, <1>3 DEF SoundInv, MarkInv
<1>5. NoTraceInv'
  <2>1. \A q \in Req : /\ seen'[q] = seen[q] \/ seen'[q] = mem.rows
                       /\ base'[q] = base[q] \/ base'[q] = mem
    BY DEF ClientSend, RefuseAtOnce, Begin, Refuse, Conflict, ApplyJsonFails, Answer, TypeOK
  <2> QED
    BY <1>1, <1>3, <2>1 DEF SoundInv, NoTraceInv
<1>6. IdentityInv'
  <2> SUFFICES ASSUME NEW q \in Req, pc'[q] = "waiting"
               PROVE  /\ mem.by = base'[q].by => mem = base'[q]
                      /\ kind[q] = "put" => seen'[q] = base'[q].rows
    BY <1>1 DEF IdentityInv
  <2>1. CASE pc[q] = "waiting"
    <3>1. seen'[q] = seen[q] /\ base'[q] = base[q]
      BY <2>1 DEF ClientSend, RefuseAtOnce, Begin, Refuse, Conflict, ApplyJsonFails, Answer,
                  TypeOK
    <3> QED
      BY <2>1, <3>1 DEF SoundInv, IdentityInv
  <2>2. CASE pc[q] # "waiting"
    <3>1. q = r /\ Begin(r)
      BY <2>2 DEF ClientSend, RefuseAtOnce, Begin, Refuse, Conflict, ApplyJsonFails, Answer,
                  TypeOK
    <3> QED
      BY <3>1 DEF Begin, StaleVersion, TypeOK
  <2> QED
    BY <2>1, <2>2
<1> QED
  BY <1>2, <1>4, <1>5, <1>6 DEF SoundInv

(* The JSON adapter: memory, the file and the mark of the write at once. *)
LEMMA ApplyJsonKeepsSound ==
  ASSUME IInv, Sound(setup), NEW r \in Req, ApplyJson(r)
  PROVE  SoundInv'
<1> USE DEF IInv
<1>1. /\ setup.backend = "json" /\ MayWrite(r) /\ mem' = NewRecord(r) /\ db' = mem'.rows
      /\ queue' = queue /\ queue = <<>> /\ pc' = [pc EXCEPT ![r] = "committed"]
      /\ UNCHANGED <<seen, base, kind, row, setup>>
  BY DEF ApplyJson, workload, SoundInv, JsonInv
<1>2. pc[r] \in Unwritten
  BY <1>1, WritesOverMemory DEF SoundInv
<1>3. /\ mem'.by = r /\ row[r] \in Row
      /\ \A x \in Row : mem'.rows[x] = IF x = row[r] THEN mem.rows[x] \cup {r} ELSE mem.rows[x]
  BY <1>1, WriteAddsItsMark DEF SoundInv
<1>4. \A q \in Req : q # r => pc'[q] = pc[q]
  BY <1>1 DEF TypeOK
<1>5. pc'[r] = "committed"
  BY <1>1 DEF TypeOK
<1>6. db = mem.rows
  BY <1>1 DEF SoundInv, JsonInv
<1>7. JsonInv'
  BY <1>1 DEF JsonInv
<1>8. IdentityInv'
  BY <1>1, <1>2, <1>3, <1>4, <1>5 DEF SoundInv, IdentityInv, NoTraceInv
<1>9. NoTraceInv'
  <2> SUFFICES ASSUME NEW q \in Req, pc'[q] \in Unwritten
               PROVE  /\ mem'.by # q /\ \A p \in Req : base[p].by # q
                      /\ \A x \in Row :
                           /\ q \notin mem'.rows[x]
                           /\ \A i \in DOMAIN queue : q \notin queue[i].rows[x]
                           /\ \A p \in Req : q \notin seen[p][x] /\ q \notin base[p].rows[x]
    BY <1>1 DEF NoTraceInv
  <2>1. q # r /\ pc[q] \in Unwritten
    BY <1>4, <1>5 DEF Unwritten
  <2>2. /\ \A p \in Req : base[p].by # q
        /\ \A x \in Row :
             /\ q \notin mem.rows[x]
             /\ \A i \in DOMAIN queue : q \notin queue[i].rows[x]
             /\ \A p \in Req : q \notin seen[p][x] /\ q \notin base[p].rows[x]
    BY <2>1 DEF SoundInv, NoTraceInv
  <2>3. ASSUME NEW x \in Row PROVE q \notin mem'.rows[x]
    <3>1. mem'.rows[x] = mem.rows[x] \cup {r} \/ mem'.rows[x] = mem.rows[x]
      BY <1>3
    <3> QED
      BY <2>1, <2>2, <3>1
  <2> QED
    BY <1>3, <2>1, <2>2, <2>3
<1>10. MarkInv'
  <2>1. \A q \in Req : row[q] \in Row
    BY DEF TypeOK
  <2>2. \A i \in DOMAIN queue' : FALSE
    BY <1>1
  <2>3. \A q \in Req : pc'[q] \in {"committing", "committed", "ok"} => q \in mem'.rows[row[q]]
    BY <1>3, <1>4, <1>5, <2>1 DEF SoundInv, MarkInv
  <2> QED
    BY <1>1, <2>2, <2>3 DEF MarkInv
<1> QED
  BY <1>7, <1>8, <1>9, <1>10 DEF SoundInv

(* The Postgres adapter: memory and a clone at the end of the queue. *)
LEMMA ApplyPostgresKeepsSound ==
  ASSUME IInv, Sound(setup), NEW r \in Req, ApplyPostgres(r)
  PROVE  SoundInv'
<1> USE DEF IInv
<1> DEFINE clone == [for |-> r, rows |-> mem'.rows]
<1>1. /\ setup.backend = "postgres" /\ MayWrite(r) /\ mem' = NewRecord(r)
      /\ queue' = Append(queue, clone) /\ pc' = [pc EXCEPT ![r] = "committing"]
      /\ UNCHANGED <<db, seen, base, kind, row, setup>>
  BY DEF ApplyPostgres, workload
<1>2. pc[r] \in Unwritten
  BY <1>1, WritesOverMemory DEF SoundInv
<1>3. /\ mem'.by = r /\ row[r] \in Row
      /\ \A x \in Row : mem'.rows[x] = IF x = row[r] THEN mem.rows[x] \cup {r} ELSE mem.rows[x]
  BY <1>1, WriteAddsItsMark DEF SoundInv
<1>4. \A q \in Req : q # r => pc'[q] = pc[q]
  BY <1>1 DEF TypeOK
<1>5. pc'[r] = "committing"
  BY <1>1 DEF TypeOK
<1>6. clone \in Clones /\ clone.for = r /\ clone.rows = mem'.rows
  BY <1>1, CloneOf
<1>7. /\ \A i \in DOMAIN queue : i \in DOMAIN queue' /\ queue'[i] = queue[i] /\ i <= Len(queue)
      /\ \A i \in DOMAIN queue' : i \in DOMAIN queue \/ (i = Len(queue) + 1 /\ queue'[i] = clone)
      /\ DOMAIN queue \subseteq Nat /\ Len(queue) \in Nat
  BY <1>1, <1>6, QueueGrows
<1> HIDE DEF clone
<1>8. JsonInv'
  BY <1>1 DEF JsonInv
<1>9. IdentityInv'
  BY <1>1, <1>2, <1>3, <1>4, <1>5 DEF SoundInv, IdentityInv, NoTraceInv
<1>10. NoTraceInv'
  <2> SUFFICES ASSUME NEW q \in Req, pc'[q] \in Unwritten
               PROVE  /\ mem'.by # q /\ \A p \in Req : base[p].by # q
                      /\ \A x \in Row :
                           /\ q \notin mem'.rows[x] /\ q \notin db[x]
                           /\ \A i \in DOMAIN queue' : q \notin queue'[i].rows[x]
                           /\ \A p \in Req : q \notin seen[p][x] /\ q \notin base[p].rows[x]
    BY <1>1 DEF NoTraceInv
  <2>1. q # r /\ pc[q] \in Unwritten
    BY <1>4, <1>5 DEF Unwritten
  <2>2. \A x \in Row : q \notin mem'.rows[x]
    <3>1. \A x \in Row : q \notin mem.rows[x]
      BY <2>1 DEF SoundInv, NoTraceInv
    <3> QED
      BY <1>3, <2>1, <3>1
  <2>3. \A i \in DOMAIN queue', x \in Row : q \notin queue'[i].rows[x]
    BY <1>6, <1>7, <2>1, <2>2 DEF SoundInv, NoTraceInv
  <2> QED
    BY <1>3, <2>1, <2>2, <2>3 DEF SoundInv, NoTraceInv
<1>11. MarkInv'
  <2>1. \A q \in Req : row[q] \in Row
    BY DEF TypeOK
  <2>2. \A q \in Req : pc'[q] \in {"committing", "committed", "ok"} => q \in mem'.rows[row[q]]
    BY <1>3, <1>4, <1>5, <2>1 DEF SoundInv, MarkInv
  <2>3. \A q \in Req : pc'[q] \in {"committed", "ok"} =>
          /\ q \in db[row[q]]
          /\ \A i \in DOMAIN queue' : q \in queue'[i].rows[row[q]]
    BY <1>3, <1>4, <1>5, <1>6, <1>7, <2>1, <2>2 DEF SoundInv, MarkInv
  <2>4. ASSUME NEW q \in Req, NEW i \in DOMAIN queue', queue'[i].for = q
        PROVE  /\ pc'[q] = "committing"
               /\ \A j \in DOMAIN queue' : queue'[j].for = q => j = i
               /\ \A j \in DOMAIN queue' : j >= i => q \in queue'[j].rows[row[q]]
    <3>1. CASE i \in DOMAIN queue
      <4>1. pc[q] = "committing" /\ pc'[q] = "committing"
        BY <1>2, <1>4, <1>5, <1>7, <2>4, <3>1 DEF SoundInv, MarkInv, Unwritten
      <4>2. q # r
        BY <1>2, <4>1 DEF Unwritten
      <4>3. \A j \in DOMAIN queue' : queue'[j].for = q => j = i
        BY <1>6, <1>7, <2>4, <3>1, <4>2 DEF SoundInv, MarkInv
      <4>4. \A j \in DOMAIN queue' : j >= i => q \in queue'[j].rows[row[q]]
        BY <1>6, <1>7, <2>2, <2>4, <3>1, <4>1 DEF SoundInv, MarkInv
      <4> QED
        BY <4>1, <4>3, <4>4
    <3>2. CASE i \notin DOMAIN queue
      <4>1. i = Len(queue) + 1 /\ q = r
        BY <1>6, <1>7, <2>4, <3>2
      <4>2. \A j \in DOMAIN queue' : j >= i => j = i
        BY <1>7, <4>1
      <4>3. \A j \in DOMAIN queue : queue[j].for # r
        BY <1>2 DEF SoundInv, MarkInv, Unwritten
      <4> QED
        BY <1>5, <1>6, <1>7, <2>2, <3>2, <4>1, <4>2, <4>3
    <3> QED
      BY <3>1, <3>2
  <2> QED
    BY <1>1, <2>2, <2>3, <2>4 DEF MarkInv
<1> QED
  BY <1>8, <1>9, <1>10, <1>11 DEF SoundInv

(* The head of the queue is durable, and its request hears of it. *)
LEMMA CommitHeadKeepsSound ==
  ASSUME IInv, Sound(setup), CommitHead
  PROVE  SoundInv'
<1> USE DEF IInv
<1>1. /\ 1 \in DOMAIN queue /\ Head(queue) = queue[1] /\ DOMAIN queue \subseteq Nat
      /\ \A i \in DOMAIN queue' : i + 1 \in DOMAIN queue /\ queue'[i] = queue[i + 1]
      /\ \A i \in DOMAIN queue' : i \in Nat /\ i >= 1
  BY QueueMovesUp DEF CommitHead
<1>2. /\ db' = queue[1].rows /\ queue # <<>>
      /\ UNCHANGED <<mem, seen, base, kind, row, setup>>
  BY <1>1 DEF CommitHead, workload
<1>3. \A q \in Req : pc'[q] = IF q = queue[1].for THEN "committed" ELSE pc[q]
  BY <1>1 DEF CommitHead
<1>4. \A q \in Req : q = queue[1].for => pc[q] = "committing"
  BY <1>1 DEF SoundInv, MarkInv
<1>5. JsonInv'
  BY <1>2 DEF SoundInv, JsonInv
<1>6. IdentityInv'
  BY <1>2, <1>3 DEF SoundInv, IdentityInv
<1>7. NoTraceInv'
  BY <1>1, <1>2, <1>3 DEF SoundInv, NoTraceInv, Unwritten
<1>8. MarkInv'
  <2>1. \A q \in Req : pc'[q] \in {"committing", "committed", "ok"} => q \in mem.rows[row[q]]
    BY <1>3, <1>4 DEF SoundInv, MarkInv
  <2>2. ASSUME NEW q \in Req, pc'[q] \in {"committed", "ok"}
        PROVE  \A i \in DOMAIN queue : q \in queue[i].rows[row[q]]
    <3>1. CASE q = queue[1].for
      <4>1. \A i \in DOMAIN queue : i >= 1
        BY DEF TypeOK
      <4> QED
        BY <1>1, <3>1, <4>1 DEF SoundInv, MarkInv
    <3>2. CASE q # queue[1].for
      BY <1>3, <2>2, <3>2 DEF SoundInv, MarkInv
    <3> QED
      BY <3>1, <3>2
  <2>3. ASSUME NEW q \in Req, NEW i \in DOMAIN queue', queue'[i].for = q
        PROVE  /\ pc'[q] = "committing"
               /\ \A j \in DOMAIN queue' : queue'[j].for = q => j = i
               /\ \A j \in DOMAIN queue' : j >= i => q \in queue'[j].rows[row[q]]
    <3>1. i + 1 \in DOMAIN queue /\ queue[i + 1].for = q /\ pc[q] = "committing"
      BY <1>1, <2>3 DEF SoundInv, MarkInv
    <3>2. q # queue[1].for /\ \A j \in DOMAIN queue' : queue'[j].for = q => j = i
      <4>1. \A j \in DOMAIN queue : queue[j].for = q => j = i + 1
        BY <1>1, <2>3 DEF SoundInv, MarkInv
      <4>2. i >= 1 /\ i + 1 # 1
        BY <1>1
      <4> QED
        BY <1>1, <4>1, <4>2
    <3>3. \A j \in DOMAIN queue' : j >= i => j + 1 >= i + 1
      BY <1>1
    <3> QED
      BY <1>1, <1>3, <3>1, <3>2, <3>3 DEF SoundInv, MarkInv
  <2> QED
    BY <1>1, <1>2, <2>1, <2>2, <2>3 DEF MarkInv
<1> QED
  BY <1>5, <1>6, <1>7, <1>8 DEF SoundInv

(* In a sound set-up nothing fails in the queue. *)
LEMMA NoQueuedFailure ==
  ASSUME IInv, Sound(setup), CommitHeadFails
  PROVE  FALSE
  BY DEF IInv, QueueInv, Sound, CommitHeadFails

(* A clone on nobody's behalf holds what memory holds. *)
LEMMA TimerKeepsSound ==
  ASSUME IInv, Sound(setup), TimerCommit
  PROVE  SoundInv'
<1> USE DEF IInv
<1>1. UNCHANGED <<mem, pc, seen, base, kind, row, setup>>
  BY DEF TimerCommit, workload
<1>2. CASE setup.backend = "json"
  <2>1. db' = db /\ queue' = queue
    BY <1>2 DEF TimerCommit, SoundInv, JsonInv
  <2> QED
    BY <1>1, <2>1 DEF SoundInv, JsonInv, IdentityInv, NoTraceInv, MarkInv
<1>3. CASE setup.backend = "postgres"
  <2> DEFINE clone == [for |-> NoReq, rows |-> mem.rows]
  <2>1. queue' = Append(queue, clone) /\ db' = db
    BY <1>3 DEF TimerCommit
  <2>2. clone \in Clones /\ clone.rows = mem.rows /\ \A q \in Req : clone.for # q
    BY DEF Clones, Records, TypeOK, NoReq
  <2>3. /\ \A i \in DOMAIN queue : i \in DOMAIN queue' /\ queue'[i] = queue[i] /\ i <= Len(queue)
        /\ \A i \in DOMAIN queue' : i \in DOMAIN queue \/ queue'[i] = clone
    BY <2>1, <2>2, QueueGrows
  <2> HIDE DEF clone
  <2>4. JsonInv' /\ IdentityInv'
    BY <1>1, <1>3 DEF SoundInv, JsonInv, IdentityInv
  <2>5. NoTraceInv'
    BY <1>1, <2>1, <2>2, <2>3 DEF SoundInv, NoTraceInv
  <2>6. MarkInv'
    <3>1. ASSUME NEW q \in Req, NEW i \in DOMAIN queue', queue'[i].for = q
          PROVE  /\ pc[q] = "committing"
                 /\ \A j \in DOMAIN queue' : queue'[j].for = q => j = i
                 /\ \A j \in DOMAIN queue' : j >= i => q \in queue'[j].rows[row[q]]
      <4>1. i \in DOMAIN queue /\ queue[i].for = q
        BY <2>2, <2>3, <3>1
      <4> QED
        BY <2>2, <2>3, <4>1 DEF SoundInv, MarkInv
    <3>2. \A q \in Req : pc[q] \in {"committed", "ok"} =>
            \A i \in DOMAIN queue' : q \in queue'[i].rows[row[q]]
      BY <2>2, <2>3 DEF SoundInv, MarkInv
    <3> QED
      BY <1>1, <2>1, <3>1, <3>2 DEF SoundInv, MarkInv
  <2> QED
    BY <2>4, <2>5, <2>6 DEF SoundInv
<1> QED
  BY <1>2, <1>3 DEF TimerCommit

(* Memory is what was durable, and of what was under way nobody hears. *)
LEMMA RestartKeepsSound ==
  ASSUME IInv, Sound(setup), Restart
  PROVE  SoundInv'
<1> USE DEF IInv
<1>1. /\ mem'.by = NoReq /\ mem'.rows = db /\ queue' = <<>>
      /\ UNCHANGED <<db, seen, base, kind, row, setup>>
  BY DEF Restart, workload
<1>2. \A q \in Req : /\ pc'[q] \notin {"read", "waiting", "committing", "committed"}
                     /\ pc'[q] # "lost" => pc'[q] = pc[q]
  BY DEF Restart, Done
<1>3. \A i \in DOMAIN queue' : FALSE
  BY <1>1
<1>4. JsonInv' /\ IdentityInv'
  BY <1>1, <1>2 DEF JsonInv, IdentityInv
<1>5. NoTraceInv'
  BY <1>1, <1>2, <1>3 DEF SoundInv, NoTraceInv, Unwritten, NoReq
<1>6. MarkInv'
  BY <1>1, <1>2, <1>3 DEF SoundInv, MarkInv
<1> QED
  BY <1>4, <1>5, <1>6 DEF SoundInv

LEMMA InitSound == Init => SoundInv
<1> SUFFICES ASSUME Init PROVE SoundInv
  OBVIOUS
<1>1. \A i \in DOMAIN queue : FALSE
  BY DEF Init
<1>2. JsonInv /\ MarkInv
  BY <1>1 DEF Init, JsonInv, MarkInv, StartRecord
<1>3. IdentityInv
  BY DEF Init, IdentityInv
<1>4. \A r \in Req, x \in Row : r \notin StartRows[x]
  BY DEF StartRows
<1>5. NoTraceInv
  BY <1>1, <1>4 DEF Init, NoTraceInv, StartRecord, NoReq
<1> QED
  BY <1>2, <1>3, <1>5 DEF SoundInv

-----------------------------------------------------------------------------
LEMMA InitIInv == Init => IInv
  BY InitTypeOK, InitQueueInv, InitSound DEF IInv

(* Every step keeps the invariant; the set-up never changes. *)
LEMMA NextIInv == IInv /\ [Next]_vars => IInv'
<1> SUFFICES ASSUME IInv, [Next]_vars PROVE IInv'
  OBVIOUS
<1>1. TypeOK' /\ QueueInv'
  BY TypeKept, QueueInvKept DEF IInv
<1>2. setup' = setup
  BY DEF Next, Handle, ClientSend, RefuseAtOnce, Begin, Refuse, Conflict, ApplyJson,
         ApplyJsonFails, ApplyPostgres, Answer, CommitHead, CommitHeadFails, TimerCommit,
         Restart, workload, vars
<1>3. ASSUME Sound(setup) PROVE SoundInv'
  <2>1. CASE UNCHANGED vars
    BY <1>3, <2>1 DEF IInv, SoundInv, JsonInv, IdentityInv, NoTraceInv, MarkInv, vars, workload
  <2> QED
    BY <1>3, <2>1, QuietKeepsSound, ApplyJsonKeepsSound, ApplyPostgresKeepsSound,
       CommitHeadKeepsSound, NoQueuedFailure, TimerKeepsSound, RestartKeepsSound
       DEF Next, Handle
<1> QED
  BY <1>1, <1>2, <1>3 DEF IInv

(* Every handler keeps the conjunction. *)
THEOREM Inductive == Spec => []IInv
  BY InitIInv, NextIInv, PTL DEF Spec

(* In a sound set-up a write that was answered with success is never lost: *)
(* no handler that was overtaken while it waited writes over it.           *)
THEOREM NothingAnsweredIsLost ==
  ASSUME \A s \in Deployments : Sound(s)
  PROVE  Spec => []NoLostUpdate
<1>1. IInv => NoLostUpdate
  BY DEF IInv, TypeOK, SoundInv, MarkInv, NoLostUpdate
<1> QED
  BY Inductive, <1>1, PTL

(* ... nor does a stop of the server lose it. *)
THEOREM AnsweredIsAlwaysDurable ==
  ASSUME \A s \in Deployments : Sound(s)
  PROVE  Spec => []AnsweredIsDurable
<1>1. IInv => AnsweredIsDurable
  BY DEF IInv, TypeOK, SoundInv, MarkInv, AnsweredIsDurable
<1> QED
  BY Inductive, <1>1, PTL

(* Success is never answered early: with Postgres whatever transactions    *)
(* fail, and with the JSON adapter where an undo is sound.                 *)
THEOREM SuccessAlwaysMeansDurable ==
  ASSUME \A s \in Deployments : s.backend = "postgres" \/ Sound(s)
  PROVE  Spec => SuccessMeansDurable
<1>1. ASSUME IInv, Next
      PROVE  \A r \in Req : pc[r] # "ok" /\ pc'[r] = "ok" => r \in db'[row[r]]
  <2> SUFFICES ASSUME NEW r \in Req, pc[r] # "ok", pc'[r] = "ok"
               PROVE  r \in db'[row[r]]
    OBVIOUS
  <2>1. Answer(r)
    BY <1>1 DEF Next, Handle, ClientSend, RefuseAtOnce, Begin, Refuse, Conflict, ApplyJson,
         ApplyJsonFails, ApplyPostgres, Answer, CommitHead, CommitHeadFails, TimerCommit,
         Restart, IInv, TypeOK, Done
  <2>2. pc[r] = "committed" /\ db' = db
    BY <2>1 DEF Answer
  <2>3. setup.backend = "postgres" \/ Sound(setup)
    BY <1>1 DEF IInv, TypeOK
  <2> QED
    BY <1>1, <2>2, <2>3 DEF IInv, QueueInv, SoundInv, MarkInv
<1>2. IInv /\ [Next]_vars =>
        [\A r \in Req : pc[r] # "ok" /\ pc'[r] = "ok" => r \in db'[row[r]]]_vars
  BY <1>1
<1> QED
  BY Inductive, <1>2, PTL DEF Spec, SuccessMeansDurable

=============================================================================
