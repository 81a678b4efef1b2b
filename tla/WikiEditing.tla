---------------------------- MODULE WikiEditing ----------------------------
(***************************************************************************)
(* One wiki document, the browser of one person with its queue of ops      *)
(* (wikiOps.ts), and others who edit and restore the document at the same  *)
(* time (wiki.mjs).  The server takes the writes of a customer one at a    *)
(* time (withWikiLock), so that a request is served in one step; requests  *)
(* and answers are lost, and a request the browser has given up may still  *)
(* arrive.                                                                 *)
(*                                                                         *)
(* Every edit has a number, which is the id of its op, of the text that is *)
(* written and of the block that is inserted.                              *)
(***************************************************************************)
EXTENDS WikiMerge

CONSTANTS
    Retries,      \* OP_RETRY_DELAYS_MS
    MaxEdits,     \* bound: what the person does
    MaxOthers,    \* bound: what others do
    MaxFaults,    \* bound: lost requests and answers, refusals, hidden tabs
    Me, Other

(* What moves between the browser and the server. *)
Names == Nat \cup {None}
Blocks == [id : Int, text : Nat, seq : Nat, by : {Me, Other}]
Ops == [op : Names, kind : {"insert", "update"}, id : Int, base : Nat, after : Int \cup {None}, text : Nat]
       \cup [op : Names, kind : {"delete", "move"}, id : Int, base : Nat, after : Int \cup {None}, text : {None}]
Answers == [blocks : Seq(Blocks), applied : SUBSET Names,
            rejected : SUBSET [op : Names, dropped : BOOLEAN], overwrites : SUBSET Blocks]
Requests == [ops : Seq(Ops), answer : Answers \cup {None}]

ASSUME EditingAssumption ==
    /\ {Retries, MaxEdits, MaxOthers, MaxFaults} \subseteq Nat
    /\ Me # Other
    /\ None \notin Int /\ None \notin Seq(Blocks) /\ None \notin Answers /\ None \notin Requests

VARIABLES
    document,   \* the stored document
    revisions,  \* its stored history
    queue,      \* ops that were not sent, or not heard of
    flight,     \* the request under way, with its answer, or None
    timer,      \* a flush is scheduled
    attempt,    \* failed attempts in a row
    status,     \* what the person sees
    view,       \* the blocks on the screen, with the seq they came with
    own,        \* the seqs this browser has put on blocks
    orphans,    \* requests nobody waits for
    edits, others, faults,  \* bounds: how often so far
    past,       \* history: the blocks of every version
    done,       \* history: the ops that were answered as applied
    again,      \* history: the ops that changed the document after that
    kept,       \* history: the texts that a version or its history has held
    answered,   \* history: the texts the person was told are safe
    sent,       \* history: ops that have left the browser
    laidOver,   \* history: texts laid into an insert that had been sent
    unheard     \* history: something was sent whose answer did not come

server == <<document, revisions>>
browser == <<queue, flight, timer, attempt, status, view, own>>
counters == <<edits, others, faults>>
history == <<past, done, again, kept, answered, sent, laidOver, unheard>>
vars == <<server, browser, orphans, counters, history>>

TextsOf(blocks) == {blocks[i].text : i \in DOMAIN blocks}
Seen(blocks) == [i \in DOMAIN blocks |-> [id |-> blocks[i].id, seq |-> blocks[i].seq]]

Op(kind, n, id, base, after) ==
    [op |-> n, kind |-> kind, id |-> id, base |-> base, after |-> after,
     text |-> IF kind \in {"insert", "update"} THEN n ELSE None]

Init ==
    LET first == <<Stamped(1, 1, 1, Other)>> IN
    /\ document = [blocks |-> first, tombs |-> << >>, seq |-> 1, version |-> 1, recent |-> {}, recentLost |-> {}]
    /\ revisions = {[version |-> 1, inverse |-> << >>, overwrites |-> {}, lost |-> {}, snapshot |-> first]}
    /\ queue = << >> /\ flight = None /\ timer = FALSE /\ attempt = 0 /\ status = "idle"
    /\ view = Seen(first) /\ own = [id \in {} |-> 0] /\ orphans = {}
    /\ edits = 0 /\ others = 0 /\ faults = 0
    /\ past = <<first>> /\ done = {} /\ again = {} /\ kept = {1}
    /\ answered = {} /\ sent = {} /\ laidOver = {} /\ unheard = FALSE

----------------------------------------------------------------------------
(* The server: a batch is merged, its revision written with it, in one     *)
(* commit.                                                                 *)
Store(result, restored) ==
    /\ document' = result.document
    /\ revisions' = IF result.bumped THEN WithRevision(revisions, Revision(result, restored)) ELSE revisions
    /\ past' = IF result.bumped THEN Append(past, result.document.blocks) ELSE past
    /\ done' = done \cup result.applied
    /\ again' = again \cup ((result.took \cap done) \ {None})
    /\ kept' = kept \cup TextsOf(result.document.blocks) \cup result.lost
                    \cup {b.text : b \in result.overwrites}
                    \cup {e.block.text : e \in {x \in ToSet(result.inverse) : "block" \in DOMAIN x}}

(* POST /api/wiki/:id/ops, for the request that is waited for ... *)
Serve ==
    /\ flight # None /\ flight.answer = None
    /\ LET result == MergeOps(document, flight.ops, Me) IN
       /\ Store(result, FALSE)
       /\ flight' = [flight EXCEPT !.answer =
            [blocks |-> result.document.blocks, applied |-> result.applied,
             rejected |-> result.rejected, overwrites |-> result.overwrites]]
    /\ UNCHANGED <<queue, timer, attempt, status, view, own, orphans, counters, answered, sent, laidOver, unheard>>

(* ... and for one that is not. *)
ServeOrphan(ops) ==
    /\ ops \in orphans
    /\ Store(MergeOps(document, ops, Me), FALSE)
    /\ orphans' = orphans \ {ops}
    /\ UNCHANGED <<browser, counters, answered, sent, laidOver, unheard>>

(* An edit of somebody else, who may have seen an older document. *)
OtherEdits(op) ==
    /\ others < MaxOthers /\ others' = others + 1
    /\ Store(MergeOps(document, <<op>>, Other), FALSE)
    /\ UNCHANGED <<browser, orphans, edits, faults, answered, sent, laidOver, unheard>>

(* POST /api/wiki/:id/restore *)
RestoreTo(version) ==
    /\ others < MaxOthers /\ others' = others + 1
    /\ LET target == Reconstruct(document, revisions, version) IN
       /\ target # None
       /\ Store(MergeOps(document, DiffToOps(document.blocks, target), Other), TRUE)
    /\ UNCHANGED <<browser, orphans, edits, faults, answered, sent, laidOver, unheard>>

----------------------------------------------------------------------------
(* The queue of the browser.                                               *)

(* coalesceOps: an op is folded into the one before it in the queue. *)
Folds(last, op) == op.kind = "update" /\ last.kind \in {"insert", "update"} /\ last.id = op.id

Fold(last, op) ==
    IF last.kind = "insert" THEN [last EXCEPT !.text = op.text]
    ELSE [last EXCEPT !.text = op.text, !.op = op.op]

Pushed(q, op) ==
    IF q # << >> /\ Folds(Last(q), op) THEN Append(Front(q), Fold(Last(q), op)) ELSE Append(q, op)

CoalesceOps(ops) ==
    LET q[n \in 0..Len(ops)] == IF n = 0 THEN << >> ELSE Pushed(q[n - 1], ops[n])
    IN q[Len(ops)]

(* withOwnBaseSeq *)
MutBased(ops) == ops

Based(ops) ==
    [i \in DOMAIN ops |->
        IF ops[i].kind = "update" /\ ops[i].id \in DOMAIN own /\ own[ops[i].id] > ops[i].base
        THEN [ops[i] EXCEPT !.base = own[ops[i].id]] ELSE ops[i]]

Batch == Based(CoalesceOps(queue))
OpIds(ops) == {ops[i].op : i \in DOMAIN ops}

(* History: what is queued behind an insert that the server may have, and   *)
(* will be folded into it.                                                  *)
LaidOver(front, rest) ==
    LET texts == {rest[n].text : n \in {k \in DOMAIN rest : \A j \in 1..k : Folds(Last(front), rest[j])}} IN
    IF front # << >> /\ Last(front).kind = "insert" /\ Last(front).op \in sent THEN laidOver \cup texts ELSE laidOver

(* flush: nothing while a request is under way. *)
Flushes == flight = None /\ queue # << >>
Sends ==
    /\ flight' = [ops |-> Batch, answer |-> None]
    /\ sent' = sent \cup OpIds(Batch)

TimerFires ==
    /\ timer /\ timer' = FALSE
    /\ IF Flushes THEN Sends /\ queue' = << >> /\ status' = "saving"
       ELSE UNCHANGED <<flight, sent, queue, status>>
    /\ UNCHANGED <<server, attempt, view, own, orphans, counters, past, done, again, kept, answered, laidOver, unheard>>

(* push.  An edit of the structure flushes first (onFlushBefore).           *)
Push(op, structural) ==
    LET left == IF structural /\ Flushes THEN << >> ELSE queue IN
    /\ queue' = CoalesceOps(Append(left, op))
    /\ IF structural /\ Flushes THEN Sends ELSE UNCHANGED <<flight, sent>>
    /\ timer' = TRUE /\ status' = "dirty"
    /\ laidOver' = LaidOver(CoalesceOps(left), <<op>>)
    /\ edits' = edits + 1
    /\ UNCHANGED <<server, attempt, own, orphans, others, faults, past, done, again, kept, answered, unheard>>

Number == edits + others + 2
Types(i) ==
    /\ edits < MaxEdits
    /\ Push(Op("update", Number, view[i].id, view[i].seq, None), FALSE)
    /\ UNCHANGED view
Adds(i) ==
    /\ edits < MaxEdits
    /\ Push(Op("insert", Number, Number, 0, IF i = 0 THEN None ELSE view[i].id), TRUE)
    /\ view' = InsertAt(view, i + 1, [id |-> Number, seq |-> 0])
Deletes(i) ==
    /\ edits < MaxEdits /\ Len(view) > 1
    /\ Push(Op("delete", Number, view[i].id, 0, None), TRUE)
    /\ view' = RemoveAt(view, i)
Moves(i, to) ==
    /\ edits < MaxEdits /\ to # i /\ to # i - 1
    /\ Push(Op("move", Number, view[i].id, 0, IF to = 0 THEN None ELSE view[to].id), TRUE)
    /\ view' = LET rest == RemoveAt(view, i) IN InsertAt(rest, IF to < i THEN to + 1 ELSE to, view[i])

(* An edit may have come, and its timer gone, while the request was under   *)
(* way.                                                                     *)
MutRescheduled == timer

Rescheduled == timer \/ queue # << >>

(* The answer comes: the screen takes the server's blocks, the browser      *)
(* notes the seqs it has put on them itself (ownSeqsFrom), and sends on.    *)
Receive ==
    /\ flight # None /\ flight.answer # None
    /\ LET a == flight.answer
           alive == {a.blocks[i].id : i \in DOMAIN a.blocks}
           mine == {id \in alive : /\ a.blocks[Index(a.blocks, id)].by = Me
                                   /\ \E i \in DOMAIN flight.ops : flight.ops[i].id = id /\ flight.ops[i].op \in a.applied}
           lost == {r.op : r \in {x \in a.rejected : x.dropped}}
       IN /\ own' = [id \in mine \cup (DOMAIN own \cap alive) |->
                        IF id \in mine THEN a.blocks[Index(a.blocks, id)].seq ELSE own[id]]
          /\ view' = Seen(a.blocks)
          /\ answered' = answered \cup {flight.ops[i].text : i \in {j \in DOMAIN flight.ops :
                                flight.ops[j].text # None /\ flight.ops[j].op \notin lost}}
    /\ flight' = None /\ attempt' = 0
    /\ timer' = Rescheduled
    /\ status' = IF queue # << >> THEN "dirty" ELSE "saved"
    /\ UNCHANGED <<server, queue, orphans, counters, past, done, again, kept, sent, laidOver, unheard>>

(* fetch fails, or the server answers 5xx: the batch goes back to the front *)
(* of the queue.  The request may have been served, or be served later.     *)
FetchFails ==
    /\ flight # None /\ faults < MaxFaults /\ faults' = faults + 1
    /\ queue' = flight.ops \o queue
    /\ orphans' \in IF flight.answer = None THEN {orphans, orphans \cup {flight.ops}} ELSE {orphans}
    /\ flight' = None
    /\ IF attempt < Retries
       THEN attempt' = attempt + 1 /\ timer' = TRUE /\ status' = "dirty"
       ELSE attempt' = 0 /\ status' = "error" /\ UNCHANGED timer
    /\ unheard' = TRUE /\ laidOver' = LaidOver(flight.ops, queue)
    /\ UNCHANGED <<server, view, own, edits, others, past, done, again, kept, answered, sent>>

(* The server refuses the batch (4xx), or serves it and its answer cannot   *)
(* be read: it is given up, and the person told that it is not saved.       *)
Refused ==
    /\ flight # None /\ faults < MaxFaults /\ faults' = faults + 1
    /\ flight' = None /\ attempt' = 0 /\ status' = "error"
    /\ IF flight.answer = None THEN UNCHANGED unheard ELSE unheard' = TRUE
    /\ UNCHANGED <<server, queue, timer, view, own, orphans, edits, others, past, done, again, kept, answered, sent, laidOver>>

(* flushBeacon: the tab is hidden. *)
Hides ==
    /\ Flushes /\ faults < MaxFaults /\ faults' = faults + 1
    /\ orphans' = orphans \cup {Batch}
    /\ sent' = sent \cup OpIds(Batch) /\ unheard' = TRUE
    /\ UNCHANGED <<server, browser, edits, others, past, done, again, kept, answered, laidOver>>

(* The person presses "save again". *)
Presses ==
    /\ status = "error" /\ Flushes
    /\ Sends /\ queue' = << >> /\ status' = "saving" /\ timer' = FALSE
    /\ UNCHANGED <<server, attempt, view, own, orphans, counters, past, done, again, kept, answered, laidOver, unheard>>

(* The stream tells of a change, and the document is read again. *)
Reloads ==
    /\ view # Seen(document.blocks)
    /\ view' = Seen(document.blocks)
    /\ UNCHANGED <<server, queue, flight, timer, attempt, status, own, orphans, counters, history>>

Next ==
    \/ Serve \/ TimerFires \/ Receive \/ FetchFails \/ Refused \/ Hides \/ Presses \/ Reloads
    \/ \E ops \in orphans : ServeOrphan(ops)
    \/ \E i \in DOMAIN view : Types(i) \/ Deletes(i) \/ \E to \in 0..Len(view) : Moves(i, to)
    \/ \E i \in 0..Len(view) : Adds(i)
    \/ \E id \in {b.id : b \in ToSet(past[1]) \cup ToSet(document.blocks)}, base \in {0, document.seq} :
          \/ OtherEdits(Op("update", Number, id, base, None))
          \/ base = 0 /\ OtherEdits(Op("delete", Number, id, 0, None))
          \/ base = 0 /\ OtherEdits(Op("insert", Number, Number, 0, id))
    \/ \E version \in 1..(document.version - 1) : RestoreTo(version)

Spec == Init /\ [][Next]_vars

----------------------------------------------------------------------------
Content(blocks) == [i \in DOMAIN blocks |-> [id |-> blocks[i].id, text |-> blocks[i].text]]

(* A document has a block and no id twice, its version counts its history,  *)
(* and no block is younger than the document.                               *)
WikiTypeOK ==
    /\ document.blocks # << >>
    /\ \A i, j \in DOMAIN document.blocks : document.blocks[i].id = document.blocks[j].id => i = j
    /\ document.version = Len(past) /\ \A i \in DOMAIN document.blocks : document.blocks[i].seq <= document.seq
    /\ status \in {"idle", "dirty", "saving", "saved", "error"} /\ attempt \in 0..Retries

(* The history is true: every version that is still kept is rebuilt, from   *)
(* the snapshots and the inverses of what came after it, as it was.         *)
HistoryIsTrue ==
    \A v \in 1..document.version :
        LET rebuilt == Reconstruct(document, revisions, v) IN
        /\ rebuilt # None => rebuilt = past[v]
        /\ rebuilt = None => v + MaxRevisions <= document.version

(* A restore makes of the document what it was in that version, whatever    *)
(* was moved, deleted and inserted since.                                   *)
RestoreIsExact == [][\A v \in 1..document.version :
    RestoreTo(v) => Content(document'.blocks) = Content(past[v])]_vars

(* However often it is sent, an op that was answered as applied changes the *)
(* document no more - not even one that had nothing to change at first, and *)
(* would have now that a restore has brought back what it wants deleted.    *)
AppliedOnce == again = {}

(* A text the person was told is safe is in a version or in the history -   *)
(* unless it was laid into an insert that had been sent already.            *)
AnsweredIsKept == answered \subseteq kept \cup laidOver

(* The same without the exception (wikiOps.ts:16-17: the queue is thrown    *)
(* away in no failure, and what was not sent goes back to its front).       *)
TypedIsKept == answered \subseteq kept

Twice(ops, id) == Cardinality({i \in DOMAIN ops : ops[i].id = id /\ ops[i].kind \in {"insert", "update"}}) > 1

(* Nobody is told that he was overtaken by himself (ownSeqsFrom), as long   *)
(* as every answer was heard.  The one exception is a batch that writes a   *)
(* block twice with another in between (A, B, A), which is not folded: the  *)
(* second write finds the seq of the first, which the browser cannot know,  *)
(* and the person is told of himself, though ownSeqsFrom is there to make   *)
(* that impossible (wikiOps.ts:192-203).                                    *)
NoFalseNotice ==
    flight # None /\ flight.answer # None =>
        \A b \in flight.answer.overwrites : b.by = Me => unheard \/ Twice(flight.ops, b.id)

(* What was typed does not lie about: a timer or an answer will send it, or *)
(* the person is told that it is not saved.                                 *)
NothingStrands == queue # << >> => timer \/ flight # None \/ status = "error"
=============================================================================
