----------------------------- MODULE WikiMerge -----------------------------
(***************************************************************************)
(* The merge of a wiki document and its history, as operators              *)
(* (wiki-merge.mjs, wiki-revisions.mjs).  A document is a sequence of      *)
(* blocks; an op inserts, updates, deletes or moves one.  What a block     *)
(* holds is a text; the kinds of blocks, their fields and the limits of    *)
(* length are left out, so that an op that is well formed always fits.     *)
(* The windows of op ids (200) are sets that do not overflow.              *)
(***************************************************************************)
EXTENDS Integers, SequencesExt

CONSTANTS
    MaxTombstones,   \* MAX_TOMBSTONES
    MaxRevisions,    \* MAX_REVISIONS_PER_DOCUMENT
    SnapshotEvery,   \* SNAPSHOT_EVERY
    MaxLost,         \* MAX_LOST_TEXT_PER_BATCH, in texts
    None

ASSUME WikiAssumption == {MaxTombstones, MaxRevisions, SnapshotEvery, MaxLost} \subseteq Nat \ {0}

Has(rows, id) == \E i \in DOMAIN rows : rows[i].id = id
Index(rows, id) == IF Has(rows, id) THEN CHOOSE i \in DOMAIN rows : rows[i].id = id /\ \A j \in 1..(i - 1) : rows[j].id # id ELSE 0
IdBefore(blocks, i) == IF i > 1 THEN blocks[i - 1].id ELSE None

(* resolveAnchor: the place after which a block goes, 0 for the front.  A   *)
(* deleted anchor is followed to what stood before it.                      *)
Followed(blocks, tombs, after) ==
    LET at[hops \in 0..Len(tombs)] ==
            IF hops = 0 THEN after
            ELSE LET a == at[hops - 1] IN
                 IF a = None \/ Has(blocks, a) \/ ~Has(tombs, a) THEN a ELSE tombs[Index(tombs, a)].after
    IN at[Len(tombs)]

Anchor(blocks, tombs, after) ==
    LET found == Followed(blocks, tombs, after)
    IN IF found = None THEN 0 ELSE IF Has(blocks, found) THEN Index(blocks, found) ELSE Len(blocks)

Stamped(id, text, seq, actor) == [id |-> id, text |-> text, seq |-> seq, by |-> actor]

----------------------------------------------------------------------------
(* One op on a merge under way.  `took` are the ops that changed something. *)
Applied(m, op) == [m EXCEPT !.applied = @ \cup {op.op}]
Took(m, op) == [Applied(m, op) EXCEPT !.took = @ \cup {op.op}]

InsertOp(m, op, actor) ==
    [Took(m, op) EXCEPT
        !.seq = @ + 1,
        !.blocks = InsertAt(@, Anchor(@, m.tombs, op.after) + 1, Stamped(op.id, op.text, m.seq + 1, actor)),
        !.inverse = <<[kind |-> "delete", id |-> op.id]>> \o @]

(* rejectOp with archiveLostText: the text goes into the history, unless it *)
(* is there already or the batch has given too much.                        *)
MutRejectOp(m, op) == [m EXCEPT !.rejected = @ \cup {[op |-> op.op, dropped |-> FALSE]}]

RejectOp(m, op) ==
    LET again == op.text = None \/ op.op \in m.lostBefore
        dropped == ~again /\ Cardinality(m.lost) >= MaxLost
    IN [m EXCEPT !.rejected = @ \cup {[op |-> op.op, dropped |-> dropped]},
                 !.lost = IF again \/ dropped THEN @ ELSE @ \cup {op.text},
                 !.lostOps = IF again \/ dropped THEN @ ELSE @ \cup {op.op}]

UpdateOp(m, op, actor) ==
    LET i == Index(m.blocks, op.id)
        before == m.blocks[i]
        base == IF op.kind = "update" THEN op.base ELSE 0
    IN CASE i = 0 -> RejectOp(m, op)
         [] i # 0 /\ before.text = op.text -> Applied(m, op)
         [] OTHER ->
            [Took(m, op) EXCEPT
                !.seq = @ + 1,
                !.blocks[i] = Stamped(op.id, op.text, m.seq + 1, actor),
                !.overwrites = IF base < before.seq THEN @ \cup {before} ELSE @,
                !.inverse = <<[kind |-> "update", id |-> op.id, block |-> before]>> \o @]

MutDeleteOp(m, op) ==
    LET i == Index(m.blocks, op.id)
        after == IdBefore(m.blocks, i)
    IN IF i = 0 THEN Applied(m, op)
       ELSE [Took(m, op) EXCEPT
                !.blocks = RemoveAt(@, i),
                !.tombs = <<[id |-> op.id, after |-> after]>> \o @,
                !.inverse = @ \o <<[kind |-> "insert", block |-> m.blocks[i], after |-> after]>>]

DeleteOp(m, op) ==
    LET i == Index(m.blocks, op.id)
        after == IdBefore(m.blocks, i)
    IN IF i = 0 THEN Applied(m, op)
       ELSE [Took(m, op) EXCEPT
                !.blocks = RemoveAt(@, i),
                !.tombs = <<[id |-> op.id, after |-> after]>> \o @,
                !.inverse = <<[kind |-> "insert", block |-> m.blocks[i], after |-> after]>> \o @]

MoveOp(m, op) ==
    LET i == Index(m.blocks, op.id)
        rest == RemoveAt(m.blocks, i)
        to == Anchor(rest, m.tombs, op.after)
    IN CASE i = 0 \/ op.after = op.id -> RejectOp(m, op)
         [] i # 0 /\ op.after # op.id /\ to + 1 = i -> Applied(m, op)
         [] OTHER ->
            [Took(m, op) EXCEPT
                !.blocks = InsertAt(rest, to + 1, m.blocks[i]),
                !.inverse = <<[kind |-> "move", id |-> op.id, after |-> IdBefore(m.blocks, i)]>> \o @]

MergeOp(m, op, actor) ==
    IF op.op \in m.recent THEN Applied(m, op)
    ELSE CASE op.kind = "delete" -> DeleteOp(m, op)
           [] op.kind = "move" -> MoveOp(m, op)
           [] op.kind = "insert" /\ ~Has(m.blocks, op.id) -> InsertOp(m, op, actor)
           [] OTHER -> UpdateOp(m, op, actor)

MergeAll(start, ops, actor) ==
    LET m[n \in 0..Len(ops)] == IF n = 0 THEN start ELSE MergeOp(m[n - 1], ops[n], actor)
    IN m[Len(ops)]

(* A document is never empty: a block of the server's own is put in.  Its  *)
(* id is new; below 0 it differs from those of edits.                      *)
Filled(m, filler, actor) ==
    IF m.blocks # << >> THEN m
    ELSE [m EXCEPT !.blocks = <<Stamped(filler, 0, m.seq + 1, actor)>>, !.seq = @ + 1,
                   !.inverse = <<[kind |-> "delete", id |-> filler]>> \o @]

(* The window of op ids: what was answered as applied, also where it had    *)
(* nothing to change.                                                       *)
MutWindow(document, m) == document.recent \cup (m.took \ {None})

Window(document, m) == document.recent \cup (m.applied \ {None})

(* mergeOps.  An op without an id (None) is the server's own (a restore).   *)
MergeOps(document, ops, actor) ==
    LET start == [blocks |-> document.blocks, tombs |-> document.tombs, seq |-> document.seq,
                  recent |-> document.recent, lostBefore |-> document.recentLost,
                  applied |-> {}, took |-> {}, rejected |-> {}, overwrites |-> {},
                  lost |-> {}, lostOps |-> {}, inverse |-> << >>]
        m == Filled(MergeAll(start, ops, actor), 0 - document.version, actor)
        bumped == m.took # {} \/ m.lost # {}
    IN [document |->
            IF ~bumped THEN [document EXCEPT !.recent = Window(document, m)]
            ELSE [blocks |-> m.blocks, seq |-> m.seq, version |-> document.version + 1, recent |-> Window(document, m),
                  tombs |-> SubSeq(m.tombs, 1, IF Len(m.tombs) < MaxTombstones THEN Len(m.tombs) ELSE MaxTombstones),
                  recentLost |-> document.recentLost \cup m.lostOps],
        bumped |-> bumped, applied |-> m.applied, took |-> m.took, rejected |-> m.rejected,
        overwrites |-> m.overwrites, lost |-> m.lost, inverse |-> m.inverse]

----------------------------------------------------------------------------
(* buildRevision: every so often, and after a restore, with all the blocks. *)
(* The snapshot of a batch that changes more than ten blocks is left out: a *)
(* revision without one is the harder case for what follows.                *)
Revision(result, restored) ==
    LET version == result.document.version IN
    [version |-> version, inverse |-> result.inverse, overwrites |-> result.overwrites, lost |-> result.lost,
     snapshot |-> IF restored \/ version = 1 \/ version % SnapshotEvery = 0 THEN result.document.blocks ELSE << >>]

(* appendRevision, pruneRevisions *)
WithRevision(revisions, revision) ==
    LET all == revisions \cup {revision} IN
    {r \in all : Cardinality({s \in all : s.version > r.version}) < MaxRevisions}

(* applyRawOps.  No id is in a document twice, so that deleting what has   *)
(* the id (filter) removes one block.                                       *)
Undone(blocks, entry) ==
    LET i == IF "id" \in DOMAIN entry THEN Index(blocks, entry.id) ELSE 0
        place(bs) == IF entry.after = None THEN 1
                     ELSE IF Has(bs, entry.after) THEN Index(bs, entry.after) + 1 ELSE Len(bs) + 1
    IN CASE entry.kind = "insert" -> InsertAt(blocks, place(blocks), entry.block)
         [] entry.kind # "insert" /\ i = 0 -> blocks
         [] entry.kind = "delete" /\ i # 0 -> RemoveAt(blocks, i)
         [] entry.kind = "update" /\ i # 0 -> ReplaceAt(blocks, i, entry.block)
         [] entry.kind = "move" /\ i # 0 -> InsertAt(RemoveAt(blocks, i), place(RemoveAt(blocks, i)), blocks[i])

UndoneAll(blocks, entries) ==
    LET u[n \in 0..Len(entries)] == IF n = 0 THEN blocks ELSE Undone(u[n - 1], entries[n])
    IN u[Len(entries)]

(* reconstructBlocks: from the next snapshot (or from the document itself)  *)
(* back to the version that is asked for; None where a row is gone.         *)
RowOf(revisions, version) == CHOOSE r \in revisions : r.version = version

BackFrom(blocks, from, version, revisions) ==
    LET at[back \in 0..(from - version)] ==
            IF back = 0 THEN blocks ELSE UndoneAll(at[back - 1], RowOf(revisions, from - back + 1).inverse)
    IN at[from - version]

Reconstruct(document, revisions, version) ==
    LET kept == {r.version : r \in revisions}
        whole == {r.version : r \in {x \in revisions : x.snapshot # << >> /\ x.version >= version}}
        from == IF whole = {} THEN document.version ELSE CHOOSE v \in whole : \A w \in whole : v <= w
    IN IF ~(version..from \subseteq kept) THEN None
       ELSE BackFrom(IF whole = {} THEN document.blocks ELSE RowOf(revisions, from).snapshot, from, version, revisions)

(* The members of s at the places of a set, in their order. *)
Picked(s, places) ==
    LET p[n \in 0..Len(s)] == IF n = 0 THEN << >> ELSE IF n \in places THEN Append(p[n - 1], s[n]) ELSE p[n - 1]
    IN p[Len(s)]

(* diffToOps: what makes one sequence of blocks of another.  Every block is *)
(* moved to its place when one was inserted, or when the others stand in    *)
(* another order.                                                           *)
MutReordered(current, target) == FALSE

Reordered(current, target) ==
    LET ids(blocks, others) == LET left == Picked(blocks, {i \in DOMAIN blocks : Has(others, blocks[i].id)}) IN
                               [i \in DOMAIN left |-> left[i].id]
    IN ids(current, target) # ids(target, current)

NeedsMoves(current, target) ==
    Reordered(current, target) \/ \E i \in DOMAIN target : ~Has(current, target[i].id)

DiffToOps(current, target) ==
    LET op(kind, b, after) == [op |-> None, kind |-> kind, id |-> b.id, after |-> after,
                               text |-> IF kind \in {"insert", "update"} THEN b.text ELSE None,
                               base |-> IF Has(current, b.id) THEN current[Index(current, b.id)].seq ELSE 0]
        new(b) == ~Has(current, b.id)
        rewritten(b) == ~new(b) /\ current[Index(current, b.id)].text # b.text
        gone == Picked(current, {i \in DOMAIN current : ~Has(target, current[i].id)})
        each == [i \in DOMAIN target |-> IF new(target[i]) THEN op("insert", target[i], IdBefore(target, i))
                                         ELSE op("update", target[i], None)]
        written == Picked(each, {i \in DOMAIN target : new(target[i]) \/ rewritten(target[i])})
    IN [i \in DOMAIN gone |-> op("delete", gone[i], None)] \o written
       \o (IF NeedsMoves(current, target)
           THEN [i \in DOMAIN target |-> op("move", target[i], IdBefore(target, i))] ELSE << >>)
=============================================================================
