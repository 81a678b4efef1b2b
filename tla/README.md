# A formal model of the OnFactory ERP server

TLA+ modules that model the parts of this repository where the order of steps
decides whether somebody's work is lost, with the TLC runs that check them and
the proofs TLAPS checks. `PROJECT.json` lists the components, the runs, the
hazards, the theorems and, for every definition, the lines it stands for.

    tlc -workers 2 -config WorkItems.cfg MCWorkItems     # a run
    tlapm WorkProofs.tla                                 # a proof

## 1. The system

The server (`server/app.mjs`, `server/index.mjs`) is one Node process. It keeps
the whole store of all tenants in one object, `workspaceStore`; a key of a
tenant, say `work-items`, is a *record* `{data, updatedAt, updatedBy}`. There is
one thread and there are no locks. A handler runs undisturbed from one `await`
to the next, and everything hard comes from what runs in between.

| component | state | operations | talks to |
|---|---|---|---|
| JSON store adapter (`store/json-store.mjs`) | main file, `.bak`, temporary files, `mainVerified`, `health` | loadSnapshot, commitSnapshot | called synchronously by `commitWorkspaceStore` |
| Postgres store adapter (`store/postgres-store.mjs`) | tables, `snapshot`, `commitTail` | loadSnapshot, commitSnapshot | a queue of clones, one transaction at a time |
| workspace store and its writers (`app.mjs`) | the records in memory | PUT of a key, routes for one row | adapter; clients with `If-Match` (`useWorkspaceState.ts`) |
| work item states (`app.mjs`, `work-item-edit.mjs`) | status, owner, checklist, history of an item | transition, checklist, edit, comment | document storage (await) |
| work item tree (`work-item-tree.mjs`) | `parentId` | /parent, check of a whole list | the PUT |
| archive (`archive.mjs`, `work-archive.mjs`, `work-item-edit.mjs`) | segments, index with `restoredIds` | append, take, undo, forget; cancel, sweep, restore | file storage (await), list of items |
| webhook delivery (`webhook-dispatch.mjs`, `webhook-routes.mjs`) | deliveries, endpoints with their failure counters, who asked for a drain | queue with a change, drain in passes, back-off, giving up, automatic stop, retry, switch, remove | outside servers (minutes of await), the store |
| scheduler (`scheduler.mjs`) | state and runs of jobs | tick, run by hand | all the maintenance jobs |
| billing (`billing-service.mjs`) | reservations, events, reconciliations | reserve, record, release, reconcile, close month | its own transactional repository; called by every route that calls the model, before and after an await of up to minutes |
| approvals (`approval-forms.mjs`, `approval-routing.mjs`) | documents and their lines of approvers, stand-ins | draft, submit, decide, recall, name a stand-in | document library (the evidence file, an await) |
| document library (`app.mjs`) | list of files, bytes in the file storage | upload, trash, restore, purge, nightly emptying | approvals and others hold files; file storage (await) |
| calendar sync (`calendar-sync.mjs`) | links, tombstones | pull, push | Google (await) |
| wiki (`wiki.mjs`, `wiki-merge.mjs`, `wiki-revisions.mjs`; in the browser `wikiOps.ts`) | documents of blocks, revisions with their inverses; the browser's queue of ops | merge a batch, rebuild a version, restore it; push, flush, take an answer, send again | the browser and the server lose requests and answers between them |
| Sites worker (`worker/index.mjs`) | one row of state with a revision, a lease, objects in a bucket | lock, copy, stage a file, check, swap, remove a file, compensate | D1, R2; the application of `app.mjs` works on the copy |
| backup and restore (`restore-data.mjs`, `backup-mirror.mjs`) | directories | restore, mirror | the store's files |

The rest (views, forms, notifications, meeting notes, materials, guest filters,
SQL, scripts) is listed in `PROJECT.json` with the reason it is left out.

What is hard here:

* **state read before an await and used after it**: every route with an
  attachment check, every route that calls the archive, every drain;
* **undo of a failed commit**: a handler puts back a record it captured, and
  what it captured may be old;
* **two stores that change together**: the list and the archive, the list and
  the deliveries, the state in D1 and the files in R2, with no transaction
  around them;
* **a stop in the middle**: between two renames, between taking a row and
  committing it, between sending a delivery and noting it;
* **doing it again**: a batch of ops whose answer was lost, a delivery whose
  commit failed, a lease that ran out under its owner;
* **two adapters**: with JSON a commit is over when the call returns, with
  Postgres it is queued, and the same handlers run on either.

What makes each component correct is what its properties say (section 3). The
full list of hazards is `PROJECT.json` "hazards", each at its line, with the
properties that cover it, or with the reason why none does.

## 2. The modules

| module | models | extends |
|---|---|---|
| `SnapshotCell` | what a snapshot store promises: a cell replaced in one step | |
| `JsonStore` | the file steps of the JSON adapter | instantiates `SnapshotCell` |
| `JsonStoreProofs` | proofs | `JsonStore` |
| `WorkspaceStore` | one key, its writers, both adapters | |
| `WorkspaceProofs` | proofs | `WorkspaceStore` |
| `WorkItems` | states and tree of work items, the handlers that leave the list and the archive apart | |
| `WorkArchive` | the archive and the handlers that move rows between it and the list, composed with those of `WorkItems`; what is claimed of the list | `WorkItems` |
| `WorkProofs` | proofs about the items and the archive | `WorkArchive` |
| `UsageLedger` | the ledger of AI usage, the requests that call the model, the hourly job | |
| `UsageLedgerProofs` | proofs | `UsageLedger` |
| `DocumentLibrary` | the list of files and their bytes; what holds a file is a parameter | |
| `Approvals` | approval documents, stand-ins and accounts, composed with the library | `DocumentLibrary` |
| `ApprovalsProofs` | proofs | `Approvals` |
| `WebhookDispatch` | the outbound deliveries of a customer | |
| `WebhookProofs` | proofs | `WebhookDispatch` |
| `WikiMerge` | the merge of ops, the history and the restore, as operators | |
| `WikiEditing` | a document, one browser with its queue, and the others | `WikiMerge` |
| `WikiProofs` | proofs | `WikiEditing` |
| `SitesWorker` | the requests of the Sites deployment | |
| `SitesProofs` | proofs | `SitesWorker` |
| `MC...` | the values TLC uses, and claims that a run refutes | the module of that name |

Definitions named `Mut...` are slips: each stands before the definition of the
code it gets wrong and is used by no specification.

### JsonStore

| code | model |
|---|---|
| content of a file | `form` (what `parseStore` makes of it) and `gen` (which commit it comes from) |
| `readJsonDetailed` | `Load` |
| `loadSnapshot` | `Boot`, or `BootRefused` where it throws |
| `writeJsonAtomically`, one action per file operation | `WriteTemporary`, `Rotate` or `Quarantine`, `Install`; `Answer` when the call returns; `StepFails` where one throws |
| stop of the process | `Crash`, possible in every state |
| removal of temporary files | `leftover`, in `Boot`, with `Age` for the hour that must have passed |

`Damage` breaks the main file, and only while no server runs; a backup is never
damaged. A power failure that undoes renames is outside the model.
`installed`, `parent`, `damaged` and `rewound` are history.

### WorkspaceStore

A row is the set of writes it incorporates, so that "a write is lost" is a plain
statement: its name is missing. A record carries the request that made it,
since the code compares records by identity (`!==`, `===`) in two places and by
content (hash, deep equality) in two others.

| code | model |
|---|---|
| a GET and then a write against it | `ClientSend` |
| the PUT: version check, await, identity check, write | `RefuseAtOnce`, `Begin`, `StillValid`, `Apply...` for `kind = "put"`; without an `If-Match`, which is not checked, `"blind"` |
| transition: capture, await, `rebaseRowWrite` | the same for `"submit"` |
| `commitRow`: no await | `"row"` |
| restore of an archived row: checks, await, write on the newest list | `"unarchive"` |
| `adapter.commitSnapshot`, JSON | `ApplyJson`, `ApplyJsonFails`: one step |
| `adapter.commitSnapshot`, Postgres | `ApplyPostgres` queues a clone, `CommitHead` and `CommitHeadFails` run the transaction at the head |
| the `catch` of each handler | `Rollback`: what it captured first, or what it found when it wrote |
| `scheduleAuditCommit` | `TimerCommit` |
| stop and start | `Restart` |

### WorkItems

`list` is the array of the tenant as a function from ids to rows, `waiting` the
reports that wait for the storage. One action per route and branch:
`Accept`, `SubmitAtOnce` or `SubmitBegins`/`SubmitEnds`/`SubmitRefused`,
`Approve`, `RequestChanges`, `Tick`, `Comment`, `HandOver`, `Move`; the
administrator's PUT is `Add`, `Remove`, `Reparent` and `Override`, each sending
the whole list through `AcceptedList`. An added or overridden row may say
anything (status, owner, reporter, checks). One PUT may change several rows; what
it then leaves is also left by several PUTs of these kinds, as each of them keeps
to the same check, so that only the states between them are more. `Add` is also
the routes that put a new item in front of the list without looking at the tree.

Who may call what is left out: some entitled person calls it. Texts, projects,
schedules and custom fields are left out. `rev` counts the changes that lengthen
a row's history; the tick of a check and a move do not lengthen it, and the code's
deep comparison sees them through the fields they change. A row that is put back by
a PUT without `If-Match` of an older list is outside this module; that PUT is
`"blind"` in `WorkspaceStore`.

`setup` is chosen once: which items, routes and contents are considered together. It
keeps TLC's instances small (`MCSetups`); the proofs are for any set of set-ups,
the one with every item and every route among them.

### WorkArchive

The archive's calls go through `serialize`, a chain of promises: `calls` is that
queue, and a call is answered when its turn comes. `copies` is the newest copy of
an item, `hidden` the `restoredIds`. A handler is a `job` that steps through its
awaits. `NobodyGoesOn` says that a handler whose promise has resolved runs
before any other request: it is a microtask.

| code | model |
|---|---|
| cancel: capture, `append`, compare, remove or `forget` | `CancelBegins`, `AppendDone` or `AppendFails`, `Removes`, `RemoveFails` or `CancelConflict`, `Forget` |
| sweep: capture, `append`, compare, `forget` of what changed, write | `SweepBegins`, ..., `Removes` when nothing changed, else `SweepStale`, `SweepHides`; the `forget` without a `catch` (`work-archive.mjs:87`) ends the handler in `CleanUpFails` |
| archive restore: room, `take`, room again, put back or undo | `UnarchiveBegins`, `Take` or `TakeRefused`, `PutBack` or `PutBackFails`, `Undo` |
| cancelled restore: note the list, `take` the root, look at it, `list` its children, `take` each, write the noted list with them or undo all | `ReviveBegins`, `Take`, `ReviveLooks`, `ReviveFinds`, `ReviveAsks`, `Take` ..., `ReviveWrites`; `LookFails`, `PutBackFails`, `Undo` |
| a failing clean-up | `CleanUpFails`, and `Restart` while a handler was under way |

`ArchiveNext` is the next-state relation of the whole: every handler of
`WorkItems`, the PUT, and the four handlers of the archive. The list is committed by
the JSON adapter; with Postgres the handlers wait once more at the commit
(`WorkspaceStore` is about that wait). Of several copies of an item only the newest
is kept; an older one can be seen beside it only after a clean-up was lost, or
between two appends that were asked for together.

### UsageLedger

One customer, one month, `limitAction` "block" ("warn" is the same ledger without
a limit). Over Postgres each call of the service is one serializable
transaction, so it is one step here; a caller sees it refused, failed, or
committed, and a failure may hide a commit. `Reserve` and `Record` therefore
change the tables and go on as if they had succeeded *or* failed; `RecordFails`
and `QueueFails` are the failures that changed nothing.

| code | model |
|---|---|
| `reserveUsage` | `ReserveUsage` with `Fits`; the request's step is `Reserve` or `ReserveRefused` |
| `listActiveUsageReservations` | `Holds`, `Active` |
| the model call | `ModelAnswers`, `ModelFails` (an answer without text counts as a failure where the handler throws on it) |
| `recordUsageEvent` | `RecordUsageEvent`; `Record`, `RecordFails` |
| `recordReconciliationPending` | `RecordReconciliationPending`; `Queue`, `QueueRefused`, `QueueFails` |
| `releaseUsageReservation` | `ReleaseUsageReservation`; `Release` |
| `reconcilePendingUsageBatch` | `JobLists`, `JobTakes`, and per row the two transactions of `reconcilePendingUsage`: `JobRecords`, `JobResolves`; `JobMoves` when one fails |
| the accounting in the answer | the last `phase` of a call |
| `expiresAt` | `Expire`, possible as soon as a reservation stands |

A model call is given a minute and one retry, a reservation a quarter of an hour; so
in the ordinary case a call ends first. A stalled host or a jump of the clock
can reverse that, the code guards against it, and `Expire` allows it. The memory and
D1 repositories, usage without a reservation, a second transcription of one
meeting, a change of the plan while calls run, and the close of a month are left
out.

### DocumentLibrary and Approvals

The library is a list that is read, changed and committed as a whole, and one
object per row. `LibraryNext(holds)` takes what holds a file
(`documentReferenceHold`) as its argument; `Approvals` gives it `Holds` and
composes the two: the library's handlers and the last approval, which writes a
file in the middle of its handler, wait for the same storage.

| code | model |
|---|---|
| upload; its commit fails | `Upload`, `UploadListed`; `UploadFails` |
| DELETE, restore, DELETE with `permanent=1` | `Trash`, `Untrash`, `Purge` ... `PurgeListFails`, one action per await |
| the nightly emptying | `Sweep`, `SweepDelete` |
| routes of a draft | `Create`, `Patch`, `Delete`, `Submit` |
| `approvalSeatFor`, `applyApprovalDecision` | `MayPress`, `Decided` |
| `/decision` | `Decide`; with an evidence form `DecideWithFile`, then `DecideCommitted` or `DecideGivenUp` |
| `/recall` | `Recall` |
| `normalizeDelegate` | `StandIn`, `StandInEnds` |

A seat is named by its approver, `seats.by` says who pressed it. The version of
a row is not modelled: every write raises it, so that "same version and status"
is "same row". Copies, amounts, forms, numbering and print are left out.

### WebhookDispatch

A row is numbered by the time it was queued. `drain` is the pass under way: what
it has still to send, what it read (`noted`), what came of it (`result`), and the
counters it goes on from (`failures`). Between `Begin`, each `Send` and `Write`
anything else may run.

| code | model |
|---|---|
| `queueWebhookDeliveries`, `capDeliveries` | `Added`, `Capped`; `Queue` with the commit the row rides on |
| `emitWebhookEvent` whose commit fails (an announcement); an alert, which is kicked before any commit | `QueueUnsaved`, until a later commit takes the row along (`Saves`) |
| `runDrain`: read; send; write | `Begin`; `Send` with `Outcome`; `Write` (`Overlay`, `Counted`) or `WriteFails` |
| `drain`, `rerun`, its bounded passes | `asked`, `passes`, `EndPass` |
| `nextAttemptAt` is over | `BackOffEnds` |
| hourly sweep | `Sweep` |
| routes | `Retry`, `SwitchOn`, `SwitchOff`, `Remove` |
| stop and start | `Restart` |

Of a failed send (timeout, 5xx) nobody knows whether it arrived; a refused one
(3xx, 4xx) did not. The list is committed by the JSON adapter, in one step. `saved` is
what a start would load: a row that no commit has taken along is gone after a stop.
Rows without an endpoint (mail, messages) are left out.

### WikiMerge and WikiEditing

A document is a sequence of blocks with their `seq`, what a block holds is a
text, and every edit has a number that is the id of its op, of its text and of
the block it inserts. The server serves a batch under a lock and commits it in one
step; so `Serve` is one step, and what interleaves is on the way: requests and
answers are lost, and a request that nobody waits for may still arrive
(`orphans`).

| code | model |
|---|---|
| `mergeOps`, `resolveAnchor`, `rejectOp`, `archiveLostText` | `MergeOps`, `Anchor`, `RejectOp` and one operator per kind of op |
| the window of op ids | `Window` |
| `buildRevision`, `pruneRevisions`, `reconstructBlocks`, `diffToOps` | `Revision`, `WithRevision`, `Reconstruct`, `DiffToOps` |
| POST ops, POST restore | `Serve`, `ServeOrphan`, `OtherEdits`; `RestoreTo` |
| `push`, `coalesceOps`, `withOwnBaseSeq`, `flush`, `flushBeacon` | `Push`, `CoalesceOps`, `Based`, `TimerFires`, `Hides` |
| an answer, a failure, a 4xx or an answer that cannot be read, "save again" | `Receive`, `FetchFails`, `Refused`, `Presses` |

What runs over a batch, a list of entries or a history is a recursive function of
the place it has come to. A snapshot is taken every so often and after a restore; the
one after a batch of more than ten changed blocks is left out, as a revision without
a snapshot is the harder one to rebuild. Kinds of blocks, limits of length, attachments, links
and presence are left out. The two windows of op ids hold 200 in the code and
everything here: what is said of ids is said for documents and browsers between
which fewer than 200 ops come to pass before an answer.

### SitesWorker

Each step on the database or the bucket is an action of its request, and between
any two of them the lease may run out (`LeaseEnds`), another request may take
the lock, a call may fail or the isolate be evicted (`Stop`).

| code | model |
|---|---|
| `acquireRequestLock`, heartbeat, release | `Acquire`, `Busy`, `Beat`, `Release` |
| `loadRuntimeState` | `Load` |
| the application on the copy, `prepareBinaryMutation` | `Accepts`, `Worked`; `Stage`, `StageFails`. A document the application makes itself (`"generate"`, such as the evidence of an approval) is listed without being staged |
| `assertHealthy` | `Check`, `LockLost`, `CheckFails` |
| `compareAndSwapState` | `Swap`, `Conflict`, `SwapThrows` (made or not, nobody knows) |
| `commitAfterState` and its compensation | `Finish`, `RemoveFails` (the object put back or not), `SwapBack` |

The state is which documents are listed and which requests have changed it. The
limits of logins, the evidence of tickets and the hydration of files from the
old row are left out.

## 3. What the runs check

| run | states | shows |
|---|---|---|
| `JsonStore` | 5.7 thousand | `StopLosesNothing`, `OneGenerationBack`, `HealthTellsRewind`, `ImplementsCell`: a stop or failure anywhere in a commit loses nothing that was answered; damage to the main file costs one generation and is reported; the files are one cell |
| `Workspace` | 2.5 million | `NoLostUpdate`, `AnsweredIsDurable`: success means in memory and durable |
| `WorkspaceQueue` | 0.9 million | `SuccessMeansDurable`, `EveryRequestAnswered`: the Postgres queue with transactions that fail |
| `WorkItems` | 3.4 million | `TreeStands`, `ReportStands`, `ClosedMeansDone`, `HistoryOnlyGrows`: the tree, the reports and the histories under all handlers of items and archive together |
| `WorkArchive` | 3.3 million | `LeavesAsItStands`, `CapHolds`, `InOnePlace`, `TakenIsNotListed`, `FamilyIsNotListed`: two archive handlers that overtake each other and the others |
| `UsageLedger` | 55 thousand | `OneStory`, `AccountingIsTrue`, `LimitHolds`, `NotedIsBooked`, `HoldsEnd`: the three tables agree, a user is told the truth about the booking, the limit holds but for what is named, what is noted is booked once, and no reservation holds points for ever |
| `Approvals` | 1.2 million | `FourEyes`, `OwnSeatIsOpen`, `EvidenceStands`, `DecisionsStand`: nobody decides twice or on their own document, nobody is locked out of their seat, what a document rests on stays, no decision is taken back |
| `Webhooks` | 0.5 million | `TwiceOnlyInDoubt`, `StopIsEarned`, `NothingForgotten`, `EveryEventEnds`: an event goes out twice only where the server could not know better, below the cap none is lost, every one ends |
| `Wiki` | 2.2 million | `HistoryIsTrue`, `RestoreIsExact`, `AppliedOnce`, `AnsweredIsKept`, `NoFalseNotice`, `NothingStrands` |
| `Sites` | 6.6 million | `SavedIsStored`, `RefusedIsNowhere`, `FileIsThere`, `OneAfterTheOther`: three requests behind a lease that may run out at any moment |

Two more runs find what the code does against its own words; each is a finding
in `PROJECT.json`:

| run | counterexample |
|---|---|
| `WikiTypedLost` | A paragraph is added, the tab is hidden and sends it, more is typed into it: the update is folded into the insert that was sent, keeps its op id, and is answered as applied without being looked at (`wikiOps.ts:168`) |
| `SitesTrash` | A document is put into the trash; for the worker that is a DELETE, and its object is removed from the bucket; restored, it has no file (`worker/index.mjs:482`) |

### Other disagreements

The modules state eleven more claims of the code's texts that the code does not
keep, one of them in two ways. Each is found by TLC when the property is put into the cfg of the same
component with the values named here.

| property | with | the code | the text |
|---|---|---|---|
| `NoLostUpdate` | `Workspace.cfg`, `Listed <- MCRow`, `Deployments <- MCSubmitUndo` | a report is laid over the newest list, its commit fails, and the list from before its await is put back (`app.mjs:8414`) | only this row is changed, on the newest list (`app.mjs:8382`) |
| `NoLostUpdate` | `Workspace.cfg`, `Deployments <- MCPutUndo` | PUT 1 is queued, PUT 2 made on top of it; 1 fails and puts back the record from before it; 2 commits and is gone from memory (`app.mjs:9070`) | every write stays (`PRODUCT.md:25`) |
| `RefusedLeavesNoTrace` | `Workspace.cfg`, `Deployments <- MCPutUndo` | a PUT is queued and a timer or a later PUT clones the record with it; its transaction fails, it is answered with an error and undone in memory, and the clone stores it (`app.mjs:9070`) | a failed commit leaves no value visible to later requests (`app.mjs:9067`) |
| `NoOrphan` | `WorkItems.cfg` | an item is put under one whose copies are being written, and stays when that goes to the archive (`work-item-edit.mjs:164`); a restore lists a child without its parent (`work-archive.mjs:146`) | the children are moved along so that none is an orphan (`work-item-edit.mjs:145`) |
| `ApprovedMeansDone` | `WorkItems.cfg` | a child is put under an item while its report waits; the item is approved with the child open (`app.mjs:8323`); or it is restored from the archive under a closed one | no finished item below 100 percent (`work-item-tree.mjs:19`) |
| `NeverNowhere` | `WorkArchive.cfg` | an id that was hidden once, by a restore or by a cancel that failed, is never shown again: archived again, the item is nowhere to be seen (`archive.mjs:130`) | no state in which a row is nowhere (`archive.mjs:173`) |
| `SweepTakesOnlyItsOwn` | `WorkArchive.cfg` | a sweep finds a row changed, awaits `forget`, and writes the list from before it (`work-archive.mjs:89`) | from the newest list (`work-archive.mjs:69`) |
| `ZeroIsALimit` | `UsageLedger.cfg`, `Limit = 0` | 100 percent of nothing are not over 100: with a limit of 0 nothing is blocked (`billing-service.mjs:628`) | over the limit, requests are blocked (`BillingDashboard.tsx:323`) |
| `EvidenceIsKept` | `Approvals.cfg` | a purge writes the list it noted before two awaits; the evidence of a document approved meanwhile is not in it (`app.mjs:3330`) | the evidence of an approved document is not deleted (`app.mjs:2667`) |
| `RemovedIsClosed` | `Webhooks.cfg` | a removal closes the rows of the endpoint while a drain sends one; the drain lays its "failed" over it (`webhook-dispatch.mjs:364`) | all that is open is closed, else it stays for ever (`webhook-routes.mjs:1010`) |
| `SwitchingOnClears` | `Webhooks.cfg` | an endpoint is switched on while a drain sends; the drain writes the counter it read before and stops it again (`webhook-dispatch.mjs:393`) | switching on clears the failures, else the next one would stop it again (`webhook-routes.mjs:992`) |
| `ListedHasFile` | `Sites.cfg` | a request in which the application makes a document (the evidence of an approval, `approval-forms.mjs:995`) stages nothing: its file stays in the directory of the isolate (`worker/index.mjs:453`) | a fresh isolate reads every file it misses from the bucket (`worker/index.mjs:352`) |

### Where the properties stop

A property that fails because of a disagreement is checked where the finding cannot
interfere, and the condition is written down:

* `Workspace` runs the deployments of `MCSafe`: JSON commits that can fail,
  without `submit`; Postgres commits that cannot fail, with all four kinds.
  Two are left out, `MCSubmitUndo` and `MCPutUndo`: there the undo of a failed
  commit loses writes or comes too late. The hazards at `app.mjs:8414` and
  `app.mjs:9070` are therefore covered by no property but shown by the table above.
* A PUT without `If-Match` overwrites on purpose whatever was written since its list
  was read: `MCBlindPut` refutes `NoLostUpdate` with it, and `MCSafe` is without it.
  The browser sends one whenever it knows a version (`useWorkspaceState.ts:221`).
  `WorkspaceQueue` includes the PUT without one.
* `TreeStands` excuses the rows in `astray`: those a restore put back, which does not
  look where, and their children; those left behind when what they stand under went
  to the archive. The claim is that nothing else disturbs the tree and that no
  handler lets this spread. `NoOrphan` drops the excuse and is refuted.
* `ClosedMeansDone` excuses `astray` and the children that were put under an item
  while its report waited (`slipped`); `ApprovedMeansDone` drops both and is refuted.
* `ReportStands` and `ClosedMeansDone` say nothing after an administrator set a
  state or an owner by PUT (`overridden`), which no rule restricts.
* `late` marks that a sweep or a revival wrote a list it had noted, or that a
  revival took a child out of the archive that was listed (a row that is then
  doubled); nothing is claimed of the archive, and no revision is compared,
  afterwards. `mishap` marks that a `forget` or `undo` was lost to the storage or to a
  stop; `InOnePlace` and `FamilyIsNotListed` excuse that, as the code does
  (`.catch(() => undefined)`). Neither excuses `CapHolds`, `TreeStands`, `ReportStands`
  or `ClosedMeansDone`.
* `LimitHolds` is for a limit above 0. It allows `Excess`: a call that outlived its
  reservation (`late`), whose points were handed out again, and what a booked
  call cost beyond its estimate. The code books both on purpose: the cost has
  arisen.
* `AccountingIsTrue` excuses a note that met an outage of the storage (`outage`).
  It promises nothing of "not-recorded", which the synthesis of a review answers
  when the booking fails, without a note.
* A newer release that leaves a file this one cannot load is not modelled.
* `EvidenceStands` excuses the rows a purge wrote its older list over (`erased`).
  It speaks of a server with a file storage, which both servers of the repository
  give the application (`server/index.mjs:47`, `worker/index.mjs:580`); an application made
  without one approves without evidence and says so in the history
  (`approval-forms.mjs:956-960`).
* `TwiceOnlyInDoubt` excuses a row whose outcome was not learned (the other side
  took it and answered an error) or not noted (`doubtful`): the code cannot know.
  `StopIsEarned` excuses an endpoint that was switched on while a pass sent, or
  whose pass was not noted (`unsettled`). `NothingForgotten` lets the cap drop
  open rows, and a stop those that were in memory only (`saved`).
* `AnsweredIsKept` excuses a text laid into an insert that had been sent
  (`laidOver`); `NoFalseNotice` speaks only while every answer was heard, and not of
  a batch that names a block twice.
* `RefusedIsNowhere` excuses a swap that threw (`unheard`), of which the worker
  does not know whether it was made, and a compensation that came too late
  (`overtaken`). `FileIsThere` excuses the former, documents that have been in
  the trash, which is `SitesTrash`, and documents the application made itself, which is
  `ListedHasFile`.

### Bounds

* `MaxGen = 6` commit attempts: a main file, a backup, damage, a start from the
  backup, and all of it once more. The proofs hold for every bound.
* Three requests and two rows in `WorkspaceStore`: one begins, one overtakes it,
  one reads between them; same row and other row. `MaxQueue = 1` bounds only
  what the timer adds to the queue; the requests add what they want.
* `WorkItems` runs three set-ups, each with the four handlers of the archive, one
  of which works at a time: one item, two people and every route that changes a row
  (a hand-over, a tick or an override during a wait); two items on the way to their
  approval; three items, which make every shape of a tree of depth two and its
  violation (a chain of three). Two revisions: working to reported to approved, or a
  report that overtakes another change. One report waits at a time, since two waiting
  reports touch different rows or are both the same row's. The proofs hold for
  every bound, set-up and number of handlers.
* `WorkArchive` runs two archive handlers, three items without revivals or two with
  them, a cap of two, sweeps of up to two rows. `MCBounds` keeps two changes in all and
  two items archived, or one deleted: an approval and one change during a wait. It
  stops where a noted list was written (`late`), after which nothing is claimed.
* Two model calls in `UsageLedger`, a limit of two points, estimates and costs of
  one or two: one call fits, two may, and a call may cost more than estimated.
  Three calls were checked for the invariants alone, with symmetry, in 1.5 million
  states.
* Symmetry is used where only safety is checked and no constant tells the
  permuted values apart; the items of a set-up are part of the state (`setup`), so that
  they are permuted with the rest. Deadlock is checked but in `Webhooks`, `Wiki` and `Sites`,
  which come to rest when their bounded number of events is used up.
* One document, four people, two lines (one after the other, both at once), two
  handlers that wait: a stand-in who is an approver, one who is the drafter, one
  who is neither; one file in the library and one that can be written, so that a
  purge and an approval can wait together. `MCBounds` lets stand-ins be named
  once the document is sent, before which nobody looks at them, and stops after a
  purge that wrote an older list (`erased`).
* One endpoint, three events for a list of two rows, two attempts, a stop after
  two failures, two disturbances (a retry, a switch, a removal, a failing commit, a
  restart): a pass, what overtakes it, and what comes of it in the next one. Rows
  of other endpoints share only the cap. `Limit` equals `MaxRows`, so the limit of rows
  per pass never cuts one short here; what it leaves is due for the next sweep like any
  row.
* Two edits of the person, two of others (restores among them), one fault with one
  automatic retry; four of these in all, and the fifth (`MCBounds`) while a request
  nobody waits for is still to arrive; a history of three versions with a
  snapshot every second, so that a version is rebuilt from a snapshot, from the
  document, and pruned. Two tombstones, one lost text per batch.
* Three requests, one failing call, one evicted isolate: one that works, one that
  takes its lock, one that comes between a swap and its compensation. The proofs
  hold for any number.

### Fairness

`WorkspaceQueue`, `UsageLedger` and `Webhooks` check liveness. In `WorkspaceStore`, `FairSpec` assumes weak fairness of each
request's handler (Node runs every callback that is ready) and of the step that
ends the transaction at the head of the queue (the pool answers each
transaction, with an error if need be). No fairness is assumed of clients, the
timer or restarts.

In `UsageLedger`, `FairSpec` assumes that time passes (`Expire`), that the hourly
scheduler lists the rows again and again (`JobLists`), both weakly, and strong
fairness of taking, booking and resolving a row: an outage or a crash may undo
any one attempt, but not every one. Requests and the model are owed nothing.

In `WebhookDispatch`, `Spec` assumes weak fairness of the drain (a request to
the other side is answered or times out, and the process goes on), of the hourly
sweep, and of the end of each back-off. Nothing is assumed of people, events,
failures or restarts; those are bounded.

## 4. What is proved

`JsonStoreProofs`: for every `MaxGen`, all five properties of the JSON store and
the refinement of `SnapshotCell`. The inductive invariant is `IInv` in
`JsonStore`. `StopLosesNothing` is not inductive: it compares what a start would
read with what was served, and which file a start reads depends on how far a
commit has come. `FilesInv` says which pairs of files can stand together,
`LineageInv` which generation each holds (the backup is the parent of the main
file, or stands for it), `ServedInv` how memory relates to them at each step of
a commit. `Inductive` proves it step by step; the five theorems follow from it,
and `FilesAreOneCell` maps `Install` to `Store`, `Damage` to `Rewind` and every
other step to a step of the server or a stutter.

`WorkProofs`: for any items, people, contents, set-ups, caps, waiting reports and
archive handlers, and for the specification with all handlers of the items and of the
archive (`ArchiveSpec`): `TypeOK`, `ArchiveTypeOK`, `TreeStands`, `ClosedMeansDone`,
`ReportStands`, `HistoryOnlyGrows`, `CapHolds`, `InOnePlace`, `TakenIsNotListed` and
`LeavesAsItStands`. The invariant (`WorkInv`) says what a handler that waits may rely on
when it goes on.

* A waiting report captured a row that was being worked on, with every check ticked
  (`WaitingInv`); with `RowStands`, the row it is written over may be reported.
* A sweep and a revival write a list they noted before they waited. So what is claimed
  of the list (`ListOK`: the tree apart from `astray`, the children apart from `astray`
  and `slipped`, the cap) is in the invariant of every noted list too (`RecordOK`), and it
  stays true of one because the exceptions only grow (`PastGrows`).
* The reports that are claimed to stand must do so in every row that may come back
  (`RowsLawful`): in the copies, and in what a handler took or noted.
* The copies a handler made are still of the rows it captured (`CopyInv`), which
  makes the comparison after the wait enough; the row it took is hidden, held by nobody
  else and not listed (`TakeInv`); and a row that is listed and visible at once is one
  that a handler is about to remove or to hide (`PlaceInv`).

A step of the items is proved by its kind: a step of one row (`RowOK`), a new list that
is checked as a whole (`EditOK`), a new row (`NewOK`). There is a lemma for each step
of an archive handler, and one for each kind of step of the items, which leave the
archive alone.

`WorkspaceProofs`: for any requests, rows and length of the queue, `NoLostUpdate` and
`AnsweredIsDurable` in every deployment that is `Sound`, and
`SuccessMeansDurable` wherever the backend is Postgres or the deployment is
`Sound`. `Sound` is the hypothesis of the theorems and says exactly what the
counterexamples to `NoLostUpdate` break: where a commit may fail it fails at once
(JSON), no handler then puts back what it captured before it waited, and every PUT names
the version it was made from. `MCSafe`
satisfies it. The argument is about the marks requests leave: memory only ever
gains marks, because a handler that waited writes over the very record it
checked (`IdentityInv`: the same object has the same content) or over the newest
one; what is not written is in no list that anybody holds or has read
(`NoTraceInv`), so an undo takes nothing away but its own; what was queued is in
every clone behind it (`MarkInv`), so the head of the queue brings no list that
lacks it. `SuccessMeansDurable` needs none of that, only `QueueInv`: the clone at the
head holds the mark of the request that waits for it.

`UsageLedgerProofs`: for any finite set of calls, any limit and any costs, `TypeOK`,
`OneStory`, `AccountingIsTrue` and `LimitHolds`. The latter is not inductive: that a request's
note can only be turned away for a call that is booked needs to know that its
reservation still stands or is committed (`RequestInv`), and the job must be at
rows that exist (`JobInv`). Each transaction has a lemma of its own
(`ReserveKeeps`, `ReleaseKeeps`, `RecordKeeps`, `NoteKeeps`) that says what it does
to one call and to no other; `RequestKeeps` and `JobKeeps` carry that over to the
invariant. `LimitHolds` compares sums over sets. The laws of sums
(`PointsStep`, `PointsAdd`, `PointsLess`, `PointsUnion`) are shown by induction over
finite sets, put as an argument about the smallest set for which a law fails
(`SmallestExists`, from the well-foundedness of the strict subsets of a finite
set): so no operator is passed to a theorem. Then each call has a `Share` of the
limit, what it has booked or holds without what is excused; no transaction but
`Reserve` raises a share (`SpareInv` says what a request and an expiry may rely on), and
`Reserve` looks whether the share fits (`LimitInv`).

`ApprovalsProofs`: for any people, documents, lines, stand-ins, files and waiting
handlers, `FourEyes`, `DecisionsStand`, `OwnSeatIsOpen` and `EvidenceStands`. What makes the first inductive: a seat is pending exactly while
nobody has pressed it, so that "every seat I hold is pending" says "I have
pressed none"; the steps behind the current one are approved; and what a
waiting handler has noted would still pass the judgement of its seat
(`NotedInv`), which is why the comparison of the row after the await is enough.
The stand-ins of the day do not appear in the invariant: whatever they are, the
presses decide. `DecisionsStand` follows: a step writes a row that was sent only
through `Decided`, which fills one pending seat (`DecidedGoesOn`), or recalls it,
and a handler that waited writes over the row it has noted or not at all
(`DecideCommittedGoesOn`). `OwnSeatIsOpen` adds `SeatInv`: who has
pressed for another is nobody of the line, and nothing is pressed ahead of the
current step, so an approver whose turn it is has pressed no other seat, and the
current step always waits for somebody. `EvidenceStands` is about two components at once. `EvidenceInv` says of
a file that it is `Safe`: its bytes are there and no handler that waits will
delete them (`Threatens`); a file that is being written for an approval is safe,
is on no list that anybody has noted (`Hidden`), and belongs to one handler alone
(`WaitingInv`); what a row points to is safe and listed, or was erased by a purge
with an old list (`FilesInv`). A purge looks at the holds before it waits, and what
a row comes to hold afterwards is what made this worth proving: a row only
comes to hold what was already safe.

`WebhookProofs`: for any endpoints, rows and limits, `TwiceOnlyInDoubt`,
`StopIsEarned`, `NothingForgotten` and `WebhookTypeOK`, in which the cap of the list is.
A row
that was received is in doubt, or closed as delivered, or has "delivered" in the
pass under way (`Settled`), and no delivered row is opened while a pass has it
in hand (`PassOK`). A stop is earned because the stored failures, and those the
pass under way counts from what it read, are no more than there were in a row
(`Streaks`). What a stop leaves is `saved`:
`SavedOK` says that a committed row is the row of memory or of one the cap has dropped
meanwhile, and settled in the same sense, so that a start goes on from an invariant state.
The cap counts: what is above an element numbers a finite set of
numbers without gaps, so that the code's sort and cut keeps `MaxRows` rows and
drops an open one only if all that are kept are open. This proof found the arms of
a CASE in `Send` overlapping, where TLC takes the first and the prover may take
either; they are an IF now.

`SitesProofs`: for any number of requests, `SavedIsStored`, `RefusedIsNowhere`,
`OneAfterTheOther` and `FileIsThere` (of the documents that are uploaded). The invariant does not mention the lock: a request that has
read the row of the current revision has read the current row (`Current`), and
one that has swapped finds its own work there as long as the revision is the one
it left (`Mine`). The lock saves work, the swap keeps it right. `Files` asks the same
of every table that somebody still holds, since a compensation may put one back.

`WikiProofs`: for any edits, edits and restores of others, lost requests and answers,
any number of tombstones, of lost texts per batch, of versions kept and of versions
between snapshots: `HistoryIsTrue`, `AppliedOnce`, `NothingStrands`,
`AnsweredIsKept` and `NoFalseNotice`. For the first the
invariant says that no id is on a page twice (`UniqueIds`), that the page is the last
of `past` and the rows which pruning left follow one another up to it (`Contiguous`), and
that each row's inverse leads from its version to the one before, each snapshot being
its version (`RowTrue`). The work is below it. For each kind of op there is a lemma
that it keeps ids unique and that the one entry it leaves undoes it
(`InsertOpFacts`, `UpdateOpFacts`, `DeleteOpFacts`, `MoveOpFacts`), which rests on what
inserting into, removing from and replacing in a sequence undo of each other
(`WidenNarrow`, `NarrowWiden`) and on following an anchor to a place of the page. A batch is
a run of such steps (`MergeAllRuns`) and undoing its entries a run backwards
(`UndoneAllRuns`); `MergeAllFacts` brings them together by going up along the batch
(`RunsUp`), and `ReconstructFacts` goes down along the history. That each of these recursive
functions exists for every argument is `Steps`, from the library's theorem that the
order of the natural numbers is well-founded.

`AnsweredIsKept` needs a second invariant, `KeptInv`, over the first: every op that is
queued or under way has an id of its own (`Distinct`); if the server knows that id, the
op's text is in a version, in the history or laid over (`Accounted`), since the answer
that says so may be under way or lost; and a request nobody waits for carries the op
with the same text, or with one that something was laid over, which is what the server
would store if it arrived now. A batch that is stored leaves each of its texts in a
version or in its row, or rejects the op as dropped (`BatchTexts`). The rest is the
queue: `coalesceOps` folds an update into the op before it, and that the queue put
back in front of what was typed meanwhile folds only at the seam (`CoalesceJoined`)
rests on a folded list having nothing left to fold (`Flat`, `CoalesceFacts`). The text
an update lays over is lost only where the op it is folded into had been sent,
which is the exception `laidOver` and the run `WikiTypedLost`.

`NoFalseNotice` rests on a third, `NoticeInv`, over both. As long as every answer was
heard, each block of the person is `Noted`: its seq is in `own`, or a request whose
answer is under way has written it, or it is the empty block a merge put on an empty
page. An op that is still to be merged never inserts an id a page has had (`Fit`), and
one that is under way was rebased on `own` before it left (`Rebased`); so a batch can
overwrite nothing of the person's own but what it wrote itself, which takes two of its
ops (`Twice`). `StoreBlocks` says of every block a batch leaves or overwrites where it
came from: the page before, an op of the batch that was applied, or the server.
`Fit` and the empty block's condition are kept through the queue because neither
folding nor rebasing leads out of a closed set of ops (`Closed`, `CoalesceWithin`,
`BatchWithin`). Of an answer that was lost nothing is said: the browser then has no way
to know the seqs it carried, and the notice can be false.

The modules were changed for these proofs: they had RECURSIVE
operators; ops and answers have types now; and the block a merge puts on an empty page
has an id below 0, since ids above a fixed number, as it had, are those of edits
as soon as there are enough of them.

Assumptions on the constants: those named in the modules (`JsonStoreAssumption`,
`WorkspaceAssumption`, `WorkItemsAssumption`, `ArchiveAssumption`,
`UsageLedgerAssumption`, `LinesAssumption`, `NobodyAssumption`, `WebhookAssumption`,
`NoneAssumption`, `WikiAssumption`, `EditingAssumption`, `SitesAssumption`) and no other. They are evaluated in the passing
runs.

Only model-checked:

* `FamilyIsNotListed`: it rests on the order of the calls in the archive's queue, of which
  the invariant does not speak yet.
* `RestoreIsExact`: that the ops which `DiffToOps` makes of two pages lead from one to
  the other is a statement about the order of the whole page after each of the ops,
  over four lists.
* all liveness (`EveryRequestAnswered`, `NotedIsBooked`, `HoldsEnd`, `EveryEventEnds`),
  which is beyond the prover.

Every module states its type invariant (`TypeOK`, `ArchiveTypeOK`, `ApprovalTypeOK`,
...), which holds in the runs' instances and is left out of their cfgs in favour of
what could be wrong; `TypeCorrect` proves it of `JsonStore`, `WorkItems` and
`UsageLedger`, `ArchiveTypeCorrect` of `WorkArchive`, `CapAlwaysHolds` of
`WebhookDispatch`, `WikiInductive` (`ServerInv`, `ClientTypes`) of the wiki, `Inductive` of `WorkspaceStore`, and `GoodBackupIsKept` proves
`KeepsGoodBackup`.

## 5. Not modelled, and what comes next

The components without a module are in `PROJECT.json` with the reason. Of those
whose order of steps matters, and of what the modules above leave out:

1. **Proofs** of the wiki: `RestoreIsExact` over the lemmas of `WikiProofs`.
2. `FamilyIsNotListed` as a theorem: who waits before whom in the archive's queue; and
   `WorkArchive` over the Postgres adapter, where its handlers wait once more.
3. `UsageLedger` with a change of plan while calls run, and the close of a month
   over events that arrive late.
4. `Scheduler`: ticks and jobs, back-off, a run whose history is not committed.
5. `CalendarSync`: links and tombstones against pulls that are interrupted.
6. `Restore`: three renames with a way back, together with `JsonStore`'s start.
7. The browser's cache of the workspace (`useWorkspaceState.ts`) with its pending
   writes, and the event stream's replay window, composed with `WorkspaceStore`.
