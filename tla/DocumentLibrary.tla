-------------------------- MODULE DocumentLibrary --------------------------
(***************************************************************************)
(* The library of a company's files (app.mjs): a list of rows that is      *)
(* read, changed and committed as a whole, and one object per row in the   *)
(* file storage.  Every handler runs without interruption up to an await;  *)
(* what it has noted before the await stays as it was.  The list is        *)
(* committed by the JSON adapter, in one step.                             *)
(*                                                                         *)
(* Names, sizes, tags and who may read a row are left out.                 *)
(***************************************************************************)
EXTENDS FiniteSets, Naturals

CONSTANTS
    Ids,       \* the ids a file may be given
    Present,   \* the ids of the files that are there at the start
    Handlers,  \* the requests that can wait for the storage at the same time
    Idle       \* a handler without a request

ASSUME PresentAssumption == Present \subseteq Ids

VARIABLES
    library,  \* the state of each id in the list
    bytes,    \* the ids whose bytes are in the storage
    given,    \* the ids that were given to a file (ids are never given twice)
    handler,  \* what each handler is waiting with
    erased    \* history: the rows a purge wrote its older list over

libraryVars == <<library, bytes, given, handler, erased>>

RowStates == {"absent", "listed", "trashed"}
Listed == {i \in Ids : library[i] = "listed"}
Trashed == {i \in Ids : library[i] = "trashed"}

LibraryInit ==
    /\ library = [i \in Ids |-> IF i \in Present THEN "listed" ELSE "absent"]
    /\ bytes = Present
    /\ given = Present
    /\ handler = [h \in Handlers |-> Idle]
    /\ erased = {}

Free(h) == handler[h] = Idle
Wait(h, r) == Free(h) /\ handler' = [handler EXCEPT ![h] = r]
Done(h) == handler' = [handler EXCEPT ![h] = Idle]
Doing(h, op) == handler[h] # Idle /\ handler[h].op = op

(* A file is written under a new id. *)
Put(i) ==
    /\ i \in Ids \ given
    /\ given' = given \cup {i}
    /\ bytes' = bytes \cup {i}

(* Bytes nothing points to are deleted; that may fail, and nobody is told. *)
TryDelete(i) == bytes' \in {bytes, bytes \ {i}}

----------------------------------------------------------------------------
Upload(h, i) ==
    /\ Put(i)
    /\ Wait(h, [op |-> "upload", id |-> i])
    /\ UNCHANGED <<library, erased>>

UploadListed(h) ==
    /\ Doing(h, "upload")
    /\ library' = [library EXCEPT ![handler[h].id] = "listed"]
    /\ Done(h)
    /\ UNCHANGED <<bytes, given, erased>>

UploadFails(h) ==
    /\ Doing(h, "upload")
    /\ TryDelete(handler[h].id)
    /\ Done(h)
    /\ UNCHANGED <<library, given, erased>>

Trash(i, holds) ==
    /\ i \in Listed \ holds
    /\ library' = [library EXCEPT ![i] = "trashed"]
    /\ UNCHANGED <<bytes, given, handler, erased>>

Untrash(i) ==
    /\ i \in Trashed
    /\ library' = [library EXCEPT ![i] = "listed"]
    /\ UNCHANGED <<bytes, given, handler, erased>>

(* The hourly sweep: the list first, in one step, then the bytes. *)
Sweep(h, S, holds) ==
    /\ S # {} /\ S \subseteq Trashed \ holds
    /\ library' = [i \in Ids |-> IF i \in S THEN "absent" ELSE library[i]]
    /\ Wait(h, [op |-> "sweep", ids |-> S])
    /\ UNCHANGED <<bytes, given, erased>>

SweepDelete(h) ==
    /\ Doing(h, "sweep")
    /\ \E i \in handler[h].ids :
        /\ TryDelete(i)
        /\ handler' = [handler EXCEPT ![h] =
             IF @.ids = {i} THEN Idle ELSE [op |-> "sweep", ids |-> @.ids \ {i}]]
    /\ UNCHANGED <<library, given, erased>>

(* The permanent deletion notes the list, waits for the storage twice and  *)
(* writes the list it has noted.                                           *)
Purge(h, i, holds) ==
    /\ i \in Trashed \ holds
    /\ Wait(h, [op |-> "purge", id |-> i, noted |-> library])
    /\ UNCHANGED <<library, bytes, given, erased>>

PurgeRefused(h) ==
    /\ Doing(h, "purge")
    /\ Done(h)
    /\ UNCHANGED <<library, bytes, given, erased>>

PurgeDelete(h) ==
    /\ Doing(h, "purge")
    /\ bytes' = bytes \ {handler[h].id}
    /\ handler' = [handler EXCEPT ![h] = [op |-> "purged", id |-> @.id, noted |-> @.noted]]
    /\ UNCHANGED <<library, given, erased>>

PurgeList(h) ==
    /\ Doing(h, "purged")
    /\ LET left == [handler[h].noted EXCEPT ![handler[h].id] = "absent"] IN
        /\ library' = left
        /\ erased' = erased \cup {i \in Listed : left[i] # "listed"}
    /\ Done(h)
    /\ UNCHANGED <<bytes, given>>

(* The commit fails: the list stays, the bytes are put back if possible. *)
PurgeListFails(h) ==
    /\ Doing(h, "purged")
    /\ bytes' \in {bytes, bytes \cup {handler[h].id}}
    /\ Done(h)
    /\ UNCHANGED <<library, given, erased>>

LibraryNext(holds) ==
    \/ \E i \in Ids : Trash(i, holds) \/ Untrash(i)
    \/ \E h \in Handlers :
        \/ \E i \in Ids : Upload(h, i) \/ Purge(h, i, holds)
        \/ \E S \in SUBSET Ids : Sweep(h, S, holds)
        \/ UploadListed(h) \/ UploadFails(h)
        \/ SweepDelete(h)
        \/ PurgeRefused(h) \/ PurgeDelete(h) \/ PurgeList(h) \/ PurgeListFails(h)
=============================================================================
