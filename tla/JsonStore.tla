----------------------------- MODULE JsonStore -----------------------------
(***************************************************************************)
(* The JSON workspace store (server/store/json-store.mjs): one main file   *)
(* and one `.bak`, replaced by rename.  A commit is a sequence of file     *)
(* system steps and the process may stop between any two of them, or a     *)
(* step may fail; the next start reads whatever the disk holds.            *)
(*                                                                         *)
(* A file's content is abstracted to what the loader makes of it (its      *)
(* form) and to the generation of the store it was serialised from.  Every *)
(* commit attempt mints a fresh generation, so a larger generation is a    *)
(* newer snapshot.                                                         *)
(***************************************************************************)
EXTENDS Naturals

CONSTANT MaxGen   \* bound: commit attempts in a behaviour

ASSUME JsonStoreAssumption == MaxGen \in Nat

(* "good": parseStore accepts it.  "broken": JSON.parse throws.            *)
(* "alien": JSON.parse accepts it and parseStore throws (a workspace key   *)
(* or a version this release does not know).                               *)
Forms == {"absent", "good", "broken", "alien"}
Gens  == 0..MaxGen
Files == [form : Forms, gen : Gens]

Absent  == [form |-> "absent", gen |-> 0]
Good(g) == [form |-> "good", gen |-> g]

VARIABLES
  main, bak,      \* workspace-state.json and workspace-state.json.bak
  leftover,       \* ages of the temporary files that stopped processes left
  up,             \* the server process runs
  mainVerified,   \* writeState.mainVerified
  loadedFrom,     \* health.loadedFrom
  pc,             \* how far the commit under way has come
  top,            \* the newest generation minted; the one being committed
  served,         \* the generation in memory (while down: the last one served)
  installed,      \* history: the generation last renamed onto main
  parent,         \* history: the generation it was made from
  damaged,        \* history: main was damaged since it was installed
  rewound         \* history: this start read something older than was served

disk    == <<main, bak, leftover>>
history == <<installed, parent, damaged, rewound>>
vars    == <<main, bak, leftover, up, mainVerified, loadedFrom, pc, top,
             served, installed, parent, damaged, rewound>>

Sources == {"main", "backup", "empty"}
Phases  == {"idle", "synced", "rotated", "installed"}

-----------------------------------------------------------------------------
(* What readJsonDetailed returns: the source it read and the generation,   *)
(* or "refused" where it throws and the server does not start.  Each Mut   *)
(* definition is a slip in the definition after it, which the properties   *)
(* below must tell from the code.                                          *)

(* The backup is tried only where the main file is there to be rejected. *)
MutBackupUsable == main.form = "broken" /\ bak.form = "good"

BackupUsable == bak.form = "good"

(* A snapshot read from the backup is not said to be. *)
MutFromBackup == [source |-> "main", gen |-> bak.gen]

FromBackup == [source |-> "backup", gen |-> bak.gen]

NoFileUsable == [source |-> "refused", gen |-> 0]

Load ==
  CASE main.form = "good"
         -> [source |-> "main", gen |-> main.gen]
    [] main.form # "good" /\ BackupUsable
         -> FromBackup
    [] main.form = "absent" /\ bak.form = "absent"
         -> [source |-> "empty", gen |-> 0]
    [] OTHER
         -> NoFileUsable

(* loadSnapshot on a start of the server: stale temporaries are removed,   *)
(* the snapshot is read, mainVerified and health are set from its source.  *)
Boot ==
  /\ ~up
  /\ Load.source # "refused"
  /\ up' = TRUE
  /\ leftover' = leftover \ {"stale"}
  /\ loadedFrom' = Load.source
  /\ mainVerified' = (Load.source = "main")
  /\ served' = Load.gen
  /\ rewound' = (Load.gen < served)
  /\ UNCHANGED <<main, bak, pc, top, installed, parent, damaged>>

(* The same call where both files are unusable: it has already removed the *)
(* stale temporaries when it throws.                                       *)
BootRefused ==
  /\ ~up
  /\ Load.source = "refused"
  /\ leftover' = leftover \ {"stale"}
  /\ UNCHANGED <<main, bak, up, mainVerified, loadedFrom, pc, top, served,
                 history>>

(* commitSnapshot: the new content goes to a temporary file and is fsynced.*)
WriteTemporary ==
  /\ up /\ pc = "idle" /\ top < MaxGen
  /\ top' = top + 1
  /\ pc' = "synced"
  /\ UNCHANGED <<disk, up, mainVerified, loadedFrom, served, history>>

(* The slip: whatever main holds is rotated onto the backup. *)
MutUnchecked == TRUE

(* The check before the rotation: a main file this process neither read    *)
(* nor wrote is run through JSON.parse, and through nothing else.          *)
MainPassesWriteCheck == mainVerified \/ main.form \in {"good", "alien"}

(* main -> .bak *)
Rotate ==
  /\ up /\ pc = "synced"
  /\ main.form # "absent" /\ MainPassesWriteCheck
  /\ bak' = main
  /\ main' = Absent
  /\ pc' = "rotated"
  /\ UNCHANGED <<leftover, up, mainVerified, loadedFrom, top, served, history>>

(* main -> .corrupt-<stamp>; the .bak is left alone *)
Quarantine ==
  /\ up /\ pc = "synced"
  /\ main.form # "absent" /\ ~MainPassesWriteCheck
  /\ main' = Absent
  /\ pc' = "rotated"
  /\ UNCHANGED <<bak, leftover, up, mainVerified, loadedFrom, top, served,
                 history>>

(* temporary -> main, at once where there was no main file to move away *)
Install ==
  /\ up
  /\ pc = "rotated" \/ (pc = "synced" /\ main.form = "absent")
  /\ main' = Good(top)
  /\ mainVerified' = TRUE
  /\ pc' = "installed"
  /\ installed' = top /\ parent' = served /\ damaged' = FALSE
  /\ UNCHANGED <<bak, leftover, up, loadedFrom, top, served, rewound>>

(* commitSnapshot returned and the request that called it is answered *)
Answer ==
  /\ up /\ pc = "installed"
  /\ served' = top
  /\ pc' = "idle"
  /\ UNCHANGED <<disk, up, mainVerified, loadedFrom, top, history>>

(* A file system call throws.  The temporary is unlinked, or stays if that *)
(* fails too; the caller restores the value it had in memory.              *)
StepFails ==
  /\ up /\ pc \in {"synced", "rotated"}
  /\ pc' = "idle"
  /\ leftover' \in {leftover, leftover \cup {"fresh"}}
  /\ UNCHANGED <<main, bak, up, mainVerified, loadedFrom, top, served, history>>

(* The process stops, at any point. *)
Crash ==
  /\ up
  /\ up' = FALSE
  /\ leftover' = IF pc \in {"synced", "rotated"} THEN leftover \cup {"fresh"}
                                                 ELSE leftover
  /\ pc' = "idle"
  /\ UNCHANGED <<main, bak, mainVerified, loadedFrom, top, served, history>>

-----------------------------------------------------------------------------
(* The environment of the store.                                           *)

(* An hour passes. *)
Age ==
  /\ "fresh" \in leftover
  /\ leftover' = {"stale"}
  /\ UNCHANGED <<main, bak, up, mainVerified, loadedFrom, pc, top, served,
                 history>>

(* The main file is damaged while no server runs. *)
Damage ==
  /\ ~up /\ main.form = "good"
  /\ main' = [form |-> "broken", gen |-> 0]
  /\ damaged' = TRUE
  /\ UNCHANGED <<bak, leftover, up, mainVerified, loadedFrom, pc, top, served,
                 installed, parent, rewound>>

-----------------------------------------------------------------------------
Init ==
  /\ main = Absent /\ bak = Absent /\ leftover = {}
  /\ up = FALSE /\ mainVerified = FALSE /\ loadedFrom = "empty"
  /\ pc = "idle" /\ top = 0 /\ served = 0
  /\ installed = 0 /\ parent = 0 /\ damaged = FALSE /\ rewound = FALSE

Next ==
  \/ Boot \/ BootRefused
  \/ WriteTemporary \/ Rotate \/ Quarantine \/ Install \/ Answer
  \/ StepFails \/ Crash
  \/ Age \/ Damage

Spec == Init /\ [][Next]_vars

-----------------------------------------------------------------------------
TypeOK ==
  /\ main \in Files /\ bak \in Files
  /\ leftover \subseteq {"fresh", "stale"}
  /\ up \in BOOLEAN /\ mainVerified \in BOOLEAN
  /\ loadedFrom \in Sources
  /\ pc \in Phases
  /\ top \in Gens /\ served \in Gens /\ installed \in Gens /\ parent \in Gens
  /\ damaged \in BOOLEAN /\ rewound \in BOOLEAN

(* Stopping the process between any two steps of a commit, or a step that  *)
(* fails, loses nothing a request was answered for: unless the main file   *)
(* itself was damaged, a start would read what was last served, or newer.  *)
StopLosesNothing ==
  ~damaged => Load.source # "refused" /\ Load.gen >= served

(* Reading the backup goes back one generation and no further, never to an *)
(* empty store, and a start is refused only while there is no backup.      *)
OneGenerationBack ==
  /\ Load.source = "refused" => bak.form = "absent"
  /\ installed > 0 /\ Load.source # "refused" =>
       Load.source # "empty" /\ Load.gen \in {installed, parent}

(* Whenever a start went back past what had been served, health says that  *)
(* the backup was read.                                                    *)
HealthTellsRewind == up /\ rewound => loadedFrom = "backup"

(* A main file that is not loadable never replaces a backup that is.       *)
KeepsGoodBackup ==
  [][bak.form = "good" /\ bak' # bak => bak'.form = "good"]_vars

(* The file steps implement the cell that a commit replaces in one step:   *)
(* the only step that changes what a start would read, besides damage to a *)
(* main file, is the rename of the temporary file onto main.               *)
Cell == INSTANCE SnapshotCell WITH
  Snapshots <- Gens,
  stored    <- Load.gen,
  previous  <- IF damaged THEN Load.gen ELSE parent

ImplementsCell == Cell!Spec

-----------------------------------------------------------------------------
(* The inductive strengthening of the three invariants above.              *)

(* Only a start without a backup leaves a broken main file standing alone. *)
FilesInv ==
  /\ main.form \in {"absent", "good", "broken"}
  /\ bak.form \in {"absent", "good"}
  /\ up /\ main.form = "broken" => bak.form = "good" /\ ~mainVerified
  /\ main.form = "absent" /\ bak.form = "absent" => installed = 0 /\ served = 0

(* How the files follow the last two generations installed; without a      *)
(* backup there has been one commit, made from the empty store.            *)
LineageInv ==
  /\ bak.form = "absent" => parent = 0
  /\ main.form = "good" => main.gen = installed /\ ~damaged
  /\ main.form = "broken" => damaged
  /\ main.form = "good" /\ bak.form = "good" => bak.gen = parent
  /\ main.form # "good" /\ bak.form = "good" =>
       bak.gen = IF damaged THEN parent ELSE installed

(* What memory holds, against what the next start would read. *)
ServedInv ==
  /\ up /\ pc # "installed" => served = Load.gen
  /\ up /\ pc = "installed" =>
       main.form = "good" /\ installed = top /\ served = parent
  /\ pc = "rotated" => main.form = "absent"
  /\ ~up => pc = "idle"
  /\ ~damaged => Load.gen >= served
  /\ parent <= installed /\ installed <= top /\ served <= top
  /\ pc \in {"synced", "rotated"} => installed < top

IInv == TypeOK /\ FilesInv /\ LineageInv /\ ServedInv /\ HealthTellsRewind

=============================================================================
