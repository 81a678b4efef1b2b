-------------------------- MODULE JsonStoreProofs --------------------------
(***************************************************************************)
(* The invariants of JsonStore for every number of commit attempts.        *)
(* StopLosesNothing and OneGenerationBack speak of what the NEXT start     *)
(* would read; they are not inductive, because what a rename does to that  *)
(* depends on how the two files and the memory of the running process      *)
(* relate.  IInv says how.                                                 *)
(***************************************************************************)
EXTENDS JsonStore, TLAPS

USE JsonStoreAssumption

(* The four cases of what a start reads, one at a time. *)
LEMMA LoadCases ==
  /\ main.form = "good" => Load = [source |-> "main", gen |-> main.gen]
  /\ main.form # "good" /\ bak.form = "good" =>
       Load = [source |-> "backup", gen |-> bak.gen]
  /\ main.form = "absent" /\ bak.form = "absent" =>
       Load = [source |-> "empty", gen |-> 0]
  /\ main.form # "good" /\ bak.form # "good"
     /\ ~(main.form = "absent" /\ bak.form = "absent") =>
       Load = [source |-> "refused", gen |-> 0]
  BY DEF Load, BackupUsable, FromBackup, NoFileUsable

(* The contents this release gives a file. *)
LEMMA ContentTypes ==
  /\ Absent \in Files /\ Absent.form = "absent"
  /\ \A g \in Gens : Good(g) \in Files /\ Good(g).form = "good" /\ Good(g).gen = g
<1>1. Absent \in Files /\ Absent.form = "absent"
  BY DEF Absent, Files, Forms, Gens
<1>2. ASSUME NEW g \in Gens
      PROVE  Good(g) \in Files /\ Good(g).form = "good" /\ Good(g).gen = g
  BY DEF Good, Files, Forms
<1> QED
  BY <1>1, <1>2

(* An empty data directory satisfies the inductive invariant. *)
LEMMA InitIInv == Init => IInv
<1> SUFFICES ASSUME Init PROVE IInv
  OBVIOUS
<1>1. Load = [source |-> "empty", gen |-> 0]
  BY LoadCases DEF Init, Absent
<1>2. TypeOK
  <2>1. 0 \in Gens
    BY DEF Gens
  <2> QED
    BY <2>1, ContentTypes DEF Init, TypeOK, Sources, Phases
<1>3. FilesInv /\ LineageInv
  BY ContentTypes DEF Init, FilesInv, LineageInv
<1>4. ServedInv /\ HealthTellsRewind
  BY <1>1 DEF Init, ServedInv, HealthTellsRewind
<1> QED
  BY <1>2, <1>3, <1>4 DEF IInv

(* A start (the files are read, the newest one that loads is taken) keeps IInv. *)
LEMMA BootIInv == IInv /\ Boot => IInv'
<1> SUFFICES ASSUME IInv, Boot PROVE IInv'
  OBVIOUS
<1> USE LoadCases DEF Boot, IInv, TypeOK, Files, Forms, Gens, Sources, Phases
<1>1. Load' = Load
  BY DEF Load, BackupUsable, FromBackup, NoFileUsable
<1>2. Load.gen \in Gens /\ Load.source \in Sources
  BY DEF FilesInv
<1>3. TypeOK'
  BY <1>2
<1>4. FilesInv' /\ LineageInv'
  BY <1>2 DEF FilesInv, LineageInv
<1>5. ServedInv'
  BY <1>1, <1>2 DEF FilesInv, LineageInv, ServedInv
<1>6. HealthTellsRewind'
  BY <1>2 DEF FilesInv, LineageInv, ServedInv, HealthTellsRewind
<1> QED
  BY <1>3, <1>4, <1>5, <1>6

(* The rename of the temporary file onto the main file keeps IInv. *)
LEMMA InstallIInv == IInv /\ Install => IInv'
<1> SUFFICES ASSUME IInv, Install PROVE IInv'
  OBVIOUS
<1> USE LoadCases DEF Install, IInv, TypeOK, Files, Forms, Gens, Sources, Phases, Good
<1>1. main' = Good(top) /\ Load' = [source |-> "main", gen |-> top]
  BY DEF Load, BackupUsable, FromBackup, NoFileUsable
<1>2. TypeOK'
  <2>1. main' \in Files /\ top \in Gens
    BY <1>1, ContentTypes
  <2> QED
    BY <2>1
<1>3. FilesInv'
  BY <1>1 DEF FilesInv
<1>4. LineageInv'
  BY <1>1 DEF FilesInv, LineageInv, ServedInv
<1>5. ServedInv'
  BY <1>1 DEF ServedInv
<1>6. HealthTellsRewind'
  BY DEF HealthTellsRewind
<1> QED
  BY <1>2, <1>3, <1>4, <1>5, <1>6

(* Both renames that leave no main file, onto .bak and onto .corrupt, keep IInv. *)
LEMMA MoveAwayIInv == IInv /\ (Rotate \/ Quarantine) => IInv'
<1> SUFFICES ASSUME IInv, Rotate \/ Quarantine PROVE IInv'
  OBVIOUS
<1> USE LoadCases DEF IInv, TypeOK, Files, Forms, Gens, Sources, Phases,
                      MainPassesWriteCheck, Absent, history
<1>1. CASE Rotate
  <2> USE <1>1 DEF Rotate
  <2>1. main.form = "good" /\ bak' = main /\ main' = Absent
    BY DEF FilesInv
  <2>2. Load' = [source |-> "backup", gen |-> main.gen] /\ Load.gen = main.gen
    BY <2>1 DEF Load, BackupUsable, FromBackup, NoFileUsable
  <2>3. TypeOK' /\ FilesInv' /\ LineageInv'
    BY <2>1 DEF FilesInv, LineageInv
  <2>4. ServedInv'
    BY <2>1, <2>2 DEF LineageInv, ServedInv
  <2>5. HealthTellsRewind'
    BY DEF HealthTellsRewind
  <2> QED
    BY <2>3, <2>4, <2>5
<1>2. CASE Quarantine
  <2> USE <1>2 DEF Quarantine
  <2>1. main.form = "broken" /\ bak' = bak /\ bak.form = "good" /\ main' = Absent
    BY DEF FilesInv
  <2>2. Load' = Load
    BY <2>1 DEF Load, BackupUsable, FromBackup, NoFileUsable
  <2>3. TypeOK' /\ FilesInv' /\ LineageInv'
    BY <2>1 DEF FilesInv, LineageInv
  <2>4. ServedInv'
    BY <2>1, <2>2 DEF LineageInv, ServedInv
  <2>5. HealthTellsRewind'
    BY DEF HealthTellsRewind
  <2> QED
    BY <2>3, <2>4, <2>5
<1> QED
  BY <1>1, <1>2

(* Damage to the main file from outside keeps IInv. *)
LEMMA DamageIInv == IInv /\ Damage => IInv'
<1> SUFFICES ASSUME IInv, Damage PROVE IInv'
  OBVIOUS
<1> USE DEF Damage, IInv, TypeOK, Files, Forms, Gens
<1>1. main'.form = "broken" /\ main' \in Files
  OBVIOUS
<1>2. TypeOK' /\ FilesInv' /\ LineageInv'
  BY <1>1 DEF FilesInv, LineageInv
<1>3. ServedInv'
  BY <1>1 DEF ServedInv
<1>4. HealthTellsRewind'
  BY DEF HealthTellsRewind
<1> QED
  BY <1>2, <1>3, <1>4

(* The steps that leave both files where they are. *)
LEMMA OtherIInv ==
  IInv /\ (BootRefused \/ WriteTemporary \/ Answer \/ StepFails \/ Crash \/ Age
           \/ UNCHANGED vars) => IInv'
<1> SUFFICES ASSUME IInv,
                    BootRefused \/ WriteTemporary \/ Answer \/ StepFails \/ Crash
                      \/ Age \/ UNCHANGED vars
             PROVE  IInv'
  OBVIOUS
<1> USE LoadCases DEF IInv, TypeOK, Files, Forms, Gens, Sources, Phases, disk, history
<1>1. main' = main /\ bak' = bak
  BY DEF BootRefused, WriteTemporary, Answer, StepFails, Crash, Age, vars
<1>2. Load' = Load
  BY <1>1 DEF Load, BackupUsable, FromBackup, NoFileUsable
<1>3. CASE BootRefused \/ Age \/ UNCHANGED vars
  <2>1. /\ leftover' \subseteq {"fresh", "stale"}
        /\ UNCHANGED <<up, mainVerified, loadedFrom, pc, top, served, installed,
                       parent, damaged, rewound>>
    BY <1>3 DEF BootRefused, Age, vars
  <2>2. TypeOK' /\ FilesInv' /\ LineageInv' /\ HealthTellsRewind'
    BY <1>1, <2>1 DEF FilesInv, LineageInv, HealthTellsRewind
  <2>3. ServedInv'
    BY <1>1, <1>2, <2>1 DEF ServedInv
  <2> QED
    BY <2>2, <2>3
<1>4. CASE WriteTemporary
  <2>1. TypeOK' /\ FilesInv' /\ LineageInv' /\ HealthTellsRewind'
    BY <1>1, <1>4 DEF WriteTemporary, FilesInv, LineageInv, HealthTellsRewind
  <2>2. ServedInv'
    BY <1>1, <1>2, <1>4 DEF WriteTemporary, ServedInv
  <2> QED
    BY <2>1, <2>2
<1>5. CASE Answer
  <2>1. TypeOK' /\ FilesInv' /\ LineageInv' /\ HealthTellsRewind'
    BY <1>1, <1>5 DEF Answer, FilesInv, LineageInv, ServedInv, HealthTellsRewind
  <2>2. ServedInv'
    BY <1>1, <1>2, <1>5 DEF Answer, LineageInv, ServedInv
  <2> QED
    BY <2>1, <2>2
<1>6. CASE StepFails \/ Crash
  <2>1. /\ leftover' \subseteq {"fresh", "stale"} /\ up' \in {up, FALSE}
        /\ pc' = "idle" /\ pc \in Phases /\ up
        /\ up' = up => pc # "installed"
        /\ UNCHANGED <<mainVerified, loadedFrom, top, served, installed,
                       parent, damaged, rewound>>
    BY <1>6 DEF StepFails, Crash
  <2>2. TypeOK' /\ FilesInv' /\ LineageInv' /\ HealthTellsRewind'
    BY <1>1, <2>1 DEF FilesInv, LineageInv, HealthTellsRewind
  <2>3. ServedInv'
    BY <1>1, <1>2, <2>1 DEF ServedInv
  <2> QED
    BY <2>2, <2>3
<1> QED
  BY <1>3, <1>4, <1>5, <1>6

(* Every step of the store, its process and its environment keeps IInv. *)
THEOREM Inductive == Spec => []IInv
<1>1. IInv /\ [Next]_vars => IInv'
  BY BootIInv, InstallIInv, MoveAwayIInv, DamageIInv, OtherIInv DEF Next
<1> QED
  BY InitIInv, <1>1, PTL DEF Spec

(* The variables keep their types. *)
THEOREM TypeCorrect == Spec => []TypeOK
<1>1. IInv => TypeOK
  BY DEF IInv
<1> QED
  BY Inductive, <1>1, PTL

(* A stop at any point of a commit loses nothing that was answered for. *)
THEOREM NothingAnsweredIsLost == Spec => []StopLosesNothing
<1>1. IInv => StopLosesNothing
  BY LoadCases DEF IInv, StopLosesNothing, FilesInv, LineageInv, ServedInv,
                   TypeOK, Files, Forms, Gens
<1> QED
  BY Inductive, <1>1, PTL

(* The backup is one generation behind, never more. *)
THEOREM BackupIsOneGenerationBack == Spec => []OneGenerationBack
<1>1. IInv => OneGenerationBack
  BY LoadCases DEF IInv, OneGenerationBack, FilesInv, LineageInv, ServedInv,
                   TypeOK, Files, Forms, Gens
<1> QED
  BY Inductive, <1>1, PTL

(* A start that went back says so. *)
THEOREM RewindIsReported == Spec => []HealthTellsRewind
<1>1. IInv => HealthTellsRewind
  BY DEF IInv
<1> QED
  BY Inductive, <1>1, PTL

(* No step of a commit replaces a loadable backup by a file that is not. *)
THEOREM GoodBackupIsKept == Spec => KeepsGoodBackup
<1>1. IInv /\ [Next]_vars =>
        [bak.form = "good" /\ bak' # bak => bak'.form = "good"]_vars
  <2> SUFFICES ASSUME IInv, Next, bak.form = "good", bak' # bak
               PROVE  bak'.form = "good"
    OBVIOUS
  <2>1. Rotate
    BY DEF Next, Boot, BootRefused, WriteTemporary, Quarantine, Install, Answer,
           StepFails, Crash, Age, Damage, disk
  <2> QED
    BY <2>1 DEF Rotate, MainPassesWriteCheck, IInv, FilesInv
<1> QED
  BY Inductive, <1>1, PTL DEF Spec, KeepsGoodBackup

-----------------------------------------------------------------------------
(* The refinement: which step of the cell each step of the store is.       *)

(* The files the store starts from are the cell in its initial state. *)
LEMMA InitCell == Init => Cell!Init
<1> SUFFICES ASSUME Init PROVE Cell!Init
  OBVIOUS
<1>1. Load = [source |-> "empty", gen |-> 0]
  BY LoadCases DEF Init, Absent
<1> QED
  BY <1>1 DEF Init, Cell!Init

(* Moving main away keeps what a start would read, though it then comes    *)
(* from the backup; the steps that touch no file keep it too.              *)
LEMMA LoadKept ==
  IInv /\ [Next]_vars /\ ~Install /\ ~Damage =>
    Load'.gen = Load.gen /\ UNCHANGED <<damaged, parent>>
<1> SUFFICES ASSUME IInv, Next \/ UNCHANGED vars, ~Install, ~Damage
             PROVE  Load'.gen = Load.gen /\ UNCHANGED <<damaged, parent>>
  OBVIOUS
<1>1. CASE Rotate
  <2>1. main.form = "good" /\ bak' = main /\ main' = Absent
    BY <1>1 DEF Rotate, MainPassesWriteCheck, IInv, FilesInv
  <2>2. Load.gen = main.gen /\ Load'.gen = main.gen
    BY <2>1 DEF Load, BackupUsable, FromBackup, NoFileUsable, Absent
  <2> QED
    BY <1>1, <2>2 DEF Rotate, history
<1>2. CASE Quarantine
  <2>1. main.form = "broken" /\ bak' = bak /\ bak.form = "good" /\ main' = Absent
    BY <1>2 DEF Quarantine, MainPassesWriteCheck, IInv, TypeOK, Files, Forms, FilesInv
  <2>2. Load'.gen = Load.gen
    BY <2>1 DEF Load, BackupUsable, FromBackup, NoFileUsable, Absent
  <2> QED
    BY <1>2, <2>2 DEF Quarantine, history
<1>3. CASE ~Rotate /\ ~Quarantine
  <2>1. UNCHANGED <<main, bak, damaged, parent>>
    BY <1>3 DEF Next, Boot, BootRefused, WriteTemporary, Answer, StepFails, Crash,
                Age, disk, history, vars
  <2> QED
    BY <2>1 DEF Load, BackupUsable, FromBackup, NoFileUsable
<1> QED
  BY <1>1, <1>2, <1>3

(* The rename onto main is the one step in which the cell is replaced. *)
LEMMA InstallStores == IInv /\ Install => Cell!Store
<1> SUFFICES ASSUME IInv, Install PROVE Cell!Store
  OBVIOUS
<1>1. Load'.gen = top
  BY DEF Install, Load, BackupUsable, FromBackup, NoFileUsable, Good
<1>2. top \in Gens /\ top > Load.gen /\ served = Load.gen
  BY LoadCases DEF Install, IInv, TypeOK, Files, Gens, FilesInv, LineageInv, ServedInv
<1> QED
  BY <1>1, <1>2 DEF Install, Cell!Store

(* Damage to the main file is, for the cell, a step back by one generation. *)
LEMMA DamageRewinds == IInv /\ Damage => Cell!Rewind
<1> SUFFICES ASSUME IInv, Damage PROVE Cell!Rewind
  OBVIOUS
<1>1. /\ main.form = "good" /\ ~damaged /\ main'.form = "broken" /\ bak' = bak
      /\ bak.form \in {"absent", "good"}
  BY DEF Damage, IInv, FilesInv, LineageInv
<1>2. CASE bak.form = "good"
  <2>1. bak.gen = parent /\ Load'.gen = bak.gen
    BY <1>1, <1>2 DEF Load, BackupUsable, FromBackup, NoFileUsable, IInv, LineageInv
  <2> QED
    BY <1>1, <2>1 DEF Damage, Cell!Rewind
<1>3. CASE bak.form = "absent"
  <2>1. parent = 0 /\ Load'.gen = 0
    BY <1>1, <1>3 DEF Load, BackupUsable, FromBackup, NoFileUsable, IInv, LineageInv
  <2> QED
    BY <1>1, <2>1 DEF Damage, Cell!Rewind
<1> QED
  BY <1>1, <1>2, <1>3

(* Every other step starts, serves or stops the cell, or leaves it alone.  *)
LEMMA OtherSteps ==
  IInv /\ [Next]_vars /\ ~Install /\ ~Damage => [Cell!Next]_Cell!cell
<1> SUFFICES ASSUME IInv, Next \/ UNCHANGED vars, ~Install, ~Damage
             PROVE  [Cell!Next]_Cell!cell
  OBVIOUS
<1>1. Load'.gen = Load.gen /\ UNCHANGED <<damaged, parent>>
  BY LoadKept
<1> USE DEF Cell!Next, Cell!cell
<1>2. CASE Boot
  <2>1. Cell!Start
    BY <1>1, <1>2 DEF Boot, Cell!Start
  <2> QED
    BY <2>1
<1>3. CASE Answer
  <2>1. Load.gen = top
    BY <1>3, LoadCases DEF Answer, IInv, ServedInv, LineageInv
  <2> QED
    BY <1>1, <1>3, <2>1 DEF Answer, Cell!Serve
<1>4. CASE Crash
  BY <1>1, <1>4 DEF Crash, Cell!Stop
<1>5. CASE ~Boot /\ ~Answer /\ ~Crash
  <2>1. UNCHANGED <<served, up>>
    BY <1>5 DEF Next, BootRefused, WriteTemporary, Rotate, Quarantine, StepFails,
                Age, disk, history, vars
  <2> QED
    BY <1>1, <2>1
<1> QED
  BY <1>2, <1>3, <1>4, <1>5

(* The files, renamed one at a time by a process that may stop between any *)
(* two renames, behave as one cell that a commit replaces at once.         *)
THEOREM FilesAreOneCell == Spec => ImplementsCell
<1>1. IInv /\ [Next]_vars => [Cell!Next]_Cell!cell
  BY InstallStores, DamageRewinds, OtherSteps DEF Cell!Next
<1> QED
  BY InitCell, Inductive, <1>1, PTL DEF Spec, ImplementsCell, Cell!Spec

=============================================================================
