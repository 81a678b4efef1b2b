---------------------------- MODULE SnapshotCell ----------------------------
(***************************************************************************)
(* What a snapshot store promises its server, without a word on files: one *)
(* cell that a commit replaces in a single step.  The server may stop at   *)
(* any time; while it is stopped the cell can be taken back by one         *)
(* snapshot, which is what damage to the main file comes to.               *)
(***************************************************************************)
EXTENDS Naturals

CONSTANT Snapshots      \* the snapshots: numbers, in the order they are made

VARIABLES
  stored,     \* the snapshot a start would read
  previous,   \* the one before it
  served,     \* what the server holds in memory
  up          \* the server runs

cell == <<stored, previous, served, up>>

Init == stored = 0 /\ previous = 0 /\ served = 0 /\ up = FALSE

Start ==
  /\ ~up /\ up' = TRUE
  /\ served' = stored
  /\ UNCHANGED <<stored, previous>>

(* Made from what is stored, and only by a server that holds that. *)
Store ==
  /\ up /\ served = stored
  /\ \E s \in Snapshots : s > stored /\ stored' = s
  /\ previous' = stored
  /\ UNCHANGED <<served, up>>

Serve == up /\ served' = stored /\ UNCHANGED <<stored, previous, up>>

Stop == up /\ up' = FALSE /\ UNCHANGED <<stored, previous, served>>

Rewind == ~up /\ stored' = previous /\ UNCHANGED <<previous, served, up>>

Next == Start \/ Store \/ Serve \/ Stop \/ Rewind

Spec == Init /\ [][Next]_cell

=============================================================================
