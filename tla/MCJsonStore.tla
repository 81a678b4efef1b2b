---------------------------- MODULE MCJsonStore ----------------------------
(* JsonStore for TLC.  Six commit attempts leave room for a main file, a   *)
(* backup, a damaged main file, a start from the backup, and a second      *)
(* damage after the commits that followed it.                              *)
EXTENDS JsonStore

MCMaxGen == 6

=============================================================================
