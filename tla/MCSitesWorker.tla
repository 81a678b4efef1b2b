---------------------------- MODULE MCSitesWorker ----------------------------
(***************************************************************************)
(* Three requests: documents that are uploaded or made, and what can be    *)
(* asked for about them and the old one, which alone is restored: nothing  *)
(* tells the restored ones apart.  A request that changes something else   *)
(* behaves as one that makes a document, one that reads as one that the    *)
(* application refuses.                                                    *)
(***************************************************************************)
EXTENDS SitesWorker, TLC

MCAsks == {ask \in [kind : {"upload", "generate", "trash", "purge", "restore"}, id : Ids] :
              ask.kind \in {"upload", "generate", "restore"} => ask.id = Old}
Symmetry == Permutations(Requests)

(* "reads transparently hydrate a missing /tmp object from R2. This is      *)
(* required for multi-file reads such as annual tax evidence exports in a   *)
(* fresh isolate": every document that is listed can be had from there.     *)
ListedHasFile ==
    \A id \in Ids : stored.rows[id] = "kept" /\ id \notin trashed \cup unheard => id \in objects
=============================================================================
