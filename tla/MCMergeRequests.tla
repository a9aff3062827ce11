-------------------------- MODULE MCMergeRequests --------------------------
(* Small instances of MergeRequests.                                       *)
EXTENDS MergeRequests
=============================================================================
