---------------------------- MODULE AccountLinks ----------------------------
(***************************************************************************)
(* What the login handlers promise to the projects maker, whatever their   *)
(* callbacks do to each other: an account is linked to a user once, by one *)
(* callback, which hands the user over once or is lost with the process.   *)
(* Accounts keeps the promise, ProjectSetup is built on it.                *)
(***************************************************************************)
VARIABLES
    linked,   \* users with a GitLab account
    pending   \* those whose callback is still to hand them over

linkVars == <<linked, pending>>

Init == linked = {} /\ pending = {}

Link(u) ==
    /\ u \notin linked
    /\ linked' = linked \cup {u} /\ pending' = pending \cup {u}

HandOver(u) ==
    /\ u \in pending
    /\ pending' = pending \ {u}
    /\ UNCHANGED linked

Restart == pending' = {} /\ UNCHANGED linked

Next ==
    \/ \E u \in linked' \cup pending : Link(u) \/ HandOver(u)
    \/ Restart

Spec == Init /\ [][Next]_linkVars

=============================================================================
