----------------------------- MODULE Semaphore ------------------------------
(***************************************************************************)
(* What the permits of crashme promise to those who connect: no more than  *)
(* so many hold one, those who wait are served in the order they came, and *)
(* nobody waits who need not.  A permit that is given back goes to the     *)
(* first in line at once.                                                  *)
(***************************************************************************)
EXTENDS FiniteSets, Naturals, SequencesExt

CONSTANTS Clients, Permits

VARIABLES
    holders,  \* who holds a permit
    line      \* who waits for one, in order

semaphoreVars == <<holders, line>>

Init == holders = {} /\ line = <<>>

Acquire(c) ==
    /\ c \notin holders /\ ~\E i \in DOMAIN line : line[i] = c
    /\ IF Cardinality(holders) < Permits
       THEN line = <<>> /\ holders' = holders \cup {c} /\ UNCHANGED line
       ELSE line' = Append(line, c) /\ UNCHANGED holders

GiveUp(c) ==
    /\ \E i \in DOMAIN line : line[i] = c /\ line' = RemoveAt(line, i)
    /\ UNCHANGED holders

Release(c) ==
    /\ c \in holders
    /\ IF line = <<>>
       THEN holders' = holders \ {c} /\ UNCHANGED line
       ELSE holders' = (holders \ {c}) \cup {Head(line)} /\ line' = Tail(line)

Restart == holders' = {} /\ line' = <<>>

Next ==
    \/ \E c \in Clients : Acquire(c) \/ GiveUp(c) \/ Release(c)
    \/ Restart

Spec == Init /\ [][Next]_semaphoreVars

=============================================================================
