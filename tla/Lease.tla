-------------------------------- MODULE Lease --------------------------------
(***************************************************************************)
(* What the server may rely on when it admits work by a MySQL advisory     *)
(* lock that it takes once and never looks at again (ww_scheduler,         *)
(* ww_backfill): a rightful worker at most, beside those whose lock was    *)
(* cut away under them.  Nobody becomes rightful again, and an orphan ends *)
(* only by itself.  SchedulerOwner implements it for each of its locks.    *)
(***************************************************************************)
EXTENDS FiniteSets

CONSTANT Client   \* who may ask to be admitted

VARIABLES
    rightful,     \* the client at work that the lock admitted and still protects
    orphans       \* clients at work that lost the lock

lease == <<rightful, orphans>>

TypeOK == rightful \in SUBSET Client /\ orphans \in SUBSET Client

Init == rightful = {} /\ orphans = {}

\* GET_LOCK answers 1 only if no rightful client is at work.
Grant(c) ==
    /\ rightful = {}
    /\ c \notin orphans
    /\ rightful' = {c}
    /\ UNCHANGED orphans

\* The lock goes, the work goes on.
Cut ==
    /\ rightful # {}
    /\ rightful' = {}
    /\ orphans' = orphans \cup rightful

\* The clients in C stop working, by themselves or by dying.
End(C) ==
    /\ rightful' = rightful \ C
    /\ orphans' = orphans \ C

Next ==
    \/ \E c \in Client : Grant(c)
    \/ Cut
    \/ \E C \in SUBSET Client : End(C)

Spec == Init /\ [][Next]_lease

=============================================================================
