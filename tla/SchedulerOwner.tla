--------------------------- MODULE SchedulerOwner ---------------------------
(***************************************************************************)
(* The start-up, election and shutdown of the API worker processes         *)
(* (app/main.py, lifespan), and the two MySQL advisory locks they compete  *)
(* for:                                                                    *)
(*   - ww_scheduler elects the one process whose APScheduler runs the jobs,*)
(*   - ww_backfill admits one run of backfill_recent at a time.            *)
(*                                                                         *)
(* An advisory lock belongs to a database session.  MySQL frees it when    *)
(* the session ends: on RELEASE_LOCK, when it notices that the client is   *)
(* dead, or when the session is cut under a client that lives on (idle     *)
(* timeout, database restart).                                             *)
(*                                                                         *)
(* A member of Proc is one process at a time: after its death and once its *)
(* sessions are gone the supervisor may reuse the name for a fresh process.*)
(***************************************************************************)
EXTENDS Naturals, FiniteSets

CONSTANTS
    Proc,        \* names of API worker processes
    Slots,       \* how many of them uvicorn keeps alive (--workers)
    Bootstrap,   \* the one-shot bootstrap-aggregator container
    Free,        \* a lock nobody holds
    PromptReap,  \* MySQL notices a dead client before a replacement is started
    MaxCrash,    \* bound: crashes explored
    MaxLoss      \* bound: sessions cut under a living client

ASSUME ProcAssumption == IsFiniteSet(Proc) /\ Bootstrap \notin Proc /\ Free \notin Proc

VARIABLES
    pc,            \* where each process is in lifespan
    sawPersonas,   \* what seed_default_personas read in this process
    personas,      \* the default personas are committed
    scheduling,    \* the processes whose scheduler is running
    job,           \* a scheduled job in this process: idle, running or cut off
    schedLock,     \* holder of ww_scheduler
    fill,          \* state of every possible run of backfill_recent
    fillLock,      \* holder of ww_backfill
    crashes,       \* crashes so far
    losses         \* sessions cut so far

vars == <<pc, sawPersonas, personas, scheduling, job, schedLock, fill, fillLock,
          crashes, losses>>

\* A run of backfill_recent: the task started at boot, the 30-minute job, or the
\* container's.
FillsOf(p) == {<<p, "startup">>, <<p, "job">>}
Fills == (Proc \X {"startup", "job"}) \cup {<<Bootstrap, "once">>}

ASSUME FreeAssumption == Free \notin Fills

Phase == {"down", "boot", "seeding", "electing", "serving", "stopping"}

Alive == {p \in Proc : pc[p] # "down"}

\* MySQL still keeps a session of a dead process that holds a lock.
Lingering(p) == pc[p] = "down" /\ (schedLock = p \/ fillLock \in FillsOf(p))

\* The value of fillLock once the runs in R have released it or lost their session.
FillLockWithout(R) == IF fillLock \in R THEN Free ELSE fillLock

\* Ending the runs in R: they are idle and no longer hold ww_backfill.
EndFills(R) ==
    /\ fill' = [r \in Fills |-> IF r \in R THEN "idle" ELSE fill[r]]
    /\ fillLock' = FillLockWithout(R)

TypeOK ==
    /\ pc \in [Proc -> Phase]
    /\ sawPersonas \in [Proc -> BOOLEAN]
    /\ personas \in BOOLEAN
    /\ scheduling \in SUBSET Proc
    /\ job \in [Proc -> {"idle", "running", "cut"}]
    /\ schedLock \in Proc \cup {Free}
    /\ fill \in [Fills -> {"idle", "due", "running"}]
    /\ fillLock \in Fills \cup {Free}
    /\ crashes \in Nat
    /\ losses \in Nat

Init ==
    /\ pc = [p \in Proc |-> "down"]
    /\ sawPersonas = [p \in Proc |-> FALSE]
    /\ personas = FALSE
    /\ scheduling = {}
    /\ job = [p \in Proc |-> "idle"]
    /\ schedLock = Free
    /\ fill = [r \in Fills |-> IF r = <<Bootstrap, "once">> THEN "due" ELSE "idle"]
    /\ fillLock = Free
    /\ crashes = 0
    /\ losses = 0

-----------------------------------------------------------------------------
(* Start-up *)

\* uvicorn's supervisor replaces a dead worker (external).
Spawn(p) ==
    /\ pc[p] = "down" /\ ~Lingering(p)
    /\ Cardinality(Alive) < Slots
    /\ PromptReap => \A q \in Proc : ~Lingering(q)
    /\ pc' = [pc EXCEPT ![p] = "boot"]
    /\ job' = [job EXCEPT ![p] = "idle"]
    /\ UNCHANGED <<sawPersonas, personas, scheduling, schedLock, fill, fillLock, crashes, losses>>

\* init_db, start_mqtt, the security checks, then the SELECTs of
\* seed_default_personas: a snapshot of what is committed.
SeedRead(p) ==
    /\ pc[p] = "boot"
    /\ pc' = [pc EXCEPT ![p] = "seeding"]
    /\ sawPersonas' = [sawPersonas EXCEPT ![p] = personas]
    /\ UNCHANGED <<personas, scheduling, job, schedLock, fill, fillLock, crashes, losses>>

\* The INSERTs meet the unique key on personas.name: the second process to insert
\* gets an IntegrityError out of lifespan, and dies.
SeedCommit(p) ==
    /\ pc[p] = "seeding"
    /\ IF ~sawPersonas[p] /\ personas
         THEN /\ pc' = [pc EXCEPT ![p] = "down"]
              /\ UNCHANGED personas
         ELSE /\ pc' = [pc EXCEPT ![p] = "electing"]
              /\ personas' = TRUE
    /\ sawPersonas' = [sawPersonas EXCEPT ![p] = FALSE]
    /\ UNCHANGED <<scheduling, job, schedLock, fill, fillLock, crashes, losses>>

\* Mutant: the result of GET_LOCK is not looked at.
ElectWonUnchecked(p) ==
    /\ pc[p] = "electing"
    /\ schedLock' = p
    /\ pc' = [pc EXCEPT ![p] = "serving"]
    /\ scheduling' = scheduling \cup {p}
    /\ fill' = [fill EXCEPT ![<<p, "startup">>] = "due"]
    /\ UNCHANGED <<sawPersonas, personas, job, fillLock, crashes, losses>>

\* GET_LOCK('ww_scheduler', 0) found the lock free: add the jobs, start the
\* scheduler and queue the start-up backfill.
ElectWon(p) ==
    /\ pc[p] = "electing"
    /\ schedLock = Free
    /\ schedLock' = p
    /\ pc' = [pc EXCEPT ![p] = "serving"]
    /\ scheduling' = scheduling \cup {p}
    /\ fill' = [fill EXCEPT ![<<p, "startup">>] = "due"]
    /\ UNCHANGED <<sawPersonas, personas, job, fillLock, crashes, losses>>

\* GET_LOCK returned 0: this process never tries again.
ElectLost(p) ==
    /\ pc[p] = "electing"
    /\ schedLock # Free
    /\ pc' = [pc EXCEPT ![p] = "serving"]
    /\ UNCHANGED <<sawPersonas, personas, scheduling, job, schedLock, fill, fillLock,
                   crashes, losses>>

-----------------------------------------------------------------------------
(* Jobs and backfills *)

\* APScheduler fires a job (max_instances is 1), and the job returns.
JobStart(p) ==
    /\ p \in scheduling /\ job[p] = "idle"
    /\ job' = [job EXCEPT ![p] = "running"]
    /\ UNCHANGED <<pc, sawPersonas, personas, scheduling, schedLock, fill, fillLock,
                   crashes, losses>>

\* Mutant: a job that returned is left as finished, never to be triggered again.
JobEndForGood(p) ==
    /\ job[p] = "running"
    /\ job' = [job EXCEPT ![p] = "done"]
    /\ UNCHANGED <<pc, sawPersonas, personas, scheduling, schedLock, fill, fillLock,
                   crashes, losses>>

JobEnd(p) ==
    /\ job[p] = "running"
    /\ job' = [job EXCEPT ![p] = "idle"]
    /\ UNCHANGED <<pc, sawPersonas, personas, scheduling, schedLock, fill, fillLock,
                   crashes, losses>>

\* The scheduler's own trigger makes the 30-minute run due.
FillTrigger(p) ==
    /\ p \in scheduling /\ fill[<<p, "job">>] = "idle"
    /\ fill' = [fill EXCEPT ![<<p, "job">>] = "due"]
    /\ UNCHANGED <<pc, sawPersonas, personas, scheduling, job, schedLock, fillLock,
                   crashes, losses>>

\* Mutant: the run goes on whatever GET_LOCK answered.
FillStartUnchecked(r) ==
    /\ fill[r] = "due"
    /\ fill' = [fill EXCEPT ![r] = "running"]
    /\ fillLock' = r
    /\ UNCHANGED <<pc, sawPersonas, personas, scheduling, job, schedLock, crashes, losses>>

\* GET_LOCK('ww_backfill', 0): run, or report "skipped".
FillStart(r) ==
    /\ fill[r] = "due"
    /\ fillLock = Free
    /\ fill' = [fill EXCEPT ![r] = "running"]
    /\ fillLock' = r
    /\ UNCHANGED <<pc, sawPersonas, personas, scheduling, job, schedLock, crashes, losses>>

FillSkip(r) ==
    /\ fill[r] = "due"
    /\ fillLock # Free
    /\ fill' = [fill EXCEPT ![r] = "idle"]
    /\ UNCHANGED <<pc, sawPersonas, personas, scheduling, job, schedLock, fillLock,
                   crashes, losses>>

\* Mutant: no finally clause around the loops, and the pooled session lives on.
FillEndKeeping(r) ==
    /\ fill[r] = "running"
    /\ fill' = [fill EXCEPT ![r] = "idle"]
    /\ UNCHANGED <<pc, sawPersonas, personas, scheduling, job, schedLock, fillLock,
                   crashes, losses>>

\* The loops end, or an aggregation raises: the finally clause releases the lock.
FillEnd(r) ==
    /\ fill[r] = "running"
    /\ EndFills({r})
    /\ UNCHANGED <<pc, sawPersonas, personas, scheduling, job, schedLock, crashes, losses>>

-----------------------------------------------------------------------------
(* Shutdown, crashes and lost sessions *)

\* After the yield: scheduler.shutdown stops the timer.  AsyncIOScheduler cannot
\* wait for coroutines, whatever its wait argument (external): jobs in progress are
\* cancelled where they stand, the backfill job among them.
StopScheduler(p) ==
    /\ pc[p] = "serving"
    /\ pc' = [pc EXCEPT ![p] = "stopping"]
    /\ scheduling' = scheduling \ {p}
    /\ job' = [job EXCEPT ![p] = IF @ = "running" THEN "cut" ELSE @]
    /\ EndFills({<<p, "job">>})
    /\ UNCHANGED <<sawPersonas, personas, schedLock, crashes, losses>>

\* Mutant: the shutdown waits for a job that was cancelled.
ExitAfterJob(p) ==
    /\ pc[p] = "stopping" /\ job[p] = "idle"
    /\ pc' = [pc EXCEPT ![p] = "down"]
    /\ schedLock' = IF schedLock = p THEN Free ELSE schedLock
    /\ EndFills(FillsOf(p))
    /\ UNCHANGED <<sawPersonas, personas, scheduling, job, crashes, losses>>

\* RELEASE_LOCK('ww_scheduler') if this process was elected, stop_mqtt, exit.
\* The start-up backfill is cancelled with the event loop.
Exit(p) ==
    /\ pc[p] = "stopping"
    /\ pc' = [pc EXCEPT ![p] = "down"]
    /\ schedLock' = IF schedLock = p THEN Free ELSE schedLock
    /\ EndFills(FillsOf(p))
    /\ UNCHANGED <<sawPersonas, personas, scheduling, job, crashes, losses>>

\* The process dies; MySQL has not noticed yet.
Crash(p) ==
    /\ crashes < MaxCrash
    /\ pc[p] # "down"
    /\ pc' = [pc EXCEPT ![p] = "down"]
    /\ scheduling' = scheduling \ {p}
    /\ job' = [job EXCEPT ![p] = "idle"]
    /\ fill' = [r \in Fills |-> IF r \in FillsOf(p) THEN "idle" ELSE fill[r]]
    /\ crashes' = crashes + 1
    /\ sawPersonas' = [sawPersonas EXCEPT ![p] = FALSE]
    /\ UNCHANGED <<personas, schedLock, fillLock, losses>>

\* MySQL notices: it ends the dead process's sessions (external).
Reap(p) ==
    /\ Lingering(p)
    /\ schedLock' = IF schedLock = p THEN Free ELSE schedLock
    /\ fillLock' = FillLockWithout(FillsOf(p))
    /\ UNCHANGED <<pc, sawPersonas, personas, scheduling, job, fill, crashes, losses>>

\* The idle session that elected a living process is cut (external): neither the
\* process nor its scheduler learns of it.
LoseElection ==
    /\ losses < MaxLoss
    /\ schedLock \in Alive
    /\ schedLock' = Free
    /\ losses' = losses + 1
    /\ UNCHANGED <<pc, sawPersonas, personas, scheduling, job, fill, fillLock, crashes>>

\* The session that admitted a backfill is cut while the run, whose aggregations use
\* other pooled connections, continues (external).
LoseFill ==
    /\ losses < MaxLoss
    /\ fillLock # Free /\ fill[fillLock] = "running"
    /\ fillLock' = Free
    /\ losses' = losses + 1
    /\ UNCHANGED <<pc, sawPersonas, personas, scheduling, job, schedLock, fill, crashes>>

-----------------------------------------------------------------------------
Startup(p) == SeedRead(p) \/ SeedCommit(p) \/ ElectWon(p) \/ ElectLost(p)

Next ==
    \/ \E p \in Proc :
        \/ Spawn(p) \/ SeedRead(p) \/ SeedCommit(p) \/ ElectWon(p) \/ ElectLost(p)
        \/ JobStart(p) \/ JobEnd(p) \/ FillTrigger(p)
        \/ StopScheduler(p) \/ Exit(p) \/ Crash(p) \/ Reap(p)
    \/ \E r \in Fills : FillStart(r) \/ FillSkip(r) \/ FillEnd(r)
    \/ LoseElection
    \/ LoseFill

\* The supervisor, the event loops and MySQL keep working; nothing obliges a job
\* to be triggered, a process to be stopped, or a fault to happen.
Fairness ==
    /\ WF_vars(\E p \in Proc : Spawn(p))
    /\ \A p \in Proc :
        /\ WF_vars(Startup(p))
        /\ WF_vars(Exit(p))
        /\ WF_vars(Reap(p))
        /\ WF_vars(JobEnd(p))
    /\ \A r \in Fills : WF_vars(FillStart(r) \/ FillSkip(r)) /\ WF_vars(FillEnd(r))

Spec == Init /\ [][Next]_vars /\ Fairness

-----------------------------------------------------------------------------
(* The promise of an advisory lock, for each of the two *)

FillsAtWork == {r \in Fills : fill[r] = "running"}

Election == INSTANCE Lease WITH
    Client <- Proc,
    rightful <- scheduling \cap {schedLock},
    orphans <- scheduling \ {schedLock}

Filling == INSTANCE Lease WITH
    Client <- Fills,
    rightful <- FillsAtWork \cap {fillLock},
    orphans <- FillsAtWork \ {fillLock}

-----------------------------------------------------------------------------
(* Properties *)

\* "Held for the process lifetime", the election lock gives one scheduler owner; each
\* session that MySQL cuts under a living client can add one more, and nothing else
\* does: no crash, restart, failed start-up or shutdown order (main.py, the election).
OwnersBounded == Cardinality(scheduling) <= 1 + losses

\* At most one backfill_recent is in its loops, over the start-up tasks, the scheduled
\* jobs and the bootstrap container together; each cut session can add one
\* (scheduler.py, backfill_recent).
BackfillsBounded == Cardinality(FillsAtWork) <= 1 + losses

\* Start-up, crashes, restarts and shutdown, whatever their order, use ww_scheduler as
\* Lease says: no second owner is admitted beside a rightful one, no owner gets its
\* place back, and only a cut session makes an orphan (main.py, the election).
ElectionIsLease == Election!Spec

\* The same of ww_backfill, over the start-up tasks, the jobs of every owner and the
\* bootstrap container (scheduler.py, backfill_recent).
FillingIsLease == Filling!Spec

\* The jobs never stop for good: after any stop or crash of the owner some process is
\* elected again, although every process asks for the lock only once in its life.
OwnerReturns == []<>(scheduling # {})

\* ww_backfill is never stranded: every run that took it gives it back or dies.
BackfillLockReturns == []<>(fillLock = Free)

\* The comment on the election: the lock "held for this process's lifetime picks one
\* owner".  Violated when MySQL cuts the idle session that holds the lock.
SingleOwner == Cardinality(scheduling) <= 1

=============================================================================
