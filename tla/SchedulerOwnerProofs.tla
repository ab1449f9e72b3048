------------------------ MODULE SchedulerOwnerProofs ------------------------
(***************************************************************************)
(* Proofs about SchedulerOwner for every set of processes, every number of *)
(* slots and every budget of faults.                                       *)
(*                                                                         *)
(* The bounds are not inductive: they do not say whether an owner still    *)
(* holds the lock.  The strengthening counts the orphans, the owners and   *)
(* the backfills that no longer hold the lock that admitted them, and says *)
(* that a process that is gone, or going, schedules nothing.               *)
(***************************************************************************)
EXTENDS SchedulerOwner, FiniteSetTheorems, TLAPS

OwnerOrphans == {p \in scheduling : schedLock # p}
FillOrphans == {r \in Fills : fill[r] = "running" /\ fillLock # r}

\* Only a serving process schedules, and only an elected one that has not exited
\* runs a backfill.
Placement ==
    /\ \A p \in scheduling : pc[p] = "serving"
    /\ \A p \in Proc : pc[p] \notin {"serving", "stopping"} => \A r \in FillsOf(p) : fill[r] = "idle"

OrphansBounded ==
    /\ Cardinality(OwnerOrphans) <= losses
    /\ Cardinality(FillOrphans) <= losses

IInv == TypeOK /\ Placement /\ OrphansBounded

-----------------------------------------------------------------------------
\* The runs of a process are runs.
LEMMA FillsOfFills == \A p \in Proc : FillsOf(p) \subseteq Fills
  BY DEF FillsOf, Fills

\* The set of runs is finite.
LEMMA FillsFinite == IsFiniteSet(Fills)
<1>1. IsFiniteSet({"startup", "job"})
  <2>1. {"startup", "job"} = {"startup"} \cup {"job"}
    OBVIOUS
  <2>2. IsFiniteSet({"startup"})
    BY FS_Singleton
  <2>3. IsFiniteSet({"startup"} \cup {"job"})
    BY <2>2, FS_AddElement
  <2>4. QED
    BY <2>1, <2>3
<1>2. IsFiniteSet(Proc \X {"startup", "job"})
  BY <1>1, FS_Product, ProcAssumption
<1>3. QED
  BY <1>2, FS_AddElement DEF Fills

\* A set that loses elements, or gains one when the bound grows by one, stays
\* within the bound.
LEMMA BoundKept ==
  ASSUME NEW S, IsFiniteSet(S), NEW T, NEW n \in Nat, NEW m \in Nat,
         Cardinality(S) <= n,
         \/ T \subseteq S /\ m = n
         \/ m = n + 1 /\ \E x : T \subseteq S \cup {x}
  PROVE  Cardinality(T) <= m
<1>1. CASE T \subseteq S /\ m = n
  BY <1>1, FS_Subset, FS_CardinalityType
<1>2. CASE m = n + 1 /\ \E x : T \subseteq S \cup {x}
  <2>1. PICK x : T \subseteq S \cup {x}
    BY <1>2
  <2>2. /\ IsFiniteSet(S \cup {x})
        /\ Cardinality(S \cup {x}) <= Cardinality(S) + 1
    <3>1. Cardinality(S) \in Nat
      BY FS_CardinalityType
    <3>2. IsFiniteSet(S \cup {x})
      BY FS_AddElement
    <3>3. Cardinality(S \cup {x}) = IF x \in S THEN Cardinality(S) ELSE Cardinality(S) + 1
      BY FS_AddElement
    <3>4. QED
      BY <3>1, <3>2, <3>3
  <2>3. Cardinality(T) <= Cardinality(S \cup {x})
    BY <2>1, <2>2, FS_Subset
  <2>4. QED
    BY <1>2, <2>1, <2>2, <2>3, FS_Subset, FS_CardinalityType
<1>3. QED
  BY <1>1, <1>2

-----------------------------------------------------------------------------
\* Type correctness: every variable of the process model keeps its type.
THEOREM TypeCorrect == Spec => []TypeOK
<1>1. Init => TypeOK
  <2> SUFFICES ASSUME Init PROVE TypeOK
    OBVIOUS
  <2>1. fill \in [Fills -> {"idle", "due", "running"}]
    BY DEF Init
  <2>2. QED
    BY <2>1 DEF Init, TypeOK, Phase
<1>2. TypeOK /\ [Next]_vars => TypeOK'
  <2> SUFFICES ASSUME TypeOK, [Next]_vars PROVE TypeOK'
    OBVIOUS
  <2> USE DEF TypeOK, Phase
  <2>1. ASSUME NEW p \in Proc, Spawn(p) PROVE TypeOK'
    BY <2>1 DEF Spawn
  <2>2. ASSUME NEW p \in Proc, SeedRead(p) PROVE TypeOK'
    BY <2>2 DEF SeedRead
  <2>3. ASSUME NEW p \in Proc, SeedCommit(p) PROVE TypeOK'
    BY <2>3 DEF SeedCommit
  <2>4. ASSUME NEW p \in Proc, ElectWon(p) PROVE TypeOK'
    BY <2>4 DEF ElectWon
  <2>5. ASSUME NEW p \in Proc, ElectLost(p) PROVE TypeOK'
    BY <2>5 DEF ElectLost
  <2>6. ASSUME NEW p \in Proc, JobStart(p) \/ JobEnd(p) PROVE TypeOK'
    BY <2>6 DEF JobStart, JobEnd
  <2>7. ASSUME NEW p \in Proc, FillTrigger(p) PROVE TypeOK'
    BY <2>7 DEF FillTrigger
  <2>8. ASSUME NEW p \in Proc, StopScheduler(p) PROVE TypeOK'
    BY <2>8 DEF StopScheduler, EndFills, FillLockWithout
  <2>9. ASSUME NEW p \in Proc, Exit(p) PROVE TypeOK'
    BY <2>9 DEF Exit, EndFills, FillLockWithout
  <2>10. ASSUME NEW p \in Proc, Crash(p) PROVE TypeOK'
    BY <2>10 DEF Crash
  <2>11. ASSUME NEW p \in Proc, Reap(p) PROVE TypeOK'
    BY <2>11 DEF Reap, FillLockWithout
  <2>12. ASSUME NEW r \in Fills, FillStart(r) \/ FillSkip(r) PROVE TypeOK'
    BY <2>12 DEF FillStart, FillSkip
  <2>13. ASSUME NEW r \in Fills, FillEnd(r) PROVE TypeOK'
    BY <2>13 DEF FillEnd, EndFills, FillLockWithout
  <2>14. CASE LoseElection \/ LoseFill
    BY <2>14 DEF LoseElection, LoseFill
  <2>15. CASE UNCHANGED vars
    BY <2>15 DEF vars
  <2>16. QED
    BY <2>1, <2>2, <2>3, <2>4, <2>5, <2>6, <2>7, <2>8, <2>9, <2>10, <2>11, <2>12,
       <2>13, <2>14, <2>15 DEF Next
<1>3. QED
  BY <1>1, <1>2, PTL DEF Spec

\* Nothing schedules or backfills in a process that is gone.
LEMMA PlacementStep ==
  ASSUME TypeOK, Placement, [Next]_vars
  PROVE  Placement'
<1> USE DEF TypeOK, Placement, FillsOf
<1>1. ASSUME NEW p \in Proc,
             Spawn(p) \/ SeedRead(p) \/ SeedCommit(p) \/ ElectLost(p)
      PROVE  Placement'
  <2>1. /\ p \notin scheduling /\ scheduling' = scheduling /\ fill' = fill
        /\ \A q \in Proc : q # p => pc'[q] = pc[q]
    BY <1>1 DEF Spawn, SeedRead, SeedCommit, ElectLost
  <2>2. pc'[p] \notin {"serving", "stopping"} => \A r \in FillsOf(p) : fill[r] = "idle"
    BY <1>1 DEF Spawn, SeedRead, SeedCommit, ElectLost
  <2>3. QED
    BY <2>1, <2>2
<1>2. ASSUME NEW p \in Proc, ElectWon(p) PROVE Placement'
  <2>1. \A q \in scheduling' : pc'[q] = "serving"
    BY <1>2 DEF ElectWon
  <2>2. ASSUME NEW q \in Proc, pc'[q] \notin {"serving", "stopping"}, NEW r \in FillsOf(q)
        PROVE  fill'[r] = "idle"
    <3>1. q # p /\ pc[q] \notin {"serving", "stopping"}
      BY <1>2, <2>2 DEF ElectWon
    <3>2. r # <<p, "startup">> /\ r \in Fills
      <4>1. r[1] = q
        BY <2>2
      <4>2. QED
        BY <2>2, <3>1, <4>1, FillsOfFills, <<p, "startup">>[1] = p
    <3>3. QED
      BY <1>2, <3>1, <3>2 DEF ElectWon
  <2>3. QED
    BY <2>1, <2>2
<1>3. ASSUME NEW p \in Proc, JobStart(p) \/ JobEnd(p) PROVE Placement'
  BY <1>3 DEF JobStart, JobEnd
<1>4. ASSUME NEW p \in Proc, FillTrigger(p) PROVE Placement'
  <2>1. pc[p] = "serving"
    BY <1>4 DEF FillTrigger
  <2>2. QED
    BY <1>4, <2>1, FillsOfFills DEF FillTrigger
<1>5. ASSUME NEW p \in Proc, StopScheduler(p) PROVE Placement'
  BY <1>5, FillsOfFills DEF StopScheduler, EndFills
<1>6. ASSUME NEW p \in Proc, Exit(p) PROVE Placement'
  BY <1>6, FillsOfFills DEF Exit, EndFills
<1>7. ASSUME NEW p \in Proc, Crash(p) PROVE Placement'
  BY <1>7, FillsOfFills DEF Crash
<1>8. ASSUME NEW p \in Proc, Reap(p) PROVE Placement'
  BY <1>8 DEF Reap
<1>9. ASSUME NEW r \in Fills, FillStart(r) \/ FillSkip(r) PROVE Placement'
  BY <1>9, FillsOfFills DEF FillStart, FillSkip
<1>10. ASSUME NEW r \in Fills, FillEnd(r) PROVE Placement'
  BY <1>10, FillsOfFills DEF FillEnd, EndFills
<1>11. CASE LoseElection \/ LoseFill
  BY <1>11 DEF LoseElection, LoseFill
<1>12. CASE UNCHANGED vars
  BY <1>12 DEF vars
<1>13. QED
  BY <1>1, <1>2, <1>3, <1>4, <1>5, <1>6, <1>7, <1>8, <1>9, <1>10, <1>11, <1>12
     DEF Next

\* Only a cut session makes an orphan, and it makes at most one.
LEMMA OrphansStep ==
  ASSUME TypeOK, Placement, [Next]_vars
  PROVE  /\ \/ OwnerOrphans' \subseteq OwnerOrphans /\ losses' = losses
            \/ losses' = losses + 1 /\ \E x : OwnerOrphans' \subseteq OwnerOrphans \cup {x}
         /\ \/ FillOrphans' \subseteq FillOrphans /\ losses' = losses
            \/ losses' = losses + 1 /\ \E x : FillOrphans' \subseteq FillOrphans \cup {x}
<1> DEFINE Kept == /\ OwnerOrphans' \subseteq OwnerOrphans
                   /\ FillOrphans' \subseteq FillOrphans
                   /\ losses' = losses
<1> USE DEF TypeOK, OwnerOrphans, FillOrphans
<1>1. ASSUME NEW p \in Proc,
             \/ Spawn(p) \/ SeedRead(p) \/ SeedCommit(p) \/ ElectLost(p)
             \/ JobStart(p) \/ JobEnd(p)
      PROVE  Kept
  BY <1>1 DEF Spawn, SeedRead, SeedCommit, ElectLost, JobStart, JobEnd
<1>2. ASSUME NEW p \in Proc, ElectWon(p) PROVE Kept
  <2>1. OwnerOrphans' \subseteq OwnerOrphans
    BY <1>2, ProcAssumption DEF ElectWon
  <2>2. FillOrphans' \subseteq FillOrphans
    BY <1>2 DEF ElectWon
  <2>3. QED
    BY <1>2, <2>1, <2>2 DEF ElectWon
<1>3. ASSUME NEW p \in Proc, FillTrigger(p) PROVE Kept
  BY <1>3 DEF FillTrigger
<1>4. ASSUME NEW p \in Proc, StopScheduler(p) PROVE Kept
  BY <1>4 DEF StopScheduler, EndFills, FillLockWithout
<1>5. ASSUME NEW p \in Proc, Exit(p) PROVE Kept
  <2>1. p \notin scheduling
    BY <1>5 DEF Exit, Placement
  <2>2. QED
    BY <1>5, <2>1 DEF Exit, EndFills, FillLockWithout
<1>6. ASSUME NEW p \in Proc, Crash(p) PROVE Kept
  BY <1>6 DEF Crash
<1>7. ASSUME NEW p \in Proc, Reap(p) PROVE Kept
  <2>1. p \notin scheduling /\ \A r \in FillsOf(p) : fill[r] = "idle"
    BY <1>7 DEF Reap, Lingering, Placement
  <2>2. QED
    BY <1>7, <2>1 DEF Reap, FillLockWithout
<1>8. ASSUME NEW r \in Fills, FillStart(r) PROVE Kept
  BY <1>8, FreeAssumption DEF FillStart
<1>9. ASSUME NEW r \in Fills, FillSkip(r) PROVE Kept
  BY <1>9 DEF FillSkip
<1>10. ASSUME NEW r \in Fills, FillEnd(r) PROVE Kept
  BY <1>10 DEF FillEnd, EndFills, FillLockWithout
<1>11. CASE LoseElection
  <2>1. /\ OwnerOrphans' \subseteq OwnerOrphans \cup {schedLock}
        /\ FillOrphans' \subseteq FillOrphans
        /\ losses' = losses + 1
    BY <1>11 DEF LoseElection
  <2>2. QED
    BY <2>1
<1>12. CASE LoseFill
  <2>1. /\ FillOrphans' \subseteq FillOrphans \cup {fillLock}
        /\ OwnerOrphans' \subseteq OwnerOrphans
        /\ losses' = losses + 1
    BY <1>12 DEF LoseFill
  <2>2. QED
    BY <2>1
<1>13. CASE UNCHANGED vars
  BY <1>13 DEF vars
<1>14. QED
  BY <1>1, <1>2, <1>3, <1>4, <1>5, <1>6, <1>7, <1>8, <1>9, <1>10, <1>11, <1>12, <1>13
     DEF Next

\* The orphans are finitely many.
LEMMA OrphansFinite ==
  ASSUME TypeOK
  PROVE  IsFiniteSet(OwnerOrphans) /\ IsFiniteSet(FillOrphans)
<1>1. OwnerOrphans \in SUBSET Proc /\ FillOrphans \in SUBSET Fills
  BY DEF TypeOK, OwnerOrphans, FillOrphans
<1>2. QED
  BY <1>1, FillsFinite, ProcAssumption, FS_Subset

\* The strengthened invariant holds in every reachable state.
THEOREM Invariance == Spec => []IInv
<1>1. Init => Placement /\ OrphansBounded
  <2> SUFFICES ASSUME Init PROVE Placement /\ OrphansBounded
    OBVIOUS
  <2>1. OwnerOrphans = {} /\ FillOrphans = {} /\ losses = 0
    BY DEF Init, OwnerOrphans, FillOrphans
  <2>2. OrphansBounded
    BY <2>1, FS_EmptySet DEF OrphansBounded
  <2>3. ASSUME NEW p \in Proc, NEW r \in FillsOf(p)
        PROVE  r # <<Bootstrap, "once">> /\ r \in Fills
    <3>1. r[1] = p /\ <<Bootstrap, "once">>[1] = Bootstrap
      BY DEF FillsOf
    <3>2. QED
      BY <3>1, FillsOfFills, ProcAssumption
  <2>4. Placement
    BY <2>3 DEF Init, Placement
  <2>5. QED
    BY <2>2, <2>4
<1>2. TypeOK /\ TypeOK' /\ Placement /\ OrphansBounded /\ [Next]_vars
      => Placement' /\ OrphansBounded'
  <2> SUFFICES ASSUME TypeOK, TypeOK', Placement, OrphansBounded, [Next]_vars
               PROVE  Placement' /\ OrphansBounded'
    OBVIOUS
  <2>1. losses \in Nat /\ losses' \in Nat
    BY DEF TypeOK
  <2>2. Cardinality(OwnerOrphans') <= losses'
    BY <2>1, OrphansStep, OrphansFinite, BoundKept DEF OrphansBounded
  <2>3. Cardinality(FillOrphans') <= losses'
    BY <2>1, OrphansStep, OrphansFinite, BoundKept DEF OrphansBounded
  <2>4. QED
    BY <2>2, <2>3, PlacementStep DEF OrphansBounded
<1>3. QED
  BY <1>1, <1>2, TypeCorrect, PTL DEF Spec, IInv

\* Whatever crashes, restarts and failed start-ups happen, more than one process
\* schedules only if MySQL cut the session of a living owner.
THEOREM OwnersAreBounded == Spec => []OwnersBounded
<1>1. IInv => OwnersBounded
  <2> SUFFICES ASSUME IInv PROVE OwnersBounded
    OBVIOUS
  <2>1. losses \in Nat /\ losses + 1 \in Nat /\ IsFiniteSet(OwnerOrphans)
    BY OrphansFinite DEF IInv, TypeOK
  <2>2. scheduling \subseteq OwnerOrphans \cup {schedLock}
    BY DEF OwnerOrphans
  <2>3. Cardinality(scheduling) <= losses + 1
    BY <2>1, <2>2, BoundKept DEF IInv, OrphansBounded
  <2>4. QED
    BY <2>1, <2>3 DEF OwnersBounded
<1>2. QED
  BY <1>1, Invariance, PTL

\* Likewise more than one backfill_recent is in its loops only if MySQL cut the
\* session of a running one.
THEOREM BackfillsAreBounded == Spec => []BackfillsBounded
<1>1. IInv => BackfillsBounded
  <2> SUFFICES ASSUME IInv PROVE BackfillsBounded
    OBVIOUS
  <2> DEFINE Running == FillsAtWork
  <2>1. losses \in Nat /\ losses + 1 \in Nat /\ IsFiniteSet(FillOrphans)
    BY OrphansFinite DEF IInv, TypeOK
  <2>2. Running \subseteq FillOrphans \cup {fillLock}
    BY DEF FillOrphans, FillsAtWork
  <2>3. Cardinality(Running) <= losses + 1
    BY <2>1, <2>2, BoundKept DEF IInv, OrphansBounded
  <2>4. QED
    BY <2>1, <2>3 DEF BackfillsBounded, FillsAtWork
<1>2. QED
  BY <1>1, Invariance, PTL

-----------------------------------------------------------------------------
\* What a step does to the set at work and to the lock is one of Lease's steps: an
\* admission, a cut, or the end of some.
LEMMA ElectionStep ==
  ASSUME TypeOK, Placement, [Next]_vars
  PROVE  [Election!Next]_Election!lease
<1> USE DEF Election!lease
<1> DEFINE Same == scheduling' = scheduling /\ schedLock' = schedLock
<1>1. Same => UNCHANGED Election!lease
  OBVIOUS
<1>2. ASSUME NEW C \in SUBSET Proc,
             scheduling' \cap {schedLock'} = (scheduling \cap {schedLock}) \ C,
             scheduling' \ {schedLock'} = (scheduling \ {schedLock}) \ C
      PROVE  Election!Next
  BY <1>2 DEF Election!Next, Election!End
<1>3. ASSUME NEW p \in Proc,
             \/ Spawn(p) \/ SeedRead(p) \/ SeedCommit(p) \/ ElectLost(p)
             \/ JobStart(p) \/ JobEnd(p) \/ FillTrigger(p)
      PROVE  Same
  BY <1>3 DEF Spawn, SeedRead, SeedCommit, ElectLost, JobStart, JobEnd, FillTrigger
<1>4. ASSUME NEW p \in Proc, ElectWon(p) PROVE Election!Grant(p)
  <2>1. p \notin scheduling /\ Free \notin scheduling
    BY <1>4, ProcAssumption DEF ElectWon, Placement, TypeOK
  <2>2. scheduling' = scheduling \cup {p} /\ schedLock = Free /\ schedLock' = p
    BY <1>4 DEF ElectWon
  <2>3. QED
    BY <2>1, <2>2 DEF Election!Grant
<1>5. ASSUME NEW p \in Proc, StopScheduler(p) \/ Crash(p) PROVE Election!Next
  <2>1. scheduling' = scheduling \ {p} /\ schedLock' = schedLock
    BY <1>5 DEF StopScheduler, Crash
  <2>2. QED
    BY <2>1, <1>2
<1>6. ASSUME NEW p \in Proc, Exit(p) \/ Reap(p) PROVE UNCHANGED Election!lease
  <2>1. p \notin scheduling /\ Free \notin scheduling
    BY <1>6, ProcAssumption DEF Exit, Reap, Lingering, Placement, TypeOK
  <2>2. /\ scheduling' = scheduling
        /\ schedLock' = IF schedLock = p THEN Free ELSE schedLock
    BY <1>6 DEF Exit, Reap
  <2>3. QED
    BY <2>1, <2>2
<1>7. ASSUME NEW r \in Fills, FillStart(r) \/ FillSkip(r) \/ FillEnd(r) PROVE Same
  BY <1>7 DEF FillStart, FillSkip, FillEnd
<1>8. CASE LoseFill
  BY <1>8, <1>1 DEF LoseFill
<1>9. CASE LoseElection
  <2>1. scheduling' = scheduling /\ schedLock' = Free /\ Free \notin scheduling
    BY <1>9, ProcAssumption DEF LoseElection, TypeOK
  <2>2. CASE schedLock \in scheduling
    BY <2>1, <2>2 DEF Election!Next, Election!Cut
  <2>3. CASE schedLock \notin scheduling
    BY <2>1, <2>3
  <2>4. QED
    BY <2>2, <2>3
<1>10. CASE UNCHANGED vars
  BY <1>10, <1>1 DEF vars
<1>11. QED
  BY <1>1, <1>3, <1>4, <1>5, <1>6, <1>7, <1>8, <1>9, <1>10 DEF Next, Election!Next

\* The election keeps the promise of an advisory lock for any number of processes,
\* crashes, restarts and cut sessions.
THEOREM ElectionImplementsLease == Spec => ElectionIsLease
<1>1. Init => Election!Init
  BY DEF Init, Election!Init
<1>2. IInv /\ [Next]_vars => [Election!Next]_Election!lease
  BY ElectionStep DEF IInv
<1>3. QED
  BY <1>1, <1>2, Invariance, PTL DEF Spec, ElectionIsLease, Election!Spec

\* Each step grants, cuts or ends the lease of a backfill, or leaves it alone.
LEMMA FillingStep ==
  ASSUME TypeOK, Placement, [Next]_vars
  PROVE  [Filling!Next]_Filling!lease
<1> USE DEF Filling!lease, FillsAtWork
<1> DEFINE Same == FillsAtWork' = FillsAtWork /\ fillLock' = fillLock
<1>1. Same => UNCHANGED Filling!lease
  OBVIOUS
<1>2. Free \notin FillsAtWork
  BY FreeAssumption
\* Runs in C end, and the lock goes only from one of them.
<1>3. ASSUME NEW C \in SUBSET Fills,
             fill' = [r \in Fills |-> IF r \in C THEN "idle" ELSE fill[r]],
             fillLock' = fillLock \/ (fillLock \in C /\ fillLock' = Free)
      PROVE  Filling!Next
  <2>1. FillsAtWork' = FillsAtWork \ C
    BY <1>3
  <2>2. /\ FillsAtWork' \cap {fillLock'} = (FillsAtWork \cap {fillLock}) \ C
        /\ FillsAtWork' \ {fillLock'} = (FillsAtWork \ {fillLock}) \ C
    BY <1>2, <1>3, <2>1
  <2>3. QED
    BY <2>2 DEF Filling!Next, Filling!End
<1>4. ASSUME NEW p \in Proc,
             \/ Spawn(p) \/ SeedRead(p) \/ SeedCommit(p) \/ ElectLost(p)
             \/ JobStart(p) \/ JobEnd(p)
      PROVE  Same
  BY <1>4 DEF Spawn, SeedRead, SeedCommit, ElectLost, JobStart, JobEnd
<1>5. ASSUME NEW p \in Proc, ElectWon(p) PROVE Same
  <2>1. fill[<<p, "startup">>] # "running"
    BY <1>5 DEF ElectWon, Placement, FillsOf
  <2>2. QED
    BY <1>5, <2>1 DEF ElectWon, TypeOK
<1>6. ASSUME NEW p \in Proc, FillTrigger(p) PROVE Same
  BY <1>6 DEF FillTrigger, TypeOK
<1>7. ASSUME NEW p \in Proc, StopScheduler(p) \/ Exit(p) \/ Crash(p) PROVE Filling!Next
  <2>1. FillsOf(p) \in SUBSET Fills /\ {<<p, "job">>} \in SUBSET Fills
    BY FillsOfFills DEF FillsOf
  <2>2. CASE StopScheduler(p)
    <3>1. /\ fill' = [r \in Fills |-> IF r \in {<<p, "job">>} THEN "idle" ELSE fill[r]]
          /\ fillLock' = IF fillLock \in {<<p, "job">>} THEN Free ELSE fillLock
      BY <2>2 DEF StopScheduler, EndFills, FillLockWithout
    <3>2. QED
      BY <2>1, <3>1, <1>3
  <2>3. CASE Exit(p)
    BY <2>1, <2>3, <1>3 DEF Exit, EndFills, FillLockWithout
  <2>4. CASE Crash(p)
    BY <2>1, <2>4, <1>3 DEF Crash
  <2>5. QED
    BY <1>7, <2>2, <2>3, <2>4
<1>8. ASSUME NEW p \in Proc, Reap(p) PROVE UNCHANGED Filling!lease
  <2>1. \A r \in FillsOf(p) : r \notin FillsAtWork
    BY <1>8 DEF Reap, Lingering, Placement
  <2>2. FillsAtWork' = FillsAtWork
    BY <1>8 DEF Reap
  <2>3. fillLock' = fillLock \/ (fillLock \in FillsOf(p) /\ fillLock' = Free)
    BY <1>8 DEF Reap, FillLockWithout
  <2>4. QED
    BY <2>1, <2>2, <2>3, <1>2
<1>9. ASSUME NEW r \in Fills, FillStart(r) PROVE Filling!Grant(r)
  <2>1. FillsAtWork' = FillsAtWork \cup {r} /\ r \notin FillsAtWork
    BY <1>9 DEF FillStart, TypeOK
  <2>2. fillLock = Free /\ fillLock' = r
    BY <1>9 DEF FillStart
  <2>3. QED
    BY <2>1, <2>2, <1>2 DEF Filling!Grant
<1>10. ASSUME NEW r \in Fills, FillSkip(r) PROVE Same
  BY <1>10 DEF FillSkip, TypeOK
<1>11. ASSUME NEW r \in Fills, FillEnd(r) PROVE Filling!Next
  BY <1>11, <1>3 DEF FillEnd, EndFills, FillLockWithout
<1>12. CASE LoseElection
  BY <1>12, <1>1 DEF LoseElection
<1>13. CASE LoseFill
  <2>1. FillsAtWork' = FillsAtWork /\ fillLock' = Free /\ fillLock \in FillsAtWork
    BY <1>13 DEF LoseFill, TypeOK
  <2>2. QED
    BY <2>1, <1>2 DEF Filling!Next, Filling!Cut
<1>14. CASE UNCHANGED vars
  BY <1>14, <1>1 DEF vars
<1>15. QED
  BY <1>1, <1>4, <1>5, <1>6, <1>7, <1>8, <1>9, <1>10, <1>11, <1>12, <1>13, <1>14
     DEF Next, Filling!Next

\* So does the backfill lock.
THEOREM FillingImplementsLease == Spec => FillingIsLease
<1>1. Init => Filling!Init
  BY DEF Init, Filling!Init, FillsAtWork
<1>2. IInv /\ [Next]_vars => [Filling!Next]_Filling!lease
  BY FillingStep DEF IInv
<1>3. QED
  BY <1>1, <1>2, Invariance, PTL DEF Spec, FillingIsLease, Filling!Spec

=============================================================================
