-------------------------- MODULE AggregationProofs --------------------------
(***************************************************************************)
(* Proofs about Aggregation for every number of devices, hours, readings,  *)
(* runners, late readings, crashes and removals.                           *)
(*                                                                         *)
(* The properties speak of the tables; what makes them true is what a run  *)
(* carries from its snapshot to its commit.  HourPlan and DayPlan say      *)
(* which of it stays true however the others interleave, and which only    *)
(* while no other commit wrote anything (begun = seq).                     *)
(***************************************************************************)
EXTENDS Aggregation, FiniteSetTheorems, SequenceTheorems, WellFoundedInduction, TLAPS

\* A home has one row at most, and an hourly row holds readings and is as old as a commit.
Books ==
    /\ \A t, u \in home : t = u
    /\ \A k \in DOMAIN hourly : hourly[k].stats \subseteq readings[k] /\ hourly[k].at <= seq

HourPlan(r) ==
    /\ run[r].rows \in Partial(Key, SUBSET Watts)
    /\ run[r].inserts \subseteq DOMAIN run[r].rows
    /\ \A k \in DOMAIN run[r].rows :
        /\ run[r].rows[k] # {} /\ run[r].rows[k] \subseteq readings[k]
        /\ k \in run[r].inserts \/ k \in DOMAIN hourly
        /\ k \in DOMAIN hourly /\ hourly[k].at <= run[r].begun =>
                hourly[k].stats \subseteq run[r].rows[k]
    /\ run[r].totalAs = "none"
    /\ run[r].begun = seq => run[r].inserts \cap DOMAIN hourly = {}

DayPlan(r) ==
    /\ run[r].rows \in Partial(Device, DayStats)
    /\ DOMAIN run[r].rows \subseteq DOMAIN run[r].total
    /\ run[r].begun = seq =>
        /\ run[r].inserts \cap DOMAIN daily = {}
        /\ run[r].rows = Writes(run[r].total, daily)
        /\ run[r].totalAs = "insert" => home = {}
        /\ run[r].totalAs = "none" =>
                run[r].total = Empty \/ \E t \in home : t.parts = run[r].total

Plans ==
    \A r \in Runner :
        /\ run[r].pc = "next" => run[r].totalAs = "none"
        /\ run[r].pc = "commit" =>
            /\ run[r].todo # <<>> /\ run[r].begun <= seq
            /\ IF Head(run[r].todo) = Day THEN DayPlan(r) ELSE HourPlan(r)

IInv == TypeOK /\ Books /\ Plans /\ HomeTotalIsSum

-----------------------------------------------------------------------------
(* Partial functions and minima *)

\* A set of naturals that is not empty has a least member, and Min is one.
LEMMA MinType ==
  ASSUME NEW S \in SUBSET Nat, S # {}
  PROVE  Min(S) \in S
<1>1. PICK i \in S : \A j \in S : <<j, i>> \notin OpToRel(<, Nat)
  BY NatLessThanWellFounded, WFMin
<1>2. ASSUME NEW j \in S
      PROVE  i <= j
  <2>1. i \in Nat /\ j \in Nat
    OBVIOUS
  <2>2. ~(j < i)
    BY <1>1, <2>1 DEF OpToRel
  <2>3. QED
    BY <2>1, <2>2
<1>3. \E x \in S : \A y \in S : x <= y
  BY <1>2
<1>4. QED
  BY <1>3 DEF Min

\* Maps from part of a set, such as the tables are.
LEMMA PartialType ==
  ASSUME NEW S, NEW T
  PROVE  /\ \A D \in SUBSET S : \A f \in [D -> T] : f \in Partial(S, T)
         /\ \A f \in Partial(S, T) : DOMAIN f \subseteq S /\ f \in [DOMAIN f -> T]
         /\ Empty \in Partial(S, T)
<1>1. \A D \in SUBSET S : \A f \in [D -> T] : f \in Partial(S, T)
  BY DEF Partial
<1>2. ASSUME NEW f \in Partial(S, T)
      PROVE  DOMAIN f \subseteq S /\ f \in [DOMAIN f -> T]
  <2>1. PICK D \in SUBSET S : f \in [D -> T]
    BY DEF Partial
  <2>2. QED
    BY <2>1
<1>3. Empty \in [{} -> T]
  BY DEF Empty
<1>4. QED
  BY <1>1, <1>2, <1>3

\* What Writes sends: of the new rows, those that are not there yet or that differ.
LEMMA WritesType ==
  ASSUME NEW S, NEW T, NEW new \in Partial(S, T), NEW old
  PROVE  /\ Writes(new, old) \in Partial(S, T)
         /\ DOMAIN Writes(new, old) \subseteq DOMAIN new
         /\ \A x \in DOMAIN Writes(new, old) : Writes(new, old)[x] = new[x]
         /\ \A x \in DOMAIN new :
                x \in DOMAIN Writes(new, old) \/ (x \in DOMAIN old /\ old[x] = new[x])
<1> DEFINE D == {y \in DOMAIN new : y \in DOMAIN old => old[y] # new[y]}
<1>1. DOMAIN new \subseteq S /\ new \in [DOMAIN new -> T]
  BY PartialType
<1>2. Writes(new, old) = [x \in D |-> new[x]]
  BY DEF Writes
<1>3. Writes(new, old) \in [D -> T] /\ D \in SUBSET S
  BY <1>1, <1>2
<1>4. QED
  BY <1>2, <1>3, PartialType

\* An upsert keeps the rows there are and adds those that are new.
LEMMA UpsertType ==
  ASSUME NEW f, NEW g
  PROVE  /\ DOMAIN Upsert(f, g) = DOMAIN f \cup DOMAIN g
         /\ \A x \in DOMAIN f : Upsert(f, g)[x] = f[x]
         /\ \A x \in DOMAIN g : x \notin DOMAIN f => Upsert(f, g)[x] = g[x]
BY DEF Upsert

-----------------------------------------------------------------------------
(* Types *)

\* The day is no hour, as the targets of a run have to tell the two apart.
LEMMA DayIsNoHour == Day \notin Hour /\ Hour \subseteq Nat
BY DataAssumption DEF Day, Hour

\* A runner that does nothing is well typed.
LEMMA IdleType == Idle \in Run
<1>1. Empty \in Partial(Key, SUBSET Watts) /\ Empty \in Partial(Device, DayStats)
  BY PartialType
<1>2. <<>> \in Seq(Hour \cup {Day})
  OBVIOUS
<1>3. QED
  BY <1>1, <1>2 DEF Idle, Run

\* What each caller aggregates is a list of hours and the day.
LEMMA TargetsType ==
  /\ AllTargets \in Seq(Hour \cup {Day})
  /\ <<Day>> \in Seq(Hour \cup {Day})
  /\ \A h \in Hour : <<h>> \in Seq(Hour \cup {Day})
<1>1. Hours + 1 \in Nat
  BY DataAssumption
<1>2. \A i \in 1..(Hours + 1) : (IF i <= Hours THEN i ELSE Day) \in Hour \cup {Day}
  BY DataAssumption DEF Hour
<1>3. AllTargets \in [1..(Hours + 1) -> Hour \cup {Day}]
  BY <1>2 DEF AllTargets
<1>4. QED
  BY <1>1, <1>3

\* The calls that are left.
LEMMA ProceedType ==
  ASSUME TypeOK, NEW r \in Runner, run[r].todo # <<>>
  PROVE  /\ Head(run[r].todo) \in Hour \cup {Day}
         /\ Proceed(r) \in Run
         /\ Proceed(r).pc = "next"
<1>1. run[r] \in Run
  BY DEF TypeOK
<1>2. Head(run[r].todo) \in Hour \cup {Day} /\ Tail(run[r].todo) \in Seq(Hour \cup {Day})
  BY <1>1, HeadTailProperties DEF Run
<1>3. Proceed(r) \in Run
  BY <1>2, IdleType DEF Proceed, Run
<1>4. Proceed(r).pc = "next"
  BY DEF Proceed, Idle
<1>5. QED
  BY <1>2, <1>3, <1>4

\* What aggregate_hourly computes: rows of readings, none of them empty.
LEMMA ComputedType ==
  ASSUME TypeOK, NEW h \in Hour
  PROVE  /\ Computed(h) \in Partial(Key, SUBSET Watts)
         /\ \A k \in DOMAIN Computed(h) : Computed(h)[k] = readings[k] /\ readings[k] # {}
<1> DEFINE D == {j \in active \X {h} : readings[j] # {}}
<1>1. D \in SUBSET Key
  BY DEF TypeOK, Key
<1>2. Computed(h) = [k \in D |-> readings[k]]
  BY DEF Computed
<1>3. Computed(h) \in [D -> SUBSET Watts]
  BY <1>1, <1>2 DEF TypeOK
<1>4. QED
  BY <1>1, <1>2, <1>3, PartialType

\* The days aggregate_daily counts.
LEMMA DaysType ==
  ASSUME TypeOK
  PROVE  [d \in Counted |-> DayOf(d)] \in Partial(Device, DayStats)
<1>1. Counted \in SUBSET Device
  BY DEF Counted, TypeOK
<1>2. ASSUME NEW d \in Device
      PROVE  DayOf(d) \in DayStats
  <2>1. \A k \in DOMAIN hourly : hourly[k].stats \subseteq Watts
    BY DEF TypeOK, HourlyRow
  <2>2. \A h \in Hour : (IF <<d, h>> \in DOMAIN hourly THEN hourly[<<d, h>>].stats ELSE {}) \in SUBSET Watts
    BY <2>1
  <2>3. QED
    BY <2>2 DEF DayOf, DayStats
<1>3. [d \in Counted |-> DayOf(d)] \in [Counted -> DayStats]
  BY <1>1, <1>2
<1>4. QED
  BY <1>1, <1>3, PartialType

\* The row that a commit leaves for a key.
LEMMA HourlyRowType ==
  ASSUME TypeOK, NEW r \in Runner, HourPlan(r), NEW k \in DOMAIN run[r].rows
  PROVE  k \in Key /\ HourlyRowOf(r, k) \in HourlyRow
<1>1. k \in Key /\ run[r].rows[k] \in SUBSET Watts
  BY PartialType DEF HourPlan
<1>2. Min(run[r].rows[k]) \in Watts
  <2>1. run[r].rows[k] \in SUBSET Nat /\ run[r].rows[k] # {}
    BY <1>1, DataAssumption DEF HourPlan
  <2>2. QED
    BY <1>1, <2>1, MinType
<1>3. k \in run[r].inserts \/ hourly[k].min \in Watts
  BY DEF HourPlan, TypeOK, HourlyRow
<1>4. seq + 1 \in Nat
  BY DEF TypeOK
<1>5. QED
  BY <1>1, <1>2, <1>3, <1>4 DEF HourlyRowOf, HourlyRow

\* One row at most, by count.
LEMMA OneAtMost ==
  ASSUME NEW S, \A t, u \in S : t = u
  PROVE  Cardinality(S) <= 1
<1>1. CASE S = {}
  <2>1. Cardinality(S) = 0
    BY <1>1, FS_EmptySet
  <2>2. QED
    BY <2>1
<1>2. CASE S # {}
  <2>1. PICK t \in S : S = {t}
    BY <1>2
  <2>2. Cardinality(S) = 1
    BY <2>1, FS_Singleton
  <2>3. QED
    BY <2>2
<1>3. QED
  BY <1>1, <1>2

\* The home's row after a daily commit.
LEMMA HomeType ==
  ASSUME TypeOK, Books, NEW r \in Runner, CommitDay(r)
  PROVE  /\ home' \in SUBSET HomeRow
         /\ \A t, u \in home' : t = u
<1> DEFINE Parts == IF run[r].totalAs = "none" THEN {t.parts : t \in home} ELSE {run[r].total}
<1>0. /\ home' = IF run[r].total = Empty THEN home
                 ELSE {[parts |-> p, clean |-> ~Overlapped(r)] : p \in Parts}
      /\ run[r] \in Run
  BY DEF CommitDay, TypeOK
<1>1. \A p \in Parts : p \in Partial(Device, DayStats)
  BY <1>0 DEF TypeOK, HomeRow, Run, Partial
<1>2. \A p, q \in Parts : p = q
  BY DEF Books
<1> HIDE DEF Parts
<1>3. \A p \in Parts : [parts |-> p, clean |-> ~Overlapped(r)] \in HomeRow
  BY <1>1 DEF HomeRow, Partial
<1>4. QED
  BY <1>0, <1>2, <1>3 DEF TypeOK, Books

\* The tables begin well typed.
LEMMA InitType == Init => TypeOK
<1> SUFFICES ASSUME Init PROVE TypeOK
  OBVIOUS
<1>1. readings \in [Key -> SUBSET Watts]
  BY DataAssumption DEF Init
<1>2. DOMAIN hourly = {} /\ DOMAIN daily = {}
  BY DEF Init, Empty
<1>3. home = {} /\ Cardinality(home) <= 1
  <2>1. home = {} /\ Cardinality(home) = 0
    BY FS_EmptySet DEF Init
  <2>2. QED
    BY <2>1
<1>4. QED
  BY <1>1, <1>2, <1>3, IdleType DEF Init, TypeOK

\* Every step keeps the types.
LEMMA TypeStep ==
  ASSUME TypeOK, Books, Plans, [Next]_vars
  PROVE  TypeOK'
<1>0. \A r \in Runner : run[r] \in Run
  BY DEF TypeOK
<1>1. CASE UNCHANGED vars
  BY <1>1 DEF vars, TypeOK
<1>2. ASSUME NEW k \in Key, NEW w \in Watts, Record(k, w)
      PROVE  TypeOK'
  <2>1. readings' \in [Key -> SUBSET Watts]
    BY <1>2 DEF Record, TypeOK
  <2>2. late' \in Nat
    BY <1>2 DEF Record, TypeOK
  <2>3. QED
    BY <1>2, <2>1, <2>2 DEF Record, TypeOK
<1>3. ASSUME NEW d \in Device, Remove(d)
      PROVE  TypeOK'
  BY <1>3 DEF Remove, TypeOK
<1>4. ASSUME NEW r \in Runner, StartBackfill(r)
      PROVE  TypeOK'
  <2>1. [Idle EXCEPT !.pc = "next", !.todo = AllTargets] \in Run
    BY IdleType, TargetsType DEF Run
  <2>2. QED
    BY <1>4, <2>1 DEF StartBackfill, TypeOK
<1>5. ASSUME NEW r \in Runner, StartOther(r)
      PROVE  TypeOK'
  <2>1. PICK targets \in {AllTargets, <<Day>>} \cup {<<h>> : h \in Hour} :
           run' = [run EXCEPT ![r] = [Idle EXCEPT !.pc = "next", !.todo = targets]]
    BY <1>5 DEF StartOther
  <2>2. targets \in Seq(Hour \cup {Day})
    BY TargetsType
  <2>3. [Idle EXCEPT !.pc = "next", !.todo = targets] \in Run
    BY <2>2, IdleType DEF Run
  <2>4. run' \in [Runner -> Run]
    BY <2>1, <2>3 DEF TypeOK
  <2>5. runs' \in Nat
    BY <1>5 DEF StartOther, TypeOK
  <2>6. QED
    BY <1>5, <2>4, <2>5 DEF StartOther, TypeOK
<1>6. ASSUME NEW r \in Runner, ReadHour(r)
      PROVE  TypeOK'
  <2> DEFINE rows == Writes(Computed(Head(run[r].todo)), StatsOf(hourly))
  <2> DEFINE new == [run[r] EXCEPT !.pc = "commit", !.begun = seq, !.rows = rows,
                                   !.inserts = DOMAIN rows \ DOMAIN hourly]
  <2>1. rows \in Partial(Key, SUBSET Watts)
    BY <1>6, ComputedType, WritesType DEF ReadHour
  <2>2. DOMAIN rows \in SUBSET Key
    BY <2>1, PartialType
  <2>3. run' = [run EXCEPT ![r] = new]
    BY <1>6 DEF ReadHour
  <2> HIDE DEF rows
  <2>4. new \in Run
    <3>1. run[r] \in Run /\ seq \in Nat
      BY DEF TypeOK
    <3>2. DOMAIN rows \ DOMAIN hourly \in SUBSET Key
      BY <2>2
    <3>3. QED
      BY <2>1, <3>1, <3>2 DEF Run
  <2> HIDE DEF new
  <2>5. QED
    BY <1>6, <2>3, <2>4 DEF ReadHour, TypeOK
<1>7. ASSUME NEW r \in Runner, CommitHour(r)
      PROVE  TypeOK'
  <2>1. run[r].todo # <<>> /\ HourPlan(r)
    BY <1>7, DayIsNoHour DEF CommitHour, Plans
  <2> DEFINE new == [k \in DOMAIN run[r].rows |-> HourlyRowOf(r, k)]
  <2>2. hourly' = Upsert(new, hourly)
    BY <1>7 DEF CommitHour
  <2>3. DOMAIN new \subseteq Key /\ \A k \in DOMAIN new : new[k] \in HourlyRow
    BY <2>1, HourlyRowType
  <2> HIDE DEF new
  <2>4. DOMAIN hourly' \in SUBSET Key /\ \A k \in DOMAIN hourly' : hourly'[k] \in HourlyRow
    <3>1. DOMAIN hourly \subseteq Key /\ \A k \in DOMAIN hourly : hourly[k] \in HourlyRow
      BY DEF TypeOK
    <3>2. DOMAIN hourly' = DOMAIN new \cup DOMAIN hourly
      BY <2>2, UpsertType
    <3>3. ASSUME NEW k \in DOMAIN hourly'
          PROVE  hourly'[k] \in HourlyRow
      <4>1. CASE k \in DOMAIN new
        BY <2>2, <2>3, <4>1 DEF Upsert
      <4>2. CASE k \notin DOMAIN new
        BY <2>2, <3>1, <3>2, <4>2 DEF Upsert
      <4>3. QED
        BY <4>1, <4>2
    <3>4. QED
      BY <2>3, <3>1, <3>2, <3>3
  <2>5. run' \in [Runner -> Run]
    BY <1>7, <2>1, ProceedType DEF CommitHour, TypeOK
  <2>6. seq' \in Nat
    BY <1>7 DEF CommitHour, TypeOK
  <2>7. QED
    BY <1>7, <2>4, <2>5, <2>6 DEF CommitHour, TypeOK
<1>8. ASSUME NEW r \in Runner, ReadDay(r)
      PROVE  TypeOK'
  <2> DEFINE days == [d \in Counted |-> DayOf(d)]
  <2> DEFINE rows == Writes(days, daily)
  <2> DEFINE as == IF days = Empty \/ \E t \in home : t.parts = days THEN "none"
                   ELSE IF home = {} THEN "insert" ELSE "update"
  <2> DEFINE new == [run[r] EXCEPT !.pc = "commit", !.begun = seq, !.rows = rows,
                                   !.inserts = DOMAIN rows \ DOMAIN daily,
                                   !.total = days, !.totalAs = as]
  <2>1. days \in Partial(Device, DayStats)
    BY DaysType
  <2>2. run' = [run EXCEPT ![r] = new]
    BY <1>8 DEF ReadDay
  <2> HIDE DEF days
  <2>3. rows \in Partial(Device, DayStats) /\ DOMAIN rows \in SUBSET Device
    BY <2>1, WritesType, PartialType
  <2> HIDE DEF rows
  <2>4. as \in {"none", "insert", "update"}
    OBVIOUS
  <2> HIDE DEF as
  <2>5. new \in Run
    <3>1. run[r] \in Run /\ seq \in Nat
      BY DEF TypeOK
    <3> DEFINE inserts == DOMAIN rows \ DOMAIN daily
    <3>2. inserts \in SUBSET Device
      BY <2>3
    <3> HIDE DEF inserts
    <3>3. QED
      BY <2>1, <2>3, <2>4, <3>1, <3>2 DEF Run, new
  <2> HIDE DEF new
  <2>6. QED
    BY <1>8, <2>2, <2>5 DEF ReadDay, TypeOK
<1>9. ASSUME NEW r \in Runner, CommitDay(r)
      PROVE  TypeOK'
  <2>1. run[r].todo # <<>> /\ DayPlan(r)
    BY <1>9 DEF CommitDay, Plans
  <2>2. daily' = Upsert(run[r].rows, daily)
    BY <1>9 DEF CommitDay
  <2>3. DOMAIN run[r].rows \subseteq Device /\ \A d \in DOMAIN run[r].rows : run[r].rows[d] \in DayStats
    <3>1. run[r].rows \in Partial(Device, DayStats)
      BY <2>1 DEF DayPlan
    <3> DEFINE f == run[r].rows
    <3>2. DOMAIN f \subseteq Device /\ f \in [DOMAIN f -> DayStats]
      BY <3>1, PartialType
    <3>3. QED
      BY <3>2
  <2>4. DOMAIN daily' \in SUBSET Device /\ \A d \in DOMAIN daily' : daily'[d] \in DayStats
    <3>1. DOMAIN daily \subseteq Device /\ \A d \in DOMAIN daily : daily[d] \in DayStats
      BY DEF TypeOK
    <3>2. DOMAIN daily' = DOMAIN run[r].rows \cup DOMAIN daily
      BY <2>2, UpsertType
    <3>3. ASSUME NEW d \in DOMAIN daily'
          PROVE  daily'[d] \in DayStats
      <4>1. CASE d \in DOMAIN run[r].rows
        BY <2>2, <2>3, <4>1 DEF Upsert
      <4>2. CASE d \notin DOMAIN run[r].rows
        BY <2>2, <3>1, <3>2, <4>2 DEF Upsert
      <4>3. QED
        BY <4>1, <4>2
    <3>4. QED
      BY <2>3, <3>1, <3>2, <3>3
  <2>5. run' \in [Runner -> Run]
    BY <1>9, <2>1, ProceedType DEF CommitDay, TypeOK
  <2>6. seq' \in Nat
    BY <1>9 DEF CommitDay, TypeOK
  <2>7. home' \in SUBSET HomeRow /\ Cardinality(home') <= 1
    BY <1>9, HomeType, OneAtMost
  <2>8. QED
    BY <1>9, <2>4, <2>5, <2>6, <2>7 DEF CommitDay, TypeOK
<1>10. ASSUME NEW r \in Runner, Fail(r) \/ Finish(r)
       PROVE  TypeOK'
  BY <1>10, IdleType DEF Fail, Finish, TypeOK
<1>11. ASSUME NEW r \in Runner, Crash(r)
       PROVE  TypeOK'
  <2>1. run' \in [Runner -> Run]
    BY <1>11, IdleType DEF Crash, TypeOK
  <2>2. crashes' \in Nat
    BY <1>11 DEF Crash, TypeOK
  <2>3. QED
    BY <1>11, <2>1, <2>2 DEF Crash, TypeOK
<1>12. QED
  BY <1>1, <1>2, <1>3, <1>4, <1>5, <1>6, <1>7, <1>8, <1>9, <1>10, <1>11 DEF Next

-----------------------------------------------------------------------------
(* What a step does to the tables *)

\* Readings and hourly rows stay, a row that changed bears the number of the commit, and
\* a commit that has no number changed nothing but the mark of the home's row.
TablesGrow ==
    /\ \A k \in Key : readings[k] \subseteq readings'[k]
    /\ DOMAIN hourly \subseteq DOMAIN hourly'
    /\ \A k \in DOMAIN hourly' :
        (k \in DOMAIN hourly /\ hourly'[k] = hourly[k]) \/ hourly'[k].at = seq + 1
    /\ seq' = seq \/ seq' = seq + 1
    /\ seq' = seq =>
        /\ DOMAIN hourly' = DOMAIN hourly
        /\ DOMAIN daily' = DOMAIN daily
        /\ \A d \in DOMAIN daily : daily'[d] = daily[d]
        /\ \A t \in home : \E u \in home' : u.parts = t.parts
        /\ \A u \in home' : \E t \in home : u.parts = t.parts

\* A row of an hourly commit.
LEMMA CommitHourRows ==
  ASSUME TypeOK, Plans, NEW r \in Runner, CommitHour(r)
  PROVE  /\ HourPlan(r)
         /\ DOMAIN hourly' = DOMAIN run[r].rows \cup DOMAIN hourly
         /\ \A k \in DOMAIN run[r].rows :
                hourly'[k].stats = run[r].rows[k] /\ hourly'[k].at = seq + 1
         /\ \A k \in DOMAIN hourly : k \notin DOMAIN run[r].rows => hourly'[k] = hourly[k]
         /\ seq' = IF run[r].rows = Empty THEN seq ELSE seq + 1
<1>1. HourPlan(r)
  BY DayIsNoHour DEF CommitHour, Plans
<1> DEFINE new == [k \in DOMAIN run[r].rows |-> HourlyRowOf(r, k)]
<1>2. hourly' = Upsert(new, hourly)
  BY DEF CommitHour
<1>3. \A k \in DOMAIN run[r].rows :
         /\ k \in DOMAIN new
         /\ new[k].stats = run[r].rows[k] /\ new[k].at = seq + 1
  BY DEF HourlyRowOf
<1>4. DOMAIN new = DOMAIN run[r].rows
  OBVIOUS
<1> HIDE DEF new
<1>5. seq' = IF run[r].rows = Empty THEN seq ELSE seq + 1
  BY <1>1 DEF CommitHour, Wrote, HourPlan
<1>6. QED
  BY <1>1, <1>2, <1>3, <1>4, <1>5 DEF Upsert

\* The rows of a daily commit, and the home's.
LEMMA CommitDayRows ==
  ASSUME TypeOK, Plans, NEW r \in Runner, CommitDay(r)
  PROVE  /\ DayPlan(r) /\ run[r].todo # <<>> /\ run[r].begun <= seq
         /\ DOMAIN daily' = DOMAIN run[r].rows \cup DOMAIN daily
         /\ \A d \in DOMAIN run[r].rows : daily'[d] = run[r].rows[d]
         /\ \A d \in DOMAIN daily : d \notin DOMAIN run[r].rows => daily'[d] = daily[d]
         /\ seq' = IF Wrote(r) THEN seq + 1 ELSE seq
         /\ hourly' = hourly /\ readings' = readings
<1>1. DayPlan(r) /\ run[r].todo # <<>> /\ run[r].begun <= seq
  BY DEF CommitDay, Plans
<1>2. daily' = Upsert(run[r].rows, daily)
  BY DEF CommitDay
<1>3. /\ seq' = IF Wrote(r) THEN seq + 1 ELSE seq
      /\ hourly' = hourly /\ readings' = readings
  BY DEF CommitDay
<1>4. QED
  BY <1>1, <1>2, <1>3 DEF Upsert

\* Every step lets the tables grow and numbers what it changes.
LEMMA TablesStep ==
  ASSUME TypeOK, Plans, [Next]_vars
  PROVE  TablesGrow
<1>1. ASSUME readings' = readings \/ (\A k \in Key : readings[k] \subseteq readings'[k]),
             hourly' = hourly, daily' = daily, home' = home, seq' = seq
      PROVE  TablesGrow
  BY <1>1 DEF TablesGrow
<1>2. ASSUME NEW r \in Runner, CommitHour(r)
      PROVE  TablesGrow
  <2>1. readings' = readings /\ daily' = daily /\ home' = home
    BY <1>2 DEF CommitHour
  <2>2. DOMAIN Empty = {}
    BY DEF Empty
  <2>3. \A k \in DOMAIN hourly' :
          (k \in DOMAIN hourly /\ hourly'[k] = hourly[k]) \/ hourly'[k].at = seq + 1
    BY <1>2, CommitHourRows
  <2>4. seq \in Nat
    BY DEF TypeOK
  <2>5. ASSUME seq' = seq
        PROVE  DOMAIN hourly' = DOMAIN hourly
    <3>1. run[r].rows = Empty
      <4>1. seq' = IF run[r].rows = Empty THEN seq ELSE seq + 1
        BY <1>2, CommitHourRows
      <4>2. QED
        BY <2>4, <2>5, <4>1
    <3>2. QED
      BY <1>2, <2>2, <3>1, CommitHourRows
  <2>6. DOMAIN hourly \subseteq DOMAIN hourly' /\ (seq' = seq \/ seq' = seq + 1)
    BY <1>2, CommitHourRows
  <2>7. QED
    BY <2>1, <2>3, <2>5, <2>6 DEF TablesGrow
<1>3. ASSUME NEW r \in Runner, CommitDay(r)
      PROVE  TablesGrow
  <2>1. DOMAIN Empty = {}
    BY DEF Empty
  <2>2. seq \in Nat
    BY DEF TypeOK
  <2>3. ASSUME seq' = seq
        PROVE  /\ DOMAIN daily' = DOMAIN daily
               /\ \A d \in DOMAIN daily : daily'[d] = daily[d]
               /\ \A t \in home : \E u \in home' : u.parts = t.parts
               /\ \A u \in home' : \E t \in home : u.parts = t.parts
    <3>1. run[r].rows = Empty /\ run[r].totalAs = "none"
      <4>1. seq' = IF Wrote(r) THEN seq + 1 ELSE seq
        BY <1>3, CommitDayRows
      <4>2. ~Wrote(r)
        BY <2>2, <2>3, <4>1
      <4>3. QED
        BY <4>2 DEF Wrote
    <3>2. \/ home' = home
          \/ home' = {[parts |-> p, clean |-> ~Overlapped(r)] : p \in {t.parts : t \in home}}
      BY <1>3, <3>1 DEF CommitDay
    <3>3. /\ \A t \in home : \E u \in home' : u.parts = t.parts
          /\ \A u \in home' : \E t \in home : u.parts = t.parts
      <4>1. CASE home' = home
        BY <4>1
      <4>2. CASE home' = {[parts |-> p, clean |-> ~Overlapped(r)] : p \in {t.parts : t \in home}}
        <5> DEFINE mark(p) == [parts |-> p, clean |-> ~Overlapped(r)]
        <5>1. \A p : mark(p).parts = p
          OBVIOUS
        <5>2. home' = {mark(p) : p \in {t.parts : t \in home}}
          BY <4>2
        <5> HIDE DEF mark
        <5>3. QED
          BY <5>1, <5>2
      <4>3. QED
        BY <3>2, <4>1, <4>2
    <3>4. QED
      BY <1>3, <2>1, <3>1, <3>3, CommitDayRows
  <2>4. seq' = seq \/ seq' = seq + 1
    BY <1>3, CommitDayRows
  <2>5. QED
    BY <1>3, <2>3, <2>4, CommitDayRows DEF TablesGrow
<1>4. ASSUME NEW k \in Key, NEW w \in Watts, Record(k, w)
      PROVE  TablesGrow
  BY <1>1, <1>4 DEF Record, TypeOK
<1>5. ASSUME NEW d \in Device, Remove(d)
      PROVE  TablesGrow
  BY <1>1, <1>5 DEF Remove
<1>6. ASSUME NEW r \in Runner,
             \/ StartBackfill(r) \/ StartOther(r) \/ ReadHour(r) \/ ReadDay(r)
             \/ Fail(r) \/ Finish(r) \/ Crash(r)
      PROVE  TablesGrow
  BY <1>1, <1>6 DEF StartBackfill, StartOther, ReadHour, ReadDay, Fail, Finish, Crash
<1>7. CASE UNCHANGED vars
  BY <1>1, <1>7 DEF vars
<1>8. QED
  BY <1>2, <1>3, <1>4, <1>5, <1>6, <1>7 DEF Next

-----------------------------------------------------------------------------
(* The parts of the invariant *)

\* The home keeps one row at most, and hourly rows hold readings and are as old as a commit.
LEMMA BooksStep ==
  ASSUME TypeOK, Books, Plans, [Next]_vars
  PROVE  Books'
<1>0. /\ seq \in Nat /\ DOMAIN hourly \subseteq Key
      /\ \A k \in DOMAIN hourly : hourly[k].at \in Nat
  BY DEF TypeOK, HourlyRow
<1>1. ASSUME NEW k \in DOMAIN hourly'
      PROVE  hourly'[k].stats \subseteq readings'[k] /\ hourly'[k].at <= seq'
  <2>1. CASE k \in DOMAIN hourly /\ hourly'[k] = hourly[k]
    <3>1. hourly[k].stats \subseteq readings[k] /\ hourly[k].at <= seq
      BY <2>1 DEF Books
    <3>2. readings[k] \subseteq readings'[k] /\ seq' \in {seq, seq + 1}
      BY <1>0, <2>1, TablesStep DEF TablesGrow
    <3>3. QED
      BY <1>0, <2>1, <3>1, <3>2
  <2>2. ASSUME NEW r \in Runner, CommitHour(r), k \in DOMAIN run[r].rows
        PROVE  hourly'[k].stats \subseteq readings'[k] /\ hourly'[k].at <= seq'
    <3>1. hourly'[k].stats = run[r].rows[k] /\ hourly'[k].at = seq + 1
      BY <2>2, CommitHourRows
    <3>2. run[r].rows[k] \subseteq readings[k]
      BY <2>2, CommitHourRows DEF HourPlan
    <3>3. readings' = readings
      BY <2>2 DEF CommitHour
    <3>4. seq' = seq + 1
      <4>1. run[r].rows # Empty
        BY <2>2 DEF Empty
      <4>2. QED
        BY <2>2, <4>1, CommitHourRows
    <3>5. QED
      BY <1>0, <3>1, <3>2, <3>3, <3>4
  <2>3. ASSUME \A r \in Runner : ~CommitHour(r)
        PROVE  hourly' = hourly
    BY <2>3 DEF Next, vars, Record, Remove, StartBackfill, StartOther, ReadHour, ReadDay,
                CommitDay, Fail, Finish, Crash
  <2>4. QED
    BY <2>1, <2>2, <2>3, CommitHourRows
<1>2. \A t, u \in home' : t = u
  <2>1. ASSUME NEW r \in Runner, CommitDay(r)
        PROVE  \A t, u \in home' : t = u
    BY <2>1, HomeType
  <2>2. ASSUME \A r \in Runner : ~CommitDay(r)
        PROVE  home' = home
    BY <2>2 DEF Next, vars, Record, Remove, StartBackfill, StartOther, ReadHour, ReadDay,
                CommitHour, Fail, Finish, Crash
  <2>3. QED
    BY <2>1, <2>2 DEF Books
<1>3. QED
  BY <1>1, <1>2 DEF Books

\* A plan made earlier stays one.
LEMMA PlanKept ==
  ASSUME TypeOK, Plans, TablesGrow, NEW q \in Runner, run'[q] = run[q], run[q].pc = "commit"
  PROVE  /\ run'[q].begun <= seq'
         /\ IF Head(run'[q].todo) = Day THEN DayPlan(q)' ELSE HourPlan(q)'
<1>0. /\ seq \in Nat /\ run[q].begun \in Nat /\ run[q].begun <= seq
      /\ seq' = seq \/ seq' = seq + 1
  BY DEF TypeOK, Run, Plans, TablesGrow
<1>1. run'[q].begun <= seq'
  BY <1>0
<1>2. ASSUME HourPlan(q)
      PROVE  HourPlan(q)'
  <2>1. ASSUME NEW k \in DOMAIN run[q].rows
        PROVE  /\ run[q].rows[k] # {} /\ run[q].rows[k] \subseteq readings'[k]
               /\ k \in run[q].inserts \/ k \in DOMAIN hourly'
               /\ k \in DOMAIN hourly' /\ hourly'[k].at <= run[q].begun =>
                      hourly'[k].stats \subseteq run[q].rows[k]
    <3>1. k \in Key
      BY <1>2, PartialType DEF HourPlan
    <3>2. run[q].rows[k] # {} /\ run[q].rows[k] \subseteq readings'[k]
      BY <1>2, <3>1 DEF HourPlan, TablesGrow
    <3>3. k \in run[q].inserts \/ k \in DOMAIN hourly'
      BY <1>2 DEF HourPlan, TablesGrow
    <3>4. ASSUME k \in DOMAIN hourly', hourly'[k].at <= run[q].begun
          PROVE  hourly'[k].stats \subseteq run[q].rows[k]
      <4>1. k \in DOMAIN hourly /\ hourly'[k] = hourly[k]
        BY <1>0, <3>4 DEF TablesGrow
      <4>2. QED
        BY <1>2, <3>4, <4>1 DEF HourPlan
    <3>5. QED
      BY <3>2, <3>3, <3>4
  <2>2. ASSUME run[q].begun = seq'
        PROVE  run[q].inserts \cap DOMAIN hourly' = {}
    <3>1. seq' = seq
      BY <1>0, <2>2
    <3>2. QED
      BY <1>2, <2>2, <3>1 DEF HourPlan, TablesGrow
  <2>3. QED
    BY <1>2, <2>1, <2>2 DEF HourPlan
<1>3. ASSUME DayPlan(q)
      PROVE  DayPlan(q)'
  <2>1. ASSUME run[q].begun = seq'
        PROVE  /\ run[q].inserts \cap DOMAIN daily' = {}
               /\ run[q].rows = Writes(run[q].total, daily')
               /\ run[q].totalAs = "insert" => home' = {}
               /\ run[q].totalAs = "none" =>
                       run[q].total = Empty \/ \E t \in home' : t.parts = run[q].total
    <3>1. seq' = seq
      BY <1>0, <2>1
    <3>2. /\ DOMAIN daily' = DOMAIN daily
          /\ \A d \in DOMAIN daily : daily'[d] = daily[d]
          /\ \A t \in home : \E u \in home' : u.parts = t.parts
          /\ \A u \in home' : \E t \in home : u.parts = t.parts
      BY <3>1 DEF TablesGrow
    <3>3. Writes(run[q].total, daily') = Writes(run[q].total, daily)
      BY <3>2 DEF Writes
    <3>4. /\ run[q].inserts \cap DOMAIN daily = {}
          /\ run[q].rows = Writes(run[q].total, daily)
          /\ run[q].totalAs = "insert" => home = {}
          /\ run[q].totalAs = "none" =>
                  run[q].total = Empty \/ \E t \in home : t.parts = run[q].total
      BY <1>3, <2>1, <3>1 DEF DayPlan
    <3>5. QED
      BY <3>2, <3>3, <3>4
  <2>2. QED
    BY <1>3, <2>1 DEF DayPlan
<1>4. QED
  BY <1>1, <1>2, <1>3 DEF Plans

\* The plan of a run that has just read an hour.
LEMMA HourPlanned ==
  ASSUME TypeOK, Books, Plans, NEW r \in Runner, ReadHour(r)
  PROVE  /\ run'[r].todo # <<>> /\ run'[r].begun <= seq'
         /\ Head(run'[r].todo) # Day /\ HourPlan(r)'
<1> DEFINE h == Head(run[r].todo)
<1> DEFINE rows == Writes(Computed(h), StatsOf(hourly))
<1> DEFINE new == [run[r] EXCEPT !.pc = "commit", !.begun = seq, !.rows = rows,
                                 !.inserts = DOMAIN rows \ DOMAIN hourly]
<1>1. /\ run' = [run EXCEPT ![r] = new]
      /\ h \in Hour /\ run[r].todo # <<>>
      /\ seq' = seq /\ hourly' = hourly /\ readings' = readings
  BY DEF ReadHour
<1>2. run[r] \in Run /\ seq \in Nat /\ run \in [Runner -> Run]
  BY DEF TypeOK
<1> HIDE DEF rows, h
<1>3. run'[r] = new
  BY <1>1, <1>2
<1>4. /\ run'[r].rows = rows /\ run'[r].inserts = DOMAIN rows \ DOMAIN hourly
      /\ run'[r].begun = seq /\ run'[r].todo = run[r].todo
      /\ run'[r].totalAs = run[r].totalAs
  BY <1>2, <1>3 DEF Run
<1>5. run[r].totalAs = "none"
  BY DEF Plans, ReadHour
<1>6. /\ rows \in Partial(Key, SUBSET Watts)
      /\ \A k \in DOMAIN rows : rows[k] = readings[k] /\ rows[k] # {}
  <2> DEFINE computed == Computed(h)
  <2>1. /\ computed \in Partial(Key, SUBSET Watts)
        /\ \A k \in DOMAIN computed : computed[k] = readings[k] /\ readings[k] # {}
    BY <1>1, ComputedType
  <2>2. rows = Writes(computed, StatsOf(hourly))
    BY DEF rows
  <2> HIDE DEF computed
  <2>3. /\ rows \in Partial(Key, SUBSET Watts)
        /\ DOMAIN rows \subseteq DOMAIN computed
        /\ \A k \in DOMAIN rows : rows[k] = computed[k]
    BY <2>1, <2>2, WritesType
  <2>4. QED
    BY <2>1, <2>3
<1>7. \A k \in DOMAIN hourly : hourly[k].stats \subseteq readings[k]
  BY DEF Books
<1>8. HourPlan(r)'
  <2>1. ASSUME NEW k \in DOMAIN rows
        PROVE  /\ rows[k] # {} /\ rows[k] \subseteq readings'[k]
               /\ k \in run'[r].inserts \/ k \in DOMAIN hourly'
               /\ k \in DOMAIN hourly' => hourly'[k].stats \subseteq rows[k]
    BY <1>1, <1>4, <1>6, <1>7
  <2>2. run'[r].inserts \subseteq DOMAIN rows /\ run'[r].inserts \cap DOMAIN hourly' = {}
    BY <1>1, <1>4
  <2>3. QED
    BY <1>4, <1>5, <1>6, <2>1, <2>2 DEF HourPlan
<1>9. QED
  BY <1>1, <1>2, <1>4, <1>8, DayIsNoHour DEF h

\* The plan of a run that has just read the day.
LEMMA DayPlanned ==
  ASSUME TypeOK, NEW r \in Runner, ReadDay(r)
  PROVE  /\ run'[r].todo # <<>> /\ run'[r].begun <= seq'
         /\ Head(run'[r].todo) = Day /\ DayPlan(r)'
<1> DEFINE days == [d \in Counted |-> DayOf(d)]
<1> DEFINE rows == Writes(days, daily)
<1> DEFINE as == IF days = Empty \/ \E t \in home : t.parts = days THEN "none"
                 ELSE IF home = {} THEN "insert" ELSE "update"
<1> DEFINE new == [run[r] EXCEPT !.pc = "commit", !.begun = seq, !.rows = rows,
                                 !.inserts = DOMAIN rows \ DOMAIN daily,
                                 !.total = days, !.totalAs = as]
<1>1. /\ run' = [run EXCEPT ![r] = new]
      /\ run[r].todo # <<>> /\ Head(run[r].todo) = Day
      /\ seq' = seq /\ daily' = daily /\ home' = home
  BY DEF ReadDay
<1>2. run[r] \in Run /\ seq \in Nat /\ run \in [Runner -> Run]
  BY DEF TypeOK
<1>3. days \in Partial(Device, DayStats)
  BY DaysType
<1>4. /\ as = "insert" => home = {}
      /\ as = "none" => days = Empty \/ \E t \in home : t.parts = days
  OBVIOUS
<1> HIDE DEF days, as
<1>5. rows \in Partial(Device, DayStats) /\ DOMAIN rows \subseteq DOMAIN days
  BY <1>3, WritesType
<1>6. rows = Writes(days, daily)
  OBVIOUS
<1> HIDE DEF rows
<1>7. run'[r] = new
  BY <1>1, <1>2
<1>8. /\ run'[r].rows = rows /\ run'[r].inserts = DOMAIN rows \ DOMAIN daily
      /\ run'[r].begun = seq /\ run'[r].todo = run[r].todo
      /\ run'[r].total = days /\ run'[r].totalAs = as
  BY <1>2, <1>7 DEF Run
<1>9. DayPlan(r)'
  <2>1. run'[r].inserts \cap DOMAIN daily' = {}
    BY <1>1, <1>8
  <2>2. QED
    BY <1>1, <1>4, <1>5, <1>6, <1>8, <2>1 DEF DayPlan
<1>10. QED
  BY <1>1, <1>2, <1>8, <1>9

\* The run of q after a step of another, or after one of its own.
LEMMA RunStep ==
  ASSUME TypeOK, Plans, [Next]_vars, NEW q \in Runner
  PROVE  \/ run'[q] = run[q]
         \/ ReadHour(q) \/ ReadDay(q)
         \/ run'[q].pc = "next" /\ run'[q].totalAs = "none"
         \/ run'[q].pc = "idle"
<1>0. run \in [Runner -> Run]
  BY DEF TypeOK
<1>1. ASSUME NEW r \in Runner, StartBackfill(r) \/ StartOther(r)
      PROVE  run'[q] = run[q] \/ (run'[q].pc = "next" /\ run'[q].totalAs = "none")
  BY <1>0, <1>1 DEF StartBackfill, StartOther, Idle
<1>2. ASSUME NEW r \in Runner, ReadHour(r) \/ ReadDay(r), r # q
      PROVE  run'[q] = run[q]
  BY <1>0, <1>2 DEF ReadHour, ReadDay
<1>3. ASSUME NEW r \in Runner, CommitHour(r) \/ CommitDay(r)
      PROVE  run'[q] = run[q] \/ (run'[q].pc = "next" /\ run'[q].totalAs = "none")
  BY <1>0, <1>3 DEF CommitHour, CommitDay, Proceed, Idle
<1>4. ASSUME NEW r \in Runner, Fail(r) \/ Finish(r) \/ Crash(r)
      PROVE  run'[q] = run[q] \/ run'[q].pc = "idle"
  BY <1>0, <1>4 DEF Fail, Finish, Crash, Idle
<1>5. ASSUME NEW k \in Key, NEW w \in Watts, Record(k, w)
      PROVE  run'[q] = run[q]
  BY <1>5 DEF Record
<1>6. ASSUME NEW d \in Device, Remove(d)
      PROVE  run'[q] = run[q]
  BY <1>6 DEF Remove
<1>7. CASE UNCHANGED vars
  BY <1>7 DEF vars
<1>8. QED
  BY <1>1, <1>2, <1>3, <1>4, <1>5, <1>6, <1>7 DEF Next

\* What a run is about to commit stays true of what it read, whatever the others commit.
LEMMA PlansStep ==
  ASSUME TypeOK, Books, Plans, [Next]_vars
  PROVE  Plans'
<1> SUFFICES ASSUME NEW q \in Runner
             PROVE  /\ run'[q].pc = "next" => run'[q].totalAs = "none"
                    /\ run'[q].pc = "commit" =>
                        /\ run'[q].todo # <<>> /\ run'[q].begun <= seq'
                        /\ IF Head(run'[q].todo) = Day THEN DayPlan(q)' ELSE HourPlan(q)'
  BY DEF Plans
<1>1. CASE run'[q] = run[q]
  BY <1>1, TablesStep, PlanKept DEF Plans
<1>2. CASE ReadHour(q)
  <2>1. run'[q].pc = "commit"
    BY <1>2 DEF ReadHour, TypeOK, Run
  <2>2. QED
    BY <1>2, <2>1, HourPlanned
<1>3. CASE ReadDay(q)
  <2>1. run'[q].pc = "commit"
    BY <1>3 DEF ReadDay, TypeOK, Run
  <2>2. QED
    BY <1>3, <2>1, DayPlanned
<1>4. QED
  BY <1>1, <1>2, <1>3, RunStep

\* Only the commit of a day touches its rows and the home's total, and it keeps them equal.
LEMMA SumStep ==
  ASSUME TypeOK, Books, Plans, HomeTotalIsSum, [Next]_vars
  PROVE  HomeTotalIsSum'
<1>1. ASSUME NEW r \in Runner, CommitDay(r)
      PROVE  HomeTotalIsSum'
  <2> SUFFICES ASSUME NEW t \in home', t.clean, NEW d \in DOMAIN t.parts
               PROVE  d \in DOMAIN daily' /\ daily'[d] = t.parts[d]
    BY DEF HomeTotalIsSum
  <2>0. run[r].begun \in Nat /\ seq \in Nat /\ run[r].begun <= seq /\ DOMAIN Empty = {}
    BY <1>1, CommitDayRows DEF TypeOK, Run, Empty
  <2>1. CASE run[r].total = Empty
    <3>1. home' = home
      BY <1>1, <2>1 DEF CommitDay
    <3>2. DOMAIN run[r].rows = {}
      BY <1>1, <2>0, <2>1, CommitDayRows DEF DayPlan
    <3>3. d \in DOMAIN daily /\ t.parts[d] = daily[d]
      BY <3>1 DEF HomeTotalIsSum
    <3>4. QED
      BY <1>1, <3>2, <3>3, CommitDayRows
  <2>2. CASE run[r].total # Empty
    <3> DEFINE Parts == IF run[r].totalAs = "none" THEN {u.parts : u \in home} ELSE {run[r].total}
    <3>1. PICK p \in Parts : t = [parts |-> p, clean |-> ~Overlapped(r)]
      BY <1>1, <2>2 DEF CommitDay
    <3>2. t.parts = p /\ run[r].begun = seq
      <4>1. t.parts = p /\ ~Overlapped(r)
        BY <3>1
      <4>2. QED
        BY <2>0, <4>1 DEF Overlapped
    <3>3. /\ run[r].rows = Writes(run[r].total, daily)
          /\ run[r].totalAs = "none" => \E u \in home : u.parts = run[r].total
      BY <1>1, <2>2, <3>2, CommitDayRows DEF DayPlan
    <3>4. p = run[r].total
      BY <3>1, <3>3 DEF Books
    <3>5. run[r].total \in Partial(Device, DayStats)
      BY DEF TypeOK, Run
    <3>6. CASE d \in DOMAIN run[r].rows
      <4>1. run[r].rows[d] = run[r].total[d]
        BY <3>3, <3>5, <3>6, WritesType
      <4>2. d \in DOMAIN daily' /\ daily'[d] = run[r].rows[d]
        BY <1>1, <3>6, CommitDayRows
      <4>3. QED
        BY <3>2, <3>4, <4>1, <4>2
    <3>7. CASE d \notin DOMAIN run[r].rows
      <4>1. d \in DOMAIN daily /\ daily[d] = run[r].total[d]
        BY <3>2, <3>3, <3>4, <3>5, <3>7, WritesType
      <4>2. QED
        BY <1>1, <3>2, <3>4, <3>7, <4>1, CommitDayRows
    <3>8. QED
      BY <3>6, <3>7
  <2>3. QED
    BY <2>1, <2>2
<1>2. ASSUME \A r \in Runner : ~CommitDay(r)
      PROVE  HomeTotalIsSum'
  <2>1. home' = home /\ daily' = daily
    BY <1>2 DEF Next, vars, Record, Remove, StartBackfill, StartOther, ReadHour, ReadDay,
                CommitHour, Fail, Finish, Crash
  <2>2. QED
    BY <2>1 DEF HomeTotalIsSum
<1>3. QED
  BY <1>1, <1>2

-----------------------------------------------------------------------------
(* The theorems *)

\* The invariant holds of the tables at the start.
LEMMA InitInv == Init => IInv
<1> SUFFICES ASSUME Init PROVE IInv
  OBVIOUS
<1>1. TypeOK
  BY InitType
<1>2. home = {} /\ DOMAIN hourly = {}
  BY DEF Init, Empty
<1>3. \A r \in Runner : run[r].pc = "idle"
  BY DEF Init, Idle
<1>4. QED
  BY <1>1, <1>2, <1>3 DEF IInv, Books, Plans, HomeTotalIsSum

\* The invariant is inductive.
LEMMA StepInv == IInv /\ [Next]_vars => IInv'
BY TypeStep, BooksStep, PlansStep, SumStep DEF IInv

\* The invariant holds in every reachable state.
THEOREM Invariance == Spec => []IInv
<1>1. Init => IInv
  BY InitInv
<1>2. IInv /\ [Next]_vars => IInv'
  BY StepInv
<1>3. QED
  BY <1>1, <1>2, PTL DEF Spec

\* Types (Aggregation.TypeOK).
THEOREM TypeCorrect == Spec => []TypeOK
<1>1. IInv => TypeOK
  BY DEF IInv
<1>2. QED
  BY <1>1, Invariance, PTL

\* The home's total is the sum of its devices' daily rows, but for what a daily aggregation
\* that overlapped another writer left.
THEOREM HomeTotalIsTheSum == Spec => []HomeTotalIsSum
<1>1. IInv => HomeTotalIsSum
  BY DEF IInv
<1>2. QED
  BY <1>1, Invariance, PTL

\* An hourly row stays, and loses readings to a commit whose snapshot is older than the row.
LEMMA LossNeedsOverlap ==
  ASSUME IInv, [Next]_vars, NEW k \in DOMAIN hourly
  PROVE  /\ k \in DOMAIN hourly'
         /\ ~(hourly[k].stats \subseteq hourly'[k].stats) =>
                \E r \in Runner : run[r].pc = "commit" /\ run'[r].pc = "next"
                                  /\ run[r].begun < hourly[k].at
<1>1. ASSUME NEW r \in Runner, CommitHour(r)
      PROVE  /\ k \in DOMAIN hourly'
             /\ ~(hourly[k].stats \subseteq hourly'[k].stats) =>
                    run[r].pc = "commit" /\ run'[r].pc = "next" /\ run[r].begun < hourly[k].at
  <2>1. TypeOK /\ Plans /\ HourPlan(r) /\ run[r].pc = "commit" /\ run[r].todo # <<>>
    BY <1>1, CommitHourRows DEF IInv, Plans, CommitHour
  <2>2. run'[r].pc = "next"
    BY <1>1, <2>1, ProceedType DEF CommitHour, TypeOK
  <2>3. run[r].begun \in Nat /\ hourly[k].at \in Nat
    BY <2>1 DEF TypeOK, Run, HourlyRow
  <2>4. ASSUME ~(hourly[k].stats \subseteq hourly'[k].stats)
        PROVE  run[r].begun < hourly[k].at
    <3>1. k \in DOMAIN run[r].rows /\ hourly'[k].stats = run[r].rows[k]
      BY <1>1, <2>1, <2>4, CommitHourRows
    <3>2. ~(hourly[k].at <= run[r].begun)
      BY <2>1, <2>4, <3>1 DEF HourPlan
    <3>3. QED
      BY <2>3, <3>2
  <2>5. k \in DOMAIN hourly'
    BY <1>1, <2>1, CommitHourRows
  <2>6. QED
    BY <2>1, <2>2, <2>4, <2>5
<1>2. ASSUME \A r \in Runner : ~CommitHour(r)
      PROVE  hourly' = hourly
  BY <1>2 DEF Next, vars, Record, Remove, StartBackfill, StartOther, ReadHour, ReadDay,
              CommitDay, Fail, Finish, Crash
<1>3. QED
  BY <1>1, <1>2

\* A call fails on a unique key when another run wrote after its snapshot.
LEMMA FailureNeedsOverlap ==
  ASSUME IInv, [Next]_vars, NEW r \in Runner,
         run[r].pc = "commit", run'[r].pc = "idle", crashes' = crashes
  PROVE  Overlapped(r)
<1>0. /\ TypeOK /\ Plans
      /\ run \in [Runner -> Run]
      /\ run[r].begun \in Nat /\ seq \in Nat /\ crashes \in Nat /\ run[r].begun <= seq
  BY DEF IInv, TypeOK, Run, Plans
<1>1. CASE Fail(r)
  <2>1. SUFFICES ASSUME run[r].begun = seq
                 PROVE  FALSE
    BY <1>0 DEF Overlapped
  <2>2. CASE Head(run[r].todo) = Day
    <3>1. DayPlan(r)
      BY <1>0, <2>2 DEF Plans
    <3>2. QED
      BY <1>1, <2>1, <2>2, <3>1 DEF DayPlan, Fail, Conflict
  <2>3. CASE Head(run[r].todo) # Day
    <3>1. HourPlan(r)
      BY <1>0, <2>3 DEF Plans
    <3>2. QED
      BY <1>1, <2>1, <2>3, <3>1 DEF HourPlan, Fail, Conflict
  <2>4. QED
    BY <2>2, <2>3
<1>2. ASSUME NEW q \in Runner, q # r, Fail(q) \/ Finish(q)
      PROVE  FALSE
  BY <1>0, <1>2 DEF Fail, Finish
<1>3. ~Finish(r)
  BY DEF Finish
<1>4. \A q \in Runner : ~Crash(q)
  BY <1>0 DEF Crash
<1>5. ASSUME \A q \in Runner : ~Fail(q) /\ ~Finish(q) /\ ~Crash(q)
      PROVE  run'[r].pc # "idle"
  <2>1. ASSUME NEW q \in Runner, StartBackfill(q) \/ StartOther(q) \/ ReadHour(q) \/ ReadDay(q)
        PROVE  run'[r].pc # "idle"
    BY <1>0, <2>1 DEF StartBackfill, StartOther, ReadHour, ReadDay, Idle, Run
  <2>2. ASSUME NEW q \in Runner, CommitHour(q) \/ CommitDay(q)
        PROVE  run'[r].pc # "idle"
    BY <1>0, <2>2 DEF CommitHour, CommitDay, Proceed, Idle
  <2>3. CASE run' = run
    BY <2>3
  <2>4. QED
    BY <1>5, <2>1, <2>2, <2>3 DEF Next, vars, Record, Remove
<1>6. QED
  BY <1>1, <1>2, <1>3, <1>4, <1>5

\* Runs that follow each other only add what arrived late.
THEOREM HarmOnlyFromOverlap == Spec => HarmNeedsOverlap
<1> DEFINE A ==
      /\ \A k \in DOMAIN hourly :
            k \in DOMAIN hourly' /\
            (~(hourly[k].stats \subseteq hourly'[k].stats) =>
                \E r \in Runner : run[r].pc = "commit" /\ run'[r].pc = "next"
                                  /\ run[r].begun < hourly[k].at)
      /\ \A r \in Runner :
            run[r].pc = "commit" /\ run'[r].pc = "idle" /\ crashes' = crashes
                => Overlapped(r)
<1>1. IInv /\ [Next]_vars => [A]_vars
  BY LossNeedsOverlap, FailureNeedsOverlap
<1>2. Spec => [][A]_vars
  BY <1>1, Invariance, PTL DEF Spec
<1>3. QED
  BY <1>2 DEF HarmNeedsOverlap

=============================================================================
