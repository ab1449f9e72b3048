--------------------------- MODULE StandingProofs ---------------------------
(***************************************************************************)
(* Proofs about Rankings and Personas for every number of users, homes and *)
(* sessions, every cohort, and every threshold of the cohorts and days.    *)
(*                                                                         *)
(* The properties compare the tables after a commit with what the session  *)
(* read long before.  What a session computed while nobody looked          *)
(* (Sessions, Cohorts) stays true of the session itself, whatever happens  *)
(* to the tables; the hypothesis that nobody overlapped it carries it over *)
(* to them.                                                                *)
(***************************************************************************)
EXTENDS Personas, FiniteSetTheorems, SequenceTheorems, WellFoundedInduction, TLAPS

\* A session of the rankings holds its homes in the order of their use, each once; homes
\* keep their totals, and rows are never deleted.
Sorted(s) ==
    /\ s.order \in SetToSeqs(DOMAIN s.kwh)
    /\ \A i \in DOMAIN s.order : \A j \in 1..(i - 1) : s.kwh[s.order[j]] <= s.kwh[s.order[i]]

Sessions ==
    \A r \in Ranker : ranking[r].at = "read" =>
        /\ Sorted(ranking[r])
        /\ DOMAIN ranking[r].kwh \subseteq DOMAIN total
        /\ DOMAIN ranking[r].loaded \subseteq DOMAIN board

\* A session of the classifier leaves nobody in between, and a small cohort has a last one.
Cohorts ==
    \A c \in Classifier : classifying[c].at = "read" =>
        /\ \A u \in User : classifying[c].target[u] = "Disengaged" <=> u \notin classifying[c].cohort
        /\ Cardinality(classifying[c].cohort) \in 1..(MinCohort - 1) =>
               \E u \in classifying[c].cohort : classifying[c].target[u] = "High Consumer"

IInv == TypeOK /\ Sessions /\ Cohorts /\ RecordAgrees

USE DEF Uses, Boards

-----------------------------------------------------------------------------
(* Lemmas about the operators *)

\* Maps from part of a set, such as the tables are.
LEMMA PartialType ==
  ASSUME NEW S, NEW T
  PROVE  /\ \A D \in SUBSET S : \A f \in [D -> T] : f \in Partial(S, T)
         /\ \A f \in Partial(S, T) : DOMAIN f \subseteq S /\ f \in [DOMAIN f -> T]
         /\ NoRows \in Partial(S, T)
<1>1. \A D \in SUBSET S : \A f \in [D -> T] : f \in Partial(S, T)
  BY DEF Partial
<1>2. ASSUME NEW f \in Partial(S, T)
      PROVE  DOMAIN f \subseteq S /\ f \in [DOMAIN f -> T]
  <2>1. PICK D \in SUBSET S : f \in [D -> T]
    BY DEF Partial
  <2>2. QED
    BY <2>1
<1>3. NoRows \in Partial(S, T)
  <2>1. {} \in SUBSET S /\ NoRows \in [{} -> T]
    BY DEF NoRows
  <2>2. QED
    BY <1>1, <2>1
<1>4. QED
  BY <1>1, <1>2, <1>3

\* A set of naturals with an upper bound that is not empty has a greatest member.
LEMMA MaxType ==
  ASSUME NEW S \in SUBSET Nat, S # {}, NEW n \in Nat, \A x \in S : x <= n
  PROVE  Max(S) \in S
<1> DEFINE T == {n - x : x \in S}
<1>1. T \in SUBSET Nat /\ T # {}
  <2>1. \A x \in S : n - x \in Nat
    OBVIOUS
  <2>2. \A t \in T : t \in Nat
    BY <2>1
  <2>3. QED
    BY <2>2
<1>2. PICK d \in T : \A e \in T : <<e, d>> \notin OpToRel(<, Nat)
  BY <1>1, NatLessThanWellFounded, WFMin
<1>3. PICK i \in S : d = n - i
  OBVIOUS
<1>4. ASSUME NEW j \in S
      PROVE  i >= j
  <2>1. n - j \in T /\ i \in Nat /\ j \in Nat
    OBVIOUS
  <2>2. ~(n - j < n - i)
    BY <1>1, <1>2, <1>3, <2>1 DEF OpToRel
  <2>3. QED
    BY <2>1, <2>2
<1>5. \E x \in S : \A y \in S : x >= y
  BY <1>4
<1>6. QED
  BY <1>5 DEF Max

\* The greatest and the smallest of two numbers.
LEMMA OfTwo ==
  ASSUME NEW a \in Int, NEW b \in Int
  PROVE  /\ Min({a, b}) \in {a, b} /\ Min({a, b}) <= a
         /\ Max({a, b}) \in {a, b} /\ Max({a, b}) >= b
<1>1. \E x \in {a, b} : \A y \in {a, b} : x <= y
  <2>1. a <= b \/ b <= a
    OBVIOUS
  <2>2. QED
    BY <2>1
<1>2. Min({a, b}) \in {a, b} /\ \A y \in {a, b} : Min({a, b}) <= y
  BY <1>1 DEF Min
<1>3. \E x \in {a, b} : \A y \in {a, b} : x >= y
  <2>1. a >= b \/ b >= a
    OBVIOUS
  <2>2. QED
    BY <2>1
<1>4. Max({a, b}) \in {a, b} /\ \A y \in {a, b} : Max({a, b}) >= y
  BY <1>3 DEF Max
<1>5. QED
  BY <1>2, <1>4

\* An enumeration of a finite set names each member at one position at most.
LEMMA EnumerationType ==
  ASSUME NEW S, IsFiniteSet(S), NEW s \in SetToSeqs(S)
  PROVE  /\ Cardinality(S) \in Nat
         /\ s \in Seq(S)
         /\ Len(s) = Cardinality(S)
         /\ DOMAIN s = 1..Cardinality(S)
         /\ \A i \in DOMAIN s : s[i] \in S
         /\ \A i, j \in DOMAIN s : s[i] = s[j] => i = j
<1> DEFINE n == Cardinality(S)
<1>1. n \in Nat
  BY FS_CardinalityType
<1>2. s \in [1..n -> S] /\ \A i, j \in 1..n : i # j => s[i] # s[j]
  BY DEF SetToSeqs
<1> HIDE DEF n
<1>3. s \in Seq(S) /\ Len(s) = n
  BY <1>1, <1>2
<1>4. QED
  BY <1>1, <1>2, <1>3 DEF n

\* A set that is not empty is enumerated from a first member on.
LEMMA NotEmpty ==
  ASSUME NEW S, IsFiniteSet(S), S # {}
  PROVE  Cardinality(S) \in Nat /\ Cardinality(S) >= 1
<1>1. Cardinality(S) \in Nat /\ Cardinality(S) # 0
  BY FS_CardinalityType, FS_EmptySet
<1>2. QED
  BY <1>1

-----------------------------------------------------------------------------
(* Lemmas about the rankings *)

\* The positions of a sorted session.
LEMMA Positions ==
  ASSUME NEW s, s.kwh \in Partial(Home, Kwh), Sorted(s)
  PROVE  /\ IsFiniteSet(DOMAIN s.kwh)
         /\ Cardinality(DOMAIN s.kwh) \in Nat
         /\ Cardinality(DOMAIN s.kwh) <= Cardinality(Home)
         /\ Cardinality(Home) \in Nat
         /\ DOMAIN s.order = 1..Cardinality(DOMAIN s.kwh)
         /\ Len(s.order) = Cardinality(DOMAIN s.kwh)
         /\ s.order \in Seq(Home)
         /\ \A i \in DOMAIN s.order :
                s.order[i] \in DOMAIN s.kwh /\ s.order[i] \in Home /\ s.kwh[s.order[i]] \in Kwh
         /\ \A i, j \in DOMAIN s.order : s.order[i] = s.order[j] => i = j
         /\ \A i, j \in DOMAIN s.order : j < i => s.kwh[s.order[j]] <= s.kwh[s.order[i]]
<1>1. DOMAIN s.kwh \subseteq Home /\ s.kwh \in [DOMAIN s.kwh -> Kwh]
  BY PartialType
<1>2. /\ IsFiniteSet(DOMAIN s.kwh)
      /\ Cardinality(DOMAIN s.kwh) <= Cardinality(Home)
      /\ Cardinality(Home) \in Nat
  BY <1>1, FS_Subset, FS_CardinalityType, CommunityAssumption
<1>3. s.order \in SetToSeqs(DOMAIN s.kwh)
  BY DEF Sorted
<1>4. /\ Cardinality(DOMAIN s.kwh) \in Nat
      /\ s.order \in Seq(DOMAIN s.kwh)
      /\ Len(s.order) = Cardinality(DOMAIN s.kwh)
      /\ DOMAIN s.order = 1..Cardinality(DOMAIN s.kwh)
      /\ \A i \in DOMAIN s.order : s.order[i] \in DOMAIN s.kwh
      /\ \A i, j \in DOMAIN s.order : s.order[i] = s.order[j] => i = j
  BY <1>2, <1>3, EnumerationType
<1>5. s.order \in Seq(Home)
  BY <1>1, <1>4
<1>6. ASSUME NEW i \in DOMAIN s.order, NEW j \in DOMAIN s.order, j < i
      PROVE  s.kwh[s.order[j]] <= s.kwh[s.order[i]]
  <2>1. j \in 1..(i - 1)
    BY <1>4, <1>6
  <2>2. QED
    BY <2>1 DEF Sorted
<1>7. \A i \in DOMAIN s.order :
        s.order[i] \in DOMAIN s.kwh /\ s.order[i] \in Home /\ s.kwh[s.order[i]] \in Kwh
  BY <1>1, <1>4
<1>8. QED
  BY <1>2, <1>4, <1>5, <1>6, <1>7

\* The row of a user is the row at one of the user's positions.
LEMMA ComputedRow ==
  ASSUME NEW s, s.kwh \in Partial(Home, Kwh), Sorted(s), NEW u \in Owners(s)
  PROVE  /\ Computed(s, u) \in Row
         /\ \E i \in DOMAIN s.order :
              /\ owner[s.order[i]] = u
              /\ Computed(s, u) = RowAt(s, i)
<1> DEFINE n == Cardinality(DOMAIN s.kwh)
<1>1. n \in Nat /\ DOMAIN s.order = 1..n
  BY Positions
<1>2. Places(s, u) \in SUBSET Nat /\ Places(s, u) # {} /\ \A i \in Places(s, u) : i <= n
  BY <1>1 DEF Places, Owners
<1>3. Max(Places(s, u)) \in Places(s, u)
  BY <1>1, <1>2, MaxType
<1>4. PICK i \in DOMAIN s.order : owner[s.order[i]] = u /\ Computed(s, u) = RowAt(s, i)
  BY <1>3 DEF Places, Computed
<1>5. /\ i \in 1..Cardinality(Home) /\ Len(s.order) \in 1..Cardinality(Home)
      /\ s.order[i] \in Home /\ s.kwh[s.order[i]] \in Kwh
  BY <1>1, Positions
<1>6. RowAt(s, i) \in Row
  BY <1>5 DEF RowAt, Row
<1>7. QED
  BY <1>4, <1>6

\* A commit writes rows, whether it inserts or updates.
LEMMA SavedType ==
  ASSUME NEW s, s.kwh \in Partial(Home, Kwh), Sorted(s), NEW u \in Owners(s),
         u \in DOMAIN s.loaded => board[u] \in Row
  PROVE  Saved(s, u) \in Row
<1>1. Computed(s, u) \in Row
  BY ComputedRow
<1>2. CASE u \in DOMAIN s.loaded
  <2> DEFINE f == [c \in {"home", "rank", "of", "kwh"} |->
                    IF c = "home" \/ Computed(s, u)[c] = s.loaded[u][c] THEN board[u][c]
                    ELSE Computed(s, u)[c]]
  <2>1. Saved(s, u) = f
    BY <1>2 DEF Saved
  <2>2. \A c \in {"home", "rank", "of", "kwh"} : f[c] = board[u][c] \/ f[c] = Computed(s, u)[c]
    OBVIOUS
  <2>3. \A row \in Row : /\ row["home"] \in Home /\ row["rank"] \in 1..Cardinality(Home)
                         /\ row["of"] \in 1..Cardinality(Home) /\ row["kwh"] \in Kwh
    BY DEF Row
  <2>4. /\ f["home"] \in Home /\ f["rank"] \in 1..Cardinality(Home)
        /\ f["of"] \in 1..Cardinality(Home) /\ f["kwh"] \in Kwh
    BY <1>1, <1>2, <2>2, <2>3
  <2>5. f \in Row
    BY <2>4 DEF Row
  <2>6. QED
    BY <2>1, <2>5
<1>3. CASE u \notin DOMAIN s.loaded
  BY <1>1, <1>3 DEF Saved
<1>4. QED
  BY <1>2, <1>3

\* When the rows are as they were loaded, an update leaves what was computed.
LEMMA SavedAsComputed ==
  ASSUME NEW s, s.kwh \in Partial(Home, Kwh), Sorted(s), NEW u \in Owners(s), Undisturbed(s)
  PROVE  /\ Saved(s, u).rank = Computed(s, u).rank
         /\ Saved(s, u).of = Computed(s, u).of
         /\ Saved(s, u).kwh = Computed(s, u).kwh
<1>1. CASE u \in DOMAIN s.loaded
  <2>1. s.loaded[u] = board[u]
    BY <1>1 DEF Undisturbed, LoadedRows
  <2>2. Saved(s, u) = [c \in {"home", "rank", "of", "kwh"} |->
                        IF c = "home" \/ Computed(s, u)[c] = board[u][c] THEN board[u][c]
                        ELSE Computed(s, u)[c]]
    BY <1>1, <2>1 DEF Saved
  <2>3. \A c \in {"rank", "of", "kwh"} : Saved(s, u)[c] = Computed(s, u)[c]
    BY <2>2
  <2>4. QED
    BY <2>3
<1>2. CASE u \notin DOMAIN s.loaded
  BY <1>2 DEF Saved
<1>3. QED
  BY <1>1, <1>2

-----------------------------------------------------------------------------
(* Lemmas about the personas *)

\* The personas an engaged user can get.
LEMMA PersonaNames ==
  Range(EngagedPersona) = {"Eco Champion", "Active Improver", "Steady User", "High Consumer"}
<1>1. DOMAIN EngagedPersona = 1..4
  BY DEF EngagedPersona
<1>2. /\ EngagedPersona[1] = "Eco Champion" /\ EngagedPersona[2] = "Active Improver"
      /\ EngagedPersona[3] = "Steady User" /\ EngagedPersona[4] = "High Consumer"
  BY DEF EngagedPersona
<1>3. Range(EngagedPersona) = {EngagedPersona[i] : i \in 1..4}
  BY <1>1 DEF Range
<1>4. \A i \in 1..4 : i = 1 \/ i = 2 \/ i = 3 \/ i = 4
  OBVIOUS
<1>5. 1 \in 1..4 /\ 2 \in 1..4 /\ 3 \in 1..4 /\ 4 \in 1..4
  OBVIOUS
<1>6. \A x : x \in Range(EngagedPersona) <=> \E i \in 1..4 : x = EngagedPersona[i]
  BY <1>3
<1>7. ASSUME NEW x
      PROVE  x \in Range(EngagedPersona)
                <=> x \in {"Eco Champion", "Active Improver", "Steady User", "High Consumer"}
  <2>1. x \in Range(EngagedPersona) => x \in {"Eco Champion", "Active Improver", "Steady User", "High Consumer"}
    BY <1>2, <1>4, <1>6
  <2>2. \A i \in 1..4 : EngagedPersona[i] \in Range(EngagedPersona)
    BY <1>6
  <2>3. QED
    BY <1>2, <1>5, <2>1, <2>2
<1>8. QED
  BY <1>7

\* Bands only give the personas of engaged users, and the last position is a high
\* consumer's, in a cohort of one as well.
LEMMA BandRange ==
  ASSUME NEW i, NEW n, NEW improving
  PROVE  Band(i, n, improving) \in Range(EngagedPersona)
BY PersonaNames DEF Band

\* The lowest position is always in the last band, in a cohort of one as well.
LEMMA LastBand ==
  ASSUME NEW n \in Nat, n >= 1, NEW improving
  PROVE  Band(0, n, improving) = "High Consumer"
<1> DEFINE span == Max({n - 1, 1})
<1>1. span \in {n - 1, 1} /\ span >= 1
  <2>1. n - 1 \in Int /\ 1 \in Int
    OBVIOUS
  <2>2. QED
    BY <2>1, OfTwo
<1>2. span \in Nat /\ span >= 1
  BY <1>1
<1> HIDE DEF span
<1>3. /\ ~(100 * 0 >= 80 * span) /\ ~(100 * 0 >= 55 * span)
      /\ 100 * 0 <= 24 * span
  BY <1>2
<1>4. QED
  BY <1>3 DEF Band, span

\* What a classification may assign to its cohort.
LEMMA AssignmentType ==
  ASSUME NEW cohort \in SUBSET User, NEW to \in Assignments(cohort)
  PROVE  /\ to \in [cohort -> Range(EngagedPersona)]
         /\ Cardinality(cohort) \in 1..(MinCohort - 1) => \E u \in cohort : to[u] = "High Consumer"
<1>1. IsFiniteSet(cohort) /\ Cardinality(cohort) \in Nat
  BY CommunityAssumption, FS_Subset, FS_CardinalityType
<1>2. CASE to \in ByBand(cohort)
  <2>1. PICK s \in SetToSeqs(cohort), rising \in SUBSET cohort :
            to = Banded(cohort, s, rising)
    BY <1>2 DEF ByBand
  <2>2. to \in [cohort -> Range(EngagedPersona)]
    BY <2>1, BandRange DEF Banded
  <2>3. ASSUME Cardinality(cohort) \in 1..(MinCohort - 1)
        PROVE  \E u \in cohort : to[u] = "High Consumer"
    <3>1. /\ Len(s) = Cardinality(cohort) /\ DOMAIN s = 1..Cardinality(cohort)
          /\ \A i \in DOMAIN s : s[i] \in cohort
          /\ \A i, j \in DOMAIN s : s[i] = s[j] => i = j
      BY <1>1, EnumerationType
    <3>2. Len(s) \in Nat /\ Len(s) >= 1
      BY <1>1, <2>3, <3>1, ThresholdAssumption
    <3>3. 1 \in DOMAIN s /\ s[1] \in cohort
      BY <3>1, <3>2
    <3>4. 0 \in 0..(Len(s) - 1) /\ s[0 + 1] = s[1]
      BY <3>2
    <3>5. ASSUME NEW i \in 0..(Len(s) - 1), s[i + 1] = s[1]
          PROVE  i = 0
      <4>1. i + 1 \in DOMAIN s
        BY <3>1, <3>2
      <4>2. i + 1 = 1
        BY <3>1, <3>3, <3>5, <4>1
      <4>3. QED
        BY <3>2, <4>2
    <3>6. (CHOOSE i \in 0..(Len(s) - 1) : s[i + 1] = s[1]) = 0
      BY <3>4, <3>5
    <3>7. to[s[1]] = Band(0, Len(s), s[1] \in rising)
      BY <2>1, <3>3, <3>6 DEF Banded
    <3>8. QED
      BY <3>2, <3>3, <3>7, LastBand
  <2>4. QED
    BY <2>2, <2>3
<1>3. CASE to \in ByCluster(cohort) /\ Cardinality(cohort) >= MinCohort
  <2>1. PICK rank \in [cohort -> 1..Min({4, Cardinality(cohort)})], improving \in BOOLEAN :
            to = Clustered(cohort, rank, improving)
    BY <1>3 DEF ByCluster
  <2>2. Min({4, Cardinality(cohort)}) \in Nat /\ Min({4, Cardinality(cohort)}) <= 4
    BY <1>1, OfTwo
  <2>3. \A u \in cohort : rank[u] \in 1..4
    BY <2>2
  <2>4. DOMAIN EngagedPersona = 1..4
    BY DEF EngagedPersona
  <2>5. \A u \in cohort : EngagedPersona[rank[u]] \in Range(EngagedPersona)
    BY <2>3, <2>4 DEF Range
  <2>6. to \in [cohort -> Range(EngagedPersona)]
    BY <2>1, <2>5, PersonaNames DEF Clustered
  <2>7. Cardinality(cohort) \notin 1..(MinCohort - 1)
    BY <1>1, <1>3, ThresholdAssumption
  <2>8. QED
    BY <2>6, <2>7
<1>4. QED
  BY <1>2, <1>3 DEF Assignments

-----------------------------------------------------------------------------
(* The invariant: steps of the rankings *)

\* A session that does nothing is well typed and has read nothing.
LEMMA AsleepType == Asleep \in Session /\ Asleep.at # "read"
<1>1. NoRows \in Partial(Home, Kwh) /\ NoRows \in Partial(User, Row)
  BY PartialType
<1>2. <<>> \in Seq(Home)
  OBVIOUS
<1>3. QED
  BY <1>1, <1>2 DEF Asleep, Session

\* The parts of a session.
LEMMA SessionType ==
  ASSUME NEW s \in Session
  PROVE  /\ s.at \in {"idle", "read"} /\ s.order \in Seq(Home)
         /\ s.kwh \in Partial(Home, Kwh) /\ s.loaded \in Partial(User, Row)
BY DEF Session

\* Whoever has a home in the order of a session is a user.
LEMMA OwnersType ==
  ASSUME RankTypeOK, NEW s, s.order \in Seq(Home)
  PROVE  Owners(s) \subseteq User
<1>1. \A i \in DOMAIN s.order : s.order[i] \in Home
  OBVIOUS
<1>2. owner \in [Home -> User]
  BY DEF RankTypeOK
<1>3. QED
  BY <1>1, <1>2 DEF Owners

\* New totals leave what sessions read as it is.
LEMMA MeterStep ==
  ASSUME RankTypeOK, Sessions, NEW h \in Home, NEW k \in Kwh, Meter(h, k)
  PROVE  RankTypeOK' /\ Sessions'
<1>1. DOMAIN total \subseteq Home /\ total \in [DOMAIN total -> Kwh]
  BY PartialType DEF RankTypeOK
<1>2. total' = [x \in DOMAIN total \cup {h} |-> IF x = h THEN k ELSE total[x]]
  BY DEF Meter
<1>3. total' \in [DOMAIN total \cup {h} -> Kwh] /\ DOMAIN total \cup {h} \in SUBSET Home
  BY <1>1, <1>2
<1>4. total' \in Partial(Home, Kwh) /\ DOMAIN total \subseteq DOMAIN total'
  BY <1>3, PartialType
<1>5. steps' \in Nat /\ UNCHANGED <<owner, board, ranking, failed>>
  BY DEF Meter, RankTypeOK
<1>6. RankTypeOK'
  BY <1>4, <1>5 DEF RankTypeOK
<1>7. Sessions'
  BY <1>4, <1>5 DEF Sessions
<1>8. QED
  BY <1>6, <1>7

\* A session reads every home with a total once, in the order of use.
LEMMA RankReadStep ==
  ASSUME RankTypeOK, Sessions, NEW r \in Ranker, RankRead(r)
  PROVE  RankTypeOK' /\ Sessions'
<1>1. PICK order \in Orders :
          ranking' = [ranking EXCEPT ![r] =
            [at |-> "read", order |-> order, kwh |-> total,
             loaded |-> LoadedRows({owner[order[i]] : i \in DOMAIN order})]]
  BY DEF RankRead
<1> DEFINE s == [at |-> "read", order |-> order, kwh |-> total,
                 loaded |-> LoadedRows({owner[order[i]] : i \in DOMAIN order})]
<1>2. s.at = "read" /\ s.order = order /\ s.kwh = total
      /\ s.loaded = LoadedRows({owner[order[i]] : i \in DOMAIN order})
  OBVIOUS
<1>3. Sorted(s)
  BY <1>2 DEF Orders, Sorted
<1>4. s.kwh \in Partial(Home, Kwh)
  BY <1>2 DEF RankTypeOK
<1>5. order \in Seq(Home)
  BY <1>2, <1>3, <1>4, Positions
<1>6. DOMAIN board \subseteq User /\ board \in [DOMAIN board -> Row]
  BY PartialType DEF RankTypeOK
<1>7. s.loaded \in Partial(User, Row) /\ DOMAIN s.loaded \subseteq DOMAIN board
  <2> DEFINE D == DOMAIN board \cap {owner[order[i]] : i \in DOMAIN order}
  <2>1. s.loaded = [u \in D |-> board[u]]
    BY <1>2 DEF LoadedRows
  <2>2. D \in SUBSET User /\ s.loaded \in [D -> Row]
    BY <1>6, <2>1
  <2>3. QED
    BY <2>1, <2>2, PartialType
<1>8. s \in Session
  BY <1>4, <1>5, <1>7 DEF Session, RankTypeOK
<1>9. ranking' = [ranking EXCEPT ![r] = s]
  BY <1>1
<1> HIDE DEF s
<1>10. ranking' \in [Ranker -> Session] /\ \A q \in Ranker : ranking'[q] = IF q = r THEN s ELSE ranking[q]
  BY <1>8, <1>9 DEF RankTypeOK
<1>11. steps' \in Nat /\ UNCHANGED <<owner, total, board, failed>>
  BY DEF RankRead, RankTypeOK
<1>12. RankTypeOK'
  BY <1>10, <1>11 DEF RankTypeOK
<1>13. ASSUME NEW q \in Ranker, ranking'[q].at = "read"
       PROVE  /\ Sorted(ranking'[q])
              /\ DOMAIN ranking'[q].kwh \subseteq DOMAIN total'
              /\ DOMAIN ranking'[q].loaded \subseteq DOMAIN board'
  <2>1. CASE q = r
    BY <1>2, <1>3, <1>7, <1>10, <1>11, <2>1
  <2>2. CASE q # r
    BY <1>10, <1>11, <1>13, <2>2 DEF Sessions
  <2>3. QED
    BY <2>1, <2>2
<1>14. Sessions'
  BY <1>13 DEF Sessions, Sorted
<1>15. QED
  BY <1>12, <1>14

\* A session that ends leaves the others what they hold.
LEMMA SessionEnds ==
  ASSUME RankTypeOK, Sessions, NEW r \in Ranker,
         ranking' = [ranking EXCEPT ![r] = Asleep],
         total' = total, DOMAIN board \subseteq DOMAIN board'
  PROVE  ranking' \in [Ranker -> Session] /\ Sessions'
<1>1. /\ ranking' \in [Ranker -> Session]
      /\ \A q \in Ranker : ranking'[q] = IF q = r THEN Asleep ELSE ranking[q]
  BY AsleepType DEF RankTypeOK
<1>2. ASSUME NEW q \in Ranker, ranking'[q].at = "read"
      PROVE  /\ Sorted(ranking'[q])
             /\ DOMAIN ranking'[q].kwh \subseteq DOMAIN total'
             /\ DOMAIN ranking'[q].loaded \subseteq DOMAIN board'
  <2>1. ranking'[q] = ranking[q]
    BY <1>1, <1>2, AsleepType
  <2>2. QED
    BY <1>2, <2>1 DEF Sessions
<1>3. Sessions'
  BY <1>2 DEF Sessions, Sorted
<1>4. QED
  BY <1>1, <1>3

\* A commit adds rows and deletes none, so what the others read is still there.
LEMMA RankCommitStep ==
  ASSUME RankTypeOK, Sessions, NEW r \in Ranker, RankCommit(r)
  PROVE  RankTypeOK' /\ Sessions'
<1> DEFINE s == ranking[r]
<1>1. s.at = "read" /\ s \in Session
  BY DEF RankCommit, RankTypeOK
<1>2. /\ s.kwh \in Partial(Home, Kwh) /\ s.order \in Seq(Home)
      /\ Sorted(s) /\ DOMAIN s.loaded \subseteq DOMAIN board
  BY <1>1, SessionType DEF Sessions
<1>3. DOMAIN board \subseteq User /\ board \in [DOMAIN board -> Row]
  BY PartialType DEF RankTypeOK
<1>4. Owners(s) \subseteq User
  BY <1>2, OwnersType
<1>5. board' = [u \in DOMAIN board \cup Owners(s) |->
                    IF u \in Owners(s) THEN Saved(s, u) ELSE board[u]]
  BY DEF RankCommit
<1>6. /\ ranking' = [ranking EXCEPT ![r] = Asleep]
      /\ UNCHANGED <<owner, total, failed, steps>>
  BY DEF RankCommit
<1> HIDE DEF s
<1>7. \A u \in Owners(s) : Saved(s, u) \in Row
  BY <1>2, <1>3, SavedType
<1>8. board' \in [DOMAIN board \cup Owners(s) -> Row]
      /\ DOMAIN board \cup Owners(s) \in SUBSET User
  BY <1>3, <1>4, <1>5, <1>7
<1>9. board' \in Partial(User, Row) /\ DOMAIN board \subseteq DOMAIN board'
  BY <1>8, PartialType
<1>10. ranking' \in [Ranker -> Session] /\ Sessions'
  BY <1>6, <1>9, SessionEnds
<1>11. RankTypeOK'
  BY <1>6, <1>9, <1>10 DEF RankTypeOK
<1>12. QED
  BY <1>10, <1>11

\* A failed session leaves the rows alone.
LEMMA RankFailStep ==
  ASSUME RankTypeOK, Sessions, NEW r \in Ranker, RankFail(r)
  PROVE  RankTypeOK' /\ Sessions'
<1>1. /\ ranking' = [ranking EXCEPT ![r] = Asleep]
      /\ failed' = failed + 1
      /\ UNCHANGED <<owner, total, board, steps>>
  BY DEF RankFail
<1>2. ranking' \in [Ranker -> Session] /\ Sessions'
  BY <1>1, SessionEnds
<1>3. failed' \in Nat
  BY <1>1 DEF RankTypeOK
<1>4. RankTypeOK'
  BY <1>1, <1>2, <1>3 DEF RankTypeOK
<1>5. QED
  BY <1>2, <1>4

\* The rankings keep their types and their sessions.
LEMMA RankStep ==
  ASSUME RankTypeOK, Sessions, RankNext
  PROVE  RankTypeOK' /\ Sessions'
BY MeterStep, RankReadStep, RankCommitStep, RankFailStep DEF RankNext

\* Without a step of theirs the rankings stay what they are.
LEMMA RankStutter ==
  ASSUME RankTypeOK, Sessions, UNCHANGED rankVars
  PROVE  RankTypeOK' /\ Sessions'
<1>1. UNCHANGED <<owner, total, board, ranking, failed, steps>>
  BY DEF rankVars
<1>2. RankTypeOK'
  BY <1>1 DEF RankTypeOK
<1>3. Sessions'
  BY <1>1 DEF Sessions
<1>4. QED
  BY <1>2, <1>3

-----------------------------------------------------------------------------
(* The invariant: steps of the personas *)

\* The invariant holds at the start.
LEMMA InitIInv == Init => IInv
<1> SUFFICES ASSUME Init
             PROVE  IInv
  OBVIOUS
<1>1. RankInit
  BY DEF Init
<1>2. RankTypeOK
  <2>1. total \in Partial(Home, Kwh) /\ board \in Partial(User, Row)
    BY <1>1, PartialType DEF RankInit
  <2>2. ranking \in [Ranker -> Session]
    BY <1>1, AsleepType DEF RankInit
  <2>3. QED
    BY <1>1, <2>1, <2>2 DEF RankInit, RankTypeOK
<1>3. Sessions
  BY <1>1, AsleepType DEF RankInit, Sessions
<1>4. NoOne \in [User -> Persona \cup {NoPersona}]
  BY DEF NoOne
<1>5. classifying \in [Classifier -> Class] /\ \A c \in Classifier : classifying[c].at # "read"
  <2>1. NotClassifying \in Class /\ NotClassifying.at # "read"
    BY <1>4 DEF NotClassifying, Class
  <2>2. QED
    BY <2>1 DEF Init
<1>6. earlier \in [User -> 0..MinDays]
  <2>1. PICK days \in {MinDays - 1, MinDays} : earlier = [u \in User |-> days]
    BY DEF Init
  <2>2. days \in 0..MinDays
    BY <2>1, ThresholdAssumption
  <2>3. QED
    BY <2>1, <2>2
<1>7. TypeOK
  BY <1>2, <1>4, <1>5, <1>6 DEF Init, TypeOK
<1>8. Cohorts
  BY <1>5 DEF Cohorts
<1>9. RecordAgrees
  BY DEF Init, RecordAgrees
<1>10. QED
  BY <1>3, <1>7, <1>8, <1>9 DEF IInv

\* The rankings change no persona, record or cohort.
LEMMA RankingsKeep ==
  ASSUME IInv, RankNext, UNCHANGED personaVars
  PROVE  IInv'
<1>1. RankTypeOK' /\ Sessions'
  BY RankStep DEF IInv, TypeOK
<1>2. UNCHANGED <<earlier, active, persona, record, classifying, request, touched, turns>>
  BY DEF personaVars
<1>3. TypeOK'
  BY <1>1, <1>2 DEF IInv, TypeOK
<1>4. Cohorts' /\ RecordAgrees'
  BY <1>2 DEF IInv, Cohorts, RecordAgrees
<1>5. QED
  BY <1>1, <1>3, <1>4 DEF IInv

\* Who falls silent or comes back changes no persona.
LEMMA SilenceKeeps ==
  ASSUME IInv, NEW u \in User, Silence(u)
  PROVE  IInv'
<1>1. RankTypeOK' /\ Sessions'
  BY RankStutter DEF IInv, TypeOK, Silence
<1>2. /\ turns' \in Nat /\ active' \subseteq User
      /\ UNCHANGED <<earlier, persona, record, classifying, request, touched>>
  BY DEF IInv, TypeOK, Silence, Turn
<1>3. TypeOK'
  BY <1>1, <1>2 DEF IInv, TypeOK
<1>4. Cohorts' /\ RecordAgrees'
  BY <1>2 DEF IInv, Cohorts, RecordAgrees
<1>5. QED
  BY <1>1, <1>3, <1>4 DEF IInv

\* A classification plans personas for the cohort it reads, and Disengaged for the rest.
LEMMA ClassifyReadKeeps ==
  ASSUME IInv, NEW c \in Classifier, ClassifyRead(c)
  PROVE  IInv'
<1>1. RankTypeOK' /\ Sessions'
  BY RankStutter DEF IInv, TypeOK, ClassifyRead
<1>2. Engaged \in SUBSET User
  BY DEF IInv, TypeOK, Engaged
<1>3. PICK to \in Assignments(Engaged) :
          classifying' = [classifying EXCEPT ![c] =
            [at |-> "read", loaded |-> persona, cohort |-> Engaged,
             target |-> [u \in User |-> IF u \in Engaged THEN to[u] ELSE "Disengaged"]]]
  BY DEF ClassifyRead
<1> DEFINE target == [u \in User |-> IF u \in Engaged THEN to[u] ELSE "Disengaged"]
           s == [at |-> "read", loaded |-> persona, cohort |-> Engaged, target |-> target]
<1>4. /\ to \in [Engaged -> Range(EngagedPersona)]
      /\ Cardinality(Engaged) \in 1..(MinCohort - 1) => \E u \in Engaged : to[u] = "High Consumer"
  BY <1>2, AssignmentType
<1>5. target \in [User -> Persona \cup {NoPersona}]
  BY <1>2, <1>4 DEF Persona
<1>6. \A u \in User : target[u] = "Disengaged" <=> u \notin Engaged
  BY <1>2, <1>4, PersonaNames
<1>7. Cardinality(Engaged) \in 1..(MinCohort - 1) => \E u \in Engaged : target[u] = "High Consumer"
  BY <1>2, <1>4
<1> HIDE DEF target
<1>8. s \in Class
  BY <1>2, <1>5 DEF Class, IInv, TypeOK
<1>9. s.cohort = Engaged /\ s.target = target
  OBVIOUS
<1>10. classifying' = [classifying EXCEPT ![c] = s]
  BY <1>3 DEF target
<1> HIDE DEF s
<1>11. /\ classifying' \in [Classifier -> Class]
       /\ \A d \in Classifier : classifying'[d] = IF d = c THEN s ELSE classifying[d]
  BY <1>8, <1>10 DEF IInv, TypeOK
<1>12. /\ turns' \in Nat
       /\ UNCHANGED <<earlier, active, persona, record, request, touched>>
  BY DEF IInv, TypeOK, ClassifyRead, Turn
<1>13. TypeOK'
  BY <1>1, <1>11, <1>12 DEF IInv, TypeOK
<1>14. Cohorts'
  <2>1. ASSUME NEW d \in Classifier, classifying'[d].at = "read"
        PROVE  /\ \A u \in User :
                      classifying'[d].target[u] = "Disengaged" <=> u \notin classifying'[d].cohort
               /\ Cardinality(classifying'[d].cohort) \in 1..(MinCohort - 1) =>
                      \E u \in classifying'[d].cohort : classifying'[d].target[u] = "High Consumer"
    <3>1. CASE d = c
      BY <1>6, <1>7, <1>9, <1>11, <3>1
    <3>2. CASE d # c
      <4>1. classifying'[d] = classifying[d]
        BY <1>11, <3>2
      <4>2. QED
        BY <2>1, <4>1 DEF IInv, Cohorts
    <3>3. QED
      BY <3>1, <3>2
  <2>2. QED
    BY <2>1 DEF Cohorts
<1>15. RecordAgrees'
  BY <1>12 DEF IInv, RecordAgrees
<1>16. QED
  BY <1>1, <1>13, <1>14, <1>15 DEF IInv

\* What a classification commits agrees with the record it writes.
LEMMA ClassifyCommitKeeps ==
  ASSUME IInv, NEW c \in Classifier, ClassifyCommit(c)
  PROVE  IInv'
<1> DEFINE s == classifying[c]
<1>1. RankTypeOK' /\ Sessions'
  BY RankStutter DEF IInv, TypeOK, ClassifyCommit
<1>2. s \in Class
  BY DEF IInv, TypeOK
<1>3. s.target \in [User -> Persona \cup {NoPersona}]
  BY <1>2 DEF Class
<1>4. persona \in [User -> Persona \cup {NoPersona}]
  BY DEF IInv, TypeOK
<1>5. persona' = [u \in User |-> IF s.target[u] # s.loaded[u] THEN s.target[u] ELSE persona[u]]
  BY DEF ClassifyCommit, Stored
<1>6. record' = s.target /\ touched' = {u \in User : persona[u] # s.loaded[u]}
  BY DEF ClassifyCommit, Recorded
<1>7. classifying' = [classifying EXCEPT ![c] = NotClassifying]
  BY DEF ClassifyCommit
<1> HIDE DEF s
<1>8. persona' \in [User -> Persona \cup {NoPersona}]
  BY <1>3, <1>4, <1>5
<1>9. NotClassifying \in Class /\ NotClassifying.at # "read"
  BY DEF NotClassifying, Class, NoOne
<1>10. /\ classifying' \in [Classifier -> Class]
       /\ \A d \in Classifier : classifying'[d] = IF d = c THEN NotClassifying ELSE classifying[d]
  BY <1>7, <1>9 DEF IInv, TypeOK
<1>11. UNCHANGED <<earlier, active, request, turns>>
  BY DEF ClassifyCommit
<1>12. TypeOK'
  BY <1>1, <1>3, <1>6, <1>8, <1>10, <1>11 DEF IInv, TypeOK
<1>13. Cohorts'
  <2>1. ASSUME NEW d \in Classifier, classifying'[d].at = "read"
        PROVE  classifying'[d] = classifying[d] /\ classifying[d].at = "read"
    BY <1>9, <1>10, <2>1
  <2>2. ASSUME NEW d \in Classifier, classifying'[d].at = "read"
        PROVE  /\ \A u \in User :
                      classifying'[d].target[u] = "Disengaged" <=> u \notin classifying'[d].cohort
               /\ Cardinality(classifying'[d].cohort) \in 1..(MinCohort - 1) =>
                      \E u \in classifying'[d].cohort : classifying'[d].target[u] = "High Consumer"
    <3>1. classifying'[d] = classifying[d] /\ classifying[d].at = "read"
      BY <2>1, <2>2
    <3>2. QED
      BY <3>1 DEF IInv, Cohorts
  <2>3. QED
    BY <2>2 DEF Cohorts
<1>14. RecordAgrees'
  BY <1>5, <1>6 DEF RecordAgrees
<1>15. QED
  BY <1>1, <1>12, <1>13, <1>14 DEF IInv

\* An assignment that has read has written nothing.
LEMMA AssignReadKeeps ==
  ASSUME IInv, NEW u \in User, NEW p \in Persona, AssignRead(u, p)
  PROVE  IInv'
<1>1. RankTypeOK' /\ Sessions'
  BY RankStutter DEF IInv, TypeOK, AssignRead
<1>2. request' \in User \X Persona \X (Persona \cup {NoPersona})
  BY DEF IInv, TypeOK, AssignRead
<1>3. /\ turns' \in Nat
      /\ UNCHANGED <<earlier, active, persona, record, classifying, touched>>
  BY DEF IInv, TypeOK, AssignRead, Turn
<1>4. TypeOK'
  BY <1>1, <1>2, <1>3 DEF IInv, TypeOK
<1>5. Cohorts' /\ RecordAgrees'
  BY <1>3 DEF IInv, Cohorts, RecordAgrees
<1>6. QED
  BY <1>1, <1>4, <1>5 DEF IInv

\* An assignment writes the persona and notes that the record may no longer agree.
LEMMA AssignCommitKeeps ==
  ASSUME IInv, AssignCommit
  PROVE  IInv'
<1>1. RankTypeOK' /\ Sessions'
  BY RankStutter DEF IInv, TypeOK, AssignCommit
<1>2. request \in User \X Persona \X (Persona \cup {NoPersona})
  BY DEF IInv, TypeOK, AssignCommit
<1>3. request[1] \in User /\ request[2] \in Persona
  BY <1>2
<1>4. \/ UNCHANGED <<persona, touched>>
      \/ /\ persona' = [persona EXCEPT ![request[1]] = request[2]]
         /\ touched' = touched \cup {request[1]}
  BY DEF AssignCommit
<1>5. request' = <<>> /\ UNCHANGED <<earlier, active, record, classifying, turns>>
  BY DEF AssignCommit
<1>6. persona' \in [User -> Persona \cup {NoPersona}] /\ touched' \subseteq User
  BY <1>3, <1>4 DEF IInv, TypeOK
<1>7. TypeOK'
  BY <1>1, <1>5, <1>6 DEF IInv, TypeOK
<1>8. Cohorts'
  BY <1>5 DEF IInv, Cohorts
<1>9. RecordAgrees'
  BY <1>3, <1>4, <1>5 DEF IInv, TypeOK, RecordAgrees
<1>10. QED
  BY <1>1, <1>7, <1>8, <1>9 DEF IInv

\* A step that changes nothing keeps the invariant.
LEMMA StutterKeeps == IInv /\ UNCHANGED vars => IInv'
<1> SUFFICES ASSUME IInv, UNCHANGED vars
             PROVE  IInv'
  OBVIOUS
<1>1. UNCHANGED rankVars /\ UNCHANGED personaVars
  BY DEF vars
<1>2. RankTypeOK' /\ Sessions'
  BY <1>1, RankStutter DEF IInv, TypeOK
<1>3. UNCHANGED <<earlier, active, persona, record, classifying, request, touched, turns>>
  BY <1>1 DEF personaVars
<1>4. TypeOK' /\ Cohorts' /\ RecordAgrees'
  BY <1>2, <1>3 DEF IInv, TypeOK, Cohorts, RecordAgrees
<1>5. QED
  BY <1>2, <1>4 DEF IInv

\* The invariant is inductive.
LEMMA NextIInv == IInv /\ [Next]_vars => IInv'
BY RankingsKeep, SilenceKeeps, ClassifyReadKeeps, ClassifyCommitKeeps, AssignReadKeeps,
   AssignCommitKeeps, StutterKeeps DEF Next

\* The invariant the theorems rest on, for every value of the constants.
THEOREM Invariance == Spec => []IInv
<1>1. Init => IInv
  BY InitIInv
<1>2. IInv /\ [Next]_vars => IInv'
  BY NextIInv
<1>3. QED
  BY <1>1, <1>2, PTL DEF Spec

\* Every variable keeps its type: ranks stay between 1 and the number of homes, and
\* classifications give each user one of the five personas (compute_rankings,
\* classify_all_users).
THEOREM TypeCorrect == Spec => []TypeOK
<1>1. IInv => TypeOK
  BY DEF IInv
<1>2. QED
  BY <1>1, Invariance, PTL

\* The persona on record is the one the user has, unless somebody else wrote the user
\* beside or after the run (classify_all_users, assign_persona).
THEOREM RecordsAgree == Spec => []RecordAgrees
<1>1. IInv => RecordAgrees
  BY DEF IInv
<1>2. QED
  BY <1>1, Invariance, PTL

-----------------------------------------------------------------------------
(* The board after a commit *)

\* A session nobody disturbed leaves its users a ranking of the homes it read.
LEMMA CommitRanks ==
  ASSUME IInv, NEW r \in Ranker, RankCommit(r), Undisturbed(ranking[r])
  PROVE  IsRanking(board', ranking[r])
<1> DEFINE s == ranking[r]
<1>1. /\ s.kwh \in Partial(Home, Kwh) /\ Sorted(s)
  BY SessionType DEF RankCommit, IInv, TypeOK, RankTypeOK, Sessions
<1>2. board' = [u \in DOMAIN board \cup Owners(s) |->
                    IF u \in Owners(s) THEN Saved(s, u) ELSE board[u]]
  BY DEF RankCommit
<1>3. Undisturbed(s)
  OBVIOUS
<1> HIDE DEF s
<1>4. ASSUME NEW u \in Owners(s)
      PROVE  \E i \in DOMAIN s.order :
                /\ owner[s.order[i]] = u
                /\ board'[u].rank = i
                /\ board'[u].of = Cardinality(DOMAIN s.kwh)
                /\ board'[u].kwh = s.kwh[s.order[i]]
  <2>1. PICK i \in DOMAIN s.order : owner[s.order[i]] = u /\ Computed(s, u) = RowAt(s, i)
    BY <1>1, ComputedRow
  <2>2. board'[u] = Saved(s, u)
    BY <1>2
  <2>3. /\ board'[u].rank = RowAt(s, i).rank /\ board'[u].of = RowAt(s, i).of
        /\ board'[u].kwh = RowAt(s, i).kwh
    BY <1>1, <1>3, <2>1, <2>2, SavedAsComputed
  <2>4. /\ RowAt(s, i).rank = i /\ RowAt(s, i).of = Len(s.order)
        /\ RowAt(s, i).kwh = s.kwh[s.order[i]]
    BY DEF RowAt
  <2>5. Len(s.order) = Cardinality(DOMAIN s.kwh)
    BY <1>1, Positions
  <2>6. QED
    BY <2>1, <2>3, <2>4, <2>5
<1>5. Owners(s) \subseteq DOMAIN board'
  BY <1>2
<1>6. ASSUME NEW u \in Owners(s)
      PROVE  /\ board'[u].of = Cardinality(DOMAIN s.kwh)
             /\ \E h \in DOMAIN s.kwh : owner[h] = u /\ board'[u].kwh = s.kwh[h]
  BY <1>1, <1>4, Positions
<1>7. ASSUME NEW u \in Owners(s), NEW v \in Owners(s) \ {u}
      PROVE  /\ board'[u].rank # board'[v].rank
             /\ board'[u].rank < board'[v].rank => board'[u].kwh <= board'[v].kwh
  <2>1. PICK i \in DOMAIN s.order :
            owner[s.order[i]] = u /\ board'[u].rank = i /\ board'[u].kwh = s.kwh[s.order[i]]
    BY <1>4
  <2>2. PICK j \in DOMAIN s.order :
            owner[s.order[j]] = v /\ board'[v].rank = j /\ board'[v].kwh = s.kwh[s.order[j]]
    BY <1>4
  <2>3. i # j
    BY <2>1, <2>2
  <2>4. i < j => s.kwh[s.order[i]] <= s.kwh[s.order[j]]
    BY <1>1, Positions
  <2>5. QED
    BY <2>1, <2>2, <2>3, <2>4
<1>8. IsRanking(board', s)
  BY <1>5, <1>6, <1>7 DEF IsRanking
<1>9. QED
  BY <1>8 DEF s

\* Among the steps of the rankings, only a commit ends a session without a failure, and
\* only a failure counts as one.
LEMMA SessionSteps ==
  ASSUME IInv, [Next]_vars
  PROVE  /\ \A r \in Ranker : Commits(r) => RankCommit(r)
         /\ failed' # failed => \E r \in Ranker : RankFail(r)
<1>1. ranking \in [Ranker -> Session] /\ failed \in Nat
  BY DEF IInv, TypeOK, RankTypeOK
<1>2. CASE RankNext
  <2>1. ASSUME NEW h \in Home, NEW k \in Kwh, Meter(h, k)
        PROVE  failed' = failed /\ ranking' = ranking
    BY <2>1 DEF Meter
  <2>2. ASSUME NEW q \in Ranker, RankRead(q)
        PROVE  failed' = failed /\ \A r \in Ranker : ~Commits(r)
    <3>1. PICK s : s.at = "read" /\ ranking' = [ranking EXCEPT ![q] = s]
      BY <2>2 DEF RankRead
    <3>2. failed' = failed
      BY <2>2 DEF RankRead
    <3>3. ASSUME NEW r \in Ranker, Commits(r)
          PROVE  FALSE
      BY <1>1, <3>1, <3>3 DEF Commits
    <3>4. QED
      BY <3>2, <3>3
  <2>3. ASSUME NEW q \in Ranker, RankCommit(q)
        PROVE  failed' = failed /\ \A r \in Ranker : Commits(r) => r = q
    <3>1. ranking' = [ranking EXCEPT ![q] = Asleep] /\ failed' = failed
      BY <2>3 DEF RankCommit
    <3>2. ASSUME NEW r \in Ranker, Commits(r), r # q
          PROVE  FALSE
      BY <1>1, <3>1, <3>2 DEF Commits
    <3>3. QED
      BY <3>1, <3>2
  <2>4. ASSUME NEW q \in Ranker, RankFail(q)
        PROVE  failed' # failed
    BY <1>1, <2>4 DEF RankFail
  <2>5. \A r \in Ranker : Commits(r) => failed' = failed /\ ranking' # ranking
    BY DEF Commits
  <2>6. QED
    BY <1>2, <2>1, <2>2, <2>3, <2>4, <2>5 DEF RankNext
<1>3. CASE UNCHANGED rankVars
  BY <1>3 DEF rankVars, Commits
<1>4. RankNext \/ UNCHANGED rankVars
  BY DEF Next, Silence, ClassifyRead, ClassifyCommit, AssignRead, AssignCommit, vars
<1>5. QED
  BY <1>2, <1>3, <1>4

\* A computation of a period that nobody overlapped leaves the board a ranking of what it
\* read, whatever mixed rows earlier ones left there (compute_rankings).
THEOREM BoardIsHealed == Spec => BoardHeals
<1>1. IInv /\ [Next]_vars =>
        [\A r \in Ranker :
            Commits(r) /\ Undisturbed(ranking[r]) => IsRanking(board', ranking[r])]_rankVars
  <2> SUFFICES ASSUME IInv, [Next]_vars, NEW r \in Ranker, Commits(r), Undisturbed(ranking[r])
               PROVE  IsRanking(board', ranking[r])
    OBVIOUS
  <2>1. RankCommit(r)
    BY SessionSteps
  <2>2. QED
    BY <2>1, CommitRanks
<1>2. QED
  BY <1>1, Invariance, PTL DEF Spec, BoardHeals

\* Why the commit of a computation fails.
LEMMA FailureCauses ==
  ASSUME IInv, NEW r \in Ranker, RankFail(r), Undisturbed(ranking[r])
  PROVE  \E g, h \in DOMAIN total :
            g # h /\ owner[g] = owner[h] /\ owner[g] \notin DOMAIN board
<1> DEFINE s == ranking[r]
<1>1. /\ s.kwh \in Partial(Home, Kwh) /\ Sorted(s) /\ DOMAIN s.kwh \subseteq DOMAIN total
  BY SessionType DEF RankFail, IInv, TypeOK, RankTypeOK, Sessions
<1>2. Collides(s) /\ Undisturbed(s)
  BY DEF RankFail
<1> HIDE DEF s
<1>3. \A i \in Inserts(s) : i \in DOMAIN s.order /\ owner[s.order[i]] \notin DOMAIN board
  BY <1>2 DEF Inserts, Undisturbed, LoadedRows, Owners
<1>4. PICK i, j \in Inserts(s) : i # j /\ owner[s.order[i]] = owner[s.order[j]]
  BY <1>2, <1>3 DEF Collides
<1>5. /\ s.order[i] \in DOMAIN total /\ s.order[j] \in DOMAIN total
      /\ s.order[i] # s.order[j]
  BY <1>1, <1>3, <1>4, Positions
<1>6. QED
  BY <1>3, <1>4, <1>5

\* A computation fails only when another inserted a row since it read, or when it meets
\* two homes of a user who has no row (compute_rankings, uq_ranking).
THEOREM FailuresAreExplained == Spec => FailureExplained
<1>1. IInv /\ [Next]_vars =>
        [failed' # failed =>
            \E r \in Ranker :
                /\ ranking[r].at = "read" /\ ranking'[r].at = "idle"
                /\ \/ ~Undisturbed(ranking[r])
                   \/ \E g, h \in DOMAIN total :
                        g # h /\ owner[g] = owner[h] /\ owner[g] \notin DOMAIN board]_rankVars
  <2> SUFFICES ASSUME IInv, [Next]_vars, failed' # failed
               PROVE  \E r \in Ranker :
                        /\ ranking[r].at = "read" /\ ranking'[r].at = "idle"
                        /\ \/ ~Undisturbed(ranking[r])
                           \/ \E g, h \in DOMAIN total :
                                g # h /\ owner[g] = owner[h] /\ owner[g] \notin DOMAIN board
    OBVIOUS
  <2>1. PICK r \in Ranker : RankFail(r)
    BY SessionSteps
  <2>2. ranking[r].at = "read" /\ ranking'[r].at = "idle"
    BY <2>1 DEF RankFail, Asleep, IInv, TypeOK, RankTypeOK
  <2>3. QED
    BY <2>1, <2>2, FailureCauses
<1>2. QED
  BY <1>1, Invariance, PTL DEF Spec, FailureExplained

-----------------------------------------------------------------------------
(* The personas after a commit *)

\* What a classification that nobody overlapped leaves: its targets.
LEMMA CommitSettles ==
  ASSUME IInv, NEW c \in Classifier, ClassifyCommit(c),
         classifying[c].loaded = persona, classifying[c].cohort = Engaged
  PROVE  /\ \A u \in User : persona'[u] = "Disengaged" <=> u \notin Engaged
         /\ Cardinality(Engaged) \in 1..(MinCohort - 1) =>
               \E u \in Engaged : persona'[u] = "High Consumer"
<1>1. Engaged \subseteq User
  BY DEF IInv, TypeOK, Engaged
<1>2. \A u \in User : persona'[u] = classifying[c].target[u]
  BY DEF ClassifyCommit, Stored
<1>3. /\ \A u \in User : classifying[c].target[u] = "Disengaged" <=> u \notin Engaged
      /\ Cardinality(Engaged) \in 1..(MinCohort - 1) =>
             \E u \in Engaged : classifying[c].target[u] = "High Consumer"
  BY DEF IInv, Cohorts, ClassifyCommit
<1>4. QED
  BY <1>1, <1>2, <1>3

\* A classification that nobody overlapped settles everybody: Disengaged are exactly the
\* users who are silent or lack ranked days now, and a cohort too small to cluster has a
\* worst member (classify_all_users, _percentile_assign).
THEOREM ClassificationsSettle == Spec => ClassificationSettles
<1>1. ASSUME IInv, [Next]_vars, NEW c \in Classifier,
             classifying[c].at = "read", classifying'[c].at = "idle"
      PROVE  ClassifyCommit(c)
  <2>1. classifying \in [Classifier -> Class]
    BY <1>1 DEF IInv, TypeOK
  <2>2. ASSUME NEW d \in Classifier, ClassifyRead(d)
        PROVE  FALSE
    <3>1. PICK s : s.at = "read" /\ classifying' = [classifying EXCEPT ![d] = s]
      BY <2>2 DEF ClassifyRead
    <3>2. QED
      BY <1>1, <2>1, <3>1
  <2>3. ASSUME NEW d \in Classifier, ClassifyCommit(d)
        PROVE  d = c
    BY <1>1, <2>1, <2>3 DEF ClassifyCommit
  <2>4. classifying' # classifying
    BY <1>1
  <2>5. QED
    BY <1>1, <2>2, <2>3, <2>4
       DEF Next, personaVars, Silence, AssignRead, AssignCommit, vars
<1>2. IInv /\ [Next]_vars =>
        [\A c \in Classifier :
            LET s == classifying[c] IN
            s.at = "read" /\ classifying'[c].at = "idle" /\ s.loaded = persona /\ s.cohort = Engaged
            => /\ \A u \in User : persona'[u] = "Disengaged" <=> u \notin Engaged
               /\ Cardinality(Engaged) \in 1..(MinCohort - 1) =>
                     \E u \in Engaged : persona'[u] = "High Consumer"]_vars
  BY <1>1, CommitSettles
<1>3. QED
  BY <1>2, Invariance, PTL DEF Spec, ClassificationSettles

=============================================================================
