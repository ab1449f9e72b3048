------------------------------ MODULE Rankings ------------------------------
(***************************************************************************)
(* The community rankings of one period (scheduler.py, compute_rankings):  *)
(* the homes that used energy in the period, ordered by their use, and one *)
(* row of energy_rankings for the user of each.  The nightly job, the      *)
(* start-up backfill of a new owner, the bootstrap container and an        *)
(* admin's recompute (routers/admin.py) run it, and nothing keeps them     *)
(* apart.  A run is one session: it reads in the snapshot of its first     *)
(* query, and commits all its rows or none.                                *)
(*                                                                         *)
(* Rows are found by user, homes are what is ranked, and a user may have   *)
(* several homes (POST /homes; a deactivated home keeps its totals).  The  *)
(* columns that follow from the row's position or from the home's use are  *)
(* left out, and so are the scores, which also follow from goals and       *)
(* decisions.                                                              *)
(***************************************************************************)
EXTENDS Naturals, FiniteSetsExt, SequencesExt

CONSTANTS
    User, Home,
    Ranker,        \* sessions that may compute the period at one time
    MaxKwh,        \* a home's use in the period, in whole units
    MaxSteps       \* bound: computations, and writes of the totals they read

ASSUME CommunityAssumption == IsFiniteSet(User) /\ IsFiniteSet(Home) /\ MaxKwh \in Nat

VARIABLES
    owner,     \* homes.user_id
    total,     \* the homes with totals in the period, and their use
    board,     \* the users ranked, and the columns of their rows
    ranking,   \* the sessions of compute_rankings
    failed,    \* computations that ended in an IntegrityError
    steps

rankVars == <<owner, total, board, ranking, failed, steps>>

Kwh == 1..MaxKwh

\* A partial function from S to T.
Partial(S, T) == UNION {[D -> T] : D \in SUBSET S}

\* percentile is (of - rank) / max(of - 1, 1).
Row == [home : Home, rank : 1..Cardinality(Home), of : 1..Cardinality(Home), kwh : Kwh]

\* What a total and a board may be.
Uses == Partial(Home, Kwh)
Boards == Partial(User, Row)

\* at     - idle, or read: the snapshot was taken and the rows are not committed
\* order  - the homes of the period, the one that used least first
\* kwh    - their use
\* loaded - the rows that exist for their users, by user
Session == [at : {"idle", "read"}, order : Seq(Home), kwh : Uses,
            loaded : Boards]

RankTypeOK ==
    /\ owner \in [Home -> User]
    /\ total \in Uses
    /\ board \in Boards
    /\ ranking \in [Ranker -> Session]
    /\ {failed, steps} \subseteq Nat

NoRows == [x \in {} |-> x]
Asleep == [at |-> "idle", order |-> <<>>, kwh |-> NoRows, loaded |-> NoRows]

RankInit ==
    /\ owner \in [Home -> User]
    /\ total = NoRows /\ board = NoRows
    /\ ranking = [r \in Ranker |-> Asleep]
    /\ failed = 0 /\ steps = 0

-----------------------------------------------------------------------------
(* Helpers *)

\* ORDER BY total_kwh: homes that used the same come in any order.
Orders == {s \in SetToSeqs(DOMAIN total) :
              \A i \in DOMAIN s : \A j \in 1..(i - 1) : total[s[j]] <= total[s[i]]}

Owners(s) == {owner[s.order[i]] : i \in DOMAIN s.order}

\* The positions of a user's homes, and those of users that have no row yet.
Places(s, u) == {i \in DOMAIN s.order : owner[s.order[i]] = u}
Inserts(s) == {i \in DOMAIN s.order : owner[s.order[i]] \notin DOMAIN s.loaded}

\* Mutant of RowAt: positions are counted from 0.
RowAtZero(s, i) ==
    [home |-> s.order[i], rank |-> i - 1, of |-> Len(s.order), kwh |-> s.kwh[s.order[i]]]

RowAt(s, i) == [home |-> s.order[i], rank |-> i, of |-> Len(s.order), kwh |-> s.kwh[s.order[i]]]

\* Mutant of LoadedRows: rows that exist are not looked up.
LoadedNothing(users) == NoRows

\* Rows that exist for the users of the period's homes.
LoadedRows(users) == [u \in DOMAIN board \cap users |-> board[u]]

\* uq_ranking holds one row for a user: a second home of a user without a row fails,
\* and so does a row that another session inserted since.
Collides(s) ==
    \/ \E i, j \in Inserts(s) : i # j /\ owner[s.order[i]] = owner[s.order[j]]
    \/ \E i \in Inserts(s) : owner[s.order[i]] \in DOMAIN board

\* What the session's object of a user ends with: of several homes the last one counts.
Computed(s, u) == RowAt(s, Max(Places(s, u)))

\* Mutant of Saved: a row is refreshed without the number of homes.
SavedStale(s, u) ==
    IF u \in DOMAIN s.loaded
    THEN [Computed(s, u) EXCEPT !.home = board[u].home, !.of = board[u].of]
    ELSE Computed(s, u)

\* The row of a user after the commit: the UPDATE names the columns whose value is not
\* the one loaded, and never home_id.
Saved(s, u) ==
    IF u \in DOMAIN s.loaded
    THEN [c \in {"home", "rank", "of", "kwh"} |->
            IF c = "home" \/ Computed(s, u)[c] = s.loaded[u][c] THEN board[u][c]
            ELSE Computed(s, u)[c]]
    ELSE Computed(s, u)

-----------------------------------------------------------------------------
(* Actions *)

\* The aggregation writes a home's total of a day of the period (Aggregation.tla).
Meter(h, k) ==
    /\ steps < MaxSteps /\ steps' = steps + 1
    /\ h \in DOMAIN total => total[h] # k
    /\ total' = [x \in DOMAIN total \cup {h} |-> IF x = h THEN k ELSE total[x]]
    /\ UNCHANGED <<owner, board, ranking, failed>>

\* The queries of compute_rankings and its loop over the homes.
RankRead(r) ==
    /\ ranking[r].at = "idle"
    /\ steps < MaxSteps /\ steps' = steps + 1
    /\ DOMAIN total # {}                    \* a period without totals writes nothing
    /\ \E order \in Orders :
          ranking' = [ranking EXCEPT ![r] =
            [at |-> "read", order |-> order, kwh |-> total,
             loaded |-> LoadedRows({owner[order[i]] : i \in DOMAIN order})]]
    /\ UNCHANGED <<owner, total, board, failed>>

\* Its commit.
RankCommit(r) ==
    LET s == ranking[r] IN
    /\ s.at = "read" /\ ~Collides(s)
    /\ board' = [u \in DOMAIN board \cup Owners(s) |->
                    IF u \in Owners(s) THEN Saved(s, u) ELSE board[u]]
    /\ ranking' = [ranking EXCEPT ![r] = Asleep]
    /\ UNCHANGED <<owner, total, failed, steps>>

\* Its commit fails and takes the whole period with it.
RankFail(r) ==
    /\ ranking[r].at = "read" /\ Collides(ranking[r])
    /\ failed' = failed + 1
    /\ ranking' = [ranking EXCEPT ![r] = Asleep]
    /\ UNCHANGED <<owner, total, board, steps>>

RankNext ==
    \/ \E h \in Home, k \in Kwh : Meter(h, k)
    \/ \E r \in Ranker : RankRead(r) \/ RankCommit(r) \/ RankFail(r)

-----------------------------------------------------------------------------
(* Properties *)

\* The rows a session loaded are still what the table holds for its users.
Undisturbed(s) == s.loaded = LoadedRows(Owners(s))

\* The rows of a session's users are a ranking of the homes it read: each row carries
\* the number of homes and the use of one home of its user, no position is given twice,
\* and less use stands before more.
IsRanking(rows, s) ==
    /\ Owners(s) \subseteq DOMAIN rows
    /\ \A u \in Owners(s) :
          /\ rows[u].of = Cardinality(DOMAIN s.kwh)
          /\ \E h \in DOMAIN s.kwh : owner[h] = u /\ rows[u].kwh = s.kwh[h]
          /\ \A v \in Owners(s) \ {u} :
                /\ rows[u].rank # rows[v].rank
                /\ rows[u].rank < rows[v].rank => rows[u].kwh <= rows[v].kwh

Commits(r) == ranking[r].at = "read" /\ ranking'[r].at = "idle" /\ failed' = failed

\* A computation that nobody overlapped leaves the board a ranking of what it read,
\* whatever earlier ones left there: overlapping computations each write only the
\* columns they see changed and may mix their rows, and the next one heals the board.
BoardHeals ==
    [][\A r \in Ranker : Commits(r) /\ Undisturbed(ranking[r]) => IsRanking(board', ranking[r])]_rankVars

\* A computation fails only when another inserted a row since it read, or when it meets
\* two homes of a user who has no row; the second is not healed by running it again.
FailureExplained ==
    [][failed' # failed =>
        \E r \in Ranker :
            /\ ranking[r].at = "read" /\ ranking'[r].at = "idle"
            /\ \/ ~Undisturbed(ranking[r])
               \/ \E g, h \in DOMAIN total :
                     g # h /\ owner[g] = owner[h] /\ owner[g] \notin DOMAIN board]_rankVars
=============================================================================
