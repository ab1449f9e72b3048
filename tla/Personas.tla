------------------------------ MODULE Personas ------------------------------
(***************************************************************************)
(* The personas of users (persona_classifier.py): once a week, on every    *)
(* bootstrap and when an admin asks, classify_all_users puts every user in *)
(* one of five personas, from the rankings of the last 30 days among       *)
(* others, and keeps a record of each run.  An admin may also assign one   *)
(* (routers/admin.py).  A session reads in the snapshot of its first       *)
(* query and writes persona_id only where it is not what it loaded.        *)
(*                                                                         *)
(* The order of users by their scores, the clusters k-means finds and the  *)
(* trends are inputs.                                                      *)
(***************************************************************************)
EXTENDS Rankings

CONSTANTS
    NoPersona,
    Classifier,        \* sessions that may classify at one time
    MinDays,           \* MIN_RANKING_DAYS (2)
    MinCohort,         \* MIN_COHORT_FOR_CLUSTERING (12)
    MaxTurns,          \* bound: classifications, requests of admins and changes of
                       \* who is active
    MaxMixed           \* bound: steps of the rankings in histories with turns

ASSUME ThresholdAssumption == MinDays \in Nat \ {0} /\ MinCohort \in Nat

VARIABLES
    earlier,      \* the ranked days a user has besides the modelled one
    active,       \* users with a reading in the last 14 days
    persona,      \* users.persona_id
    record,       \* the latest persona_cluster_assignments of the user
    classifying,  \* the sessions of classify_all_users
    request,      \* the admin's assignment under way
    touched,      \* history: users whose persona somebody else wrote beside or after
                  \* the classification on record
    turns

personaVars == <<earlier, active, persona, record, classifying, request, touched, turns>>
vars == <<rankVars, personaVars>>

EngagedPersona == <<"Eco Champion", "Active Improver", "Steady User", "High Consumer">>
Persona == Range(EngagedPersona) \cup {"Disengaged"}

\* loaded - the personas the users had when they were read
\* cohort - the engaged users (n_samples)
\* target - the personas of the session's objects at its commit
Class == [at : {"idle", "read"}, loaded : [User -> Persona \cup {NoPersona}],
          cohort : SUBSET User, target : [User -> Persona \cup {NoPersona}]]
NoOne == [u \in User |-> NoPersona]
NotClassifying == [at |-> "idle", loaded |-> NoOne, cohort |-> {}, target |-> NoOne]

TypeOK ==
    /\ RankTypeOK
    /\ earlier \in [User -> 0..MinDays]
    /\ active \subseteq User /\ touched \subseteq User
    /\ persona \in [User -> Persona \cup {NoPersona}]
    /\ record \in [User -> Persona \cup {NoPersona}]
    /\ classifying \in [Classifier -> Class]
    /\ request = <<>> \/ request \in (User \X Persona \X (Persona \cup {NoPersona}))
    /\ turns \in Nat

Init ==
    /\ RankInit
    /\ \E days \in {MinDays - 1, MinDays} : earlier = [u \in User |-> days]
    /\ active = User
    /\ persona = NoOne /\ record = NoOne
    /\ classifying = [c \in Classifier |-> NotClassifying]
    /\ request = <<>> /\ touched = {}
    /\ turns = 0

-----------------------------------------------------------------------------
(* Helpers *)

\* _extract_features: enough ranked days, and a reading not too long ago.
Engaged == {u \in active : earlier[u] + Cardinality({u} \cap DOMAIN board) >= MinDays}

\* _percentile_assign: the user at position i (from 0) of n by combined score.
\* Positions are percentiles of n - 1, of 1 when n = 1.
Band(i, n, improving) ==
    LET span == Max({n - 1, 1})
        reaches(p) == 100 * i >= p * span
    IN  IF reaches(80) THEN "Eco Champion"
        ELSE IF reaches(55) /\ improving THEN "Active Improver"
        ELSE IF 100 * i <= 24 * span THEN "High Consumer"
        ELSE "Steady User"

\* The personas that bands give to the users of a cohort in the order of their scores,
\* the lowest first, and to any order of them.
Banded(cohort, s, rising) ==
    [u \in cohort |-> Band(CHOOSE i \in 0..(Len(s) - 1) : s[i + 1] = u, Len(s), u \in rising)]

ByBand(cohort) ==
    {Banded(cohort, s, rising) : s \in SetToSeqs(cohort), rising \in SUBSET cohort}

\* _kmeans_assign: clusters by the rank of their composite score; the second is only
\* called improving when its mean trend is.
Clustered(cohort, rank, improving) ==
    [u \in cohort |-> IF rank[u] = 2 /\ ~improving THEN "Steady User" ELSE EngagedPersona[rank[u]]]

ByCluster(cohort) ==
    {Clustered(cohort, rank, improving) :
        rank \in [cohort -> 1..Min({4, Cardinality(cohort)})], improving \in BOOLEAN}

\* Small cohorts, and runs whose clustering raises, fall back to bands.
Assignments(cohort) ==
    IF Cardinality(cohort) >= MinCohort THEN ByCluster(cohort) \cup ByBand(cohort) ELSE ByBand(cohort)

\* Mutant of Recorded: the record is taken before the assignment.
RecordedBefore(c) == classifying[c].loaded

\* The personas a session's assignment rows hold: those of its objects.
Recorded(c) == classifying[c].target

\* Mutant of Stored: a user who has a persona keeps it.
StoredOnce(c) ==
    [u \in User |-> IF persona[u] = NoPersona THEN classifying[c].target[u] ELSE persona[u]]

\* users.persona_id after the commit.
Stored(c) ==
    [u \in User |-> IF classifying[c].target[u] # classifying[c].loaded[u]
                    THEN classifying[c].target[u] ELSE persona[u]]

-----------------------------------------------------------------------------
(* Actions *)

Turn == turns < MaxTurns /\ steps <= MaxMixed /\ turns' = turns + 1

\* A user sends no reading for 14 days, or sends one again.
Silence(u) ==
    /\ Turn
    /\ active' = IF u \in active THEN active \ {u} ELSE active \cup {u}
    /\ UNCHANGED <<rankVars, earlier, persona, record, classifying, request, touched>>

\* classify_all_users up to its commit: everybody not engaged is Disengaged.
ClassifyRead(c) ==
    /\ classifying[c].at = "idle"
    /\ Turn
    /\ \E to \in Assignments(Engaged) :
          classifying' = [classifying EXCEPT ![c] =
            [at |-> "read", loaded |-> persona, cohort |-> Engaged,
             target |-> [u \in User |-> IF u \in Engaged THEN to[u] ELSE "Disengaged"]]]
    /\ UNCHANGED <<rankVars, earlier, active, persona, record, request, touched>>

\* Its commit, of the personas and the record of the run.
ClassifyCommit(c) ==
    /\ classifying[c].at = "read"
    /\ persona' = Stored(c)
    /\ record' = Recorded(c)
    /\ touched' = {u \in User : persona[u] # classifying[c].loaded[u]}
    /\ classifying' = [classifying EXCEPT ![c] = NotClassifying]
    /\ UNCHANGED <<rankVars, earlier, active, request, turns>>

\* assign_persona reads the user, then writes it.
AssignRead(u, p) ==
    /\ request = <<>>
    /\ Turn
    /\ request' = <<u, p, persona[u]>>
    /\ UNCHANGED <<rankVars, earlier, active, persona, record, classifying, touched>>

AssignCommit ==
    /\ request # <<>>
    /\ LET u == request[1]  p == request[2]  loaded == request[3] IN
          IF p = loaded THEN UNCHANGED <<persona, touched>>
          ELSE persona' = [persona EXCEPT ![u] = p] /\ touched' = touched \cup {u}
    /\ request' = <<>>
    /\ UNCHANGED <<rankVars, earlier, active, record, classifying, turns>>

Next ==
    \/ RankNext /\ (turns > 0 => steps' <= MaxMixed) /\ UNCHANGED personaVars
    \/ \E u \in User : Silence(u)
    \/ \E c \in Classifier : ClassifyRead(c) \/ ClassifyCommit(c)
    \/ \E u \in User, p \in Persona : AssignRead(u, p)
    \/ AssignCommit

Spec == Init /\ [][Next]_vars

-----------------------------------------------------------------------------
(* Properties *)

\* The research record says which persona the run gave each user.  It is the one the
\* user has, unless an admin or another classification wrote the user between that run's
\* reading and its commit, or an admin did later.
RecordAgrees == \A u \in User : record[u] # NoPersona /\ u \notin touched => persona[u] = record[u]

\* A classification nobody overlapped settles everybody: Disengaged are exactly the
\* users who are silent or have too few ranked days now, whatever persona they had, and
\* a cohort that is too small to cluster has a worst member, be it its only one.  This is
\* the rule of persona_classifier.py; the tests have another in a copy of their own.
ClassificationSettles ==
    [][\A c \in Classifier :
        LET s == classifying[c] IN
        s.at = "read" /\ classifying'[c].at = "idle" /\ s.loaded = persona /\ s.cohort = Engaged
        => /\ \A u \in User : persona'[u] = "Disengaged" <=> u \notin Engaged
           /\ Cardinality(Engaged) \in 1..(MinCohort - 1) =>
                 \E u \in Engaged : persona'[u] = "High Consumer"]_vars
=============================================================================
