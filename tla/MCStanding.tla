----------------------------- MODULE MCStanding -----------------------------
(* Rankings and personas of a small community, for TLC. *)
EXTENDS Personas

\* Nothing distinguishes users, homes or sessions of a kind.
Symmetric ==
    Permutations(User) \cup Permutations(Home)
        \cup Permutations(Ranker) \cup Permutations(Classifier)
=============================================================================
