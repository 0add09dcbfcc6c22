------------------------ MODULE MCContributionService ------------------------
(* Instances of ContributionService for TLC. *)
EXTENDS ContributionService, TLC

\* Requests and users differ in nothing but their names.
Symmetry == Permutations(Requests) \cup Permutations(Users)
=============================================================================
