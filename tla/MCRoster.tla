------------------------------ MODULE MCRoster ------------------------------
(* Roster for TLC: requests, captures and teams are interchangeable. *)
EXTENDS Roster, TLC

Symmetry == Permutations(Captures) \cup Permutations(Adds) \cup Permutations(Teams)
=============================================================================
