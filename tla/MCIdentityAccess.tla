-------------------------- MODULE MCIdentityAccess --------------------------
(* IdentityAccess for TLC: ids, emails, calls and clients are interchangeable. *)
EXTENDS IdentityAccess, TLC

Symmetry ==
  Permutations(OrgIds) \cup Permutations(UserIds) \cup Permutations(Emails)
    \cup Permutations(Calls) \cup Permutations(Clients)
=============================================================================
