----------------------------- MODULE MCAdmission -----------------------------
(* Admission for TLC: requests, and users, are interchangeable. *)
EXTENDS Admission, TLC

Symmetry == Permutations(Request) \cup Permutations(User)
==============================================================================
