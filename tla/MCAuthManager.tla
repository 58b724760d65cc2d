----------------------------- MODULE MCAuthManager --------------------------
(* Small instances of the manager's goroutines for TLC. *)
EXTENDS AuthManager, TLC

RequestSymmetry == Permutations(Requests)
=============================================================================
