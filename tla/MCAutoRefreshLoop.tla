--------------------------- MODULE MCAutoRefreshLoop ------------------------
(* Small instances of the token refresh loop for TLC. *)
EXTENDS AutoRefreshLoop, TLC

AuthSymmetry == Permutations(Auths)
WorkerSymmetry == Permutations(Workers)
=============================================================================
