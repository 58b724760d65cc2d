--------------------------- MODULE MCModelRegistry --------------------------
(* Small instances of the model registry for TLC. *)
EXTENDS ModelRegistry, TLC

\* Clients are interchangeable: no operator orders or names them.
ClientSymmetry == Permutations(Clients)
=============================================================================
