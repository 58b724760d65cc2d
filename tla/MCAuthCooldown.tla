--------------------------- MODULE MCAuthCooldown --------------------------
(* Small instances of one credential's cooldown life for TLC. *)
EXTENDS AuthCooldown, TLC

\* Models are interchangeable: no operator orders or names them.
ModelSymmetry == Permutations(Models)
=============================================================================
