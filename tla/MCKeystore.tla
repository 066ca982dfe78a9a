----------------------------- MODULE MCKeystore -----------------------------
(* Instances of Keystore for TLC. *)
EXTENDS Keystore, TLC

\* Passphrases are only compared with one another, and so are processes.
Symmetry == Permutations(Pass) \cup Permutations(Proc)
=============================================================================
