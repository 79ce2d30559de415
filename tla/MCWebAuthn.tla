---------------------------- MODULE MCWebAuthn ----------------------------
(* Instances of WebAuthn for TLC. *)
EXTENDS WebAuthn, TLC

Symmetry == Permutations(Proc) \cup Permutations(Addr) \cup Permutations(Cred)
=============================================================================
