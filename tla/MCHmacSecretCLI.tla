-------------------------- MODULE MCHmacSecretCLI --------------------------
(* Instances of HmacSecretCLI for TLC. *)
EXTENDS HmacSecretCLI

(* Credentials are interchangeable. *)
Symmetric == Permutations(Cred)
=============================================================================
