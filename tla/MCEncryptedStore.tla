-------------------------- MODULE MCEncryptedStore --------------------------
(***************************************************************************)
(* EncryptedStore for TLC: goroutines, instances and keys as model values. *)
(***************************************************************************)
EXTENDS EncryptedStore, TLC

(* Goroutines, instances and KEKs are interchangeable; no safety property  *)
(* names one of them.                                                      *)
Symmetric == Permutations(Proc) \cup Permutations(Inst) \cup Permutations(Kek)
=============================================================================
