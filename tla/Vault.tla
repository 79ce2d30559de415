------------------------------- MODULE Vault -------------------------------
(***************************************************************************)
(* What an encrypted store promises its callers, with the cryptography,    *)
(* the in-memory caches, the goroutines and the crashes taken away: one    *)
(* current key-encryption key, the number of times it has been set, and a  *)
(* map from alias to record that insertions and deletions alone change.    *)
(* lib/store/encrypted.go and lib/store/store.go declare this interface.   *)
(***************************************************************************)
EXTENDS Naturals

CONSTANTS Alias, Kek, Rec, NULL

VARIABLES
    kek,        \* the KEK that opens the vault; NULL before Initialize
    version,    \* how many times the KEK has been set
    contents    \* alias -> record, NULL where there is none

vars == <<kek, version, contents>>

Init ==
    /\ kek = NULL
    /\ version = 0
    /\ contents = [a \in Alias |-> NULL]

(* A vault is created once, empty. *)
Create(k) ==
    /\ kek = NULL
    /\ kek' = k
    /\ version' = 1
    /\ UNCHANGED contents

(* Rotation changes the key and not one record. *)
Rotate(k) ==
    /\ kek # NULL
    /\ kek' = k
    /\ version' = version + 1
    /\ UNCHANGED contents

(* Put inserts, it never overwrites. *)
Put(a, r) ==
    /\ kek # NULL
    /\ contents[a] = NULL
    /\ contents' = [contents EXCEPT ![a] = r]
    /\ UNCHANGED <<kek, version>>

Delete(a) ==
    /\ contents[a] # NULL
    /\ contents' = [contents EXCEPT ![a] = NULL]
    /\ UNCHANGED <<kek, version>>

Next ==
    \/ \E k \in Kek : Create(k) \/ Rotate(k)
    \/ \E a \in Alias : Delete(a) \/ \E r \in Rec : Put(a, r)

Spec == Init /\ [][Next]_vars
=============================================================================
