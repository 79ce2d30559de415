------------------------------ MODULE Keyring ------------------------------
(***************************************************************************)
(* What the alias API of pkg/secrets promises, with the authenticators,    *)
(* the store, the prompts and the crashes taken away: an alias is bound to *)
(* one secret until it is deleted, a secret is bound to one alias once,    *)
(* and only secrets that were bound are ever handed out.                   *)
(***************************************************************************)
CONSTANTS Alias, Secret, NULL

VARIABLES
    bound,      \* alias -> its secret, NULL where there is none
    used,       \* every (alias, secret) that was ever bound
    answers     \* every (alias, secret) that was ever handed to a caller

vars == <<bound, used, answers>>

Init ==
    /\ bound = [a \in Alias |-> NULL]
    /\ used = {}
    /\ answers = {}

Bind(a, s) ==
    /\ bound[a] = NULL
    /\ \A u \in used : u[2] # s
    /\ bound' = [bound EXCEPT ![a] = s]
    /\ used' = used \cup {<<a, s>>}
    /\ UNCHANGED answers

Unbind(a) ==
    /\ bound[a] # NULL
    /\ bound' = [bound EXCEPT ![a] = NULL]
    /\ UNCHANGED <<used, answers>>

(* A slow call may still hand out the secret of an alias deleted meanwhile. *)
Answer(a, s) ==
    /\ <<a, s>> \in used
    /\ answers' = answers \cup {<<a, s>>}
    /\ UNCHANGED <<bound, used>>

Next == \E a \in Alias : Unbind(a) \/ \E s \in Secret : Bind(a, s) \/ Answer(a, s)

Spec == Init /\ [][Next]_vars
=============================================================================
