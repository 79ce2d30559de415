--------------------------- MODULE Authenticator ---------------------------
(***************************************************************************)
(* What lib/hmacsecret promises of a Device, whichever binding implements  *)
(* it: CreateCredential makes a credential nobody had before, Derive       *)
(* answers with HMAC(credential, salt) of the credential and the salt that *)
(* were asked for, CreateAndDerive does both for the credential it made.   *)
(* A secret is written as the pair of the two.  A call that fails may have *)
(* made a credential all the same.                                         *)
(***************************************************************************)
EXTENDS Integers

CONSTANTS
    Proc,           \* callers
    Cred,           \* credential ids
    Rp,             \* relying party ids, as the caller gives them
    Salt,           \* salts, as the caller gives them
    Checked,        \* TRUE: a credential is returned only if it can derive
    NULL

(* A credential, and whether the hmac-secret extension is enabled for it.  *)
Credential == [id : Cred, rp : Rp, hmac : BOOLEAN]

(* A NULL salt of create_derive asks for a random one. *)
Request ==
    [op : {"create"}, rp : Rp] \cup
    [op : {"derive"}, rp : Rp, cred : Cred \cup {NULL}, salt : Salt, presence : BOOLEAN] \cup
    [op : {"create_derive"}, rp : Rp, salt : Salt \cup {NULL}]

VARIABLES
    kept,           \* the credentials that exist
    request,        \* per caller: what it asked for, NULL between calls
    mine,           \* per caller: the credential its call made
    answer          \* per caller: the answer, NULL while there is none

vars == <<kept, request, mine, answer>>

Init ==
    /\ kept = {}
    /\ request = [p \in Proc |-> NULL]
    /\ mine = [p \in Proc |-> NULL]
    /\ answer = [p \in Proc |-> NULL]

Derivable(c, rp) == [id |-> c, rp |-> rp, hmac |-> TRUE] \in kept

Secret(c, s) == <<"secret", c, s, <<c, s>>>>

Promised(q, own) ==
    {<<"failed">>}
    \cup {<<"credential", c>> : c \in {d \in {own} \ {NULL} :
            q.op = "create" /\ (Checked => Derivable(d, q.rp))}}
    \cup {Secret(c, q.salt) : c \in {d \in Cred :
            q.op = "derive" /\ d = q.cred /\ Derivable(d, q.rp)}}
    \cup {Secret(x[1], x[2]) : x \in {y \in Cred \X Salt :
            /\ q.op = "create_derive" /\ y[1] = own /\ Derivable(own, q.rp)
            /\ q.salt \in {NULL, y[2]}}}

Ask(p) ==
    /\ request[p] = NULL
    /\ request'[p] \in Request
    /\ request' = [request EXCEPT ![p] = request'[p]]
    /\ UNCHANGED <<kept, mine, answer>>

Make(p) ==
    /\ request[p] # NULL
    /\ request[p].op \in {"create", "create_derive"}
    /\ mine[p] = NULL /\ answer[p] = NULL
    /\ \E c \in Cred, on \in BOOLEAN :
          /\ \A k \in kept : k.id # c
          /\ kept' = kept \cup {[id |-> c, rp |-> request[p].rp, hmac |-> on]}
          /\ mine' = [mine EXCEPT ![p] = c]
    /\ UNCHANGED <<request, answer>>

Reply(p) ==
    /\ request[p] # NULL
    /\ answer[p] = NULL
    /\ answer'[p] \in Promised(request[p], mine[p])
    /\ answer' = [answer EXCEPT ![p] = answer'[p]]
    /\ UNCHANGED <<kept, request, mine>>

Leave(p) ==
    /\ answer[p] # NULL
    /\ request' = [request EXCEPT ![p] = NULL]
    /\ mine' = [mine EXCEPT ![p] = NULL]
    /\ answer' = [answer EXCEPT ![p] = NULL]
    /\ UNCHANGED kept

Next == \E p \in Proc : Ask(p) \/ Make(p) \/ Reply(p) \/ Leave(p)

Spec == Init /\ [][Next]_vars
=============================================================================
