--------------------------- MODULE LibfidoDevice ---------------------------
(***************************************************************************)
(* The device layer over libfido2: Device of lib/hmacsecret/device.go and  *)
(* lib/hmacsecret/hmacsecret.go, used by goroutines (Proc).  A Device is a *)
(* path.  Nothing stays open: the FIDO2 check and the operation after it   *)
(* each open the path again and meet whatever is plugged in there at that  *)
(* moment.  Authenticators are plugged and unplugged at any time, also in  *)
(* the middle of an operation.                                             *)
(***************************************************************************)
EXTENDS Integers

CONSTANTS
    Proc,           \* goroutines
    Path,           \* device paths
    Auth,           \* authenticators
    Fido2,          \* those that speak CTAP2
    HmacSecret,     \* those that implement the hmac-secret extension
    Cred,           \* credential ids
    Rp,             \* relying party ids that are not blank
    Salt,           \* salts of 32 bytes
    ShortSalt,      \* any other salt that is not empty
    NULL            \* a blank relying party id, an empty credential id or salt

ASSUME AuthAssumption == HmacSecret \subseteq Fido2 /\ Fido2 \subseteq Auth
ASSUME NullAssumption == NULL \notin Path \cup Auth \cup Cred \cup Rp \cup Salt \cup {ShortSalt}
ASSUME SaltAssumption == ShortSalt \notin Salt

Credential == [id : Cred, rp : Rp, auth : Auth]

GivenRp == Rp \cup {NULL}
GivenSalt == Salt \cup {ShortSalt, NULL}

(* A PIN may be wrong, which is one of the ways to fail. *)
CreateRequest == [op : {"create"}, rp : GivenRp]
DeriveRequest == [op : {"derive"}, rp : GivenRp, cred : Cred \cup {NULL},
                  salt : GivenSalt \ {NULL}, presence : {TRUE}]
CreateAndDeriveRequest == [op : {"create_derive"}, rp : GivenRp, salt : GivenSalt]
Request == CreateRequest \cup DeriveRequest \cup CreateAndDeriveRequest

(* What an authenticator computes from a credential and a salt, by the     *)
(* same user verification each time.                                       *)
Hmac == Cred \X Salt

Reasons == {"ErrInvalidArgument", "ErrNotFIDO2", "ErrEmptyHMACSecret", "other"}
Answer ==
    {<<"failed", why>> : why \in Reasons}
    \cup {<<"credential", c>> : c \in Cred}
    \cup {<<"secret", c, s, v>> : c \in Cred, s \in Salt, v \in Hmac}

ASSUME AnswerAssumption == NULL \notin Request \cup Answer \cup {<<"failed">>}

VARIABLES
    port,           \* what is plugged in at a path
    kept,           \* the credentials the authenticators have made
    handle,         \* per goroutine: the path of its Device
    pc, request,    \* per goroutine: its next step and what was asked for
    cred, salt,     \* per goroutine: arguments of the assertion
    answer,         \* per goroutine: what it returns
    mine            \* per goroutine: the credential the call made

vars == <<port, kept, handle, pc, request, cred, salt, answer, mine>>

Init ==
    /\ port = [d \in Path |-> NULL]
    /\ kept = {}
    /\ handle = [p \in Proc |-> NULL]
    /\ pc = [p \in Proc |-> "idle"]
    /\ request = [p \in Proc |-> NULL]
    /\ cred = [p \in Proc |-> NULL]
    /\ salt = [p \in Proc |-> NULL]
    /\ answer = [p \in Proc |-> NULL]
    /\ mine = [p \in Proc |-> NULL]

Advance(p, next) == pc' = [pc EXCEPT ![p] = next]

Return(p, a) == Advance(p, "done") /\ answer' = [answer EXCEPT ![p] = a]

Fail(p, why) == Return(p, <<"failed", why>>)

-----------------------------------------------------------------------------
(* The world outside.                                                      *)

Plug(d, a) ==
    /\ port[d] = NULL
    /\ \A e \in Path : port[e] # a
    /\ port' = [port EXCEPT ![d] = a]
    /\ UNCHANGED <<kept, handle, pc, request, cred, salt, answer, mine>>

Unplug(d) ==
    /\ port[d] # NULL
    /\ port' = [port EXCEPT ![d] = NULL]
    /\ UNCHANGED <<kept, handle, pc, request, cred, salt, answer, mine>>

-----------------------------------------------------------------------------
(* Open remembers the path and touches nothing. *)
Open(p, d) ==
    /\ pc[p] = "idle"
    /\ handle' = [handle EXCEPT ![p] = d]
    /\ UNCHANGED <<port, kept, pc, request, cred, salt, answer, mine>>

Ask(p, q) ==
    /\ pc[p] = "idle"
    /\ handle[p] # NULL
    /\ Advance(p, "arguments")
    /\ request' = [request EXCEPT ![p] = q]
    /\ UNCHANGED <<port, kept, handle, cred, salt, answer, mine>>

CreateCredential(p) ==
    /\ pc[p] = "arguments"
    /\ request[p].op \in {"create", "create_derive"}
    /\ \/ request[p].rp = NULL /\ Fail(p, "ErrInvalidArgument")
       \/ request[p].rp # NULL /\ Advance(p, "check_make") /\ UNCHANGED answer
    /\ UNCHANGED <<port, kept, handle, request, cred, salt, mine>>

DeriveArguments(p, c, s) ==
    IF request[p].rp # NULL /\ c # NULL /\ s \in Salt
    THEN /\ cred' = [cred EXCEPT ![p] = c]
         /\ salt' = [salt EXCEPT ![p] = s]
         /\ Advance(p, "check_get")
         /\ UNCHANGED answer
    ELSE Fail(p, "ErrInvalidArgument") /\ UNCHANGED <<cred, salt>>

Derive(p) ==
    /\ pc[p] = "arguments"
    /\ request[p].op = "derive"
    /\ DeriveArguments(p, request[p].cred, request[p].salt)
    /\ UNCHANGED <<port, kept, handle, request, mine>>

(* IsFIDO2 opens the path, asks what is there and closes it. *)
IsFIDO2(p, at, next) ==
    /\ pc[p] = at
    /\ LET a == port[handle[p]]
       IN  \/ Fail(p, "other")
           \/ a \in Auth \ Fido2 /\ Fail(p, "ErrNotFIDO2")
           \/ a \in Fido2 /\ Advance(p, next) /\ UNCHANGED answer
    /\ UNCHANGED <<port, kept, handle, request, cred, salt, mine>>

(* An operation may fail at any point, for what is or is not plugged in,   *)
(* for the PIN, for the user.                                              *)
OperationFails(p) ==
    /\ pc[p] \in {"make", "get"}
    /\ Fail(p, "other")
    /\ UNCHANGED <<port, kept, handle, request, cred, salt, mine>>

(* The authenticator plugged in now makes the credential; libfido2 refuses *)
(* to ask one that does not speak CTAP2.  What the attestation says of the *)
(* extension is not looked at.                                             *)
AuthenticatorMakes(p) ==
    /\ pc[p] = "make"
    /\ port[handle[p]] \in Fido2
    /\ \E c \in Cred :
          /\ \A k \in kept : k.id # c
          /\ kept' = kept \cup {[id |-> c, rp |-> request[p].rp, auth |-> port[handle[p]]]}
          /\ mine' = [mine EXCEPT ![p] = c]
    /\ Advance(p, "made")
    /\ UNCHANGED <<port, handle, request, cred, salt, answer>>

(* Mutant: an answer that is lost is put down to the device. *)
MakeCredentialBlames(p) ==
    /\ pc[p] = "made"
    /\ Fail(p, "ErrNotFIDO2")
    /\ UNCHANGED <<port, kept, handle, request, cred, salt, mine>>

(* The attestation arrives, or does not, or has no credential id.          *)
(* CreateAndDerive goes on with the salt it was given or a random one.     *)
MakeCredential(p) ==
    /\ pc[p] = "made"
    /\ \/ Fail(p, "other") /\ UNCHANGED <<cred, salt>>
       \/ /\ request[p].op = "create"
          /\ Return(p, <<"credential", mine[p]>>)
          /\ UNCHANGED <<cred, salt>>
       \/ /\ request[p].op = "create_derive"
          /\ \E s \in IF request[p].salt = NULL THEN Salt ELSE {request[p].salt} :
                DeriveArguments(p, mine[p], s)
    /\ UNCHANGED <<port, kept, handle, request, mine>>

(* Mutant: the relying party is not passed on to the authenticator. *)
HoldsForAnyRp(a, c, rp) == \E k \in kept : k.id = c /\ k.auth = a

Holds(a, c, rp) == [id |-> c, rp |-> rp, auth |-> a] \in kept

(* The authenticator plugged in now answers for a credential it holds,     *)
(* without a secret if it does not know the extension.                     *)
Assertion(p) ==
    /\ pc[p] = "get"
    /\ LET a == port[handle[p]]
       IN  /\ a \in Fido2
           /\ Holds(a, cred[p], request[p].rp)
           /\ IF a \in HmacSecret
              THEN Return(p, <<"secret", cred[p], salt[p], <<cred[p], salt[p]>>>>)
              ELSE Fail(p, "ErrEmptyHMACSecret")
    /\ UNCHANGED <<port, kept, handle, request, cred, salt, mine>>

(* The caller takes the answer. *)
Leave(p) ==
    /\ pc[p] = "done"
    /\ Advance(p, "idle")
    /\ request' = [request EXCEPT ![p] = NULL]
    /\ cred' = [cred EXCEPT ![p] = NULL]
    /\ salt' = [salt EXCEPT ![p] = NULL]
    /\ answer' = [answer EXCEPT ![p] = NULL]
    /\ mine' = [mine EXCEPT ![p] = NULL]
    /\ UNCHANGED <<port, kept, handle>>

World ==
    \E d \in Path : Unplug(d) \/ \E a \in Auth : Plug(d, a)

Operation(p) ==
    \/ CreateCredential(p) \/ Derive(p)
    \/ IsFIDO2(p, "check_make", "make") \/ IsFIDO2(p, "check_get", "get")
    \/ AuthenticatorMakes(p) \/ MakeCredential(p)
    \/ Assertion(p) \/ OperationFails(p)

Next ==
    \/ World
    \/ \E p \in Proc :
          \/ \E d \in Path : Open(p, d)
          \/ \E q \in Request : Ask(p, q)
          \/ Operation(p)
          \/ Leave(p)

Spec == Init /\ [][Next]_vars

-----------------------------------------------------------------------------

TypeOK ==
    /\ port \in [Path -> Auth \cup {NULL}]
    /\ kept \subseteq Credential
    /\ handle \in [Proc -> Path \cup {NULL}]
    /\ pc \in [Proc -> {"idle", "arguments", "check_make", "make", "made", "check_get", "get", "done"}]
    /\ request \in [Proc -> Request \cup {NULL}]
    /\ cred \in [Proc -> Cred \cup {NULL}]
    /\ salt \in [Proc -> Salt \cup {NULL}]
    /\ answer \in [Proc -> Answer \cup {NULL}]
    /\ mine \in [Proc -> Cred \cup {NULL}]

(* CreateCredential and Derive blame their arguments or the kind of the    *)
(* device only if no authenticator has made a credential for the call,     *)
(* whatever is plugged in and out meanwhile (hmacsecret.go:35-58, 81-105). *)
(* CreateAndDerive may: its second half checks again.                      *)
RefusedMeansUntouched ==
    \A p \in Proc :
       /\ answer[p] \in {<<"failed", "ErrInvalidArgument">>, <<"failed", "ErrNotFIDO2">>}
       /\ request[p].op # "create_derive"
       => mine[p] = NULL

-----------------------------------------------------------------------------
(* The contract, with credentials returned unchecked.                      *)

(* What a caller can tell of an answer: errors are all alike. *)
Replies == [p \in Proc |->
    IF answer[p] = NULL THEN NULL ELSE IF answer[p][1] = "failed" THEN <<"failed">> ELSE answer[p]]

Registered == {[id |-> k.id, rp |-> k.rp, hmac |-> k.auth \in HmacSecret] : k \in kept}

Device == INSTANCE Authenticator
    WITH Rp <- GivenRp,
         Salt <- Salt \cup {ShortSalt},
         Checked <- FALSE,
         kept <- Registered,
         answer <- Replies

(* Every call behaves as the contract of a Device says, whatever is        *)
(* plugged in and out: a secret is of the credential and the salt it is    *)
(* returned with, and of a credential of the relying party asked for.      *)
ImplementsAuthenticator == Device!Spec
=============================================================================
