------------------------------ MODULE WebAuthn ------------------------------
(***************************************************************************)
(* The Windows binding: internal/webauthn (API) and the Device of          *)
(* lib/hmacsecret/hmacsecret_windows.go on top of it, called by goroutines *)
(* (Proc).  A call of webauthn.dll returns an HRESULT and, on success, the *)
(* address of a structure the DLL allocated.  The binding copies what it   *)
(* needs and gives the structure back; the address may then be used again. *)
(* The call, the reading and the freeing are separate steps.               *)
(*                                                                         *)
(* The DLL may fail before or after an authenticator has acted, and may    *)
(* leave out or damage any field.  It does not lie: what a structure says  *)
(* of the PRF, of a credential or of a secret is so.                       *)
(***************************************************************************)
EXTENDS Integers, Sequences

CONSTANTS
    Proc,           \* goroutines
    Addr,           \* addresses the DLL's allocator uses
    Cred,           \* credential ids
    Rp,             \* relying party ids that are not blank
    Salt,           \* salts of 32 bytes
    ShortSalt,      \* any other salt that is not empty
    Systems,        \* the installations considered, a subset of System
    Requests,       \* what the callers ask for, a subset of Request
    ExtensionLimit, \* how many extension outputs are looked at, 64 in the code
    NULL            \* a blank relying party id, an empty credential id or salt

ASSUME LimitAssumption == ExtensionLimit \in Nat
ASSUME CredAssumption == Cred \cap {"empty", "damaged"} = {}
ASSUME NullAssumption == NULL \notin Addr \cup Cred \cup Rp \cup Salt \cup {ShortSalt}

APIVersionPRF == 6

(* What may be installed: a DLL or none, all procedures or not, a version. *)
System == [dll : BOOLEAN, procs : BOOLEAN, version : {0, APIVersionPRF - 1, APIVersionPRF}]

ASSUME SystemAssumption == Systems \subseteq System

HRESULT == {"S_OK", "NTEInvalidParameter", "NTENotSupported", "NTEUserCancelled", "other"}
Failed(h) == h # "S_OK"

(* What is copied of a result: the credential id, or none, or nothing as   *)
(* the length of the id or of the authenticator data is too large or has   *)
(* no bytes to go with it.                                                 *)
CopyResultBytes == Cred \cup {"empty", "damaged"}

(* An extension output: hmac-secret enabled or disabled or with too short  *)
(* a value, or another extension.                                          *)
Output == {"on", "off", "short", "other"}
Outputs == UNION {[1..n -> Output] : n \in 0..ExtensionLimit + 1}

Attestation == [owner : Proc, id : CopyResultBytes, version : {4, 5},
                prf : BOOLEAN, extensions : Outputs]

(* The secret of an assertion is absent or has a length and an address.    *)
HMACSecret == [length : {32, 16}, first : (Cred \X Salt) \cup {NULL}]
Assertion == [owner : Proc, id : CopyResultBytes, version : {2, 3},
              secret : {<<>>} \cup {<<s>> : s \in HMACSecret}]

Credential == [id : Cred, rp : Rp, hmac : BOOLEAN]

GivenRp == Rp \cup {NULL}
GivenSalt == Salt \cup {ShortSalt, NULL}

CreateRequest == [op : {"create"}, rp : GivenRp]
DeriveRequest == [op : {"derive"}, rp : GivenRp, cred : Cred \cup {NULL},
                  salt : GivenSalt \ {NULL}, presence : BOOLEAN]
CreateAndDeriveRequest == [op : {"create_derive"}, rp : GivenRp, salt : GivenSalt]
Request == CreateRequest \cup DeriveRequest \cup CreateAndDeriveRequest

ASSUME RequestAssumption == Requests \subseteq Request /\ NULL \notin Request

Reasons == {"ErrInvalidArgument", "ErrNotFIDO2", "other"}
Answer ==
    {<<"failed", why>> : why \in Reasons}
    \cup {<<"credential", c>> : c \in Cred}
    \cup {<<"secret", c, s, v>> : c \in Cred, s \in Salt, v \in Cred \X Salt}

ASSUME AnswerAssumption ==
    NULL \notin Answer \cup {<<"failed">>} \cup Attestation \cup Assertion \cup (Cred \X Salt)

VARIABLES
    system,         \* what is installed
    kept,           \* the credentials on the external authenticators
    heap,           \* the structures the DLL has handed out
    pc, request,    \* per goroutine: its next step and what was asked for
    cred, salt,     \* per goroutine: arguments of the assertion
    hr, ptr,        \* per goroutine: result and address of the last call
    found,          \* per goroutine: what it copied, an Answer, or NULL
    answer,         \* per goroutine: what it returns
    mine            \* ghost: the credential the call made

local == <<pc, request, cred, salt, hr, ptr, found, answer>>
vars == <<system, kept, heap, local, mine>>

Init ==
    /\ system \in Systems
    /\ kept = {}
    /\ heap = [a \in Addr |-> NULL]
    /\ pc = [p \in Proc |-> "closed"]
    /\ request = [p \in Proc |-> NULL]
    /\ cred = [p \in Proc |-> NULL]
    /\ salt = [p \in Proc |-> NULL]
    /\ hr = [p \in Proc |-> "S_OK"]
    /\ ptr = [p \in Proc |-> NULL]
    /\ found = [p \in Proc |-> NULL]
    /\ answer = [p \in Proc |-> NULL]
    /\ mine = [p \in Proc |-> NULL]

Advance(p, next) == pc' = [pc EXCEPT ![p] = next]

Return(p, a) == Advance(p, "done") /\ answer' = [answer EXCEPT ![p] = a]

Fail(p, why) == Return(p, <<"failed", why>>)

(* The sentinel a failing HRESULT unwraps to. *)
Unwrap(h) ==
    CASE h = "NTENotSupported" -> "ErrUnsupported"
      [] h = "NTEInvalidParameter" -> "ErrInvalidInput"
      [] h = "NTEUserCancelled" -> "ErrUserCanceled"
      [] OTHER -> "none"

(* Mutant: what the user cancelled is reported as a bad argument. *)
MapWindowsErrorLoose(err) ==
    CASE err \in {"ErrInvalidInput", "ErrUserCanceled"} -> "ErrInvalidArgument"
      [] err \in {"ErrUnsupported", "ErrPRFDisabled"} -> "ErrNotFIDO2"
      [] OTHER -> "other"

(* Mutant: the package's own sentinel escapes to the caller. *)
MapWindowsErrorRaw(err) ==
    IF err = "ErrInvalidInput" THEN "ErrInvalidArgument" ELSE err

MapWindowsError(err) ==
    CASE err = "ErrInvalidInput" -> "ErrInvalidArgument"
      [] err \in {"ErrUnsupported", "ErrPRFDisabled"} -> "ErrNotFIDO2"
      [] OTHER -> "other"

-----------------------------------------------------------------------------
(* Opening.  Load refuses a system without the DLL, with a procedure       *)
(* missing or with version 0.                                              *)

Loads == system.dll /\ system.procs /\ system.version >= 1

Open(p) ==
    /\ pc[p] = "closed"
    /\ pc' = [pc EXCEPT ![p] = IF Loads THEN "idle" ELSE "closed"]
    /\ UNCHANGED <<system, kept, heap, request, cred, salt, hr, ptr, found, answer, mine>>

Ask(p, q) ==
    /\ pc[p] = "idle"
    /\ Advance(p, "arguments")
    /\ request' = [request EXCEPT ![p] = q]
    /\ UNCHANGED <<system, kept, heap, cred, salt, hr, ptr, found, answer, mine>>

-----------------------------------------------------------------------------
(* The methods of Device up to their call of the API.                      *)

CreateCredential(p) ==
    /\ pc[p] = "arguments"
    /\ request[p].op \in {"create", "create_derive"}
    /\ \/ request[p].rp = NULL /\ Fail(p, "ErrInvalidArgument")
       \/ request[p].rp # NULL /\ Advance(p, "call_make") /\ UNCHANGED answer
    /\ UNCHANGED <<system, kept, heap, request, cred, salt, hr, ptr, found, mine>>

(* The arguments of an assertion, checked before it is asked for. *)
ToAssertion(p, c, s, presence) ==
    IF request[p].rp # NULL /\ c # NULL /\ s \in Salt /\ presence
    THEN /\ cred' = [cred EXCEPT ![p] = c]
         /\ salt' = [salt EXCEPT ![p] = s]
         /\ Advance(p, "call_get")
         /\ UNCHANGED answer
    ELSE Fail(p, "ErrInvalidArgument") /\ UNCHANGED <<cred, salt>>

Derive(p) ==
    /\ pc[p] = "arguments"
    /\ request[p].op = "derive"
    /\ ToAssertion(p, request[p].cred, request[p].salt, request[p].presence)
    /\ UNCHANGED <<system, kept, heap, request, hr, ptr, found, mine>>

-----------------------------------------------------------------------------
(* API.MakeCredential.                                                     *)

VersionTooLow(p) ==
    /\ pc[p] \in {"call_make", "call_get"}
    /\ system.version < APIVersionPRF
    /\ Fail(p, MapWindowsError("ErrUnsupported"))
    /\ UNCHANGED <<system, kept, heap, request, cred, salt, hr, ptr, found, mine>>

(* Refused before the DLL is called: a user id of more than 64 bytes, a    *)
(* string with a NUL in it; or the random source has failed.               *)
InputRefused(p) ==
    /\ pc[p] \in {"call_make", "call_get"}
    /\ system.version >= APIVersionPRF
    /\ \/ pc[p] = "call_make" /\ Fail(p, MapWindowsError("ErrInvalidInput"))
       \/ Fail(p, MapWindowsError("none"))
    /\ UNCHANGED <<system, kept, heap, request, cred, salt, hr, ptr, found, mine>>

(* An authenticator makes a credential, with or without the extension. *)
Register(p) ==
    \E c \in Cred, on \in BOOLEAN :
       /\ \A k \in kept : k.id # c
       /\ kept' = kept \cup {[id |-> c, rp |-> request[p].rp, hmac |-> on]}
       /\ mine' = [mine EXCEPT ![p] = c]

(* What the DLL says of the credential c is so: by the flag if the         *)
(* structure is new enough to have one, else by an extension output.       *)
(* (Before version 5 the field prf lies beyond the structure.)             *)
Describes(st, c, on) ==
    /\ st.id \in {c, "empty", "damaged"}
    /\ st.version >= 5 => st.prf = on
    /\ \A i \in DOMAIN st.extensions :
          (st.extensions[i] = "on" => on) /\ (st.extensions[i] = "off" => ~on)
    /\ on /\ st.version < 5 =>
          /\ Len(st.extensions) <= ExtensionLimit
          /\ \E i \in DOMAIN st.extensions : st.extensions[i] = "on"
          /\ \A i \in DOMAIN st.extensions : st.extensions[i] # "short"

Allocate(p, st) ==
    \E a \in Addr :
       /\ heap[a] = NULL
       /\ heap' = [heap EXCEPT ![a] = st]
       /\ ptr' = [ptr EXCEPT ![p] = a]

NoResult(p) == ptr' = [ptr EXCEPT ![p] = NULL] /\ UNCHANGED heap

Calls(p, at, next) ==
    /\ pc[p] = at
    /\ system.version >= APIVersionPRF
    /\ Advance(p, next)
    /\ UNCHANGED <<system, request, cred, salt, found, answer>>

MakeSucceeds(p) ==
    /\ Calls(p, "call_make", "read_make")
    /\ hr' = [hr EXCEPT ![p] = "S_OK"]
    /\ Register(p)
    /\ \/ NoResult(p)
       \/ \E st \in Attestation :
             /\ st.owner = p
             /\ Describes(st, mine'[p], [id |-> mine'[p], rp |-> request[p].rp, hmac |-> TRUE] \in kept')
             /\ Allocate(p, st)

(* The DLL refuses what it does not support or understand before it asks   *)
(* an authenticator; it may fail otherwise after one has acted.            *)
MakeFails(p) ==
    /\ Calls(p, "call_make", "read_make")
    /\ \E h \in {x \in HRESULT : Failed(x)} :
          /\ hr' = [hr EXCEPT ![p] = h]
          /\ \/ UNCHANGED <<kept, mine>>
             \/ h \in {"NTEUserCancelled", "other"} /\ Register(p)
    /\ NoResult(p)

(* The error of a call, known before there is anything to give back. *)
CallError(p, at) ==
    /\ pc[p] = at
    /\ Failed(hr[p]) \/ ptr[p] = NULL
    /\ Fail(p, MapWindowsError(IF Failed(hr[p]) THEN Unwrap(hr[p]) ELSE "none"))
    /\ UNCHANGED <<system, kept, heap, request, cred, salt, hr, ptr, found, mine>>

(* Mutant: an output with too short a value counts as enabled. *)
HmacSecretExtensionEnabledShort(ext) ==
    /\ Len(ext) \in 1..ExtensionLimit
    /\ \E i \in DOMAIN ext : ext[i] \in {"on", "short"} /\ \A j \in 1..i - 1 : ext[j] = "other"

(* The first output named hmac-secret decides. *)
HmacSecretExtensionEnabled(ext) ==
    /\ Len(ext) \in 1..ExtensionLimit
    /\ \E i \in DOMAIN ext : ext[i] = "on" /\ \A j \in 1..i - 1 : ext[j] = "other"

(* Mutant: only the flag is looked at. *)
PRFEnabledByFlag(st) == st.version >= 5 /\ st.prf

PRFEnabled(st) ==
    \/ st.version >= 5 /\ st.prf
    \/ HmacSecretExtensionEnabled(st.extensions)

(* Mutant: the structure is freed on success only. *)
CopiedFreesOnSuccess(p, next, result) ==
    /\ found' = [found EXCEPT ![p] = result]
    /\ IF result[1] = "failed" THEN Return(p, result) ELSE Advance(p, next) /\ UNCHANGED answer
    /\ UNCHANGED <<system, kept, heap, request, cred, salt, hr, ptr, mine>>

(* The deferred free runs whatever has been found. *)
Copied(p, next, result) ==
    /\ found' = [found EXCEPT ![p] = result]
    /\ Advance(p, next)
    /\ UNCHANGED <<system, kept, heap, request, cred, salt, hr, ptr, answer, mine>>

Failure(err) == <<"failed", MapWindowsError(err)>>

ReadAttestation(p) ==
    /\ pc[p] = "read_make"
    /\ ptr[p] # NULL
    /\ LET st == heap[ptr[p]]
       IN  Copied(p, "free_make",
             IF st.id \in {"damaged", "empty"} THEN Failure("none")
             ELSE IF ~PRFEnabled(st) THEN Failure("ErrPRFDisabled")
             ELSE <<"credential", st.id>>)

-----------------------------------------------------------------------------
(* API.GetAssertion.                                                       *)

(* What a structure says of the assertion by credential c is so.  An older *)
(* one has no field for the secret, and whatever lies beyond it is read.   *)
Asserts(st, p, c) ==
    /\ st.id \in {c, "damaged"} \cup (IF c = cred[p] THEN {"empty"} ELSE {})
    /\ st.version >= 3 =>
          IF [id |-> c, rp |-> request[p].rp, hmac |-> TRUE] \in kept
          THEN st.secret \in {<<s>> : s \in
                 {x \in HMACSecret : x.length = 32 => x.first \in {<<c, salt[p]>>, NULL}}}
          ELSE st.secret = <<>>

(* The authenticator may hold credentials that were not asked for. *)
GetSucceeds(p) ==
    /\ Calls(p, "call_get", "read_get")
    /\ hr' = [hr EXCEPT ![p] = "S_OK"]
    /\ \/ NoResult(p)
       \/ \E k \in kept, st \in Assertion :
             /\ k.rp = request[p].rp
             /\ st.owner = p
             /\ Asserts(st, p, k.id)
             /\ Allocate(p, st)
    /\ UNCHANGED <<kept, mine>>

GetFails(p) ==
    /\ Calls(p, "call_get", "read_get")
    /\ \E h \in {x \in HRESULT : Failed(x)} : hr' = [hr EXCEPT ![p] = h]
    /\ NoResult(p)
    /\ UNCHANGED <<kept, mine>>

AcceptsId(st, c) == st.id \in {"empty", c}

ReadAssertion(p) ==
    /\ pc[p] = "read_get"
    /\ ptr[p] # NULL
    /\ LET st == heap[ptr[p]]
       IN  Copied(p, "free_get",
             IF st.version < 3 \/ st.secret = <<>> THEN Failure("ErrPRFDisabled")
             ELSE IF \/ st.id = "damaged" \/ ~AcceptsId(st, cred[p])
                     \/ st.secret[1].length # 32 \/ st.secret[1].first = NULL
             THEN Failure("none")
             ELSE <<"secret", cred[p], salt[p], st.secret[1].first>>)

-----------------------------------------------------------------------------
(* The deferred free of a structure, and what the Device does next: only a *)
(* CreateAndDerive that has its credential goes on, with the salt it was   *)
(* given or a random one, into Derive and its checks.                      *)

Free(p, at) ==
    /\ pc[p] = at
    /\ heap' = [heap EXCEPT ![ptr[p]] = NULL]
    /\ ptr' = [ptr EXCEPT ![p] = NULL]
    /\ found' = [found EXCEPT ![p] = NULL]
    /\ UNCHANGED <<system, kept, request, hr, mine>>

FreeAndReturn(p, at) ==
    /\ Free(p, at)
    /\ found[p][1] = "credential" => request[p].op = "create"
    /\ Return(p, found[p])
    /\ UNCHANGED <<cred, salt>>

FreeAndDerive(p) ==
    /\ Free(p, "free_make")
    /\ found[p][1] = "credential"
    /\ request[p].op = "create_derive"
    /\ \E s \in IF request[p].salt = NULL THEN Salt ELSE {request[p].salt} :
          ToAssertion(p, found[p][2], s, TRUE)

(* The caller takes the answer. *)
Leave(p) ==
    /\ pc[p] = "done"
    /\ Advance(p, "idle")
    /\ request' = [request EXCEPT ![p] = NULL]
    /\ cred' = [cred EXCEPT ![p] = NULL]
    /\ salt' = [salt EXCEPT ![p] = NULL]
    /\ hr' = [hr EXCEPT ![p] = "S_OK"]
    /\ ptr' = [ptr EXCEPT ![p] = NULL]
    /\ found' = [found EXCEPT ![p] = NULL]
    /\ answer' = [answer EXCEPT ![p] = NULL]
    /\ mine' = [mine EXCEPT ![p] = NULL]
    /\ UNCHANGED <<system, kept, heap>>

Next ==
    \E p \in Proc :
       \/ Open(p)
       \/ \E q \in Requests : Ask(p, q)
       \/ CreateCredential(p) \/ Derive(p)
       \/ VersionTooLow(p) \/ InputRefused(p)
       \/ MakeSucceeds(p) \/ MakeFails(p)
       \/ CallError(p, "read_make") \/ CallError(p, "read_get")
       \/ ReadAttestation(p) \/ ReadAssertion(p)
       \/ GetSucceeds(p) \/ GetFails(p)
       \/ FreeAndReturn(p, "free_make") \/ FreeAndReturn(p, "free_get")
       \/ FreeAndDerive(p)
       \/ Leave(p)

Spec == Init /\ [][Next]_vars
-----------------------------------------------------------------------------

Reading == {"read_make", "free_make", "read_get", "free_get"}

TypeOK ==
    /\ system \in System
    /\ kept \subseteq Credential
    /\ heap \in [Addr -> Attestation \cup Assertion \cup {NULL}]
    /\ pc \in [Proc -> {"closed", "idle", "arguments", "call_make", "call_get", "done"} \cup Reading]
    /\ request \in [Proc -> Request \cup {NULL}]
    /\ cred \in [Proc -> Cred \cup {NULL}]
    /\ salt \in [Proc -> Salt \cup {NULL}]
    /\ hr \in [Proc -> HRESULT]
    /\ ptr \in [Proc -> Addr \cup {NULL}]
    /\ found \in [Proc -> Answer \cup {NULL}]
    /\ answer \in [Proc -> Answer \cup {NULL}]
    /\ mine \in [Proc -> Cred \cup {NULL}]

(* Every structure the DLL has handed out belongs to the one call that     *)
(* received it and has not freed it yet, and the address such a call holds *)
(* is of its own structure: none is leaked, freed twice or read after the  *)
(* address has gone to another call (credential_windows.go:183,            *)
(* assertion_windows.go:133).                                              *)
StructuresOwned ==
    /\ \A a \in Addr : heap[a] # NULL =>
          pc[heap[a].owner] \in Reading /\ ptr[heap[a].owner] = a
    /\ \A p \in Proc : ptr[p] # NULL => heap[ptr[p]] # NULL /\ heap[ptr[p]].owner = p

(* A credential that a call made and gave up because the PRF was not       *)
(* enabled could not have derived anything: whichever way the DLL reports  *)
(* the extension, the report is heard (credential_windows.go:201-207).     *)
AbandonedCannotDerive ==
    \A p \in Proc :
       /\ answer[p] = <<"failed", "ErrNotFIDO2">>
       /\ request[p].op = "create"
       /\ mine[p] # NULL
       => [id |-> mine[p], rp |-> request[p].rp, hmac |-> TRUE] \notin kept

(* CreateCredential and Derive report a bad argument only if no            *)
(* authenticator has acted on the call (hmacsecret_windows.go:146-155).    *)
(* CreateAndDerive may: it looks at its salt after the creation.           *)
RefusedMeansUntouched ==
    \A p \in Proc :
       answer[p] = <<"failed", "ErrInvalidArgument">> /\ request[p].op # "create_derive"
       => mine[p] = NULL

-----------------------------------------------------------------------------
(* The contract, with credentials checked before they are returned.  It    *)
(* does not say why a call fails.                                          *)

Replies == [p \in Proc |->
    IF answer[p] = NULL THEN NULL ELSE IF answer[p][1] = "failed" THEN <<"failed">> ELSE answer[p]]

Device == INSTANCE Authenticator
    WITH Rp <- GivenRp,
         Salt <- Salt \cup {ShortSalt},
         Checked <- TRUE,
         answer <- Replies

(* Every call behaves as the contract of a Device says: the credential     *)
(* returned is the call's own and can derive, the secret is of the         *)
(* credential and the salt it is returned with.                            *)
ImplementsAuthenticator == Device!Spec
=============================================================================
