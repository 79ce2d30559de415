--------------------------- MODULE SecretsService ---------------------------
(***************************************************************************)
(* pkg/secrets/secrets.go: Secrets instances (Service), each with its own  *)
(* createMu, that share one store and a set of authenticators, called by   *)
(* goroutines (Proc).  A handler is cut at createMu, at each call of the   *)
(* store and at each call of the authenticator; selecting and opening the  *)
(* device and asking for the PIN change nothing shared and are one step.   *)
(*                                                                         *)
(* The store is any store.Store: Put inserts or reports ErrExists, and     *)
(* each of its calls may fail without effect, a write also after it has    *)
(* been applied.  An authenticator computes HMAC(credential, salt), so a   *)
(* secret is the pair of the two; it keeps two keys per credential, one of *)
(* them for calls with a PIN, and a user is taken to use the PIN always or *)
(* never (hmacsecret.go:163; pin.go:12 allows an empty one).               *)
(***************************************************************************)
EXTENDS Integers

CONSTANTS
    Proc,           \* goroutines, of any process
    Service,        \* Secrets instances over the same store
    Alias,          \* aliases, trimmed and valid
    Device,         \* authenticators
    HmacSecret,     \* those that grant the hmac-secret extension
    Salt,           \* salts the random source may return
    Rp,             \* relying party ids
    RpId,           \* Options.RPID of each instance
    NULL,
    MaxCred         \* bound: how many credentials are ever created

Cred == 1..MaxCred
Record == [cred : Cred, salt : Salt, rp : Rp]
Secret == Cred \X Salt

(* The record under construction has no credential id yet. *)
Draft == [cred : Cred \cup {NULL}, salt : Salt, rp : Rp]

(* A credential as an authenticator keeps it, and who asked for it. *)
Credential == [id : Cred, dev : Device, rp : Rp, svc : Service]

Call == [svc : Service, alias : Alias]

ASSUME BoundAssumption == MaxCred \in Nat
ASSUME RpAssumption == RpId \in [Service -> Rp]
ASSUME NullAssumption == NULL \notin Proc \cup Device \cup Cred \cup Draft \cup Call \cup Secret

VARIABLES
    records,        \* the store, by alias
    made,           \* the credentials on the authenticators
    creator,        \* which call of Create holds createMu of the instance
    pc, call,       \* per goroutine: its next step and its arguments
    rec, dev,       \* per goroutine: the record it works with, its device
    epoch,          \* ghost: by alias, how often it has been deleted
    since,          \* ghost: epoch of the alias when rec was read or stored
    used,           \* ghost: the (alias, secret) pairs ever stored
    handed          \* ghost: the secrets handed to callers

local == <<pc, call, rec, dev, since>>
vars == <<records, made, creator, pc, call, rec, dev, epoch, since, used, handed>>

CreatePCs == {"create_has", "create_open", "create_fido", "create_put", "create_derive"}
PCs == {"idle", "create_lock", "derive_get", "derive_open", "derive_fido", "delete"} \cup CreatePCs

SecretOf(r) == <<r.cred, r.salt>>

Init ==
    /\ records = [a \in Alias |-> NULL]
    /\ made = {}
    /\ creator = [s \in Service |-> NULL]
    /\ pc = [p \in Proc |-> "idle"]
    /\ call = [p \in Proc |-> NULL]
    /\ rec = [p \in Proc |-> NULL]
    /\ dev = [p \in Proc |-> NULL]
    /\ epoch = [a \in Alias |-> 0]
    /\ since = [p \in Proc |-> 0]
    /\ used = {}
    /\ handed = {}

Begin(p, first, s, a) ==
    /\ pc[p] = "idle"
    /\ pc' = [pc EXCEPT ![p] = first]
    /\ call' = [call EXCEPT ![p] = [svc |-> s, alias |-> a]]
    /\ UNCHANGED <<records, made, creator, rec, dev, epoch, since, used, handed>>

Advance(p, next, r, d) ==
    /\ pc' = [pc EXCEPT ![p] = next]
    /\ rec' = [rec EXCEPT ![p] = r]
    /\ dev' = [dev EXCEPT ![p] = d]
    /\ UNCHANGED call

Return(p) ==
    /\ pc' = [pc EXCEPT ![p] = "idle"]
    /\ call' = [call EXCEPT ![p] = NULL]
    /\ rec' = [rec EXCEPT ![p] = NULL]
    /\ dev' = [dev EXCEPT ![p] = NULL]

At(p, here) == pc[p] = here
MyAlias(p) == call[p].alias
MyEpoch(p) == since' = [since EXCEPT ![p] = epoch[MyAlias(p)]]

(* Create returns: the deferred Unlock runs. *)
ReturnCreate(p) ==
    /\ Return(p)
    /\ creator' = [creator EXCEPT ![call[p].svc] = NULL]

(* auth.Derive on device d for record r can succeed. *)
Holds(d, r) == \E c \in made : c.id = r.cred /\ c.dev = d /\ c.rp = r.rp /\ d \in HmacSecret

HandOut(p) ==
    handed' = handed \cup {[alias |-> MyAlias(p), epoch |-> since[p], secret |-> SecretOf(rec[p])]}

-----------------------------------------------------------------------------
(***************************************************************************)
(* Create: createMu, Has and the salt, device and PIN, credential, Put,    *)
(* first Derive.                                                           *)
(***************************************************************************)
(* Mutant: createMu is not taken. *)
CreateLockless(p) ==
    /\ At(p, "create_lock")
    /\ Advance(p, "create_has", NULL, NULL)
    /\ UNCHANGED <<records, made, creator, epoch, since, used, handed>>

CreateLock(p) ==
    /\ At(p, "create_lock")
    /\ creator[call[p].svc] = NULL
    /\ creator' = [creator EXCEPT ![call[p].svc] = p]
    /\ Advance(p, "create_has", NULL, NULL)
    /\ UNCHANGED <<records, made, epoch, since, used, handed>>

CreateHas(p) ==
    /\ At(p, "create_has")
    /\ \/ ReturnCreate(p)                      \* ErrExists, or Has or rand failed
       \/ /\ records[MyAlias(p)] = NULL
          /\ \E s \in Salt :
                Advance(p, "create_open", [cred |-> NULL, salt |-> s, rp |-> RpId[call[p].svc]], NULL)
          /\ UNCHANGED creator
    /\ UNCHANGED <<records, made, epoch, since, used, handed>>

(* Mutant: a failed selection returns before the Unlock was deferred. *)
CreateOpenKeepsMutex(p) ==
    /\ At(p, "create_open")
    /\ \/ Return(p)
       \/ \E d \in Device : Advance(p, "create_fido", rec[p], d)
    /\ UNCHANGED <<records, made, creator, epoch, since, used, handed>>

(* openSelected: whatever device is plugged in and selected, or an error.  *)
CreateOpen(p) ==
    /\ At(p, "create_open")
    /\ \/ ReturnCreate(p)                      \* cancelled, ErrNoDevice, no PIN
       \/ (\E d \in Device : Advance(p, "create_fido", rec[p], d)) /\ UNCHANGED creator
    /\ UNCHANGED <<records, made, epoch, since, used, handed>>

(* Mutant: the credential id is not copied into the record. *)
CreateFidoDropsId(p) ==
    /\ At(p, "create_fido")
    /\ \/ ReturnCreate(p) /\ UNCHANGED made
       \/ \E id \in Cred :
             /\ \A c \in made : c.id < id
             /\ \A n \in Cred : n < id => \E c \in made : c.id = n
             /\ made' = made \cup {[id |-> id, dev |-> dev[p], rp |-> RpId[call[p].svc],
                                    svc |-> call[p].svc]}
             /\ Advance(p, "create_put", rec[p], dev[p])
             /\ UNCHANGED creator
    /\ UNCHANGED <<records, epoch, since, used, handed>>

(* CreateCredential: the error may also come after the credential exists   *)
(* (a lost answer).  An authenticator without hmac-secret makes one too,   *)
(* and over libfido2 it is returned like any other (hmacsecret.go:103-111: *)
(* nobody asks what was granted); the Windows binding looks.               *)
CreateFido(p) ==
    /\ At(p, "create_fido")
    /\ \/ ReturnCreate(p) /\ UNCHANGED made
       \/ \E id \in Cred :
             /\ \A c \in made : c.id < id
             /\ \A n \in Cred : n < id => \E c \in made : c.id = n
             /\ made' = made \cup {[id |-> id, dev |-> dev[p], rp |-> RpId[call[p].svc],
                                    svc |-> call[p].svc]}
             /\ \/ Advance(p, "create_put", [rec[p] EXCEPT !.cred = id], dev[p]) /\ UNCHANGED creator
                \/ ReturnCreate(p)
    /\ UNCHANGED <<records, epoch, since, used, handed>>

(* Mutant: the record is stored over the one that is there. *)
CreatePutOverwrites(p) ==
    /\ At(p, "create_put")
    /\ records' = [records EXCEPT ![MyAlias(p)] = rec[p]]
    /\ used' = used \cup {<<MyAlias(p), SecretOf(rec[p])>>}
    /\ Advance(p, "create_derive", rec[p], dev[p]) /\ MyEpoch(p) /\ UNCHANGED creator
    /\ UNCHANGED <<made, epoch, handed>>

CreatePut(p) ==
    /\ At(p, "create_put")
    /\ \/ ReturnCreate(p) /\ UNCHANGED <<records, used, since>>   \* ErrExists or not applied
       \/ /\ records[MyAlias(p)] = NULL
          /\ records' = [records EXCEPT ![MyAlias(p)] = rec[p]]
          /\ used' = used \cup {<<MyAlias(p), SecretOf(rec[p])>>}
          /\ \/ Advance(p, "create_derive", rec[p], dev[p]) /\ MyEpoch(p) /\ UNCHANGED creator
             \/ ReturnCreate(p) /\ UNCHANGED since
    /\ UNCHANGED <<made, epoch, handed>>

CreateDerive(p) ==
    /\ At(p, "create_derive")
    /\ \/ Holds(dev[p], rec[p]) /\ HandOut(p)
       \/ UNCHANGED handed                     \* the record stays for a retry
    /\ ReturnCreate(p)
    /\ UNCHANGED <<records, made, epoch, since, used>>

(***************************************************************************)
(* Derive: Get, device and PIN, assertion with the stored RP id.           *)
(***************************************************************************)
(* Mutant: asks for the RP id of this instance, not for the stored one. *)
DeriveGetOwnRp(p) ==
    /\ At(p, "derive_get")
    /\ \/ Return(p) /\ UNCHANGED since
       \/ /\ records[MyAlias(p)] # NULL
          /\ Advance(p, "derive_open", [records[MyAlias(p)] EXCEPT !.rp = RpId[call[p].svc]], NULL)
          /\ MyEpoch(p)
    /\ UNCHANGED <<records, made, creator, epoch, used, handed>>

DeriveGet(p) ==
    /\ At(p, "derive_get")
    /\ \/ Return(p) /\ UNCHANGED since         \* ErrNotFound, or Get failed
       \/ /\ records[MyAlias(p)] # NULL
          /\ Advance(p, "derive_open", records[MyAlias(p)], NULL)
          /\ MyEpoch(p)
    /\ UNCHANGED <<records, made, creator, epoch, used, handed>>

DeriveOpen(p) ==
    /\ At(p, "derive_open")
    /\ \/ Return(p)
       \/ \E d \in Device : Advance(p, "derive_fido", rec[p], d)
    /\ UNCHANGED <<records, made, creator, epoch, since, used, handed>>

DeriveFido(p) ==
    /\ At(p, "derive_fido")
    /\ \/ Holds(dev[p], rec[p]) /\ HandOut(p)
       \/ UNCHANGED handed                     \* wrong device, no touch, wrong PIN
    /\ Return(p)
    /\ UNCHANGED <<records, made, creator, epoch, since, used>>

(* Delete: one store call, not under createMu. *)
Delete(p) ==
    /\ At(p, "delete")
    /\ \/ UNCHANGED <<records, epoch>>         \* ErrNotFound, or not applied
       \/ /\ records[MyAlias(p)] # NULL
          /\ records' = [records EXCEPT ![MyAlias(p)] = NULL]
          /\ epoch' = [epoch EXCEPT ![MyAlias(p)] = @ + 1]
    /\ Return(p)
    /\ UNCHANGED <<made, creator, since, used, handed>>

(* The process of instance s dies, its calls with it. *)
Crash(s) ==
    LET dead == {p \in Proc : pc[p] # "idle" /\ call[p].svc = s}
        Reset(f, v) == [p \in Proc |-> IF p \in dead THEN v ELSE f[p]]
    IN
    /\ creator' = [creator EXCEPT ![s] = NULL]
    /\ pc' = Reset(pc, "idle")
    /\ call' = Reset(call, NULL)
    /\ rec' = Reset(rec, NULL)
    /\ dev' = Reset(dev, NULL)
    /\ UNCHANGED <<records, made, epoch, since, used, handed>>

-----------------------------------------------------------------------------
StartCreate(p, s, a) == Begin(p, "create_lock", s, a)
StartDerive(p, s, a) == Begin(p, "derive_get", s, a)
StartDelete(p, s, a) == Begin(p, "delete", s, a)

CallStep(p) ==
    \/ CreateHas(p) \/ CreateOpen(p) \/ CreateFido(p) \/ CreatePut(p) \/ CreateDerive(p)
    \/ DeriveGet(p) \/ DeriveOpen(p) \/ DeriveFido(p) \/ Delete(p)

Next ==
    \/ \E p \in Proc, s \in Service, a \in Alias :
          StartCreate(p, s, a) \/ StartDerive(p, s, a) \/ StartDelete(p, s, a)
    \/ \E p \in Proc : CreateLock(p) \/ CallStep(p)
    \/ \E s \in Service : Crash(s)

Spec == Init /\ [][Next]_vars

(* Prompts and devices answer or fail, and sync.Mutex starves no waiter.   *)
Fairness == \A p \in Proc : WF_vars(CallStep(p)) /\ SF_vars(CreateLock(p))

FairSpec == Spec /\ Fairness

-----------------------------------------------------------------------------
(***************************************************************************)
(* Properties.                                                             *)
(***************************************************************************)

StateTypeOK ==
    /\ records \in [Alias -> Record \cup {NULL}]
    /\ made \subseteq Credential
    /\ creator \in [Service -> Proc \cup {NULL}]

LocalTypeOK ==
    /\ pc \in [Proc -> PCs]
    /\ call \in [Proc -> Call \cup {NULL}]
    /\ rec \in [Proc -> Draft \cup {NULL}]
    /\ dev \in [Proc -> Device \cup {NULL}]

GhostTypeOK ==
    /\ epoch \in [Alias -> Nat]
    /\ since \in [Proc -> Nat]
    /\ used \subseteq Alias \X Secret
    /\ handed \subseteq [alias : Alias, epoch : Nat, secret : Secret]

(* The types of what is stored and held by authenticators, of the locals   *)
(* of the methods, and of the ghosts.                                      *)
TypeOK == StateTypeOK /\ LocalTypeOK /\ GhostTypeOK

(* Every stored record, and every record a Derive is working with, names a *)
(* credential that an authenticator has made, and the RP id it was made    *)
(* for: after a failed first Derive, a crash, or through an instance       *)
(* configured with another RP id, the record still says what to ask for    *)
(* (secrets.go:127-128, 213).                                              *)
NamesCredential(r) == \E c \in made : c.id = r.cred /\ c.rp = r.rp

RecordsNameCredentials ==
    /\ \A a \in Alias : records[a] # NULL => NamesCredential(records[a])
    /\ \A p \in Proc : pc[p] \in {"create_derive", "derive_open", "derive_fido"}
                          => NamesCredential(rec[p])

(* An alias that has answered once can be derived until it is deleted,     *)
(* although a record may be stored whose credential never derives: no      *)
(* Create that comes later, of any instance, leaves such a record in its   *)
(* place (secrets.go:127-128, 168, 172).                                   *)
Derivable(r) == \E d \in Device : Holds(d, r)

AnsweredStaysDerivable ==
    \A h \in handed : h.epoch = epoch[h.alias] =>
        records[h.alias] # NULL /\ Derivable(records[h.alias])

(* A secret handed out for an alias stays the one the stored record yields *)
(* until the alias is deleted: whatever Creates of the same alias race, in *)
(* one instance or in several, no caller keeps a secret that Derive will   *)
(* not return again (secrets.go:138, 172).                                 *)
SecretsAreStable ==
    \A h \in handed : h.epoch = epoch[h.alias] =>
        records[h.alias] # NULL /\ SecretOf(records[h.alias]) = h.secret

(* From the Has to the Put of a Create no other Create of the same         *)
(* instance stores its alias, so none of them leaves a credential on the   *)
(* authenticator that lost to another (secrets.go:135; secrets_test.go:227 *)
(* tests one schedule of it).                                              *)
OwnCreatesDoNotCollide ==
    \A p \in Proc : pc[p] \in {"create_open", "create_fido", "create_put"} /\ records[MyAlias(p)] # NULL =>
        \A c \in made : c.id = records[MyAlias(p)].cred => c.svc # call[p].svc

(* The service implements the keyring: an alias keeps its secret until it  *)
(* is deleted, no secret serves twice, and only such secrets are returned. *)
BoundSecrets == [a \in Alias |-> IF records[a] = NULL THEN NULL ELSE SecretOf(records[a])]
Answers == {<<h.alias, h.secret>> : h \in handed}

K == INSTANCE Keyring WITH bound <- BoundSecrets, answers <- Answers

ImplementsKeyring == K!Spec

(* Every call returns, and the Creates of an instance are not held up for  *)
(* ever by one that failed: createMu is released on each of its error      *)
(* paths (secrets.go:135-136).                                             *)
CallsReturn == \A p \in Proc : pc[p] # "idle" ~> pc[p] = "idle"
-----------------------------------------------------------------------------
(***************************************************************************)
(* The inductive invariant: the shape of the locals and the mutex, then    *)
(* which credential belongs to whom.                                       *)
(***************************************************************************)
LocalShape ==
    \A p \in Proc :
        /\ pc[p] # "idle" => call[p] \in Call
        /\ pc[p] \in {"create_open", "create_fido"} => rec[p] \in Draft
        /\ pc[p] \in {"create_put", "create_derive", "derive_open", "derive_fido"} => rec[p] \in Record
        /\ pc[p] \in {"create_fido", "create_put", "create_derive", "derive_fido"} => dev[p] \in Device

(* A Create past its lock owns createMu of its instance. *)
CreateOwnsMutex == \A p \in Proc : pc[p] \in CreatePCs => creator[call[p].svc] = p

ShapeInv == TypeOK /\ LocalShape /\ CreateOwnsMutex

(* Credential ids are unique, and a secret in use has its credential.      *)
CredInv ==
    /\ \A c, d \in made : c.id = d.id => c = d
    /\ \A u \in used : \E c \in made : c.id = u[2][1]

(* The credential a Create has made is its own and not in use yet.         *)
FreshInv ==
    \A p \in Proc :
        /\ pc[p] \in {"create_open", "create_fido"} => rec[p].rp = RpId[call[p].svc]
        /\ pc[p] = "create_put" =>
              /\ \E c \in made : /\ c.id = rec[p].cred /\ c.dev = dev[p]
                                 /\ c.rp = rec[p].rp /\ c.svc = call[p].svc
              /\ \A u \in used : u[2][1] # rec[p].cred
              /\ \A q \in Proc : pc[q] = "create_put" /\ rec[q].cred = rec[p].cred => q = p

StoredInv == \A a \in Alias : records[a] # NULL => <<a, SecretOf(records[a])>> \in used

(* What a call will hand out was stored, and still is if nothing has been  *)
(* deleted since.                                                          *)
RequestInv ==
    \A p \in Proc : pc[p] \in {"create_derive", "derive_open", "derive_fido"} =>
        /\ <<MyAlias(p), SecretOf(rec[p])>> \in used
        /\ since[p] <= epoch[MyAlias(p)]
        /\ since[p] = epoch[MyAlias(p)] => records[MyAlias(p)] = rec[p]

(* What has been handed out was stored, and its authenticator can derive.  *)
HandedInv ==
    \A h \in handed :
        /\ <<h.alias, h.secret>> \in used /\ h.epoch <= epoch[h.alias]
        /\ \E c \in made : c.id = h.secret[1] /\ c.dev \in HmacSecret

(* The strengthening under which the safety properties are inductive.      *)
CredentialInv ==
    /\ CredInv /\ FreshInv /\ StoredInv /\ RequestInv /\ HandedInv
    /\ RecordsNameCredentials /\ SecretsAreStable /\ OwnCreatesDoNotCollide

IInv == ShapeInv /\ CredentialInv
=============================================================================
