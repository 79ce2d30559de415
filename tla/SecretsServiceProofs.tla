------------------------ MODULE SecretsServiceProofs ------------------------
(***************************************************************************)
(* The safety properties of SecretsService for any number of goroutines,   *)
(* instances, aliases and authenticators, from the inductive invariant     *)
(* IInv: first the shape of the locals and the mutex (ShapeInv), then what *)
(* is known of credentials and records (CredentialInv).                    *)
(***************************************************************************)
EXTENDS SecretsService, TLAPS

(* Where a call stands on a record. *)
Working == {"create_open", "create_fido", "create_put", "create_derive", "derive_open", "derive_fido"}

-----------------------------------------------------------------------------
(* Shape.                                                                  *)

LEMMA InitShape == Init => ShapeInv
BY NullAssumption DEF Init, ShapeInv, TypeOK, StateTypeOK, LocalTypeOK, GhostTypeOK, LocalShape,
    CreateOwnsMutex, PCs, CreatePCs

LEMMA BeginShape ==
    ASSUME ShapeInv, NEW p \in Proc, NEW s \in Service, NEW a \in Alias,
           NEW first \in {"create_lock", "derive_get", "delete"}, Begin(p, first, s, a)
    PROVE  ShapeInv'
<1> USE DEF ShapeInv, Begin, PCs, CreatePCs
<1>1. StateTypeOK' /\ GhostTypeOK'
  BY DEF TypeOK, StateTypeOK, GhostTypeOK
<1>2. [svc |-> s, alias |-> a] \in Call
  BY DEF Call
<1>3. LocalTypeOK'
  BY <1>2 DEF TypeOK, LocalTypeOK
<1>4. LocalShape'
  BY <1>2 DEF LocalShape, TypeOK, LocalTypeOK
<1>5. CreateOwnsMutex'
  BY DEF CreateOwnsMutex, TypeOK, LocalTypeOK
<1> QED
  BY <1>1, <1>3, <1>4, <1>5 DEF TypeOK

(* A call of p that goes on to next or returns, in the terms of the locals. *)
LEMMA AdvanceShape ==
    ASSUME ShapeInv, NEW p \in Proc, pc[p] # "idle",
           NEW next \in PCs, NEW r \in Draft \cup {NULL}, NEW d \in Device \cup {NULL},
           Advance(p, next, r, d),
           next \in {"create_open", "create_fido"} => r \in Draft,
           next \in {"create_put", "create_derive", "derive_open", "derive_fido"} => r \in Record,
           next \in {"create_fido", "create_put", "create_derive", "derive_fido"} => d \in Device
    PROVE  LocalTypeOK' /\ LocalShape'
<1>1. LocalTypeOK'
  BY DEF ShapeInv, TypeOK, LocalTypeOK, Advance
<1>2. LocalShape'
  BY DEF ShapeInv, TypeOK, LocalTypeOK, LocalShape, Advance
<1> QED
  BY <1>1, <1>2

LEMMA ReturnShape ==
    ASSUME ShapeInv, NEW p \in Proc, Return(p)
    PROVE  LocalTypeOK' /\ LocalShape'
<1>1. LocalTypeOK'
  BY DEF ShapeInv, TypeOK, LocalTypeOK, Return, PCs
<1>2. LocalShape'
  BY DEF ShapeInv, TypeOK, LocalTypeOK, LocalShape, Return
<1> QED
  BY <1>1, <1>2

(* The deferred Unlock gives up the mutex of the call that holds it.       *)
LEMMA ReturnCreateShape ==
    ASSUME ShapeInv, NEW p \in Proc, pc[p] \in CreatePCs, ReturnCreate(p)
    PROVE  LocalTypeOK' /\ LocalShape' /\ CreateOwnsMutex' /\ creator' \in [Service -> Proc \cup {NULL}]
<1>1. Return(p)
  BY DEF ReturnCreate
<1>2. call[p] \in Call /\ creator[call[p].svc] = p
  BY DEF ShapeInv, LocalShape, CreateOwnsMutex, CreatePCs
<1>3. CreateOwnsMutex'
  BY <1>2 DEF ShapeInv, TypeOK, StateTypeOK, LocalTypeOK, LocalShape, CreateOwnsMutex,
      ReturnCreate, Return, CreatePCs, Call
<1>4. creator' \in [Service -> Proc \cup {NULL}]
  BY DEF ShapeInv, TypeOK, StateTypeOK, ReturnCreate
<1> QED
  BY <1>1, <1>3, <1>4, ReturnShape

LEMMA CreateLockShape ==
    ASSUME ShapeInv, NEW p \in Proc, CreateLock(p)
    PROVE  ShapeInv'
<1>1. call[p] \in Call /\ pc[p] = "create_lock"
  BY DEF CreateLock, At, ShapeInv, LocalShape
<1>2. LocalTypeOK' /\ LocalShape'
  BY <1>1, AdvanceShape DEF CreateLock, PCs, CreatePCs
<1>3. StateTypeOK' /\ GhostTypeOK'
  BY DEF CreateLock, ShapeInv, TypeOK, StateTypeOK, LocalTypeOK, GhostTypeOK, Advance
<1>4. ASSUME NEW q \in Proc, pc'[q] \in CreatePCs
      PROVE  creator'[call'[q].svc] = q
  <2>1. call' = call /\ pc' = [pc EXCEPT ![p] = "create_has"] /\ call[p].svc \in Service
    BY <1>1 DEF CreateLock, Advance, Call
  <2>2. creator[call[p].svc] = NULL /\ creator' = [creator EXCEPT ![call[p].svc] = p]
    BY DEF CreateLock
  <2>3. CASE q = p
    BY <2>1, <2>2, <2>3 DEF ShapeInv, TypeOK, StateTypeOK
  <2>4. CASE q # p
    <3>1. pc[q] \in CreatePCs
      BY <1>4, <2>1, <2>4 DEF ShapeInv, TypeOK, LocalTypeOK
    <3>2. creator[call[q].svc] = q /\ q # NULL
      BY <3>1, NullAssumption DEF ShapeInv, CreateOwnsMutex
    <3> QED
      BY <2>1, <2>2, <3>2 DEF ShapeInv, TypeOK, StateTypeOK
  <2> QED
    BY <2>3, <2>4
<1> QED
  BY <1>2, <1>3, <1>4 DEF ShapeInv, TypeOK, CreateOwnsMutex

(* A Create that goes on keeps the mutex. *)
LEMMA KeepsMutex ==
    ASSUME ShapeInv, NEW p \in Proc, pc[p] \in CreatePCs, NEW next \in CreatePCs, NEW r, NEW d,
           Advance(p, next, r, d), UNCHANGED creator
    PROVE  CreateOwnsMutex'
BY DEF ShapeInv, TypeOK, LocalTypeOK, CreateOwnsMutex, Advance

LEMMA CreateHasShape ==
    ASSUME ShapeInv, NEW p \in Proc, CreateHas(p)
    PROVE  ShapeInv'
<1>1. pc[p] = "create_has" /\ call[p] \in Call
  BY DEF CreateHas, At, ShapeInv, LocalShape
<1>2. CASE ReturnCreate(p)
  <2>1. LocalTypeOK' /\ LocalShape' /\ CreateOwnsMutex' /\ creator' \in [Service -> Proc \cup {NULL}]
    BY <1>1, <1>2, ReturnCreateShape DEF CreatePCs
  <2> QED
    BY <2>1 DEF CreateHas, ShapeInv, TypeOK, StateTypeOK, GhostTypeOK
<1>3. ASSUME NEW s \in Salt, UNCHANGED creator,
             Advance(p, "create_open", [cred |-> NULL, salt |-> s, rp |-> RpId[call[p].svc]], NULL)
      PROVE  ShapeInv'
  <2>1. [cred |-> NULL, salt |-> s, rp |-> RpId[call[p].svc]] \in Draft
    BY <1>1, RpAssumption DEF Draft, Call
  <2>2. LocalTypeOK' /\ LocalShape'
    BY <1>1, <1>3, <2>1, AdvanceShape DEF PCs, CreatePCs
  <2>3. CreateOwnsMutex'
    BY <1>1, <1>3, KeepsMutex DEF CreatePCs
  <2> QED
    BY <1>3, <2>2, <2>3 DEF CreateHas, ShapeInv, TypeOK, StateTypeOK, GhostTypeOK
<1> QED
  BY <1>2, <1>3 DEF CreateHas

LEMMA CreateOpenShape ==
    ASSUME ShapeInv, NEW p \in Proc, CreateOpen(p)
    PROVE  ShapeInv'
<1>1. pc[p] = "create_open" /\ rec[p] \in Draft
  BY DEF CreateOpen, At, ShapeInv, LocalShape
<1>2. CASE ReturnCreate(p)
  <2>1. LocalTypeOK' /\ LocalShape' /\ CreateOwnsMutex' /\ creator' \in [Service -> Proc \cup {NULL}]
    BY <1>1, <1>2, ReturnCreateShape DEF CreatePCs
  <2> QED
    BY <2>1 DEF CreateOpen, ShapeInv, TypeOK, StateTypeOK, GhostTypeOK
<1>3. ASSUME NEW d \in Device, UNCHANGED creator, Advance(p, "create_fido", rec[p], d)
      PROVE  ShapeInv'
  <2>2. LocalTypeOK' /\ LocalShape'
    BY <1>1, <1>3, AdvanceShape DEF PCs, CreatePCs
  <2>3. CreateOwnsMutex'
    BY <1>1, <1>3, KeepsMutex DEF CreatePCs
  <2> QED
    BY <1>3, <2>2, <2>3 DEF CreateOpen, ShapeInv, TypeOK, StateTypeOK, GhostTypeOK
<1> QED
  BY <1>2, <1>3 DEF CreateOpen

LEMMA CreateFidoShape ==
    ASSUME ShapeInv, NEW p \in Proc, CreateFido(p)
    PROVE  ShapeInv'
<1>1. pc[p] = "create_fido" /\ rec[p] \in Draft /\ dev[p] \in Device /\ call[p] \in Call
  BY DEF CreateFido, At, ShapeInv, LocalShape
<1>2. made' \subseteq Credential
  <2>1. CASE UNCHANGED made
    BY <2>1 DEF ShapeInv, TypeOK, StateTypeOK
  <2>2. ASSUME NEW id \in Cred,
               made' = made \cup {[id |-> id, dev |-> dev[p], rp |-> RpId[call[p].svc], svc |-> call[p].svc]}
        PROVE  made' \subseteq Credential
    <3>1. [id |-> id, dev |-> dev[p], rp |-> RpId[call[p].svc], svc |-> call[p].svc] \in Credential
      BY <1>1, RpAssumption DEF Credential, Call
    <3> QED
      BY <2>2, <3>1 DEF ShapeInv, TypeOK, StateTypeOK
  <2> QED
    BY <2>1, <2>2 DEF CreateFido
<1>3. CASE ReturnCreate(p)
  <2>1. LocalTypeOK' /\ LocalShape' /\ CreateOwnsMutex' /\ creator' \in [Service -> Proc \cup {NULL}]
    BY <1>1, <1>3, ReturnCreateShape DEF CreatePCs
  <2> QED
    BY <1>2, <2>1 DEF CreateFido, ShapeInv, TypeOK, StateTypeOK, GhostTypeOK
<1>4. ASSUME NEW id \in Cred, UNCHANGED creator,
             Advance(p, "create_put", [rec[p] EXCEPT !.cred = id], dev[p])
      PROVE  ShapeInv'
  <2>1. [rec[p] EXCEPT !.cred = id] \in Record /\ [rec[p] EXCEPT !.cred = id] \in Draft
    BY <1>1 DEF Draft, Record
  <2>2. LocalTypeOK' /\ LocalShape'
    BY <1>1, <1>4, <2>1, AdvanceShape DEF PCs, CreatePCs
  <2>3. CreateOwnsMutex'
    BY <1>1, <1>4, KeepsMutex DEF CreatePCs
  <2> QED
    BY <1>2, <1>4, <2>2, <2>3 DEF CreateFido, ShapeInv, TypeOK, StateTypeOK, GhostTypeOK
<1> QED
  BY <1>3, <1>4 DEF CreateFido

LEMMA SecretOfType == \A r \in Record : SecretOf(r) \in Secret
BY DEF SecretOf, Secret, Record

LEMMA CreatePutShape ==
    ASSUME ShapeInv, NEW p \in Proc, CreatePut(p)
    PROVE  ShapeInv'
<1>1. /\ pc[p] = "create_put" /\ rec[p] \in Record /\ rec[p] \in Draft /\ dev[p] \in Device
      /\ call[p] \in Call /\ MyAlias(p) \in Alias
  BY DEF CreatePut, At, ShapeInv, LocalShape, MyAlias, Call, Record, Draft
<1>2. /\ records' \in [Alias -> Record \cup {NULL}] /\ used' \subseteq Alias \X Secret
      /\ made' = made /\ epoch' = epoch /\ handed' = handed
  <2>1. <<MyAlias(p), SecretOf(rec[p])>> \in Alias \X Secret
    BY <1>1, SecretOfType
  <2> QED
    BY <1>1, <2>1 DEF CreatePut, ShapeInv, TypeOK, StateTypeOK, GhostTypeOK
<1>3. since' \in [Proc -> Nat]
  BY <1>1 DEF CreatePut, MyEpoch, ShapeInv, TypeOK, GhostTypeOK
<1>4. CASE ReturnCreate(p)
  <2>1. LocalTypeOK' /\ LocalShape' /\ CreateOwnsMutex' /\ creator' \in [Service -> Proc \cup {NULL}]
    BY <1>1, <1>4, ReturnCreateShape DEF CreatePCs
  <2> QED
    BY <1>2, <1>3, <2>1 DEF ShapeInv, TypeOK, StateTypeOK, GhostTypeOK
<1>5. CASE Advance(p, "create_derive", rec[p], dev[p]) /\ UNCHANGED creator
  <2>2. LocalTypeOK' /\ LocalShape'
    BY <1>1, <1>5, AdvanceShape DEF PCs, CreatePCs
  <2>3. CreateOwnsMutex'
    BY <1>1, <1>5, KeepsMutex DEF CreatePCs
  <2> QED
    BY <1>2, <1>3, <1>5, <2>2, <2>3 DEF ShapeInv, TypeOK, StateTypeOK, GhostTypeOK
<1> QED
  BY <1>4, <1>5 DEF CreatePut

(* What is handed out has its type when the call works with a record.      *)
LEMMA HandOutShape ==
    ASSUME ShapeInv, NEW p \in Proc, call[p] \in Call, rec[p] \in Record, HandOut(p) \/ UNCHANGED handed
    PROVE  handed' \subseteq [alias : Alias, epoch : Nat, secret : Secret]
<1>1. [alias |-> MyAlias(p), epoch |-> since[p], secret |-> SecretOf(rec[p])]
        \in [alias : Alias, epoch : Nat, secret : Secret]
  BY SecretOfType DEF MyAlias, Call, ShapeInv, TypeOK, GhostTypeOK
<1> QED
  BY <1>1 DEF HandOut, ShapeInv, TypeOK, GhostTypeOK

LEMMA CreateDeriveShape ==
    ASSUME ShapeInv, NEW p \in Proc, CreateDerive(p)
    PROVE  ShapeInv'
<1>1. pc[p] = "create_derive" /\ rec[p] \in Record /\ call[p] \in Call
  BY DEF CreateDerive, At, ShapeInv, LocalShape
<1>2. handed' \subseteq [alias : Alias, epoch : Nat, secret : Secret]
  BY <1>1, HandOutShape DEF CreateDerive
<1>3. LocalTypeOK' /\ LocalShape' /\ CreateOwnsMutex' /\ creator' \in [Service -> Proc \cup {NULL}]
  BY <1>1, ReturnCreateShape DEF CreateDerive, CreatePCs
<1> QED
  BY <1>2, <1>3 DEF CreateDerive, ShapeInv, TypeOK, StateTypeOK, GhostTypeOK

(* A call that is not a Create leaves the mutexes with their holders. *)
LEMMA OutsideMutex ==
    ASSUME ShapeInv, NEW p \in Proc, UNCHANGED creator, pc'[p] \notin CreatePCs,
           \A q \in Proc : q # p => pc'[q] = pc[q] /\ call'[q] = call[q]
    PROVE  CreateOwnsMutex'
BY DEF ShapeInv, CreateOwnsMutex

LEMMA DeriveGetShape ==
    ASSUME ShapeInv, NEW p \in Proc, DeriveGet(p)
    PROVE  ShapeInv'
<1>1. pc[p] = "derive_get" /\ call[p] \in Call /\ MyAlias(p) \in Alias
  BY DEF DeriveGet, At, ShapeInv, LocalShape, MyAlias, Call
<1>2. since' \in [Proc -> Nat]
  BY <1>1 DEF DeriveGet, MyEpoch, ShapeInv, TypeOK, GhostTypeOK
<1>3. CASE Return(p)
  <2>1. LocalTypeOK' /\ LocalShape'
    BY <1>3, ReturnShape
  <2>2. CreateOwnsMutex'
    BY <1>3, OutsideMutex DEF DeriveGet, Return, ShapeInv, TypeOK, LocalTypeOK, CreatePCs
  <2> QED
    BY <1>2, <2>1, <2>2 DEF DeriveGet, ShapeInv, TypeOK, StateTypeOK, GhostTypeOK
<1>4. CASE records[MyAlias(p)] # NULL /\ Advance(p, "derive_open", records[MyAlias(p)], NULL)
  <2>1. records[MyAlias(p)] \in Record /\ records[MyAlias(p)] \in Draft
    BY <1>1, <1>4 DEF ShapeInv, TypeOK, StateTypeOK, Record, Draft
  <2>2. LocalTypeOK' /\ LocalShape'
    BY <1>1, <1>4, <2>1, AdvanceShape DEF PCs
  <2>3. CreateOwnsMutex'
    BY <1>4, OutsideMutex DEF DeriveGet, Advance, ShapeInv, TypeOK, LocalTypeOK, CreatePCs
  <2> QED
    BY <1>2, <2>2, <2>3 DEF DeriveGet, ShapeInv, TypeOK, StateTypeOK, GhostTypeOK
<1> QED
  BY <1>3, <1>4 DEF DeriveGet

LEMMA DeriveOpenShape ==
    ASSUME ShapeInv, NEW p \in Proc, DeriveOpen(p)
    PROVE  ShapeInv'
<1>1. pc[p] = "derive_open" /\ rec[p] \in Record /\ rec[p] \in Draft
  BY DEF DeriveOpen, At, ShapeInv, LocalShape, Record, Draft
<1>2. LocalTypeOK' /\ LocalShape'
  BY <1>1, ReturnShape, AdvanceShape DEF DeriveOpen, PCs
<1>3. CreateOwnsMutex'
  BY OutsideMutex DEF DeriveOpen, Return, Advance, ShapeInv, TypeOK, LocalTypeOK, CreatePCs
<1> QED
  BY <1>2, <1>3 DEF DeriveOpen, ShapeInv, TypeOK, StateTypeOK, GhostTypeOK

LEMMA DeriveFidoShape ==
    ASSUME ShapeInv, NEW p \in Proc, DeriveFido(p)
    PROVE  ShapeInv'
<1>1. pc[p] = "derive_fido" /\ rec[p] \in Record /\ call[p] \in Call
  BY DEF DeriveFido, At, ShapeInv, LocalShape
<1>2. handed' \subseteq [alias : Alias, epoch : Nat, secret : Secret]
  BY <1>1, HandOutShape DEF DeriveFido
<1>3. LocalTypeOK' /\ LocalShape'
  BY ReturnShape DEF DeriveFido
<1>4. CreateOwnsMutex'
  BY OutsideMutex DEF DeriveFido, Return, ShapeInv, TypeOK, LocalTypeOK, CreatePCs
<1> QED
  BY <1>2, <1>3, <1>4 DEF DeriveFido, ShapeInv, TypeOK, StateTypeOK, GhostTypeOK

LEMMA DeleteShape ==
    ASSUME ShapeInv, NEW p \in Proc, Delete(p)
    PROVE  ShapeInv'
<1>1. call[p] \in Call /\ MyAlias(p) \in Alias
  BY DEF Delete, At, ShapeInv, LocalShape, MyAlias, Call
<1>2. records' \in [Alias -> Record \cup {NULL}] /\ epoch' \in [Alias -> Nat]
  BY <1>1 DEF Delete, ShapeInv, TypeOK, StateTypeOK, GhostTypeOK
<1>3. LocalTypeOK' /\ LocalShape'
  BY ReturnShape DEF Delete
<1>4. CreateOwnsMutex'
  BY OutsideMutex DEF Delete, Return, ShapeInv, TypeOK, LocalTypeOK, CreatePCs
<1> QED
  BY <1>2, <1>3, <1>4 DEF Delete, ShapeInv, TypeOK, StateTypeOK, GhostTypeOK

LEMMA CrashShape ==
    ASSUME ShapeInv, NEW s \in Service, Crash(s)
    PROVE  ShapeInv'
<1>1. LocalTypeOK'
  BY DEF Crash, ShapeInv, TypeOK, LocalTypeOK, PCs
<1>2. LocalShape'
  BY DEF Crash, ShapeInv, TypeOK, LocalTypeOK, LocalShape
<1>3. CreateOwnsMutex'
  <2> SUFFICES ASSUME NEW q \in Proc, pc'[q] \in CreatePCs
               PROVE  creator'[call'[q].svc] = q
    BY DEF CreateOwnsMutex
  <2>1. pc[q] # "idle" /\ call[q].svc # s /\ pc'[q] = pc[q] /\ call'[q] = call[q]
    BY DEF Crash, CreatePCs
  <2> QED
    BY <2>1 DEF Crash, ShapeInv, CreateOwnsMutex, TypeOK, StateTypeOK
<1> QED
  BY <1>1, <1>2, <1>3 DEF Crash, ShapeInv, TypeOK, StateTypeOK, GhostTypeOK

LEMMA StutterShape ==
    ASSUME ShapeInv, UNCHANGED vars
    PROVE  ShapeInv'
BY DEF vars, ShapeInv, TypeOK, StateTypeOK, LocalTypeOK, GhostTypeOK, LocalShape, CreateOwnsMutex

LEMMA NextShape ==
    ASSUME ShapeInv, [Next]_vars
    PROVE  ShapeInv'
<1>1. ASSUME NEW p \in Proc, NEW s \in Service, NEW a \in Alias,
             StartCreate(p, s, a) \/ StartDerive(p, s, a) \/ StartDelete(p, s, a)
      PROVE  ShapeInv'
  BY <1>1, BeginShape DEF StartCreate, StartDerive, StartDelete
<1>2. ASSUME NEW p \in Proc, CreateLock(p) \/ CallStep(p)
      PROVE  ShapeInv'
  BY <1>2, CreateLockShape, CreateHasShape, CreateOpenShape, CreateFidoShape, CreatePutShape,
     CreateDeriveShape, DeriveGetShape, DeriveOpenShape, DeriveFidoShape, DeleteShape DEF CallStep
<1> QED
  BY <1>1, <1>2, CrashShape, StutterShape DEF Next

-----------------------------------------------------------------------------
(***************************************************************************)
(* Credentials.  Most steps leave the records, the credentials and what    *)
(* the calls work with alone (Quiet); the others have a lemma each.        *)
(***************************************************************************)
Keeps(q) == /\ pc'[q] = pc[q] /\ call'[q] = call[q] /\ rec'[q] = rec[q] /\ dev'[q] = dev[q]
            /\ since'[q] = since[q]

Quiet(q) ==
    pc'[q] \in Working =>
        /\ rec'[q] = rec[q] /\ call'[q] = call[q] /\ since'[q] = since[q]
        /\ pc'[q] = "create_open" => pc[q] = "create_open"
        /\ pc'[q] = "create_fido" => pc[q] \in {"create_open", "create_fido"}
        /\ pc'[q] = "create_put" => pc[q] = "create_put" /\ dev'[q] = dev[q]
        /\ pc'[q] = "create_derive" => pc[q] = "create_derive"
        /\ pc'[q] \in {"derive_open", "derive_fido"} => pc[q] \in {"derive_open", "derive_fido"}

LEMMA QuietLocals ==
    ASSUME ShapeInv, CredentialInv, UNCHANGED <<records, made, epoch, used>>,
           \A q \in Proc : Quiet(q)
    PROVE  CredInv' /\ FreshInv' /\ StoredInv' /\ RequestInv' /\ RecordsNameCredentials' /\ OwnCreatesDoNotCollide'
<1> USE DEF CredentialInv
<1>1. CredInv' /\ StoredInv'
  BY DEF CredInv, StoredInv, SecretOf
<1>2. FreshInv'
  <2>1. ASSUME NEW q \in Proc, pc'[q] \in {"create_open", "create_fido"}
        PROVE  rec'[q].rp = RpId[call'[q].svc]
    BY <2>1 DEF Quiet, Working, FreshInv
  <2>2. \A q \in Proc : pc'[q] = "create_put" =>
           pc[q] = "create_put" /\ rec'[q] = rec[q] /\ dev'[q] = dev[q] /\ call'[q] = call[q]
    BY DEF Quiet, Working
  <2> QED
    BY <2>1, <2>2 DEF FreshInv
<1>3. ASSUME NEW q \in Proc, pc'[q] \in {"create_derive", "derive_open", "derive_fido"}
      PROVE  /\ pc[q] \in {"create_derive", "derive_open", "derive_fido"}
             /\ rec'[q] = rec[q] /\ call'[q] = call[q] /\ since'[q] = since[q]
  BY <1>3 DEF Quiet, Working
<1>4. RequestInv'
  BY <1>3 DEF RequestInv, MyAlias, SecretOf
<1>5. RecordsNameCredentials'
  BY <1>3 DEF RecordsNameCredentials, NamesCredential
<1>6. OwnCreatesDoNotCollide'
  BY DEF OwnCreatesDoNotCollide, Quiet, Working, MyAlias
<1> QED
  BY <1>1, <1>2, <1>4, <1>5, <1>6

LEMMA QuietStep ==
    ASSUME ShapeInv, CredentialInv, UNCHANGED <<records, made, epoch, used, handed>>,
           \A q \in Proc : Quiet(q)
    PROVE  CredentialInv'
<1>1. HandedInv' /\ SecretsAreStable'
  BY DEF CredentialInv, HandedInv, SecretsAreStable, SecretOf
<1> QED
  BY <1>1, QuietLocals DEF CredentialInv

(* A call hands out the secret of a record it works with. *)
LEMMA HandOutStep ==
    ASSUME ShapeInv, CredentialInv, UNCHANGED <<records, made, epoch, used>>,
           \A q \in Proc : Quiet(q),
           NEW p \in Proc, pc[p] \in {"create_derive", "derive_fido"},
           Holds(dev[p], rec[p]), HandOut(p)
    PROVE  CredentialInv'
<1>1. /\ <<MyAlias(p), SecretOf(rec[p])>> \in used /\ since[p] <= epoch[MyAlias(p)]
      /\ since[p] = epoch[MyAlias(p)] => records[MyAlias(p)] = rec[p]
  BY DEF CredentialInv, RequestInv
<1>2. rec[p] # NULL
  BY NullAssumption DEF ShapeInv, LocalShape, Draft, Record
<1>3. HandedInv'
  <2> DEFINE new == [alias |-> MyAlias(p), epoch |-> since[p], secret |-> SecretOf(rec[p])]
  <2>1. new.alias = MyAlias(p) /\ new.epoch = since[p] /\ new.secret = SecretOf(rec[p])
    OBVIOUS
  <2>2. handed' = handed \cup {new}
    BY DEF HandOut
  <2> HIDE DEF new
  <2>3. \E c \in made : c.id = new.secret[1] /\ c.dev \in HmacSecret
    BY <2>1 DEF Holds, SecretOf
  <2> QED
    BY <1>1, <2>1, <2>2, <2>3 DEF CredentialInv, HandedInv
<1>4. SecretsAreStable'
  BY <1>1, <1>2 DEF CredentialInv, SecretsAreStable, HandOut, SecretOf
<1> QED
  BY <1>3, <1>4, QuietLocals DEF CredentialInv

LEMMA InitCredentials == Init => CredentialInv
BY DEF Init, CredentialInv, CredInv, FreshInv, StoredInv, RequestInv, HandedInv, RecordsNameCredentials,
   SecretsAreStable, OwnCreatesDoNotCollide

(* A return, or a step that keeps the record of p, is quiet. *)
LEMMA ReturnQuiet ==
    ASSUME ShapeInv, NEW p \in Proc, Return(p), UNCHANGED since
    PROVE  \A q \in Proc : Quiet(q)
BY DEF ShapeInv, TypeOK, LocalTypeOK, Return, Quiet, Working

LEMMA BeginCredentials ==
    ASSUME ShapeInv, CredentialInv, NEW p \in Proc, NEW s \in Service, NEW a \in Alias,
           NEW first \in {"create_lock", "derive_get", "delete"}, Begin(p, first, s, a)
    PROVE  CredentialInv'
<1>1. \A q \in Proc : Quiet(q)
  BY DEF Begin, Quiet, Working, ShapeInv, TypeOK, LocalTypeOK
<1> QED
  BY <1>1, QuietStep DEF Begin

LEMMA CreateLockCredentials ==
    ASSUME ShapeInv, CredentialInv, NEW p \in Proc, CreateLock(p)
    PROVE  CredentialInv'
<1>1. \A q \in Proc : Quiet(q)
  BY DEF CreateLock, Advance, Quiet, Working, ShapeInv, TypeOK, LocalTypeOK
<1> QED
  BY <1>1, QuietStep DEF CreateLock

LEMMA CrashCredentials ==
    ASSUME ShapeInv, CredentialInv, NEW s \in Service, Crash(s)
    PROVE  CredentialInv'
<1>1. \A q \in Proc : Quiet(q)
  BY DEF Crash, Quiet, Working
<1> QED
  BY <1>1, QuietStep DEF Crash

LEMMA OpenCredentials ==
    ASSUME ShapeInv, CredentialInv, NEW p \in Proc, CreateOpen(p) \/ DeriveOpen(p)
    PROVE  CredentialInv'
<1>1. CASE Return(p)
  BY <1>1, ReturnQuiet, QuietStep DEF CreateOpen, DeriveOpen
<1>2. CASE ~Return(p)
  <2>1. \A q \in Proc : Quiet(q)
    BY <1>2 DEF CreateOpen, DeriveOpen, ReturnCreate, At, Advance, Quiet, Working, ShapeInv, TypeOK, LocalTypeOK
  <2> QED
    BY <2>1, QuietStep DEF CreateOpen, DeriveOpen
<1> QED
  BY <1>1, <1>2

LEMMA DeriveCredentials ==
    ASSUME ShapeInv, CredentialInv, NEW p \in Proc, CreateDerive(p) \/ DeriveFido(p)
    PROVE  CredentialInv'
<1>1. pc[p] \in {"create_derive", "derive_fido"} /\ Return(p)
  BY DEF CreateDerive, DeriveFido, At, ReturnCreate
<1>2. \A q \in Proc : Quiet(q)
  BY <1>1, ReturnQuiet DEF CreateDerive, DeriveFido
<1> QED
  BY <1>1, <1>2, QuietStep, HandOutStep DEF CreateDerive, DeriveFido

LEMMA CreateHasCredentials ==
    ASSUME ShapeInv, CredentialInv, NEW p \in Proc, CreateHas(p)
    PROVE  CredentialInv'
<1>1. CASE ReturnCreate(p)
  BY <1>1, ReturnQuiet, QuietStep DEF CreateHas, ReturnCreate
<1>2. ASSUME NEW s \in Salt, records[MyAlias(p)] = NULL,
             Advance(p, "create_open", [cred |-> NULL, salt |-> s, rp |-> RpId[call[p].svc]], NULL)
      PROVE  CredentialInv'
  <2> USE DEF CredentialInv
  <2>1. \A q \in Proc : q # p => Keeps(q)
    BY <1>2 DEF CreateHas, Advance, Keeps, ShapeInv, TypeOK, LocalTypeOK
  <2>2. pc'[p] = "create_open" /\ call' = call /\ rec'[p].rp = RpId[call[p].svc]
    BY <1>2 DEF Advance, ShapeInv, TypeOK, LocalTypeOK
  <2>3. UNCHANGED <<records, made, epoch, used, handed>>
    BY DEF CreateHas
  <2>4. CredInv' /\ StoredInv' /\ HandedInv' /\ SecretsAreStable'
    BY <2>3 DEF CredInv, StoredInv, HandedInv, SecretsAreStable, SecretOf
  <2>5. FreshInv'
    BY <2>1, <2>2, <2>3 DEF FreshInv, Keeps
  <2>6. RequestInv'
    BY <2>1, <2>2, <2>3 DEF RequestInv, Keeps, MyAlias, SecretOf
  <2>7. RecordsNameCredentials'
    BY <2>1, <2>2, <2>3 DEF RecordsNameCredentials, Keeps, NamesCredential
  <2>8. OwnCreatesDoNotCollide'
    BY <1>2, <2>1, <2>2, <2>3 DEF OwnCreatesDoNotCollide, Keeps, MyAlias
  <2> QED
    BY <2>4, <2>5, <2>6, <2>7, <2>8
<1> QED
  BY <1>1, <1>2 DEF CreateHas

LEMMA DeriveGetCredentials ==
    ASSUME ShapeInv, CredentialInv, NEW p \in Proc, DeriveGet(p)
    PROVE  CredentialInv'
<1>1. CASE Return(p) /\ UNCHANGED since
  BY <1>1, ReturnQuiet, QuietStep DEF DeriveGet
<1>2. CASE /\ records[MyAlias(p)] # NULL /\ MyEpoch(p)
           /\ Advance(p, "derive_open", records[MyAlias(p)], NULL)
  <2> USE DEF CredentialInv
  <2>1. \A q \in Proc : q # p => Keeps(q)
    BY <1>2 DEF Advance, MyEpoch, Keeps, ShapeInv, TypeOK, LocalTypeOK, GhostTypeOK
  <2>2. /\ pc'[p] = "derive_open" /\ call' = call /\ rec'[p] = records[MyAlias(p)]
        /\ since'[p] = epoch[MyAlias(p)]
    BY <1>2 DEF Advance, MyEpoch, ShapeInv, TypeOK, LocalTypeOK, GhostTypeOK
  <2>3. UNCHANGED <<records, made, epoch, used, handed>>
    BY DEF DeriveGet
  <2>4. MyAlias(p) \in Alias /\ epoch[MyAlias(p)] \in Nat
    BY DEF DeriveGet, At, ShapeInv, LocalShape, TypeOK, GhostTypeOK, MyAlias, Call
  <2>5. CredInv' /\ StoredInv' /\ HandedInv' /\ SecretsAreStable'
    BY <2>3 DEF CredInv, StoredInv, HandedInv, SecretsAreStable, SecretOf
  <2>6. FreshInv'
    BY <2>1, <2>2, <2>3 DEF FreshInv, Keeps
  <2>7. RequestInv'
    BY <1>2, <2>1, <2>2, <2>3, <2>4 DEF RequestInv, StoredInv, Keeps, MyAlias, SecretOf
  <2>8. RecordsNameCredentials'
    BY <1>2, <2>1, <2>2, <2>3, <2>4 DEF RecordsNameCredentials, Keeps, NamesCredential
  <2>9. OwnCreatesDoNotCollide'
    BY <2>1, <2>2, <2>3 DEF OwnCreatesDoNotCollide, Keeps, MyAlias
  <2> QED
    BY <2>5, <2>6, <2>7, <2>8, <2>9
<1> QED
  BY <1>1, <1>2 DEF DeriveGet


LEMMA CreateFidoCredentials ==
    ASSUME ShapeInv, CredentialInv, NEW p \in Proc, CreateFido(p)
    PROVE  CredentialInv'
<1>1. CASE ReturnCreate(p) /\ UNCHANGED made
  BY <1>1, ReturnQuiet, QuietStep DEF CreateFido, ReturnCreate
<1>2. ASSUME NEW id \in Cred, \A c \in made : c.id < id,
             made' = made \cup {[id |-> id, dev |-> dev[p], rp |-> RpId[call[p].svc], svc |-> call[p].svc]},
             \/ Advance(p, "create_put", [rec[p] EXCEPT !.cred = id], dev[p])
             \/ ReturnCreate(p)
      PROVE  CredentialInv'
  <2> USE DEF CredentialInv
  <2> DEFINE new == [id |-> id, dev |-> dev[p], rp |-> RpId[call[p].svc], svc |-> call[p].svc]
  <2>1. /\ new.id = id /\ new.dev = dev[p] /\ new.rp = RpId[call[p].svc] /\ new.svc = call[p].svc
        /\ made' = made \cup {new}
    BY <1>2
  <2> HIDE DEF new
  <2>2. pc[p] = "create_fido" /\ rec[p] \in Draft /\ rec[p].rp = RpId[call[p].svc]
    BY DEF CreateFido, At, ShapeInv, LocalShape, FreshInv
  <2>3. \A c \in made : c.id # id
    BY <1>2 DEF ShapeInv, TypeOK, StateTypeOK, Credential, Cred
  <2>4. \A u \in used : u[2][1] # id
    BY <2>3 DEF CredInv
  <2>5. \A q \in Proc : q # p => Keeps(q)
    BY <1>2 DEF CreateFido, ReturnCreate, Return, Advance, Keeps, ShapeInv, TypeOK, LocalTypeOK
  <2>6. \/ /\ pc'[p] = "create_put" /\ dev'[p] = dev[p] /\ call'[p] = call[p]
           /\ rec'[p].cred = id /\ rec'[p].rp = rec[p].rp
        \/ pc'[p] = "idle"
    BY <1>2, <2>2 DEF ReturnCreate, Return, Advance, ShapeInv, TypeOK, LocalTypeOK, Draft
  <2>7. UNCHANGED <<records, epoch, used, handed>>
    BY DEF CreateFido
  <2>8. \A a \in Alias : records[a] # NULL => records[a].cred # id
    BY <2>4 DEF StoredInv, SecretOf
  <2>9. CredInv'
    BY <2>1, <2>3, <2>7 DEF CredInv
  <2>10. StoredInv' /\ SecretsAreStable'
    BY <2>7 DEF StoredInv, SecretsAreStable, SecretOf
  <2>11. FreshInv'
    <3>1. ASSUME NEW q \in Proc, pc'[q] \in {"create_open", "create_fido"}
          PROVE  rec'[q].rp = RpId[call'[q].svc]
      BY <2>5, <2>6, <3>1 DEF FreshInv, Keeps
    <3>2. ASSUME NEW q \in Proc, pc'[q] = "create_put"
          PROVE  \E c \in made' : /\ c.id = rec'[q].cred /\ c.dev = dev'[q]
                                  /\ c.rp = rec'[q].rp /\ c.svc = call'[q].svc
      <4>1. CASE q = p
        BY <2>1, <2>2, <2>6, <3>2, <4>1
      <4>2. CASE q # p
        BY <2>1, <2>5, <3>2, <4>2 DEF FreshInv, Keeps
      <4> QED
        BY <4>1, <4>2
    <3>3. \A q \in Proc : q # p /\ pc'[q] = "create_put" => rec'[q].cred # id
      BY <2>3, <2>5 DEF FreshInv, Keeps
    <3>4. ASSUME NEW q \in Proc, pc'[q] = "create_put"
          PROVE  \A u \in used' : u[2][1] # rec'[q].cred
      BY <2>4, <2>5, <2>6, <2>7, <3>4 DEF FreshInv, Keeps
    <3>5. ASSUME NEW q \in Proc, NEW r \in Proc, pc'[q] = "create_put", pc'[r] = "create_put",
                 rec'[q].cred = rec'[r].cred
          PROVE  q = r
      BY <2>5, <2>6, <3>3, <3>5 DEF FreshInv, Keeps
    <3> QED
      BY <3>1, <3>2, <3>4, <3>5 DEF FreshInv
  <2>12. RequestInv'
    BY <2>5, <2>6, <2>7 DEF RequestInv, Keeps, MyAlias, SecretOf
  <2>13. RecordsNameCredentials'
    BY <2>1, <2>5, <2>6, <2>7 DEF RecordsNameCredentials, Keeps, NamesCredential
  <2>14. OwnCreatesDoNotCollide'
    <3> SUFFICES ASSUME NEW q \in Proc, pc'[q] \in {"create_open", "create_fido", "create_put"},
                        records[call'[q].alias] # NULL,
                        NEW c \in made', c.id = records[call'[q].alias].cred
                 PROVE  c.svc # call'[q].svc
      BY <2>7 DEF OwnCreatesDoNotCollide, MyAlias
    <3>1. call'[q] = call[q] /\ pc[q] \in {"create_open", "create_fido", "create_put"}
      BY <2>2, <2>5, <2>6 DEF Keeps
    <3>2. call[q].alias \in Alias
      BY <3>1 DEF ShapeInv, LocalShape, Call
    <3>3. c \in made
      BY <2>1, <2>8, <3>1, <3>2
    <3> QED
      BY <3>1, <3>3 DEF OwnCreatesDoNotCollide, MyAlias
  <2>15. HandedInv'
    BY <2>1, <2>7 DEF HandedInv
  <2> QED
    BY <2>9, <2>10, <2>11, <2>12, <2>13, <2>14, <2>15
<1> QED
  BY <1>1, <1>2 DEF CreateFido

LEMMA CreatePutCredentials ==
    ASSUME ShapeInv, CredentialInv, NEW p \in Proc, CreatePut(p)
    PROVE  CredentialInv'
<1>1. CASE ReturnCreate(p) /\ UNCHANGED <<records, used, since>>
  BY <1>1, ReturnQuiet, QuietStep DEF CreatePut, ReturnCreate
<1>2. CASE /\ records[MyAlias(p)] = NULL
           /\ records' = [records EXCEPT ![MyAlias(p)] = rec[p]]
           /\ used' = used \cup {<<MyAlias(p), SecretOf(rec[p])>>}
           /\ \/ Advance(p, "create_derive", rec[p], dev[p]) /\ MyEpoch(p) /\ UNCHANGED creator
              \/ ReturnCreate(p) /\ UNCHANGED since
  <2> USE DEF CredentialInv
  <2> DEFINE a == call[p].alias
  <2>1. /\ pc[p] = "create_put" /\ rec[p] \in Record /\ dev[p] \in Device /\ a \in Alias
        /\ rec[p] # NULL /\ epoch[a] \in Nat /\ call[p] \in Call
    BY NullAssumption DEF CreatePut, At, ShapeInv, LocalShape, Call, Record, Draft, TypeOK, GhostTypeOK
  <2> HIDE DEF a
  <2>2. PICK c \in made : c.id = rec[p].cred /\ c.dev = dev[p] /\ c.rp = rec[p].rp /\ c.svc = call[p].svc
    BY <2>1 DEF FreshInv
  <2>3. /\ records[a] = NULL /\ records' = [records EXCEPT ![a] = rec[p]]
        /\ used' = used \cup {<<a, SecretOf(rec[p])>>}
        /\ UNCHANGED <<made, epoch, handed>>
    BY <1>2 DEF CreatePut, MyAlias, a
  <2>4. records'[a] = rec[p] /\ \A b \in Alias : b # a => records'[b] = records[b]
    BY <2>1, <2>3 DEF ShapeInv, TypeOK, StateTypeOK
  <2>5. \A q \in Proc : q # p => Keeps(q)
    BY <1>2 DEF MyEpoch, ReturnCreate, Return, Advance, Keeps, ShapeInv, TypeOK, LocalTypeOK, GhostTypeOK
  <2>6. \/ /\ pc'[p] = "create_derive" /\ rec'[p] = rec[p] /\ call'[p] = call[p]
           /\ since'[p] = epoch[a]
        \/ pc'[p] = "idle"
    BY <1>2, <2>1 DEF MyEpoch, MyAlias, ReturnCreate, Return, Advance, ShapeInv, TypeOK, LocalTypeOK,
       GhostTypeOK, a
  <2>7. \A q \in Proc : pc[q] \in Working => call[q].alias \in Alias
    BY DEF ShapeInv, LocalShape, Call, Working
  <2>8. NamesCredential(rec[p])
    BY <2>2 DEF NamesCredential
  <2>9. CredInv'
    <3>1. \A u \in used' : \E d \in made : d.id = u[2][1]
      BY <2>2, <2>3 DEF CredInv, SecretOf
    <3> QED
      BY <2>3, <3>1 DEF CredInv
  <2>10. StoredInv'
    BY <2>3, <2>4 DEF StoredInv
  <2>11. HandedInv'
    BY <2>3 DEF HandedInv
  <2>12. SecretsAreStable'
    <3> SUFFICES ASSUME NEW h \in handed, h.epoch = epoch[h.alias]
                 PROVE  records'[h.alias] # NULL /\ SecretOf(records'[h.alias]) = h.secret
      BY <2>3 DEF SecretsAreStable, SecretOf
    <3>1. records[h.alias] # NULL /\ SecretOf(records[h.alias]) = h.secret /\ h.alias \in Alias
      BY DEF SecretsAreStable, ShapeInv, TypeOK, GhostTypeOK
    <3> QED
      BY <2>3, <2>4, <3>1
  <2>13. FreshInv'
    <3>1. \A q \in Proc : pc'[q] = "create_put" => q # p /\ pc[q] = "create_put" /\ Keeps(q)
      BY <2>5, <2>6 DEF Keeps
    <3>2. \A q \in Proc : pc'[q] = "create_put" => rec[q].cred # rec[p].cred
      BY <2>1, <3>1 DEF FreshInv
    <3>3. ASSUME NEW q \in Proc, pc'[q] = "create_put"
          PROVE  \A u \in used' : u[2][1] # rec'[q].cred
      BY <2>3, <3>1, <3>2, <3>3 DEF FreshInv, Keeps, SecretOf
    <3>4. ASSUME NEW q \in Proc, pc'[q] = "create_put"
          PROVE  /\ \E d \in made' : /\ d.id = rec'[q].cred /\ d.dev = dev'[q]
                                     /\ d.rp = rec'[q].rp /\ d.svc = call'[q].svc
                 /\ \A r \in Proc : pc'[r] = "create_put" /\ rec'[r].cred = rec'[q].cred => r = q
      BY <2>3, <3>1, <3>4 DEF FreshInv, Keeps
    <3>5. ASSUME NEW q \in Proc, pc'[q] \in {"create_open", "create_fido"}
          PROVE  rec'[q].rp = RpId[call'[q].svc]
      BY <2>5, <2>6, <3>5 DEF FreshInv, Keeps
    <3> QED
      BY <3>3, <3>4, <3>5 DEF FreshInv
  <2>14. RequestInv'
    <3> SUFFICES ASSUME NEW q \in Proc, pc'[q] \in {"create_derive", "derive_open", "derive_fido"}
                 PROVE  /\ <<call'[q].alias, SecretOf(rec'[q])>> \in used'
                        /\ since'[q] <= epoch'[call'[q].alias]
                        /\ since'[q] = epoch'[call'[q].alias] => records'[call'[q].alias] = rec'[q]
      BY DEF RequestInv, MyAlias, SecretOf
    <3>1. CASE q = p
      BY <2>1, <2>3, <2>4, <2>6, <3>1 DEF a
    <3>2. CASE q # p
      <4>1. Keeps(q) /\ pc[q] \in {"create_derive", "derive_open", "derive_fido"}
        BY <2>5, <3>2 DEF Keeps
      <4>2. rec[q] # NULL /\ call[q].alias \in Alias
        BY <2>7, <4>1, NullAssumption DEF Working, ShapeInv, LocalShape, Draft, Record
      <4>3. /\ <<call[q].alias, SecretOf(rec[q])>> \in used
            /\ since[q] <= epoch[call[q].alias]
            /\ since[q] = epoch[call[q].alias] => records[call[q].alias] = rec[q]
        BY <4>1 DEF RequestInv, MyAlias
      <4> QED
        BY <2>3, <2>4, <4>1, <4>2, <4>3 DEF Keeps
    <3> QED
      BY <3>1, <3>2
  <2>15. RecordsNameCredentials'
    <3>1. ASSUME NEW b \in Alias, records'[b] # NULL
          PROVE  NamesCredential(records'[b])
      BY <2>4, <2>8, <3>1 DEF RecordsNameCredentials
    <3>2. ASSUME NEW q \in Proc, pc'[q] \in {"create_derive", "derive_open", "derive_fido"}
          PROVE  NamesCredential(rec'[q])
      BY <2>5, <2>6, <2>8, <3>2 DEF RecordsNameCredentials, Keeps
    <3> QED
      BY <2>3, <3>1, <3>2 DEF RecordsNameCredentials, NamesCredential
  <2>16. OwnCreatesDoNotCollide'
    <3> SUFFICES ASSUME NEW q \in Proc, pc'[q] \in {"create_open", "create_fido", "create_put"},
                        records'[call'[q].alias] # NULL,
                        NEW d \in made, d.id = records'[call'[q].alias].cred
                 PROVE  d.svc # call'[q].svc
      BY <2>3 DEF OwnCreatesDoNotCollide, MyAlias
    <3>1. q # p /\ call'[q] = call[q] /\ pc[q] \in {"create_open", "create_fido", "create_put"}
      BY <2>5, <2>6 DEF Keeps
    <3>2. call[q].alias \in Alias
      BY <2>7, <3>1 DEF Working
    <3>3. CASE call[q].alias # a
      BY <2>4, <3>1, <3>2, <3>3 DEF OwnCreatesDoNotCollide, MyAlias
    <3>4. CASE call[q].alias = a
      <4>1. d = c
        BY <2>2, <2>4, <3>1, <3>4 DEF CredInv
      <4>2. creator[call[p].svc] = p /\ creator[call[q].svc] = q
        BY <2>1, <3>1 DEF ShapeInv, CreateOwnsMutex, CreatePCs
      <4> QED
        BY <2>2, <3>1, <4>1, <4>2
    <3> QED
      BY <3>3, <3>4
  <2> QED
    BY <2>9, <2>10, <2>11, <2>12, <2>13, <2>14, <2>15, <2>16
<1> QED
  BY <1>1, <1>2 DEF CreatePut

LEMMA DeleteCredentials ==
    ASSUME ShapeInv, CredentialInv, NEW p \in Proc, Delete(p)
    PROVE  CredentialInv'
<1>1. \A q \in Proc : Quiet(q)
  BY ReturnQuiet DEF Delete
<1>2. CASE UNCHANGED <<records, epoch>>
  BY <1>1, <1>2, QuietStep DEF Delete
<1>3. CASE /\ records[MyAlias(p)] # NULL
           /\ records' = [records EXCEPT ![MyAlias(p)] = NULL]
           /\ epoch' = [epoch EXCEPT ![MyAlias(p)] = @ + 1]
  <2> USE DEF CredentialInv
  <2> DEFINE a == call[p].alias
  <2>1. a \in Alias /\ epoch[a] \in Nat
    BY DEF Delete, At, ShapeInv, LocalShape, TypeOK, GhostTypeOK, Call
  <2> HIDE DEF a
  <2>2. /\ records' = [records EXCEPT ![a] = NULL] /\ epoch' = [epoch EXCEPT ![a] = @ + 1]
        /\ UNCHANGED <<made, used, handed, since>>
    BY <1>3 DEF Delete, MyAlias, a
  <2>3. /\ records'[a] = NULL /\ epoch'[a] = epoch[a] + 1
        /\ \A b \in Alias : b # a => records'[b] = records[b] /\ epoch'[b] = epoch[b]
    BY <2>1, <2>2 DEF ShapeInv, TypeOK, StateTypeOK, GhostTypeOK
  <2>4. CredInv' /\ StoredInv'
    BY <2>2, <2>3 DEF CredInv, StoredInv, SecretOf
  <2>5. FreshInv'
    <3>1. ASSUME NEW q \in Proc, pc'[q] \in {"create_open", "create_fido"}
          PROVE  rec'[q].rp = RpId[call'[q].svc]
      BY <1>1, <3>1 DEF Quiet, Working, FreshInv
    <3>2. \A q \in Proc : pc'[q] = "create_put" =>
             pc[q] = "create_put" /\ rec'[q] = rec[q] /\ dev'[q] = dev[q] /\ call'[q] = call[q]
      BY <1>1 DEF Quiet, Working
    <3> QED
      BY <2>2, <3>1, <3>2 DEF FreshInv
  <2>6. ASSUME NEW q \in Proc, pc'[q] \in {"create_derive", "derive_open", "derive_fido"}
        PROVE  /\ pc[q] \in {"create_derive", "derive_open", "derive_fido"} /\ call[q].alias \in Alias
               /\ rec'[q] = rec[q] /\ call'[q] = call[q] /\ since'[q] = since[q]
    BY <1>1, <2>6 DEF Quiet, Working, ShapeInv, LocalShape, Call
  <2>7. RequestInv'
    <3> SUFFICES ASSUME NEW q \in Proc, pc'[q] \in {"create_derive", "derive_open", "derive_fido"}
                 PROVE  /\ <<call'[q].alias, SecretOf(rec'[q])>> \in used'
                        /\ since'[q] <= epoch'[call'[q].alias]
                        /\ since'[q] = epoch'[call'[q].alias] => records'[call'[q].alias] = rec'[q]
      BY DEF RequestInv, MyAlias, SecretOf
    <3>1. /\ <<call[q].alias, SecretOf(rec[q])>> \in used
          /\ since[q] <= epoch[call[q].alias]
          /\ since[q] = epoch[call[q].alias] => records[call[q].alias] = rec[q]
          /\ since[q] \in Nat /\ epoch[call[q].alias] \in Nat
      BY <2>6 DEF RequestInv, MyAlias, ShapeInv, TypeOK, GhostTypeOK
    <3> QED
      BY <2>2, <2>3, <2>6, <3>1
  <2>8. \A h \in handed : h.alias \in Alias /\ h.epoch \in Nat
    BY DEF ShapeInv, TypeOK, GhostTypeOK
  <2>9. HandedInv'
    <3> SUFFICES ASSUME NEW h \in handed
                 PROVE  <<h.alias, h.secret>> \in used /\ h.epoch <= epoch'[h.alias]
      BY <2>2 DEF HandedInv
    <3>1. <<h.alias, h.secret>> \in used /\ h.epoch <= epoch[h.alias] /\ epoch[h.alias] \in Nat
      BY <2>8 DEF HandedInv, ShapeInv, TypeOK, GhostTypeOK
    <3> QED
      BY <2>3, <2>8, <3>1
  <2>10. SecretsAreStable'
    <3> SUFFICES ASSUME NEW h \in handed, h.epoch = epoch'[h.alias]
                 PROVE  records'[h.alias] # NULL /\ SecretOf(records'[h.alias]) = h.secret
      BY <2>2 DEF SecretsAreStable, SecretOf
    <3>1. h.alias # a
      <4>1. h.epoch <= epoch[h.alias] /\ h.epoch \in Nat
        BY <2>8 DEF HandedInv
      <4> QED
        BY <2>1, <2>3, <4>1
    <3> QED
      BY <2>3, <2>8, <3>1 DEF SecretsAreStable
  <2>11. RecordsNameCredentials'
    BY <2>2, <2>3, <2>6 DEF RecordsNameCredentials, NamesCredential
  <2>12. OwnCreatesDoNotCollide'
    <3> SUFFICES ASSUME NEW q \in Proc, pc'[q] \in {"create_open", "create_fido", "create_put"},
                        records'[call'[q].alias] # NULL,
                        NEW c \in made, c.id = records'[call'[q].alias].cred
                 PROVE  c.svc # call'[q].svc
      BY <2>2 DEF OwnCreatesDoNotCollide, MyAlias
    <3>1. pc[q] \in {"create_open", "create_fido", "create_put"} /\ call'[q] = call[q]
      BY <1>1 DEF Quiet, Working
    <3>2. call[q].alias \in Alias
      BY <3>1 DEF ShapeInv, LocalShape, Call
    <3>3. records'[call[q].alias] = records[call[q].alias]
      BY <2>3, <3>1, <3>2
    <3> QED
      BY <3>1, <3>3 DEF OwnCreatesDoNotCollide, MyAlias
  <2> QED
    BY <2>4, <2>5, <2>7, <2>9, <2>10, <2>11, <2>12
<1> QED
  BY <1>2, <1>3 DEF Delete


LEMMA NextCredentials ==
    ASSUME IInv, [Next]_vars
    PROVE  CredentialInv'
<1>1. ShapeInv /\ CredentialInv
  BY DEF IInv
<1>2. ASSUME NEW p \in Proc, NEW s \in Service, NEW a \in Alias,
             StartCreate(p, s, a) \/ StartDerive(p, s, a) \/ StartDelete(p, s, a)
      PROVE  CredentialInv'
  BY <1>1, <1>2, BeginCredentials DEF StartCreate, StartDerive, StartDelete
<1>3. ASSUME NEW p \in Proc, CreateLock(p) \/ CallStep(p)
      PROVE  CredentialInv'
  BY <1>1, <1>3, CreateLockCredentials, CreateHasCredentials, OpenCredentials, CreateFidoCredentials,
     CreatePutCredentials, DeriveCredentials, DeriveGetCredentials, DeleteCredentials DEF CallStep
<1>4. CASE UNCHANGED vars
  <2>1. \A q \in Proc : Quiet(q)
    BY <1>4 DEF vars, Quiet, Working
  <2> QED
    BY <1>1, <1>4, <2>1, QuietStep DEF vars
<1> QED
  BY <1>1, <1>2, <1>3, <1>4, CrashCredentials DEF Next

-----------------------------------------------------------------------------
(* Every reachable state of the service has the shape of its locals and     *)
(* mutexes, and knows which credential belongs to which record: what the    *)
(* theorems below rest on.                                                  *)
THEOREM Invariance == Spec => []IInv
<1>1. Init => IInv
  BY InitShape, InitCredentials DEF IInv
<1>2. IInv /\ [Next]_vars => IInv'
  BY NextShape, NextCredentials DEF IInv
<1> QED
  BY <1>1, <1>2, PTL DEF Spec

(* The store, the credentials, the locals of the methods and the ghosts     *)
(* keep their types, for any number of goroutines and instances.            *)
THEOREM TypeCorrect == Spec => []TypeOK
<1>1. IInv => TypeOK
  BY DEF IInv, ShapeInv
<1> QED
  BY <1>1, Invariance, PTL

(* A stored record names a credential that an authenticator has made, and   *)
(* the RP id it was made for, whatever failed after the Put and through     *)
(* whichever instance it is read (secrets.go:127-128, 213).                 *)
THEOREM RecordsNameTheirCredentials == Spec => []RecordsNameCredentials
<1>1. IInv => RecordsNameCredentials
  BY DEF IInv, CredentialInv
<1> QED
  BY <1>1, Invariance, PTL

(* No caller of Create or Derive keeps a secret of an alias that is not the *)
(* one stored, short of a Delete, however calls of any number of goroutines *)
(* and instances interleave (secrets.go:138, 172).                          *)
THEOREM SecretsStayStable == Spec => []SecretsAreStable
<1>1. IInv => SecretsAreStable
  BY DEF IInv, CredentialInv
<1> QED
  BY <1>1, Invariance, PTL

(* An alias that has answered once can be derived until it is deleted: the  *)
(* record still names the credential of the answer, which is on an          *)
(* authenticator that granted the extension (secrets.go:127-128, 168, 172). *)
THEOREM AnsweredStayDerivable == Spec => []AnsweredStaysDerivable
<1>1. IInv => AnsweredStaysDerivable
  <2> SUFFICES ASSUME IInv, NEW h \in handed, h.epoch = epoch[h.alias]
               PROVE  records[h.alias] # NULL /\ Derivable(records[h.alias])
    BY DEF AnsweredStaysDerivable
  <2> DEFINE r == records[h.alias]
  <2>1. r # NULL /\ SecretOf(r) = h.secret /\ h.alias \in Alias
    BY DEF IInv, ShapeInv, TypeOK, GhostTypeOK, CredentialInv, SecretsAreStable
  <2>2. PICK c \in made : c.id = h.secret[1] /\ c.dev \in HmacSecret
    BY DEF IInv, CredentialInv, HandedInv
  <2>3. PICK d \in made : d.id = r.cred /\ d.rp = r.rp
    BY <2>1 DEF IInv, CredentialInv, RecordsNameCredentials, NamesCredential
  <2>4. c.id = d.id
    BY <2>1, <2>2, <2>3 DEF SecretOf
  <2>5. c = d
    BY <2>4 DEF IInv, CredentialInv, CredInv
  <2>6. c.dev \in Device
    BY DEF IInv, ShapeInv, TypeOK, StateTypeOK, Credential
  <2> HIDE DEF r
  <2>7. Holds(c.dev, r)
    BY <2>2, <2>3, <2>5 DEF Holds
  <2>8. Derivable(r)
    BY <2>6, <2>7 DEF Derivable
  <2> QED
    BY <2>1, <2>8 DEF r
<1> QED
  BY <1>1, Invariance, PTL

(* createMu does what its comment says: two Creates of one instance never   *)
(* make credentials for one alias (secrets.go:135).                         *)
THEOREM CreatesDoNotCollide == Spec => []OwnCreatesDoNotCollide
<1>1. IInv => OwnCreatesDoNotCollide
  BY DEF IInv, CredentialInv
<1> QED
  BY <1>1, Invariance, PTL

-----------------------------------------------------------------------------
(***************************************************************************)
(* The refinement of Keyring, step by step.                                *)
(***************************************************************************)

LEMMA KeyringInit == Init => K!Init
BY DEF Init, K!Init, BoundSecrets, Answers

(* A step that touches neither records nor answers is a stutter.           *)
LEMMA KeyringStutter ==
    ASSUME UNCHANGED <<records, used, handed>>
    PROVE  UNCHANGED K!vars
BY DEF K!vars, BoundSecrets, Answers, SecretOf

LEMMA KeyringBind ==
    ASSUME IInv, NEW p \in Proc, CreatePut(p)
    PROVE  [K!Next]_(K!vars)
<1>1. CASE UNCHANGED <<records, used>>
  BY <1>1, KeyringStutter DEF CreatePut
<1>2. CASE /\ records[MyAlias(p)] = NULL
           /\ records' = [records EXCEPT ![MyAlias(p)] = rec[p]]
           /\ used' = used \cup {<<MyAlias(p), SecretOf(rec[p])>>}
  <2> DEFINE a == call[p].alias
             s == SecretOf(rec[p])
  <2>1. pc[p] = "create_put" /\ rec[p] \in Record /\ a \in Alias /\ rec[p] # NULL
    BY NullAssumption DEF CreatePut, At, IInv, ShapeInv, LocalShape, Call, Record, Draft
  <2>2. s \in Secret /\ rec[p].cred = s[1]
    BY <2>1, SecretOfType DEF SecretOf
  <2>3. \A u \in used : u[2] # s
    BY <2>1, <2>2 DEF IInv, CredentialInv, FreshInv
  <2>4. BoundSecrets[a] = NULL /\ BoundSecrets' = [BoundSecrets EXCEPT ![a] = s]
    BY <1>2, <2>1 DEF BoundSecrets, MyAlias, SecretOf, IInv, ShapeInv, TypeOK, StateTypeOK
  <2>5. Answers' = Answers
    BY DEF CreatePut, Answers
  <2>6. K!Bind(a, s)
    BY <1>2, <2>3, <2>4, <2>5 DEF K!Bind, MyAlias
  <2> HIDE DEF a, s
  <2> QED
    BY <2>1, <2>2, <2>6 DEF K!Next
<1> QED
  BY <1>1, <1>2 DEF CreatePut

LEMMA KeyringAnswer ==
    ASSUME IInv, NEW p \in Proc, CreateDerive(p) \/ DeriveFido(p)
    PROVE  [K!Next]_(K!vars)
<1>1. CASE UNCHANGED handed
  BY <1>1, KeyringStutter DEF CreateDerive, DeriveFido
<1>2. CASE HandOut(p)
  <2> DEFINE a == call[p].alias
             s == SecretOf(rec[p])
  <2>1. /\ pc[p] \in {"create_derive", "derive_fido"} /\ rec[p] \in Record /\ a \in Alias
        /\ UNCHANGED <<records, used>>
    BY DEF CreateDerive, DeriveFido, At, IInv, ShapeInv, LocalShape, Call
  <2>2. s \in Secret /\ <<a, s>> \in used
    BY <2>1, SecretOfType DEF IInv, CredentialInv, RequestInv, MyAlias
  <2>3. Answers' = Answers \cup {<<a, s>>}
    <3> DEFINE new == [alias |-> a, epoch |-> since[p], secret |-> s]
    <3>1. new.alias = a /\ new.secret = s /\ handed' = handed \cup {new}
      BY <1>2 DEF HandOut, MyAlias
    <3> HIDE DEF new, a, s
    <3> QED
      BY <3>1 DEF Answers
  <2>4. BoundSecrets' = BoundSecrets
    BY <2>1 DEF BoundSecrets, SecretOf
  <2>5. K!Answer(a, s)
    BY <2>1, <2>2, <2>3, <2>4 DEF K!Answer
  <2> HIDE DEF a, s
  <2> QED
    BY <2>1, <2>2, <2>5 DEF K!Next
<1> QED
  BY <1>1, <1>2 DEF CreateDerive, DeriveFido

LEMMA KeyringUnbind ==
    ASSUME IInv, NEW p \in Proc, Delete(p)
    PROVE  [K!Next]_(K!vars)
<1>1. CASE UNCHANGED <<records, epoch>>
  BY <1>1, KeyringStutter DEF Delete
<1>2. CASE records[MyAlias(p)] # NULL /\ records' = [records EXCEPT ![MyAlias(p)] = NULL]
  <2> DEFINE a == call[p].alias
  <2>1. a \in Alias /\ records[a] # NULL /\ records[a] \in Record /\ UNCHANGED <<used, handed>>
    BY <1>2 DEF Delete, At, IInv, ShapeInv, LocalShape, Call, MyAlias, TypeOK, StateTypeOK
  <2>2. BoundSecrets[a] # NULL
    BY <2>1, SecretOfType, NullAssumption DEF BoundSecrets
  <2>3. BoundSecrets' = [BoundSecrets EXCEPT ![a] = NULL]
    BY <1>2, <2>1 DEF BoundSecrets, MyAlias, SecretOf, IInv, ShapeInv, TypeOK, StateTypeOK
  <2>4. K!Unbind(a)
    BY <2>1, <2>2, <2>3 DEF K!Unbind, Answers
  <2> HIDE DEF a
  <2> QED
    BY <2>1, <2>4 DEF K!Next
<1> QED
  BY <1>1, <1>2 DEF Delete

(* The service implements the keyring with any number of goroutines,        *)
(* instances and authenticators: an alias is bound to one secret until it   *)
(* is deleted, a secret serves once, and only such secrets are returned.    *)
THEOREM Refinement == Spec => ImplementsKeyring
<1>1. IInv /\ [Next]_vars => [K!Next]_(K!vars)
  <2> SUFFICES ASSUME IInv, [Next]_vars PROVE [K!Next]_(K!vars)
    OBVIOUS
  <2>1. ASSUME NEW p \in Proc, NEW s \in Service, NEW a \in Alias,
               StartCreate(p, s, a) \/ StartDerive(p, s, a) \/ StartDelete(p, s, a)
        PROVE  UNCHANGED <<records, used, handed>>
    BY <2>1 DEF StartCreate, StartDerive, StartDelete, Begin
  <2>2. ASSUME NEW p \in Proc, \/ CreateLock(p) \/ CreateHas(p) \/ CreateOpen(p) \/ CreateFido(p)
                               \/ DeriveGet(p) \/ DeriveOpen(p)
        PROVE  UNCHANGED <<records, used, handed>>
    BY <2>2 DEF CreateLock, CreateHas, CreateOpen, CreateFido, DeriveGet, DeriveOpen
  <2>3. ASSUME NEW s \in Service, Crash(s)
        PROVE  UNCHANGED <<records, used, handed>>
    BY <2>3 DEF Crash
  <2>4. CASE UNCHANGED vars
    BY <2>4, KeyringStutter DEF vars
  <2> QED
    BY <2>1, <2>2, <2>3, <2>4, KeyringStutter, KeyringBind, KeyringAnswer, KeyringUnbind DEF Next, CallStep
<1> QED
  BY <1>1, KeyringInit, Invariance, PTL DEF Spec, ImplementsKeyring, K!Spec
=============================================================================
