--------------------------- MODULE EncryptedStore ---------------------------
(***************************************************************************)
(* pkg/store/encrypted/encrypted.go: Store objects (Inst), one per open    *)
(* database handle, that share one persisted header and one set of         *)
(* envelopes, called by goroutines (Proc).  Every handler is cut where     *)
(* another goroutine or another process can act: at the acquisition of     *)
(* Store.mu and at each backend call.  A backend call is atomic: Pebble    *)
(* runs its check and its write under one mutex, SQLite in one statement.  *)
(*                                                                         *)
(* Keys are names and a sealed blob opens only under the key and the       *)
(* additional data (AAD) it was sealed with.  A KEK is named by the public *)
(* KEKReference it is derived from.  Calls whose arguments are refused     *)
(* before the first shared step (dead context, blank alias, bad reference, *)
(* key of the wrong size) change nothing and are left out.                 *)
(***************************************************************************)
EXTENDS Integers, Sequences

CONSTANTS
    Proc,           \* goroutines, of any process
    Inst,           \* Store objects over the same database
    Alias,          \* aliases, trimmed and valid
    Kek,            \* KEKs, each identified with its KEKReference
    Rec,            \* credential records, without their alias
    NULL,           \* Go's nil, or a missing row
    MaxRevision,    \* bound: no header is written with a higher revision
    MaxDraw         \* bound: how many (store id, DEK) pairs are ever drawn

Draw == 1..MaxDraw

HeaderAADs == [rev : Nat, sid : Draw, ref : Kek]
RecordAADs == [sid : Draw, alias : Alias]

(* EncryptionHeader and the EncryptedBlob in it; the versions are constant. *)
WrappedDEK == [key : Kek, aad : HeaderAADs, body : Draw]
Header == [rev : Nat, sid : Draw, ref : Kek, wrapped : WrappedDEK]

(* The EncryptedBlob of a record. *)
Envelope == [key : Draw, aad : RecordAADs, body : Rec]

(* The arguments of a call and, for the properties alone, how many headers *)
(* had been written when it started.                                       *)
Call == [inst : Inst, kek : Kek \cup {NULL}, alias : Alias \cup {NULL},
         rec : Rec \cup {NULL}, since : Nat]

ASSUME BoundAssumption == MaxRevision \in Nat /\ MaxDraw \in Nat

ASSUME NullAssumption ==
    NULL \notin Proc \cup Kek \cup Rec \cup Draw \cup Header \cup Envelope \cup Call

VARIABLES
    header,         \* the persisted header, NULL before CreateHeader
    envelopes,      \* the persisted envelopes, by alias
    memHeader,      \* Store.header of each instance
    memDek,         \* Store.dek of each instance, NULL while locked
    writer,         \* which call of RotateKEK holds Store.mu of the instance
    backend,        \* Store.backend: "open", "closed", then "nil"
    pc, call,       \* per goroutine: its next step and its arguments
    hdr, dek,       \* per goroutine: the header and the DEK it works with
    drawn,          \* how many (store id, DEK) pairs have been drawn
    history,        \* ghost: the KEK of each header written, in order
    acks,           \* ghost: header changes reported as done to a caller
    promised        \* ghost: by alias, the record whose Put returned nil

disk == <<header, envelopes>>
memory == <<memHeader, memDek>>
local == <<pc, call, hdr, dek>>
ghosts == <<history, acks, promised>>
vars == <<header, envelopes, memHeader, memDek, writer, backend,
          pc, call, hdr, dek, drawn, history, acks, promised>>

(* Steps that take Store.mu, or its read side, and so wait for its writer. *)
MutexPC == {"init_publish", "unlock_publish", "lock", "rotate_lock",
            "put_snapshot", "get_snapshot", "delete_snapshot", "close_lock"}

(* Steps that call the backend. *)
BackendPC == {"init_load", "init_list", "init_create", "unlock_load",
              "rotate_load", "rotate_swap", "put_write", "get_read",
              "delete_write"}

PCs == {"idle", "close_check", "close_backend", "close_nil"} \cup MutexPC \cup BackendPC

(***************************************************************************)
(* Sealing.                                                                *)
(***************************************************************************)
HeaderAAD(h) == [rev |-> h.rev, sid |-> h.sid, ref |-> h.ref]

(* Mutant: binds the record to the header revision, not to the store id. *)
RecordAADByRevision(h, a) == [sid |-> h.rev, alias |-> a]

RecordAAD(h, a) == [sid |-> h.sid, alias |-> a]

Seal(key, plaintext, aad) == [key |-> key, aad |-> aad, body |-> plaintext]

Opens(blob, key, aad) == blob.key = key /\ blob.aad = aad

FirstHeader(ref, sid, newDek) ==
    [rev |-> 1, sid |-> sid, ref |-> ref,
     wrapped |-> Seal(ref, newDek, HeaderAAD([rev |-> 1, sid |-> sid, ref |-> ref]))]

(* Mutant: seals under the AAD of the header being replaced. *)
RotatedHeaderOldAAD(current, next, storeDek) ==
    [current EXCEPT !.rev = @ + 1, !.ref = next,
                    !.wrapped = Seal(next, storeDek, HeaderAAD(current))]

RotatedHeader(current, next, storeDek) ==
    LET bumped == [current EXCEPT !.rev = @ + 1]
        rotated == [bumped EXCEPT !.ref = next]
    IN  [rotated EXCEPT !.wrapped = Seal(next, storeDek, HeaderAAD(rotated))]

(***************************************************************************)
(* Calls, returns and the mutex.                                           *)
(***************************************************************************)
Init ==
    /\ header = NULL
    /\ envelopes = [a \in Alias |-> NULL]
    /\ memHeader = [i \in Inst |-> NULL]
    /\ memDek = [i \in Inst |-> NULL]
    /\ writer = [i \in Inst |-> NULL]
    /\ backend = [i \in Inst |-> "open"]
    /\ pc = [p \in Proc |-> "idle"]
    /\ call = [p \in Proc |-> NULL]
    /\ hdr = [p \in Proc |-> NULL]
    /\ dek = [p \in Proc |-> NULL]
    /\ drawn = 0
    /\ history = <<>>
    /\ acks = {}
    /\ promised = [a \in Alias |-> NULL]

Begin(p, first, i, k, a, r) ==
    /\ pc[p] = "idle"
    /\ pc' = [pc EXCEPT ![p] = first]
    /\ call' = [call EXCEPT ![p] = [inst |-> i, kek |-> k, alias |-> a, rec |-> r,
                                    since |-> Len(history)]]
    /\ UNCHANGED <<disk, memory, writer, backend, hdr, dek, drawn, ghosts>>

Advance(p, next, h, d) ==
    /\ pc' = [pc EXCEPT ![p] = next]
    /\ hdr' = [hdr EXCEPT ![p] = h]
    /\ dek' = [dek EXCEPT ![p] = d]
    /\ UNCHANGED call

Return(p) ==
    /\ pc' = [pc EXCEPT ![p] = "idle"]
    /\ call' = [call EXCEPT ![p] = NULL]
    /\ hdr' = [hdr EXCEPT ![p] = NULL]
    /\ dek' = [dek EXCEPT ![p] = NULL]

At(p, here) == pc[p] = here

(* The step reaches a backend that is still open. *)
AtBackend(p, here) == pc[p] = here /\ backend[call[p].inst] = "open"

(* The step has Store.mu to itself. *)
AtMutex(p, here) == pc[p] = here /\ writer[call[p].inst] = NULL

MemHeader(p) == memHeader[call[p].inst]
MemDek(p) == memDek[call[p].inst]

Publish(p, h, d) ==
    /\ memHeader' = [memHeader EXCEPT ![call[p].inst] = h]
    /\ memDek' = [memDek EXCEPT ![call[p].inst] = d]

ReleaseMutex(p) == writer' = [writer EXCEPT ![call[p].inst] = NULL]

(* snapshot: the cached header and DEK, read under RLock. *)
Snapshot(p, here, next) ==
    /\ AtMutex(p, here)
    /\ \/ MemDek(p) = NULL /\ Return(p)        \* ErrLocked
       \/ MemDek(p) # NULL /\ Advance(p, next, MemHeader(p), MemDek(p))
    /\ UNCHANGED <<disk, memory, writer, backend, drawn, ghosts>>

-----------------------------------------------------------------------------
(***************************************************************************)
(* Initialize: load, list, draw and wrap, create, publish.                 *)
(***************************************************************************)
InitializeLoad(p) ==
    /\ AtBackend(p, "init_load")
    /\ \/ header # NULL /\ Return(p)          \* ErrExists
       \/ header = NULL /\ Advance(p, "init_list", NULL, NULL)
    /\ UNCHANGED <<disk, memory, writer, backend, drawn, ghosts>>

(* One draw names both the store id and the DEK.  Envelopes without a      *)
(* header are refused with ErrConflict.                                    *)
InitializeList(p) ==
    /\ AtBackend(p, "init_list")
    /\ IF \E a \in Alias : envelopes[a] # NULL
       THEN Return(p) /\ UNCHANGED drawn      \* ErrConflict
       ELSE /\ drawn < MaxDraw
            /\ drawn' = drawn + 1
            /\ Advance(p, "init_create",
                       FirstHeader(call[p].kek, drawn + 1, drawn + 1), drawn + 1)
    /\ UNCHANGED <<disk, memory, writer, backend, ghosts>>

(* Mutant: CreateHeader overwrites. *)
InitializeCreateOverwrites(p) ==
    /\ AtBackend(p, "init_create")
    /\ header' = hdr[p]
    /\ history' = Append(history, hdr[p].ref)
    /\ Advance(p, "init_publish", hdr[p], dek[p])
    /\ UNCHANGED <<envelopes, memory, writer, backend, drawn, acks, promised>>

(* CreateHeader inserts if there is none; an error may also be reported    *)
(* after the header has reached the disk.                                  *)
InitializeCreate(p) ==
    /\ AtBackend(p, "init_create")
    /\ \/ /\ header # NULL
          /\ Return(p)                        \* ErrExists
          /\ UNCHANGED <<header, history>>
       \/ /\ header = NULL
          /\ header' = hdr[p]
          /\ history' = Append(history, hdr[p].ref)
          /\ Advance(p, "init_publish", hdr[p], dek[p]) \/ Return(p)
    /\ UNCHANGED <<envelopes, memory, writer, backend, drawn, acks, promised>>

InitializePublish(p) ==
    /\ AtMutex(p, "init_publish")
    /\ Publish(p, hdr[p], dek[p])
    /\ acks' = acks \cup {[by |-> p, rev |-> hdr[p].rev, ref |-> hdr[p].ref]}
    /\ Return(p)
    /\ UNCHANGED <<disk, writer, backend, drawn, history, promised>>

(***************************************************************************)
(* Unlock: load and unwrap without the mutex, then publish under it.       *)
(***************************************************************************)

(* Mutant: an instance that has a header cached does not load it again. *)
UnlockLoadCached(p) ==
    LET h == IF MemHeader(p) # NULL THEN MemHeader(p) ELSE header
        open == Opens(h.wrapped, call[p].kek, HeaderAAD(h)) IN
    /\ AtBackend(p, "unlock_load")
    /\ \/ h = NULL /\ Return(p)
       \/ h # NULL /\ ~open /\ Return(p)
       \/ h # NULL /\ open /\ Advance(p, "unlock_publish", h, h.wrapped.body)
    /\ UNCHANGED <<disk, memory, writer, backend, drawn, ghosts>>

(* Mutant: keeps the KEK instead of the DEK it unwraps. *)
UnlockLoadKeepsKek(p) ==
    LET open == Opens(header.wrapped, call[p].kek, HeaderAAD(header)) IN
    /\ AtBackend(p, "unlock_load")
    /\ \/ header = NULL /\ Return(p)
       \/ header # NULL /\ ~open /\ Return(p)
       \/ header # NULL /\ open /\ Advance(p, "unlock_publish", header, call[p].kek)
    /\ UNCHANGED <<disk, memory, writer, backend, drawn, ghosts>>

UnlockLoad(p) ==
    LET open == Opens(header.wrapped, call[p].kek, HeaderAAD(header)) IN
    /\ AtBackend(p, "unlock_load")
    /\ \/ header = NULL /\ Return(p)           \* ErrNotInitialized
       \/ header # NULL /\ ~open /\ Return(p)  \* ErrIntegrity
       \/ header # NULL /\ open /\ Advance(p, "unlock_publish", header, header.wrapped.body)
    /\ UNCHANGED <<disk, memory, writer, backend, drawn, ghosts>>

UnlockPublish(p) ==
    /\ AtMutex(p, "unlock_publish")
    /\ Publish(p, hdr[p], dek[p])
    /\ Return(p)
    /\ UNCHANGED <<disk, writer, backend, drawn, ghosts>>

(* Mutant: clears the fields without the mutex. *)
LockWithoutMutex(p) ==
    /\ At(p, "lock")
    /\ Publish(p, NULL, NULL)
    /\ Return(p)
    /\ UNCHANGED <<disk, writer, backend, drawn, ghosts>>

Lock(p) ==
    /\ AtMutex(p, "lock")
    /\ Publish(p, NULL, NULL)
    /\ Return(p)
    /\ UNCHANGED <<disk, writer, backend, drawn, ghosts>>

(***************************************************************************)
(* RotateKEK holds Store.mu from its first shared step to its return, over *)
(* two backend calls.                                                      *)
(***************************************************************************)
RotateLock(p) ==
    /\ AtMutex(p, "rotate_lock")
    /\ \/ MemDek(p) = NULL /\ Return(p) /\ UNCHANGED writer     \* ErrLocked
       \/ /\ MemDek(p) # NULL
          /\ writer' = [writer EXCEPT ![call[p].inst] = p]
          /\ Advance(p, "rotate_load", NULL, NULL)
    /\ UNCHANGED <<disk, memory, backend, drawn, ghosts>>

(* Mutant: the conflict path returns with the mutex held. *)
RotateLoadKeepsMutex(p) ==
    LET conflict == header = NULL \/ header.rev # MemHeader(p).rev IN
    /\ AtBackend(p, "rotate_load")
    /\ \/ conflict /\ Return(p)
       \/ ~conflict /\ Advance(p, "rotate_swap", RotatedHeader(header, call[p].kek, MemDek(p)), NULL)
    /\ UNCHANGED <<disk, memory, writer, backend, drawn, ghosts>>

RotateLoad(p) ==
    LET conflict == header = NULL \/ header.rev # MemHeader(p).rev IN
    /\ AtBackend(p, "rotate_load")
    /\ \/ /\ conflict
          /\ ReleaseMutex(p)
          /\ Return(p)                        \* ErrNotInitialized or ErrConflict
       \/ /\ ~conflict
          /\ UNCHANGED writer
          /\ Advance(p, "rotate_swap", RotatedHeader(header, call[p].kek, MemDek(p)), NULL)
    /\ UNCHANGED <<disk, memory, backend, drawn, ghosts>>

(* Mutant: the swap does not compare revisions. *)
RotateSwapBlind(p) ==
    /\ AtBackend(p, "rotate_swap")
    /\ ReleaseMutex(p)
    /\ hdr[p].rev <= MaxRevision
    /\ header' = hdr[p]
    /\ history' = Append(history, hdr[p].ref)
    /\ memHeader' = [memHeader EXCEPT ![call[p].inst] = hdr[p]]
    /\ acks' = acks \cup {[by |-> p, rev |-> hdr[p].rev, ref |-> hdr[p].ref]}
    /\ Return(p)
    /\ UNCHANGED <<envelopes, memDek, backend, drawn, promised>>

(* CompareAndSwapHeader; an error may also be reported after the swap, and *)
(* then the cached header stays at the old revision.                       *)
RotateSwap(p) ==
    LET matches == header # NULL /\ header.rev = hdr[p].rev - 1 IN
    /\ AtBackend(p, "rotate_swap")
    /\ ReleaseMutex(p)
    /\ \/ /\ ~matches
          /\ Return(p)                        \* ErrConflict
          /\ UNCHANGED <<header, memHeader, history, acks>>
       \/ /\ matches
          /\ hdr[p].rev <= MaxRevision
          /\ header' = hdr[p]
          /\ history' = Append(history, hdr[p].ref)
          /\ \/ /\ memHeader' = [memHeader EXCEPT ![call[p].inst] = hdr[p]]
                /\ acks' = acks \cup {[by |-> p, rev |-> hdr[p].rev, ref |-> hdr[p].ref]}
                /\ Return(p)
             \/ Return(p) /\ UNCHANGED <<memHeader, acks>>
    /\ UNCHANGED <<envelopes, memDek, backend, drawn, promised>>

(***************************************************************************)
(* Put, Get and Delete: a snapshot under the read lock, then one backend   *)
(* call without it.                                                        *)
(***************************************************************************)
PutSnapshot(p) == Snapshot(p, "put_snapshot", "put_write")
GetSnapshot(p) == Snapshot(p, "get_snapshot", "get_read")
DeleteSnapshot(p) == Snapshot(p, "delete_snapshot", "delete_write")

(* Mutant: PutEnvelope overwrites. *)
PutWriteOverwrites(p) ==
    LET a == call[p].alias IN
    /\ AtBackend(p, "put_write")
    /\ envelopes' = [envelopes EXCEPT ![a] = Seal(dek[p], call[p].rec, RecordAAD(hdr[p], a))]
    /\ \/ promised' = [promised EXCEPT ![a] = call[p].rec]
       \/ UNCHANGED promised
    /\ Return(p)
    /\ UNCHANGED <<header, memory, writer, backend, drawn, history, acks>>

PutWrite(p) ==
    LET a == call[p].alias IN
    /\ AtBackend(p, "put_write")
    /\ \/ /\ envelopes[a] # NULL
          /\ Return(p)                        \* ErrExists
          /\ UNCHANGED <<envelopes, promised>>
       \/ /\ envelopes[a] = NULL
          /\ envelopes' = [envelopes EXCEPT
                              ![a] = Seal(dek[p], call[p].rec, RecordAAD(hdr[p], a))]
          /\ \/ Return(p) /\ promised' = [promised EXCEPT ![a] = call[p].rec]
             \/ Return(p) /\ UNCHANGED promised
    /\ UNCHANGED <<header, memory, writer, backend, drawn, history, acks>>

(* Returns the record, ErrNotFound, or ErrIntegrity if the envelope does   *)
(* not open under the snapshot; nothing changes.                           *)
GetRead(p) ==
    /\ AtBackend(p, "get_read")
    /\ Return(p)
    /\ UNCHANGED <<disk, memory, writer, backend, drawn, ghosts>>

DeleteWrite(p) ==
    LET a == call[p].alias IN
    /\ AtBackend(p, "delete_write")
    /\ \/ /\ envelopes[a] = NULL             \* ErrNotFound
          /\ UNCHANGED <<envelopes, promised>>
       \/ /\ envelopes[a] # NULL
          /\ envelopes' = [envelopes EXCEPT ![a] = NULL]
          /\ promised' = [promised EXCEPT ![a] = NULL]
    /\ Return(p)
    /\ UNCHANGED <<header, memory, writer, backend, drawn, history, acks>>

(***************************************************************************)
(* Close: Lock, then the nil check, backend.Close and the assignment of    *)
(* nil, none of them under the mutex.                                      *)
(***************************************************************************)
CloseLock(p) ==
    /\ AtMutex(p, "close_lock")
    /\ Publish(p, NULL, NULL)
    /\ Advance(p, "close_check", NULL, NULL)
    /\ UNCHANGED <<disk, writer, backend, drawn, ghosts>>

CloseCheck(p) ==
    /\ At(p, "close_check")
    /\ \/ backend[call[p].inst] = "nil" /\ Return(p)
       \/ backend[call[p].inst] # "nil" /\ Advance(p, "close_backend", NULL, NULL)
    /\ UNCHANGED <<disk, memory, writer, backend, drawn, ghosts>>

CloseBackend(p) ==
    /\ At(p, "close_backend")
    /\ backend[call[p].inst] # "nil"
    /\ backend' = [backend EXCEPT ![call[p].inst] = "closed"]
    /\ Advance(p, "close_nil", NULL, NULL)
    /\ UNCHANGED <<disk, memory, writer, drawn, ghosts>>

CloseNil(p) ==
    /\ At(p, "close_nil")
    /\ backend' = [backend EXCEPT ![call[p].inst] = "nil"]
    /\ Return(p)
    /\ UNCHANGED <<disk, memory, writer, drawn, ghosts>>

-----------------------------------------------------------------------------
(***************************************************************************)
(* Failures.                                                               *)
(***************************************************************************)

(* A backend call, or the random source, fails and nothing has changed:    *)
(* cancelled context, I/O error, busy database, closed database.  The      *)
(* deferred Unlock of RotateKEK runs.                                      *)
BackendFails(p) ==
    /\ pc[p] \in BackendPC
    /\ backend[call[p].inst] # "nil"
    /\ IF pc[p] \in {"rotate_load", "rotate_swap"} THEN ReleaseMutex(p) ELSE UNCHANGED writer
    /\ Return(p)
    /\ UNCHANGED <<disk, memory, backend, drawn, ghosts>>

(* The process that owns instance i dies, its calls with it, and a new     *)
(* Store is opened in its place.  Reopening after Close is the same step.  *)
Restart(i) ==
    LET dead == {p \in Proc : pc[p] # "idle" /\ call[p].inst = i}
        Reset(f, v) == [p \in Proc |-> IF p \in dead THEN v ELSE f[p]]
    IN
    /\ memHeader' = [memHeader EXCEPT ![i] = NULL]
    /\ memDek' = [memDek EXCEPT ![i] = NULL]
    /\ writer' = [writer EXCEPT ![i] = NULL]
    /\ backend' = [backend EXCEPT ![i] = "open"]
    /\ pc' = Reset(pc, "idle")
    /\ call' = Reset(call, NULL)
    /\ hdr' = Reset(hdr, NULL)
    /\ dek' = Reset(dek, NULL)
    /\ UNCHANGED <<disk, drawn, ghosts>>

(* A call through the nil backend panics, and the panic ends the process.  *)
NilBackend(p) ==
    /\ pc[p] \in BackendPC \cup {"close_backend"}
    /\ backend[call[p].inst] = "nil"
    /\ Restart(call[p].inst)

-----------------------------------------------------------------------------
StartInitialize(p, i, k) == Begin(p, "init_load", i, k, NULL, NULL)
StartUnlock(p, i, k) == Begin(p, "unlock_load", i, k, NULL, NULL)
StartLock(p, i) == Begin(p, "lock", i, NULL, NULL, NULL)
StartRotateKEK(p, i, k) == Begin(p, "rotate_lock", i, k, NULL, NULL)
StartPut(p, i, a, r) == Begin(p, "put_snapshot", i, NULL, a, r)
StartGet(p, i, a) == Begin(p, "get_snapshot", i, NULL, a, NULL)
StartDelete(p, i, a) == Begin(p, "delete_snapshot", i, NULL, a, NULL)
StartClose(p, i) == Begin(p, "close_lock", i, NULL, NULL, NULL)

Start(p, i) ==
    \/ \E k \in Kek : StartInitialize(p, i, k) \/ StartUnlock(p, i, k) \/ StartRotateKEK(p, i, k)
    \/ \E a \in Alias : StartGet(p, i, a) \/ StartDelete(p, i, a) \/ \E r \in Rec : StartPut(p, i, a, r)
    \/ StartLock(p, i) \/ StartClose(p, i)

MutexStep(p) ==
    \/ InitializePublish(p) \/ UnlockPublish(p) \/ Lock(p) \/ RotateLock(p)
    \/ PutSnapshot(p) \/ GetSnapshot(p) \/ DeleteSnapshot(p) \/ CloseLock(p)

BackendStep(p) ==
    \/ InitializeLoad(p) \/ InitializeList(p) \/ InitializeCreate(p)
    \/ UnlockLoad(p) \/ RotateLoad(p) \/ RotateSwap(p)
    \/ PutWrite(p) \/ GetRead(p) \/ DeleteWrite(p)
    \/ BackendFails(p) \/ NilBackend(p)

CloseStep(p) == CloseCheck(p) \/ CloseBackend(p) \/ CloseNil(p)

Next ==
    \/ \E p \in Proc : (\E i \in Inst : Start(p, i)) \/ MutexStep(p) \/ BackendStep(p) \/ CloseStep(p)
    \/ \E i \in Inst : Restart(i)

Spec == Init /\ [][Next]_vars

(* A started goroutine keeps running and a backend call answers; a waiter  *)
(* for sync.RWMutex is not passed over for ever.                           *)
Fairness ==
    \A p \in Proc : /\ WF_vars(BackendStep(p) \/ CloseStep(p))
                    /\ SF_vars(MutexStep(p))

FairSpec == Spec /\ Fairness

-----------------------------------------------------------------------------
(***************************************************************************)
(* Properties.                                                             *)
(***************************************************************************)

DiskTypeOK ==
    /\ header \in Header \cup {NULL}
    /\ envelopes \in [Alias -> Envelope \cup {NULL}]

MemoryTypeOK ==
    /\ memHeader \in [Inst -> Header \cup {NULL}]
    /\ memDek \in [Inst -> Draw \cup {NULL}]
    /\ writer \in [Inst -> Proc \cup {NULL}]
    /\ backend \in [Inst -> {"open", "closed", "nil"}]

LocalTypeOK ==
    /\ pc \in [Proc -> PCs]
    /\ call \in [Proc -> Call \cup {NULL}]
    /\ hdr \in [Proc -> Header \cup {NULL}]
    /\ dek \in [Proc -> Draw \cup {NULL}]

GhostTypeOK ==
    /\ drawn \in 0..MaxDraw
    /\ history \in Seq(Kek)
    /\ acks \subseteq [by : Proc, rev : Nat, ref : Kek]
    /\ promised \in [Alias -> Rec \cup {NULL}]

(* The types of what is persisted, of the fields of Store, of the locals   *)
(* of its methods, and of the ghosts.                                      *)
TypeOK == DiskTypeOK /\ MemoryTypeOK /\ LocalTypeOK /\ GhostTypeOK

(* Whoever derives the KEK named by the public reference of the stored     *)
(* header can unwrap the DEK stored with it: whatever the races between    *)
(* Initialize, RotateKEK and crashes, reference, revision and wrapped DEK  *)
(* belong together (encrypted.go:108-119, 198-205).                        *)
HeaderOpens == header # NULL => Opens(header.wrapped, header.ref, HeaderAAD(header))

(* What reading alias a yields to someone who starts from the stored       *)
(* header and its KEK: its record, NULL, or a ciphertext that stays shut.  *)
Recovered(a) ==
    IF \/ envelopes[a] = NULL
       \/ header # NULL /\ HeaderOpens
          /\ Opens(envelopes[a], header.wrapped.body, RecordAAD(header, a))
    THEN IF envelopes[a] = NULL THEN NULL ELSE envelopes[a].body
    ELSE envelopes[a]

(* Every stored envelope opens under the DEK of the stored header, also    *)
(* one whose Put took its snapshot before a rotation, a Lock or a Close    *)
(* and reached the backend after it (encrypted.go:222-237).                *)
EnvelopesRecoverable ==
    \A a \in Alias : envelopes[a] # NULL =>
        header # NULL /\ HeaderOpens
        /\ Opens(envelopes[a], header.wrapped.body, RecordAAD(header, a))

(* A record whose Put returned nil is readable through the current KEK     *)
(* until a Delete removes it, across rotations, a second Initialize, lost  *)
(* acknowledgements and restarts.                                          *)
AckedPutDurable == \A a \in Alias : promised[a] # NULL => Recovered(a) = promised[a]

(* An unlocked instance holds the DEK and the store id of the stored       *)
(* header, though the header it caches may be older (Unlock and Initialize *)
(* publish what they loaded before they took the mutex, 140-154, 119-125). *)
UnlockedHoldsStoreDek ==
    \A i \in Inst : memDek[i] # NULL =>
        /\ header # NULL /\ memHeader[i] # NULL
        /\ memDek[i] = header.wrapped.body
        /\ memHeader[i].sid = header.sid
        /\ memHeader[i].rev <= header.rev

(* A Get that has taken its snapshot will not answer ErrIntegrity, however *)
(* long its GetEnvelope is delayed (encrypted.go:252-264).                 *)
InFlightGetOpens ==
    \A p \in Proc : pc[p] = "get_read" /\ envelopes[call[p].alias] # NULL =>
        Opens(envelopes[call[p].alias], dek[p], RecordAAD(hdr[p], call[p].alias))

(* An Initialize or RotateKEK that returned nil really wrote the header of *)
(* the revision it claims, and no other call claims that revision: of two  *)
(* concurrent rotations, in one process or in two, at most one returns nil *)
(* (encrypted.go:194, 205).                                                *)
NoLostRotation ==
    \A a \in acks :
        /\ a.rev \in 1..Len(history) /\ history[a.rev] = a.ref
        /\ \A b \in acks : b.rev = a.rev => b = a

(* An Unlock succeeds only with a KEK that was the current one at some     *)
(* moment of the call: a KEK rotated out before the call started no longer *)
(* opens the store (encrypted_test.go:168).                                *)
UnlockUsesCurrentKek ==
    \A p \in Proc : pc[p] = "unlock_publish" =>
        \E r \in 1..Len(history) : r >= call[p].since /\ history[r] = call[p].kek

(* The store implements the vault: each step creates it, changes its key,  *)
(* inserts or deletes one record, or changes nothing a caller can see.     *)
VaultKek == IF header = NULL THEN NULL ELSE header.ref
VaultVersion == IF header = NULL THEN 0 ELSE header.rev
VaultContents == [a \in Alias |-> Recovered(a)]

V == INSTANCE Vault WITH kek <- VaultKek, version <- VaultVersion, contents <- VaultContents

ImplementsVault == V!Spec

(* Every call returns: the mutex that RotateKEK holds over two backend     *)
(* calls is released on each of its error paths (encrypted.go:181-208).    *)
CallsReturn == \A p \in Proc : pc[p] # "idle" ~> pc[p] = "idle"

(* "Close locks the store and closes its backend" (encrypted.go:312): once *)
(* the backend is gone the instance holds no DEK.  An Initialize that has  *)
(* created the header (119-126) or an Unlock that has loaded it (152-155)  *)
(* publishes its DEK after Close has cleared the field.                    *)
ClosedStaysLocked == \A i \in Inst : backend[i] = "nil" => memDek[i] = NULL

-----------------------------------------------------------------------------
(***************************************************************************)
(* The inductive invariant, in two layers: which locals are set where and  *)
(* who holds the mutex; then which keys, revisions and envelopes belong    *)
(* together.                                                               *)
(***************************************************************************)
CallShape ==
    \A p \in Proc : pc[p] # "idle" =>
        /\ call[p] \in Call
        /\ pc[p] \in {"init_load", "init_list", "init_create", "init_publish", "unlock_load",
                      "unlock_publish", "rotate_lock", "rotate_load", "rotate_swap"}
               => call[p].kek \in Kek
        /\ pc[p] \in {"put_snapshot", "put_write", "get_snapshot", "get_read",
                      "delete_snapshot", "delete_write"} => call[p].alias \in Alias
        /\ pc[p] \in {"put_snapshot", "put_write"} => call[p].rec \in Rec

LocalShape ==
    \A p \in Proc :
        /\ pc[p] \in {"init_create", "init_publish", "unlock_publish", "rotate_swap",
                      "put_write", "get_read", "delete_write"} => hdr[p] \in Header
        /\ pc[p] \in {"init_create", "init_publish", "unlock_publish",
                      "put_write", "get_read", "delete_write"} => dek[p] \in Draw

MemoryShape == \A i \in Inst : memDek[i] # NULL => memHeader[i] \in Header

Rotating(p) == pc[p] \in {"rotate_load", "rotate_swap"}

(* RotateKEK owns the mutex of an unlocked instance until it returns.      *)
RotationOwnsMutex ==
    \A p \in Proc : Rotating(p) => writer[call[p].inst] = p /\ memDek[call[p].inst] # NULL

(* The shape of the state: locals are set where they are used, and a       *)
(* rotation in progress owns Store.mu of an unlocked instance.             *)
ShapeInv == TypeOK /\ CallShape /\ LocalShape /\ MemoryShape /\ RotationOwnsMutex

(* h carries the DEK of the stored header, sealed under h's own reference  *)
(* and revision.                                                           *)
WrapsDekOf(h, stored) ==
    /\ stored # NULL
    /\ h.sid = stored.sid
    /\ h.wrapped.body = stored.wrapped.body
    /\ Opens(h.wrapped, h.ref, HeaderAAD(h))

(* h is or was the stored header, at the revision it names. *)
GenuineIn(h, stored, hist) ==
    /\ WrapsDekOf(h, stored)
    /\ h.rev \in 1..Len(hist)
    /\ h.ref = hist[h.rev]

Genuine(h) == GenuineIn(h, header, history)

StoredInv ==
    /\ header = NULL => history = <<>> /\ acks = {} /\ \A a \in Alias : envelopes[a] = NULL
    /\ header # NULL => Genuine(header) /\ header.rev = Len(history)

MemoryInv ==
    \A i \in Inst : memDek[i] # NULL =>
        Genuine(memHeader[i]) /\ memDek[i] = header.wrapped.body

CreateInv ==
    \A p \in Proc : pc[p] = "init_create" =>
        /\ hdr[p].rev = 1
        /\ hdr[p].wrapped.body = dek[p]
        /\ Opens(hdr[p].wrapped, hdr[p].ref, HeaderAAD(hdr[p]))

InFlightInv ==
    \A p \in Proc :
        /\ pc[p] \in {"init_publish", "unlock_publish", "put_write", "get_read"}
               => Genuine(hdr[p]) /\ dek[p] = header.wrapped.body
        /\ pc[p] = "rotate_swap"
               => WrapsDekOf(hdr[p], header) /\ hdr[p].rev - 1 \in 1..Len(history)

UnlockInv ==
    \A p \in Proc :
        /\ pc[p] # "idle" => call[p].since <= Len(history)
        /\ pc[p] = "unlock_publish" => hdr[p].ref = call[p].kek /\ hdr[p].rev >= call[p].since

(* The creator of the header is the one that will report revision 1.       *)
CreatorInv ==
    \A p \in Proc : pc[p] = "init_publish" =>
        /\ hdr[p].rev = 1
        /\ \A a \in acks : a.rev # 1
        /\ \A q \in Proc : pc[q] = "init_publish" => q = p

PromiseInv ==
    \A a \in Alias : promised[a] # NULL =>
        envelopes[a] # NULL /\ envelopes[a].body = promised[a]

(* The strengthening that makes the safety properties inductive: every     *)
(* header in memory or in flight was once the stored one, and carries the  *)
(* one DEK that all envelopes are sealed under.                            *)
KeyInv ==
    /\ StoredInv /\ MemoryInv /\ CreateInv /\ InFlightInv /\ UnlockInv
    /\ CreatorInv /\ PromiseInv /\ EnvelopesRecoverable /\ NoLostRotation

IInv == ShapeInv /\ KeyInv
=============================================================================
