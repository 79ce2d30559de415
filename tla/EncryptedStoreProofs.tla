------------------------ MODULE EncryptedStoreProofs ------------------------
(***************************************************************************)
(* Proofs about EncryptedStore, for any number of goroutines, instances,   *)
(* aliases, keys and records, and any bounds.                              *)
(***************************************************************************)
EXTENDS EncryptedStore, TLAPS

USE BoundAssumption, NullAssumption DEF disk, memory, ghosts

-----------------------------------------------------------------------------
(***************************************************************************)
(* Typing lemmas.                                                          *)
(***************************************************************************)

(* The fields of a header have their types. *)
LEMMA HeaderFields ==
  ASSUME NEW h \in Header
  PROVE  /\ h.rev \in Nat /\ h.sid \in Draw /\ h.ref \in Kek
         /\ h.wrapped \in WrappedDEK /\ h.wrapped.body \in Draw
BY DEF Header, WrappedDEK

(* A running goroutine has a call, on some instance. *)
LEMMA CallFields ==
  ASSUME CallShape, NEW p \in Proc, pc[p] # "idle"
  PROVE  call[p] \in Call /\ call[p].inst \in Inst /\ call[p].since \in Nat
BY DEF CallShape, Call

(* Returning keeps the types of the locals. *)
LEMMA ReturnTypes ==
  ASSUME LocalTypeOK, NEW p \in Proc, Return(p)
  PROVE  LocalTypeOK'
BY DEF LocalTypeOK, Return, PCs

(* So does moving on to the next step of a handler. *)
LEMMA AdvanceTypes ==
  ASSUME LocalTypeOK, NEW p \in Proc, NEW next \in PCs,
         NEW h \in Header \cup {NULL}, NEW d \in Draw \cup {NULL}, Advance(p, next, h, d)
  PROVE  LocalTypeOK'
BY DEF LocalTypeOK, Advance

(* Initialize wraps the DEK it drew into a well-formed header. *)
LEMMA FirstHeaderType ==
  ASSUME NEW ref \in Kek, NEW n \in Draw
  PROVE  FirstHeader(ref, n, n) \in Header
BY DEF FirstHeader, Header, WrappedDEK, HeaderAADs, HeaderAAD, Seal

(* RotateKEK builds a well-formed header from a well-formed one. *)
LEMMA RotatedHeaderType ==
  ASSUME NEW h \in Header, NEW k \in Kek, NEW d \in Draw
  PROVE  /\ RotatedHeader(h, k, d) \in Header
         /\ RotatedHeader(h, k, d).rev = h.rev + 1
         /\ RotatedHeader(h, k, d).sid = h.sid
         /\ RotatedHeader(h, k, d).ref = k
         /\ RotatedHeader(h, k, d).wrapped.body = d
         /\ Opens(RotatedHeader(h, k, d).wrapped, k, HeaderAAD(RotatedHeader(h, k, d)))
<1> DEFINE bumped == [h EXCEPT !.rev = @ + 1]
           rotated == [bumped EXCEPT !.ref = k]
           sealed == Seal(k, d, HeaderAAD(rotated))
<1>1. bumped \in Header /\ bumped.rev = h.rev + 1 /\ bumped.sid = h.sid
  BY DEF Header
<1>2. rotated \in Header /\ rotated.rev = h.rev + 1 /\ rotated.sid = h.sid /\ rotated.ref = k
  BY <1>1 DEF Header
<1>3. HeaderAAD(rotated) \in HeaderAADs
  BY <1>2, HeaderFields DEF HeaderAAD, HeaderAADs
<1>4. sealed \in WrappedDEK /\ sealed.body = d /\ Opens(sealed, k, HeaderAAD(rotated))
  BY <1>3 DEF Seal, WrappedDEK, Opens
<1>5. RotatedHeader(h, k, d) = [rotated EXCEPT !.wrapped = sealed]
  BY DEF RotatedHeader
<1> HIDE DEF bumped, rotated, sealed
<1>6. HeaderAAD(RotatedHeader(h, k, d)) = HeaderAAD(rotated)
  BY <1>2, <1>5 DEF HeaderAAD, Header
<1> QED BY <1>2, <1>4, <1>5, <1>6 DEF Header

-----------------------------------------------------------------------------
(***************************************************************************)
(* The first layer: ShapeInv.                                              *)
(***************************************************************************)

(* A rotation that gives up the mutex leaves the other rotations theirs.   *)
LEMMA ReleaseKeepsOwners ==
  ASSUME ShapeInv, NEW p \in Proc, Rotating(p),
         ReleaseMutex(p), Return(p), UNCHANGED memDek
  PROVE  RotationOwnsMutex'
<1> USE DEF ShapeInv, TypeOK
<1> SUFFICES ASSUME NEW q \in Proc, Rotating(q)'
             PROVE  writer'[call'[q].inst] = q /\ memDek'[call'[q].inst] # NULL
  BY DEF RotationOwnsMutex, Rotating
<1>1. q # p /\ Rotating(q) /\ call'[q] = call[q]
  BY DEF Rotating, Return, LocalTypeOK
<1>2. call[q].inst # call[p].inst
  BY <1>1 DEF RotationOwnsMutex
<1>3. call[p].inst \in Inst /\ call[q].inst \in Inst
  BY <1>1, CallFields DEF Rotating
<1> QED BY <1>1, <1>2, <1>3 DEF RotationOwnsMutex, ReleaseMutex, MemoryTypeOK

(* The load of Initialize keeps the shape. *)
LEMMA InitializeLoadShape ==
  ASSUME ShapeInv, NEW p \in Proc, InitializeLoad(p)
  PROVE  ShapeInv'
<1> USE DEF ShapeInv, TypeOK, InitializeLoad, At, AtBackend, AtMutex
<1>1. pc[p] # "idle" /\ call[p].inst \in Inst
  BY CallFields
<1>3. LocalTypeOK'
  BY <1>1, ReturnTypes, AdvanceTypes, SMTT(30) DEF PCs, MutexPC, BackendPC
<1>4. DiskTypeOK' /\ MemoryTypeOK' /\ GhostTypeOK'
  BY <1>1, SMTT(30) DEF DiskTypeOK, MemoryTypeOK, GhostTypeOK
<1>5. CallShape' /\ LocalShape'
  BY <1>1, SMTT(30) DEF LocalTypeOK, CallShape, LocalShape, Return, Advance
<1>6. MemoryShape' /\ RotationOwnsMutex'
  BY <1>1, SMTT(30)
  DEF MemoryTypeOK, LocalTypeOK, MemoryShape, RotationOwnsMutex, Rotating, MemDek, Return, Advance
<1> QED BY <1>3, <1>4, <1>5, <1>6

(* The list and draw of Initialize keep the shape: the new header is one. *)
LEMMA InitializeListShape ==
  ASSUME ShapeInv, NEW p \in Proc, InitializeList(p)
  PROVE  ShapeInv'
<1> USE DEF ShapeInv, TypeOK, InitializeList, At, AtBackend, AtMutex
<1>1. pc[p] # "idle" /\ call[p].inst \in Inst
  BY CallFields
<1>2. drawn < MaxDraw => /\ drawn + 1 \in Draw /\ drawn + 1 \in 0..MaxDraw
                          /\ FirstHeader(call[p].kek, drawn + 1, drawn + 1) \in Header
  BY FirstHeaderType DEF GhostTypeOK, CallShape, Draw
<1>3. LocalTypeOK'
  BY <1>1, <1>2, ReturnTypes, AdvanceTypes, SMTT(30) DEF PCs, MutexPC, BackendPC
<1>4. DiskTypeOK' /\ MemoryTypeOK' /\ GhostTypeOK'
  BY <1>1, <1>2, SMTT(30) DEF DiskTypeOK, MemoryTypeOK, GhostTypeOK
<1>5. CallShape' /\ LocalShape'
  BY <1>1, <1>2, SMTT(30) DEF LocalTypeOK, CallShape, LocalShape, Return, Advance
<1>6. MemoryShape' /\ RotationOwnsMutex'
  BY <1>1, <1>2, SMTT(30)
  DEF MemoryTypeOK, LocalTypeOK, MemoryShape, RotationOwnsMutex, Rotating, MemDek, Return, Advance
<1> QED BY <1>3, <1>4, <1>5, <1>6

(* CreateHeader keeps the shape, applied, refused or ambiguous. *)
LEMMA InitializeCreateShape ==
  ASSUME ShapeInv, NEW p \in Proc, InitializeCreate(p)
  PROVE  ShapeInv'
<1> USE DEF ShapeInv, TypeOK, InitializeCreate, At, AtBackend, AtMutex
<1>1. pc[p] # "idle" /\ call[p].inst \in Inst
  BY CallFields
<1>2. hdr[p] \in Header /\ dek[p] \in Draw /\ hdr[p].ref \in Kek
  BY HeaderFields DEF LocalShape
<1>3. LocalTypeOK'
  BY <1>1, <1>2, ReturnTypes, AdvanceTypes, SMTT(30) DEF PCs, MutexPC, BackendPC
<1>4. DiskTypeOK' /\ MemoryTypeOK' /\ GhostTypeOK'
  <2>1. history' \in Seq(Kek)
    <3>1. history' = history \/ history' = Append(history, hdr[p].ref)
      OBVIOUS
    <3> QED BY <1>2, <3>1, SMTT(30) DEF GhostTypeOK
  <2>2. drawn' = drawn /\ promised' = promised
    OBVIOUS
  <2>3. acks' \subseteq [by : Proc, rev : Nat, ref : Kek]
    BY <1>2 DEF GhostTypeOK
  <2>4. DiskTypeOK' /\ MemoryTypeOK'
    BY <1>1, <1>2 DEF DiskTypeOK, MemoryTypeOK
  <2> QED BY <2>1, <2>2, <2>3, <2>4 DEF GhostTypeOK
<1>5. CallShape' /\ LocalShape'
  BY <1>1, <1>2, SMTT(30) DEF LocalTypeOK, CallShape, LocalShape, Return, Advance
<1>6. MemoryShape' /\ RotationOwnsMutex'
  BY <1>1, <1>2, SMTT(30)
  DEF MemoryTypeOK, LocalTypeOK, MemoryShape, RotationOwnsMutex, Rotating, MemDek, Return, Advance
<1> QED BY <1>3, <1>4, <1>5, <1>6

(* The load of RotateKEK keeps the shape, and gives the mutex up on conflict. *)
LEMMA RotateLoadShape ==
  ASSUME ShapeInv, NEW p \in Proc, RotateLoad(p)
  PROVE  ShapeInv'
<1> USE DEF ShapeInv, TypeOK, RotateLoad, ReleaseMutex, At, AtBackend, AtMutex
<1>1. pc[p] # "idle" /\ call[p].inst \in Inst
  BY CallFields
<1>2. header # NULL => RotatedHeader(header, call[p].kek, MemDek(p)) \in Header
  BY <1>1, RotatedHeaderType
  DEF DiskTypeOK, MemoryTypeOK, CallShape, RotationOwnsMutex, Rotating, MemDek
<1>3. LocalTypeOK'
  BY <1>1, <1>2, ReturnTypes, AdvanceTypes, SMTT(30) DEF PCs, MutexPC, BackendPC
<1>4. DiskTypeOK' /\ MemoryTypeOK' /\ GhostTypeOK'
  BY <1>1, <1>2, SMTT(30) DEF DiskTypeOK, MemoryTypeOK, GhostTypeOK
<1>5. CallShape' /\ LocalShape'
  BY <1>1, <1>2, SMTT(30) DEF LocalTypeOK, CallShape, LocalShape, Return, Advance
<1>6. MemoryShape'
  BY DEF MemoryShape
<1>7. RotationOwnsMutex'
  BY <1>1, ReleaseKeepsOwners, SMTT(30)
  DEF LocalTypeOK, RotationOwnsMutex, Rotating, Advance, Return
<1> QED BY <1>3, <1>4, <1>5, <1>6, <1>7

(* The swap of RotateKEK keeps the shape and gives the mutex up. *)
LEMMA RotateSwapShape ==
  ASSUME ShapeInv, NEW p \in Proc, RotateSwap(p)
  PROVE  ShapeInv'
<1> USE DEF ShapeInv, TypeOK, RotateSwap, ReleaseMutex, At, AtBackend, AtMutex
<1>1. pc[p] # "idle" /\ call[p].inst \in Inst
  BY CallFields
<1>2. /\ hdr[p] \in Header /\ hdr[p].ref \in Kek
      /\ [by |-> p, rev |-> hdr[p].rev, ref |-> hdr[p].ref] \in [by : Proc, rev : Nat, ref : Kek]
  BY HeaderFields DEF LocalShape
<1>3. LocalTypeOK'
  BY <1>1, <1>2, ReturnTypes, AdvanceTypes, SMTT(30) DEF PCs, MutexPC, BackendPC
<1>4. DiskTypeOK' /\ MemoryTypeOK' /\ GhostTypeOK'
  <2>1. history' \in Seq(Kek)
    <3>1. history' = history \/ history' = Append(history, hdr[p].ref)
      OBVIOUS
    <3> QED BY <1>2, <3>1, SMTT(30) DEF GhostTypeOK
  <2>2. drawn' = drawn /\ promised' = promised
    OBVIOUS
  <2>3. acks' \subseteq [by : Proc, rev : Nat, ref : Kek]
    BY <1>2 DEF GhostTypeOK
  <2>4. DiskTypeOK' /\ MemoryTypeOK'
    BY <1>1, <1>2 DEF DiskTypeOK, MemoryTypeOK
  <2> QED BY <2>1, <2>2, <2>3, <2>4 DEF GhostTypeOK
<1>5. CallShape' /\ LocalShape'
  BY <1>1, <1>2, SMTT(30) DEF LocalTypeOK, CallShape, LocalShape, Return, Advance
<1>6. MemoryShape'
  BY <1>1, <1>2 DEF MemoryShape, MemoryTypeOK
<1>7. RotationOwnsMutex'
  BY ReleaseKeepsOwners DEF Rotating
<1> QED BY <1>3, <1>4, <1>5, <1>6, <1>7

(* The write of Put keeps the shape. *)
LEMMA PutWriteShape ==
  ASSUME ShapeInv, NEW p \in Proc, PutWrite(p)
  PROVE  ShapeInv'
<1> USE DEF ShapeInv, TypeOK, PutWrite, At, AtBackend, AtMutex
<1>1. pc[p] # "idle" /\ call[p].inst \in Inst
  BY CallFields
<1>2. /\ call[p].rec \in Rec
      /\ Seal(dek[p], call[p].rec, RecordAAD(hdr[p], call[p].alias)) \in Envelope
  BY HeaderFields DEF LocalShape, CallShape, Seal, RecordAAD, Envelope, RecordAADs
<1>3. LocalTypeOK'
  BY <1>1, <1>2, ReturnTypes, AdvanceTypes, SMTT(30) DEF PCs, MutexPC, BackendPC
<1>4. DiskTypeOK' /\ MemoryTypeOK' /\ GhostTypeOK'
  BY <1>2 DEF DiskTypeOK, MemoryTypeOK, GhostTypeOK
<1>5. CallShape' /\ LocalShape'
  BY <1>1, <1>2, SMTT(30) DEF LocalTypeOK, CallShape, LocalShape, Return, Advance
<1>6. MemoryShape' /\ RotationOwnsMutex'
  BY <1>1, <1>2, SMTT(30)
  DEF MemoryTypeOK, LocalTypeOK, MemoryShape, RotationOwnsMutex, Rotating, MemDek, Return, Advance
<1> QED BY <1>3, <1>4, <1>5, <1>6

(* The publication of Initialize keeps the shape: no rotation is under way. *)
LEMMA InitializePublishShape ==
  ASSUME ShapeInv, NEW p \in Proc, InitializePublish(p)
  PROVE  ShapeInv'
<1> USE DEF ShapeInv, TypeOK, InitializePublish, Publish, At, AtBackend, AtMutex
<1>1. pc[p] # "idle" /\ call[p].inst \in Inst
  BY CallFields
<1>2. /\ hdr[p] \in Header /\ dek[p] \in Draw
      /\ [by |-> p, rev |-> hdr[p].rev, ref |-> hdr[p].ref] \in [by : Proc, rev : Nat, ref : Kek]
  BY HeaderFields DEF LocalShape
<1>3. LocalTypeOK'
  BY <1>1, <1>2, ReturnTypes, AdvanceTypes, SMTT(30) DEF PCs, MutexPC, BackendPC
<1>4. DiskTypeOK' /\ MemoryTypeOK' /\ GhostTypeOK'
  <2>1. history' \in Seq(Kek)
    <3>1. history' = history \/ history' = Append(history, hdr[p].ref)
      OBVIOUS
    <3> QED BY <1>2, <3>1, SMTT(30) DEF GhostTypeOK
  <2>2. drawn' = drawn /\ promised' = promised
    OBVIOUS
  <2>3. acks' \subseteq [by : Proc, rev : Nat, ref : Kek]
    BY <1>2 DEF GhostTypeOK
  <2>4. DiskTypeOK' /\ MemoryTypeOK'
    BY <1>1, <1>2 DEF DiskTypeOK, MemoryTypeOK
  <2> QED BY <2>1, <2>2, <2>3, <2>4 DEF GhostTypeOK
<1>5. CallShape' /\ LocalShape'
  BY <1>1, <1>2, SMTT(30) DEF LocalTypeOK, CallShape, LocalShape, Return, Advance
<1>6. MemoryShape' /\ RotationOwnsMutex'
  BY <1>1, <1>2, SMTT(30)
  DEF MemoryTypeOK, LocalTypeOK, MemoryShape, RotationOwnsMutex, Rotating, MemDek, Return, Advance
<1> QED BY <1>3, <1>4, <1>5, <1>6

(* RotateKEK starts by owning the mutex of an unlocked instance. *)
LEMMA RotateLockShape ==
  ASSUME ShapeInv, NEW p \in Proc, RotateLock(p)
  PROVE  ShapeInv'
<1> USE DEF ShapeInv, TypeOK, RotateLock, At, AtBackend, AtMutex
<1>1. pc[p] # "idle" /\ call[p].inst \in Inst
  BY CallFields
<1>3. LocalTypeOK'
  BY <1>1, ReturnTypes, AdvanceTypes, SMTT(30) DEF PCs, MutexPC, BackendPC
<1>4. DiskTypeOK' /\ MemoryTypeOK' /\ GhostTypeOK'
  BY <1>1, SMTT(30) DEF DiskTypeOK, MemoryTypeOK, GhostTypeOK
<1>5. CallShape' /\ LocalShape'
  BY <1>1, SMTT(30) DEF LocalTypeOK, CallShape, LocalShape, Return, Advance
<1>6. MemoryShape'
  BY DEF MemoryShape
<1>7. RotationOwnsMutex'
  <2> SUFFICES ASSUME NEW q \in Proc, Rotating(q)'
               PROVE  writer'[call'[q].inst] = q /\ memDek'[call'[q].inst] # NULL
    BY DEF RotationOwnsMutex, Rotating
  <2>1. call'[q] = call[q]
    BY DEF LocalTypeOK, Return, Advance, Rotating
  <2>2. CASE q = p
    BY <1>1, <2>1, <2>2 DEF LocalTypeOK, MemoryTypeOK, Return, MemDek, Rotating
  <2>3. CASE q # p
    <3>1. Rotating(q) /\ writer[call[q].inst] = q
      BY <2>3 DEF LocalTypeOK, Return, Advance, Rotating, RotationOwnsMutex
    <3>2. call[q].inst \in Inst
      BY <3>1, CallFields DEF Rotating
    <3>3. writer'[call[q].inst] = q
      BY <1>1, <3>1, <3>2 DEF MemoryTypeOK
    <3> QED BY <2>1, <3>1, <3>3 DEF RotationOwnsMutex
  <2> QED BY <2>2, <2>3
<1> QED BY <1>3, <1>4, <1>5, <1>6, <1>7

(* The unlocked tail of Close keeps the shape. *)
LEMMA CloseCheckShape ==
  ASSUME ShapeInv, NEW p \in Proc, CloseCheck(p)
  PROVE  ShapeInv'
<1> USE DEF ShapeInv, TypeOK, CloseCheck, At, AtBackend, AtMutex
<1>1. pc[p] # "idle" /\ call[p].inst \in Inst
  BY CallFields
<1>3. LocalTypeOK'
  BY <1>1, ReturnTypes, AdvanceTypes, SMTT(30) DEF PCs, MutexPC, BackendPC
<1>4. DiskTypeOK' /\ MemoryTypeOK' /\ GhostTypeOK'
  BY <1>1, SMTT(30) DEF DiskTypeOK, MemoryTypeOK, GhostTypeOK
<1>5. CallShape' /\ LocalShape'
  BY <1>1, SMTT(30) DEF LocalTypeOK, CallShape, LocalShape, Return, Advance
<1>6. MemoryShape' /\ RotationOwnsMutex'
  BY <1>1, SMTT(30)
  DEF MemoryTypeOK, LocalTypeOK, MemoryShape, RotationOwnsMutex, Rotating, MemDek, Return, Advance
<1> QED BY <1>3, <1>4, <1>5, <1>6

(* A snapshot hands the caller a header and a DEK. *)
LEMMA SnapshotShape ==
  ASSUME ShapeInv, NEW p \in Proc,
         NEW here \in {"put_snapshot", "get_snapshot", "delete_snapshot"}, 
         NEW next, Snapshot(p, here, next),
         \/ here = "put_snapshot" /\ next = "put_write"
         \/ here = "get_snapshot" /\ next = "get_read"
         \/ here = "delete_snapshot" /\ next = "delete_write"
  PROVE  ShapeInv'
<1> USE DEF ShapeInv, TypeOK, Snapshot, AtMutex
<1>1. pc[p] # "idle" /\ call[p].inst \in Inst /\ next \in PCs
  BY CallFields DEF PCs, BackendPC
<1>2. MemDek(p) # NULL => MemHeader(p) \in Header /\ MemDek(p) \in Draw
  BY <1>1 DEF MemoryShape, MemoryTypeOK, MemDek, MemHeader
<1>3. LocalTypeOK'
  BY <1>1, <1>2, ReturnTypes, AdvanceTypes
<1>4. DiskTypeOK' /\ MemoryTypeOK' /\ GhostTypeOK'
  BY DEF DiskTypeOK, MemoryTypeOK, GhostTypeOK
<1>5. CallShape' /\ LocalShape'
  BY <1>1, <1>2, SMTT(30) DEF LocalTypeOK, CallShape, LocalShape, Return, Advance
<1>6. MemoryShape' /\ RotationOwnsMutex'
  BY <1>1, SMTT(30)
  DEF MemoryTypeOK, LocalTypeOK, MemoryShape, RotationOwnsMutex, Rotating, Return, Advance
<1> QED BY <1>3, <1>4, <1>5, <1>6

(* Unlock, Lock and Close change the fields with the mutex free. *)
LEMMA PublishShape ==
  ASSUME ShapeInv, NEW p \in Proc, UnlockPublish(p) \/ Lock(p) \/ CloseLock(p)
  PROVE  ShapeInv'
<1> USE DEF ShapeInv, TypeOK, UnlockPublish, Lock, CloseLock, Publish, AtMutex
<1>1. pc[p] # "idle" /\ call[p].inst \in Inst /\ "close_check" \in PCs
  BY CallFields DEF PCs
<1>2. pc[p] = "unlock_publish" => hdr[p] \in Header /\ dek[p] \in Draw
  BY DEF LocalShape
<1>3. LocalTypeOK'
  BY <1>1, ReturnTypes, AdvanceTypes
<1>4. DiskTypeOK' /\ MemoryTypeOK' /\ GhostTypeOK'
  BY <1>1, <1>2 DEF DiskTypeOK, MemoryTypeOK, GhostTypeOK
<1>5. CallShape' /\ LocalShape'
  BY <1>1, SMTT(30) DEF LocalTypeOK, CallShape, LocalShape, Return, Advance
<1>6. MemoryShape'
  BY <1>1, <1>2 DEF MemoryTypeOK, MemoryShape
<1>7. RotationOwnsMutex'
  <2> SUFFICES ASSUME NEW q \in Proc, Rotating(q)'
               PROVE  writer'[call'[q].inst] = q /\ memDek'[call'[q].inst] # NULL
    BY DEF RotationOwnsMutex, Rotating
  <2>1. Rotating(q) /\ call'[q] = call[q]
    BY <1>1, SMTT(30) DEF Rotating, LocalTypeOK, Return, Advance
  <2>2. call[q].inst \in Inst /\ call[q].inst # call[p].inst
    BY <2>1, CallFields DEF Rotating, RotationOwnsMutex
  <2> QED BY <1>1, <2>1, <2>2 DEF RotationOwnsMutex, MemoryTypeOK
<1> QED BY <1>3, <1>4, <1>5, <1>6, <1>7

(* Reads and deletions that end a call keep the shape. *)
LEMMA QuietStepShape ==
  ASSUME ShapeInv, NEW p \in Proc,
         \/ UnlockLoad(p) \/ GetRead(p) \/ DeleteWrite(p) \/ CloseBackend(p) \/ CloseNil(p)
  PROVE  ShapeInv'
<1> USE DEF ShapeInv, TypeOK, UnlockLoad, GetRead, DeleteWrite, CloseBackend, CloseNil, At, AtBackend
<1>1. pc[p] # "idle" /\ call[p].inst \in Inst
  BY CallFields
<1>2. header # NULL => header \in Header /\ header.wrapped.body \in Draw
  BY HeaderFields DEF DiskTypeOK
<1>3. LocalTypeOK'
  BY <1>1, <1>2, ReturnTypes, AdvanceTypes, SMTT(30) DEF PCs, MutexPC, BackendPC
<1>4. DiskTypeOK' /\ MemoryTypeOK' /\ GhostTypeOK'
  BY <1>1, SMTT(30) DEF DiskTypeOK, MemoryTypeOK, GhostTypeOK
<1>5. CallShape' /\ LocalShape'
  BY <1>1, <1>2, SMTT(30) DEF LocalTypeOK, CallShape, LocalShape, Return, Advance
<1>6. MemoryShape' /\ RotationOwnsMutex'
  BY <1>1, SMTT(30)
  DEF MemoryTypeOK, LocalTypeOK, MemoryShape, RotationOwnsMutex, Rotating, Return, Advance
<1> QED BY <1>3, <1>4, <1>5, <1>6

(* A failed backend call keeps the shape; a rotation gives the mutex up. *)
LEMMA BackendFailsShape ==
  ASSUME ShapeInv, NEW p \in Proc, BackendFails(p)
  PROVE  ShapeInv'
<1> USE DEF ShapeInv, TypeOK, BackendFails
<1>1. pc[p] # "idle" /\ call[p].inst \in Inst
  BY CallFields DEF BackendPC
<1>2. LocalTypeOK'
  BY ReturnTypes
<1>3. DiskTypeOK' /\ MemoryTypeOK' /\ GhostTypeOK'
  BY <1>1 DEF DiskTypeOK, MemoryTypeOK, GhostTypeOK, ReleaseMutex
<1>4. CallShape' /\ LocalShape' /\ MemoryShape'
  BY SMTT(30) DEF LocalTypeOK, CallShape, LocalShape, MemoryShape, Return
<1>5. RotationOwnsMutex'
  <2>1. CASE Rotating(p)
    BY <2>1, ReleaseKeepsOwners DEF Rotating
  <2>2. CASE ~Rotating(p)
    BY <2>2, SMTT(30) DEF RotationOwnsMutex, Rotating, LocalTypeOK, Return
  <2> QED BY <2>1, <2>2
<1> QED BY <1>2, <1>3, <1>4, <1>5

(* The first step of a call has its arguments. *)
LEMMA StartShape ==
  ASSUME ShapeInv, NEW p \in Proc, NEW i \in Inst, Start(p, i)
  PROVE  ShapeInv'
<1> USE DEF ShapeInv, TypeOK, Start, StartInitialize, StartUnlock, StartRotateKEK, StartLock,
            StartPut, StartGet, StartDelete, StartClose, Begin
<1>1. TypeOK'
  BY SMTT(30)
  DEF DiskTypeOK, MemoryTypeOK, LocalTypeOK, GhostTypeOK, PCs, MutexPC, BackendPC, Call
<1>2. CallShape'
  BY SMTT(30) DEF LocalTypeOK, GhostTypeOK, PCs, MutexPC, BackendPC, Call, CallShape
<1>3. LocalShape' /\ MemoryShape' /\ RotationOwnsMutex'
  BY SMTT(30) DEF LocalTypeOK, LocalShape, MemoryShape, RotationOwnsMutex, Rotating
<1> QED BY <1>1, <1>2, <1>3

(* A crash of the process of one instance, which also ends its calls. *)
LEMMA RestartShape ==
  ASSUME ShapeInv, NEW i \in Inst, Restart(i)
  PROVE  ShapeInv'
<1> USE DEF ShapeInv, TypeOK, Restart
<1>1. TypeOK'
  BY SMTT(30) DEF DiskTypeOK, MemoryTypeOK, LocalTypeOK, GhostTypeOK, PCs
<1>2. CallShape' /\ LocalShape' /\ MemoryShape'
  BY SMTT(30) DEF MemoryTypeOK, LocalTypeOK, CallShape, LocalShape, MemoryShape
<1>3. RotationOwnsMutex'
  BY SMTT(30) DEF CallShape, Call, MemoryTypeOK, LocalTypeOK, RotationOwnsMutex, Rotating
<1> QED BY <1>1, <1>2, <1>3

(* The initial state has the shape. *)
LEMMA ShapeInit == Init => ShapeInv
BY SMTT(30)
DEF Init, ShapeInv, TypeOK, DiskTypeOK, MemoryTypeOK, LocalTypeOK, GhostTypeOK, CallShape,
    LocalShape, MemoryShape, RotationOwnsMutex, Rotating, PCs

(* Every step keeps the shape. *)
LEMMA ShapeStep == ShapeInv /\ [Next]_vars => ShapeInv'
<1> SUFFICES ASSUME ShapeInv, [Next]_vars PROVE ShapeInv'
  OBVIOUS
<1>1. ASSUME NEW p \in Proc, NEW i \in Inst, Start(p, i) PROVE ShapeInv'
  BY <1>1, StartShape
<1>2. ASSUME NEW p \in Proc, MutexStep(p) PROVE ShapeInv'
  BY <1>2, InitializePublishShape, PublishShape, RotateLockShape, SnapshotShape
  DEF MutexStep, PutSnapshot, GetSnapshot, DeleteSnapshot
<1>3. ASSUME NEW p \in Proc, BackendStep(p) PROVE ShapeInv'
  <2>1. CASE NilBackend(p)
    <3>1. call[p].inst \in Inst
      BY <2>1, CallFields DEF NilBackend, BackendPC, ShapeInv
    <3> QED BY <2>1, <3>1, RestartShape DEF NilBackend
  <2>2. CASE ~NilBackend(p)
    BY <1>3, <2>2, InitializeLoadShape, InitializeListShape, InitializeCreateShape, QuietStepShape,
       RotateLoadShape, RotateSwapShape, PutWriteShape, BackendFailsShape
    DEF BackendStep
  <2> QED BY <2>1, <2>2
<1>4. ASSUME NEW p \in Proc, CloseStep(p) PROVE ShapeInv'
  BY <1>4, CloseCheckShape, QuietStepShape DEF CloseStep
<1>5. ASSUME NEW i \in Inst, Restart(i) PROVE ShapeInv'
  BY <1>5, RestartShape
<1>6. CASE UNCHANGED vars
  BY <1>6, Zenon
  DEF vars, ShapeInv, TypeOK, DiskTypeOK, MemoryTypeOK, LocalTypeOK, GhostTypeOK, CallShape,
      LocalShape, MemoryShape, RotationOwnsMutex, Rotating
<1> QED BY <1>1, <1>2, <1>3, <1>4, <1>5, <1>6 DEF Next

(* In every reachable state the locals are set where they are used and a   *)
(* rotation in progress owns the mutex of an unlocked instance.            *)
THEOREM ShapeInvariant == Spec => []ShapeInv
BY ShapeInit, ShapeStep, PTL DEF Spec

(* Type correctness of the store, its handlers' locals and the ghosts.     *)
THEOREM TypeCorrect == Spec => []TypeOK
<1>1. ShapeInv => TypeOK
  BY DEF ShapeInv
<1> QED BY <1>1, ShapeInvariant, PTL

-----------------------------------------------------------------------------
(***************************************************************************)
(* The second layer: KeyInv.  The stored header only ever changes to one   *)
(* that keeps the store id and the DEK, so whatever was genuine stays so.  *)
(***************************************************************************)
LocalKeyInv == CreateInv /\ InFlightInv /\ UnlockInv /\ CreatorInv
SharedKeyInv == StoredInv /\ MemoryInv /\ PromiseInv /\ EnvelopesRecoverable /\ NoLostRotation

(* KeyInv is a part about locals and a part about shared state. *)
LEMMA KeyInvSplit == KeyInv <=> LocalKeyInv /\ SharedKeyInv
BY DEF KeyInv, LocalKeyInv, SharedKeyInv

(* What a step may do to the stored header while others are in flight. *)
HistoryGrows ==
    /\ Len(history) \in Nat /\ Len(history') \in Nat
    /\ Len(history') >= Len(history)
    /\ header # NULL => header' # NULL /\ header'.wrapped.body = header.wrapped.body
    /\ \A h : WrapsDekOf(h, header) => WrapsDekOf(h, header')
    /\ \A h : GenuineIn(h, header, history) => GenuineIn(h, header', history')

(* With the stored header and its history unchanged, nothing is forgotten. *)
LEMMA SameHistoryGrows ==
  ASSUME ShapeInv, UNCHANGED <<header, history>>
  PROVE  HistoryGrows
<1>1. Len(history) \in Nat
  BY DEF ShapeInv, TypeOK, GhostTypeOK
<1> QED BY <1>1 DEF HistoryGrows

(* What LocalKeyInv says of one goroutine. *)
KeyAt(p) ==
    /\ pc[p] = "init_create" =>
          /\ hdr[p].rev = 1
          /\ hdr[p].wrapped.body = dek[p]
          /\ Opens(hdr[p].wrapped, hdr[p].ref, HeaderAAD(hdr[p]))
    /\ pc[p] \in {"init_publish", "unlock_publish", "put_write", "get_read"} =>
          GenuineIn(hdr[p], header, history) /\ dek[p] = header.wrapped.body
    /\ pc[p] = "rotate_swap" =>
          WrapsDekOf(hdr[p], header) /\ hdr[p].rev - 1 \in 1..Len(history)
    /\ pc[p] # "idle" => call[p].since <= Len(history)
    /\ pc[p] = "unlock_publish" =>
          hdr[p].ref = call[p].kek /\ hdr[p].rev >= call[p].since
    /\ pc[p] = "init_publish" => hdr[p].rev = 1 /\ \A a \in acks : a.rev # 1

OneCreator ==
    \A p, q \in Proc : pc[p] = "init_publish" /\ pc[q] = "init_publish" => p = q

(* The local part, goroutine by goroutine. *)
LEMMA LocalKeyByGoroutine ==
  LocalKeyInv <=> OneCreator /\ \A p \in Proc : KeyAt(p)
BY DEF LocalKeyInv, CreateInv, InFlightInv, UnlockInv, CreatorInv, Genuine, KeyAt, OneCreator

(* A goroutine that does not move keeps what it knows about the keys.      *)
LEMMA BystanderKeepsKeys ==
  ASSUME ShapeInv, HistoryGrows, NEW q \in Proc, KeyAt(q),
         pc'[q] = pc[q], call'[q] = call[q], hdr'[q] = hdr[q], dek'[q] = dek[q],
         pc[q] = "init_publish" => \A a \in acks' : a \in acks \/ a.rev # 1
  PROVE  KeyAt(q)'
<1>1. pc[q] # "idle" => call[q].since \in Nat
  BY CallFields DEF ShapeInv
<1>2. pc[q] = "rotate_swap" => hdr[q].rev \in Nat
  BY HeaderFields DEF ShapeInv, LocalShape
<1>3. GenuineIn(hdr[q], header, history) => header # NULL
  BY DEF GenuineIn, WrapsDekOf
<1> QED BY <1>1, <1>2, <1>3 DEF KeyAt, HistoryGrows

(* A step of p preserves the local layer if it leaves the others alone and *)
(* p arrives with the right keys.                                          *)
LEMMA LocalKeyStep ==
  ASSUME ShapeInv, LocalKeyInv, HistoryGrows, NEW p \in Proc, KeyAt(p)',
         \A q \in Proc \ {p} : /\ pc'[q] = pc[q] /\ call'[q] = call[q]
                               /\ hdr'[q] = hdr[q] /\ dek'[q] = dek[q]
                               /\ pc[q] = "init_publish" =>
                                     /\ pc'[p] # "init_publish"
                                     /\ \A a \in acks' : a \in acks \/ a.rev # 1
  PROVE  LocalKeyInv'
<1>1. OneCreator /\ \A q \in Proc : KeyAt(q)
  BY LocalKeyByGoroutine
<1>2. \A q \in Proc : KeyAt(q)'
  BY <1>1, BystanderKeepsKeys
<1>3. OneCreator'
  BY <1>1 DEF OneCreator
<1> QED
  BY <1>2, <1>3
  DEF LocalKeyInv, CreateInv, InFlightInv, UnlockInv, CreatorInv, Genuine, KeyAt, OneCreator

(* Returning is such a step. *)
LEMMA ReturnKeepsKeys ==
  ASSUME ShapeInv, LocalKeyInv, HistoryGrows, NEW p \in Proc, Return(p),
         \A a \in acks' : a \in acks \/ a.rev # 1
  PROVE  LocalKeyInv'
<1>1. KeyAt(p)'
  BY DEF KeyAt, Return, ShapeInv, TypeOK, LocalTypeOK
<1> QED BY <1>1, LocalKeyStep DEF Return, ShapeInv, TypeOK, LocalTypeOK

(* So is moving on, except into the publication of a created header.       *)
LEMMA AdvanceKeepsKeys ==
  ASSUME ShapeInv, LocalKeyInv, HistoryGrows, NEW p \in Proc, pc[p] # "idle",
         NEW next \in PCs \ {"init_publish"}, NEW h, NEW d, Advance(p, next, h, d),
         next = "init_create" =>
            h.rev = 1 /\ h.wrapped.body = d /\ Opens(h.wrapped, h.ref, HeaderAAD(h)),
         next \in {"unlock_publish", "put_write", "get_read"} =>
            GenuineIn(h, header', history') /\ d = header'.wrapped.body,
         next = "rotate_swap" => WrapsDekOf(h, header') /\ h.rev - 1 \in 1..Len(history'),
         next = "unlock_publish" => h.ref = call[p].kek /\ h.rev >= call[p].since,
         UNCHANGED acks
  PROVE  LocalKeyInv'
<1> USE DEF Advance, ShapeInv, TypeOK, LocalTypeOK
<1>1. pc'[p] = next /\ hdr'[p] = h /\ dek'[p] = d /\ call'[p] = call[p]
  OBVIOUS
<1>2. call[p].since \in Nat /\ call[p].since <= Len(history)
  BY CallFields, LocalKeyByGoroutine DEF KeyAt
<1>3. KeyAt(p)'
  BY <1>1, <1>2 DEF KeyAt, HistoryGrows
<1> QED BY <1>3, LocalKeyStep
(* A step that leaves the disk, the memory and the ghosts alone. *)
LEMMA FrameKeepsShared ==
  ASSUME SharedKeyInv, UNCHANGED <<disk, memory, history, acks, promised>>
  PROVE  SharedKeyInv'
BY DEF SharedKeyInv, StoredInv, MemoryInv, PromiseInv, EnvelopesRecoverable, HeaderOpens,
       NoLostRotation, Genuine

(* A step that leaves the shared state alone keeps the shared part. *)
LEMMA QuietKeepsKeys ==
  ASSUME ShapeInv, KeyInv, NEW p \in Proc,
         \/ InitializeLoad(p) \/ InitializeList(p) \/ UnlockLoad(p) \/ RotateLock(p)
         \/ RotateLoad(p) \/ PutSnapshot(p) \/ GetSnapshot(p) \/ DeleteSnapshot(p)
         \/ GetRead(p) \/ CloseCheck(p) \/ CloseBackend(p) \/ CloseNil(p) \/ BackendFails(p)
  PROVE  KeyInv'
<1> USE DEF At, AtBackend, AtMutex
<1>1. LocalKeyInv /\ SharedKeyInv
  BY KeyInvSplit
<1>2. UNCHANGED <<disk, memory, ghosts>>
  BY DEF InitializeLoad, InitializeList, UnlockLoad, RotateLock, RotateLoad, PutSnapshot,
         GetSnapshot, DeleteSnapshot, Snapshot, GetRead, CloseCheck, CloseBackend, CloseNil,
         BackendFails
<1>3. SharedKeyInv' /\ HistoryGrows
  BY <1>1, <1>2, FrameKeepsShared, SameHistoryGrows
<1>4. CASE Return(p)
  <2>1. LocalKeyInv'
    BY <1>1, <1>2, <1>3, <1>4, ReturnKeepsKeys
  <2> QED BY <1>3, <2>1 DEF KeyInv, LocalKeyInv, SharedKeyInv
<1>5. CASE \E next \in {"init_list", "rotate_load", "delete_write", "close_backend", "close_nil"} :
             \E h, d : Advance(p, next, h, d)
  <2>1. pc[p] # "idle" => LocalKeyInv'
    BY <1>1, <1>2, <1>3, <1>5, AdvanceKeepsKeys DEF PCs, MutexPC, BackendPC
  <2>2. pc[p] # "idle"
    BY DEF InitializeLoad, InitializeList, UnlockLoad, RotateLock, RotateLoad, PutSnapshot,
           GetSnapshot, DeleteSnapshot, Snapshot, GetRead, CloseCheck, CloseBackend, CloseNil,
           BackendFails, BackendPC
  <2> QED BY <1>3, <2>1, <2>2 DEF KeyInv, LocalKeyInv, SharedKeyInv
<1>6. CASE InitializeList(p) /\ ~Return(p)
  <2> DEFINE h == FirstHeader(call[p].kek, drawn + 1, drawn + 1)
  <2>1. Advance(p, "init_create", h, drawn + 1) /\ pc[p] # "idle"
    BY <1>6 DEF InitializeList
  <2>2. h.rev = 1 /\ h.wrapped.body = drawn + 1 /\ Opens(h.wrapped, h.ref, HeaderAAD(h))
    BY DEF FirstHeader, Seal, Opens, HeaderAAD
  <2> HIDE DEF h
  <2>3. LocalKeyInv'
    BY <1>1, <1>2, <1>3, <2>1, <2>2, AdvanceKeepsKeys DEF PCs, MutexPC, BackendPC
  <2> QED BY <1>3, <2>3 DEF KeyInv, LocalKeyInv, SharedKeyInv
<1>7. CASE UnlockLoad(p) /\ ~Return(p)
  <2>1. /\ Advance(p, "unlock_publish", header, header.wrapped.body) /\ pc[p] # "idle"
        /\ header # NULL /\ Opens(header.wrapped, call[p].kek, HeaderAAD(header))
    BY <1>7 DEF UnlockLoad
  <2>2. GenuineIn(header, header, history) /\ header.rev = Len(history)
    BY <1>1, <2>1 DEF SharedKeyInv, StoredInv, Genuine
  <2>3. header.ref = call[p].kek
    BY <2>1, <2>2 DEF GenuineIn, WrapsDekOf, Opens
  <2>4. header.rev >= call[p].since
    BY <1>1, <2>1, <2>2 DEF LocalKeyInv, UnlockInv
  <2>5. LocalKeyInv'
    BY <1>1, <1>2, <1>3, <2>1, <2>2, <2>3, <2>4, AdvanceKeepsKeys DEF PCs, MutexPC, BackendPC
  <2> QED BY <1>3, <2>5 DEF KeyInv, LocalKeyInv, SharedKeyInv
<1>8. CASE RotateLoad(p) /\ ~Return(p)
  <2> DEFINE h == RotatedHeader(header, call[p].kek, MemDek(p))
  <2>1. /\ Advance(p, "rotate_swap", h, NULL) /\ pc[p] = "rotate_load" /\ header # NULL
    BY <1>8 DEF RotateLoad
  <2>2. /\ header \in Header /\ call[p].kek \in Kek /\ call[p].inst \in Inst
        /\ MemDek(p) # NULL /\ MemDek(p) \in Draw
    BY <2>1, CallFields
    DEF ShapeInv, TypeOK, DiskTypeOK, MemoryTypeOK, CallShape, RotationOwnsMutex, Rotating, MemDek
  <2>3. MemDek(p) = header.wrapped.body
    BY <1>1, <2>2 DEF SharedKeyInv, MemoryInv, MemDek
  <2>4. header.rev \in 1..Len(history) /\ Len(history) \in Nat
    BY <1>1, <1>3, <2>1 DEF SharedKeyInv, StoredInv, Genuine, GenuineIn, HistoryGrows
  <2>5. WrapsDekOf(h, header) /\ h.rev - 1 \in 1..Len(history)
    BY <2>1, <2>2, <2>3, <2>4, RotatedHeaderType DEF WrapsDekOf
  <2> HIDE DEF h
  <2>6. LocalKeyInv'
    BY <1>1, <1>2, <1>3, <2>1, <2>5, AdvanceKeepsKeys DEF PCs, MutexPC, BackendPC
  <2> QED BY <1>3, <2>6 DEF KeyInv, LocalKeyInv, SharedKeyInv
<1>9. CASE (PutSnapshot(p) \/ GetSnapshot(p)) /\ ~Return(p)
  <2>1. PICK next \in {"put_write", "get_read"} :
           /\ Advance(p, next, MemHeader(p), MemDek(p)) /\ MemDek(p) # NULL /\ pc[p] # "idle"
    BY <1>9 DEF PutSnapshot, GetSnapshot, Snapshot
  <2>2. GenuineIn(MemHeader(p), header, history) /\ MemDek(p) = header.wrapped.body
    BY <1>1, <2>1, CallFields DEF SharedKeyInv, MemoryInv, Genuine, MemHeader, MemDek, ShapeInv
  <2>3. LocalKeyInv'
    BY <1>1, <1>2, <1>3, <2>1, <2>2, AdvanceKeepsKeys DEF PCs, MutexPC, BackendPC
  <2> QED BY <1>3, <2>3 DEF KeyInv, LocalKeyInv, SharedKeyInv
<1> QED
  BY <1>4, <1>5, <1>6, <1>7, <1>8, <1>9
  DEF InitializeLoad, RotateLock, DeleteSnapshot, Snapshot, GetRead, CloseCheck, CloseBackend,
      CloseNil, BackendFails

(* Start: the call begins with what is stored at that moment. *)
LEMMA StartKeepsKeys ==
  ASSUME ShapeInv, KeyInv, NEW p \in Proc, NEW i \in Inst, Start(p, i)
  PROVE  KeyInv'
<1> USE DEF ShapeInv, TypeOK, LocalTypeOK
<1>1. LocalKeyInv /\ SharedKeyInv
  BY KeyInvSplit
<1>2. PICK first, k, a, r :
           /\ first \in {"init_load", "unlock_load", "lock", "rotate_lock", "put_snapshot",
                        "get_snapshot", "delete_snapshot", "close_lock"}
           /\ Begin(p, first, i, k, a, r)
  BY DEF Start, StartInitialize, StartUnlock, StartRotateKEK, StartLock, StartPut, StartGet,
         StartDelete, StartClose
<1>3. SharedKeyInv' /\ HistoryGrows /\ UNCHANGED acks
  BY <1>1, <1>2, FrameKeepsShared, SameHistoryGrows DEF Begin
<1>4. pc'[p] = first /\ call'[p].since = Len(history) /\ history' = history
  BY <1>2 DEF Begin
<1>5. KeyAt(p)'
  BY <1>2, <1>3, <1>4 DEF KeyAt, HistoryGrows
<1>6. pc'[p] # "init_publish"
  BY <1>2, <1>4
<1>7. \A q \in Proc \ {p} : /\ pc'[q] = pc[q] /\ call'[q] = call[q]
                             /\ hdr'[q] = hdr[q] /\ dek'[q] = dek[q]
  BY <1>2 DEF Begin
<1>8. LocalKeyInv'
  BY <1>1, <1>3, <1>5, <1>6, <1>7, LocalKeyStep
<1> QED BY <1>3, <1>8 DEF KeyInv, LocalKeyInv, SharedKeyInv

(* Publishing a genuine header with its DEK, or forgetting both. *)
LEMMA PublishKeepsKeys ==
  ASSUME ShapeInv, KeyInv, NEW p \in Proc, UnlockPublish(p) \/ Lock(p) \/ CloseLock(p)
  PROVE  KeyInv'
<1> USE DEF ShapeInv, TypeOK
<1>1. LocalKeyInv /\ SharedKeyInv
  BY KeyInvSplit
<1>2. UNCHANGED <<disk, ghosts>> /\ pc[p] # "idle" /\ HistoryGrows
  BY SameHistoryGrows DEF UnlockPublish, Lock, CloseLock, AtMutex
<1>3. call[p].inst \in Inst
  BY <1>2, CallFields
<1>4. MemoryInv'
  <2>1. CASE UnlockPublish(p)
    <3>1. GenuineIn(hdr[p], header, history) /\ dek[p] = header.wrapped.body
      BY <1>1, <2>1 DEF LocalKeyInv, InFlightInv, Genuine, UnlockPublish, AtMutex
    <3> QED
      BY <1>1, <1>2, <1>3, <2>1, <3>1
      DEF SharedKeyInv, MemoryInv, Genuine, UnlockPublish, Publish, MemoryTypeOK
  <2>2. CASE Lock(p) \/ CloseLock(p)
    BY <1>1, <1>2, <1>3, <2>2
    DEF SharedKeyInv, MemoryInv, Genuine, Lock, CloseLock, Publish, MemoryTypeOK
  <2> QED BY <2>1, <2>2
<1>5. SharedKeyInv'
  BY <1>1, <1>2, <1>4
  DEF SharedKeyInv, StoredInv, PromiseInv, EnvelopesRecoverable, HeaderOpens, NoLostRotation, Genuine
<1>6. LocalKeyInv'
  <2>1. CASE Return(p)
    BY <1>1, <1>2, <2>1, ReturnKeepsKeys
  <2>2. CASE Advance(p, "close_check", NULL, NULL)
    BY <1>1, <1>2, <2>2, AdvanceKeepsKeys DEF PCs
  <2> QED BY <2>1, <2>2 DEF UnlockPublish, Lock, CloseLock
<1> QED BY <1>5, <1>6 DEF KeyInv, LocalKeyInv, SharedKeyInv

(* The first header is on disk and its creator reports it. *)
LEMMA InitializePublishKeepsKeys ==
  ASSUME ShapeInv, KeyInv, NEW p \in Proc, InitializePublish(p)
  PROVE  KeyInv'
<1> USE DEF ShapeInv, TypeOK
<1>1. LocalKeyInv /\ SharedKeyInv
  BY KeyInvSplit
<1>2. /\ UNCHANGED <<disk, history, promised>> /\ pc[p] = "init_publish" /\ HistoryGrows
      /\ Return(p)
  BY SameHistoryGrows DEF InitializePublish, AtMutex
<1>3. call[p].inst \in Inst
  BY <1>2, CallFields
<1>4. /\ GenuineIn(hdr[p], header, history) /\ dek[p] = header.wrapped.body
      /\ hdr[p].rev = 1 /\ \A a \in acks : a.rev # 1
  BY <1>1, <1>2, LocalKeyByGoroutine DEF KeyAt
<1>5. MemoryInv'
  BY <1>1, <1>2, <1>3, <1>4
  DEF SharedKeyInv, MemoryInv, Genuine, InitializePublish, Publish, MemoryTypeOK
<1>6. NoLostRotation'
  <2> DEFINE ack == [by |-> p, rev |-> hdr[p].rev, ref |-> hdr[p].ref]
  <2>1. acks' = acks \cup {ack} /\ ack.rev = 1 /\ ack.ref = history[1] /\ 1 \in 1..Len(history)
    BY <1>4 DEF InitializePublish, GenuineIn
  <2> HIDE DEF ack
  <2> QED BY <1>1, <1>2, <1>4, <2>1 DEF SharedKeyInv, NoLostRotation
<1>7. StoredInv' /\ PromiseInv' /\ EnvelopesRecoverable'
  BY <1>1, <1>2, <1>4
  DEF SharedKeyInv, StoredInv, PromiseInv, EnvelopesRecoverable, HeaderOpens, Genuine,
      GenuineIn, WrapsDekOf
<1>8. KeyAt(p)'
  BY <1>2 DEF KeyAt, Return, LocalTypeOK
<1>9. \A q \in Proc \ {p} : pc[q] # "init_publish"
  BY <1>1, <1>2, LocalKeyByGoroutine DEF OneCreator
<1>10. LocalKeyInv'
  BY <1>1, <1>2, <1>8, <1>9, LocalKeyStep DEF Return, LocalTypeOK
<1> QED BY <1>5, <1>6, <1>7, <1>10 DEF KeyInv, LocalKeyInv, SharedKeyInv
(* CreateHeader, on an empty store, whether or not its success is reported. *)
LEMMA InitializeCreateKeepsKeys ==
  ASSUME ShapeInv, KeyInv, NEW p \in Proc, InitializeCreate(p)
  PROVE  KeyInv'
<1> USE DEF ShapeInv, TypeOK
<1>1. LocalKeyInv /\ SharedKeyInv
  BY KeyInvSplit
<1>2. pc[p] = "init_create" /\ UNCHANGED <<envelopes, memory, acks, promised>>
  BY DEF InitializeCreate, AtBackend
<1>3. CASE header # NULL
  <2>1. UNCHANGED <<header, history>> /\ Return(p)
    BY <1>3 DEF InitializeCreate
  <2>2. HistoryGrows
    BY <2>1, SameHistoryGrows
  <2>3. LocalKeyInv' /\ SharedKeyInv'
    BY <1>1, <1>2, <2>1, <2>2, ReturnKeepsKeys, FrameKeepsShared
  <2> QED BY <2>3 DEF KeyInv, LocalKeyInv, SharedKeyInv
<1>4. CASE header = NULL
  <2>1. /\ header' = hdr[p] /\ history' = Append(history, hdr[p].ref)
        /\ Advance(p, "init_publish", hdr[p], dek[p]) \/ Return(p)
    BY <1>4 DEF InitializeCreate
  <2>2. hdr[p] \in Header /\ hdr[p] # NULL /\ hdr[p].ref \in Kek
    BY <1>2, HeaderFields DEF LocalShape
  <2>3. history = <<>> /\ acks = {} /\ \A a \in Alias : envelopes[a] = NULL
    BY <1>1, <1>4 DEF SharedKeyInv, StoredInv
  <2>4. Len(history') = 1 /\ history'[1] = hdr[p].ref
    BY <2>1, <2>2, <2>3
  <2>5. /\ hdr[p].rev = 1 /\ hdr[p].wrapped.body = dek[p]
        /\ Opens(hdr[p].wrapped, hdr[p].ref, HeaderAAD(hdr[p]))
    BY <1>1, <1>2 DEF LocalKeyInv, CreateInv
  <2>6. GenuineIn(hdr[p], header', history')
    BY <2>1, <2>2, <2>4, <2>5 DEF GenuineIn, WrapsDekOf
  <2>7. HistoryGrows
    BY <1>4, <2>3, <2>4 DEF HistoryGrows, GenuineIn, WrapsDekOf
  <2>8. \A q \in Proc : pc[q] # "init_publish"
    BY <1>1, <1>4, LocalKeyByGoroutine DEF KeyAt, GenuineIn, WrapsDekOf
  <2>9. KeyAt(p)'
    <3>1. CASE Return(p)
      BY <3>1 DEF KeyAt, Return, LocalTypeOK
    <3>2. CASE Advance(p, "init_publish", hdr[p], dek[p])
      <4>1. /\ pc'[p] = "init_publish" /\ hdr'[p] = hdr[p] /\ dek'[p] = dek[p]
            /\ call'[p] = call[p] /\ acks' = {}
        BY <1>2, <2>3, <3>2 DEF Advance, LocalTypeOK
      <4>2. call[p].since <= Len(history')
        BY <1>1, <1>2, <2>3, <2>4, CallFields, LocalKeyByGoroutine DEF KeyAt
      <4> QED BY <2>1, <2>5, <2>6, <4>1, <4>2 DEF KeyAt
    <3> QED BY <2>1, <3>1, <3>2
  <2>10. LocalKeyInv'
    BY <1>1, <2>1, <2>7, <2>8, <2>9, LocalKeyStep DEF Return, Advance, LocalTypeOK
  <2>11. SharedKeyInv'
    <3>1. StoredInv'
      BY <2>1, <2>2, <2>4, <2>5, <2>6 DEF StoredInv, Genuine
    <3>2. MemoryInv' /\ PromiseInv' /\ EnvelopesRecoverable' /\ NoLostRotation'
      BY <1>1, <1>2, <1>4, <2>3
      DEF SharedKeyInv, MemoryInv, PromiseInv, EnvelopesRecoverable, NoLostRotation, Genuine,
          GenuineIn, WrapsDekOf
    <3> QED BY <3>1, <3>2 DEF SharedKeyInv
  <2> QED BY <2>10, <2>11 DEF KeyInv, LocalKeyInv, SharedKeyInv
<1> QED BY <1>3, <1>4

(* CompareAndSwapHeader: the new header keeps the store id and the DEK and *)
(* takes the next revision, which nobody has reported yet.                 *)
LEMMA RotateSwapKeepsKeys ==
  ASSUME ShapeInv, KeyInv, NEW p \in Proc, RotateSwap(p)
  PROVE  KeyInv'
<1> USE DEF ShapeInv, TypeOK
<1>1. LocalKeyInv /\ SharedKeyInv
  BY KeyInvSplit
<1>2. pc[p] = "rotate_swap" /\ UNCHANGED <<envelopes, memDek, promised>> /\ Return(p)
  BY DEF RotateSwap, AtBackend
<1>3. call[p].inst \in Inst /\ hdr[p] \in Header /\ hdr[p] # NULL
  BY <1>2, CallFields DEF LocalShape
<1>4. CASE UNCHANGED <<header, memHeader, history, acks>>
  <2>1. HistoryGrows
    BY <1>4, SameHistoryGrows
  <2>2. LocalKeyInv' /\ SharedKeyInv'
    BY <1>1, <1>2, <1>4, <2>1, ReturnKeepsKeys, FrameKeepsShared
  <2> QED BY <2>2 DEF KeyInv, LocalKeyInv, SharedKeyInv
<1>5. CASE ~UNCHANGED <<header, memHeader, history, acks>>
  <2> DEFINE ack == [by |-> p, rev |-> hdr[p].rev, ref |-> hdr[p].ref]
  <2>1. /\ header # NULL /\ header.rev = hdr[p].rev - 1
        /\ header' = hdr[p] /\ history' = Append(history, hdr[p].ref)
        /\ \/ memHeader' = memHeader
           \/ memHeader' = [memHeader EXCEPT ![call[p].inst] = hdr[p]]
        /\ acks' = acks \/ acks' = acks \cup {ack}
    BY <1>5 DEF RotateSwap
  <2>2. /\ header \in Header /\ header.rev \in Nat /\ Len(history) \in Nat
        /\ GenuineIn(header, header, history) /\ header.rev = Len(history)
    BY <1>1, <2>1, HeaderFields DEF SharedKeyInv, StoredInv, Genuine, DiskTypeOK, GhostTypeOK
  <2>3. WrapsDekOf(hdr[p], header) /\ hdr[p].rev \in Nat /\ hdr[p].ref \in Kek
    BY <1>1, <1>2, <1>3, HeaderFields DEF LocalKeyInv, InFlightInv
  <2>4. /\ hdr[p].rev = Len(history) + 1 /\ Len(history') = Len(history) + 1
        /\ history'[Len(history) + 1] = hdr[p].ref
        /\ \A r \in 1..Len(history) : history'[r] = history[r]
    BY <2>1, <2>2, <2>3 DEF GhostTypeOK
  <2>5. /\ header' # NULL /\ header'.sid = header.sid
        /\ header'.wrapped.body = header.wrapped.body
    BY <1>3, <2>1, <2>3 DEF WrapsDekOf
  <2>6. GenuineIn(header', header', history') /\ header'.rev = Len(history')
    BY <1>3, <2>1, <2>2, <2>3, <2>4 DEF GenuineIn, WrapsDekOf
  <2>7. HistoryGrows
    BY <2>1, <2>2, <2>4, <2>5 DEF HistoryGrows, GenuineIn, WrapsDekOf
  <2>8. ack.rev # 1
    BY <2>2, <2>4 DEF GenuineIn
  <2>9. LocalKeyInv'
    BY <1>1, <1>2, <2>1, <2>7, <2>8, ReturnKeepsKeys
  <2>10. StoredInv' /\ PromiseInv'
    BY <1>1, <1>2, <2>5, <2>6 DEF SharedKeyInv, StoredInv, PromiseInv, Genuine
  <2>11. MemoryInv'
    BY <1>1, <1>2, <1>3, <2>1, <2>5, <2>6, <2>7
    DEF SharedKeyInv, MemoryInv, Genuine, MemoryTypeOK, HistoryGrows
  <2>12. EnvelopesRecoverable'
    BY <1>1, <1>2, <2>5, <2>6
    DEF SharedKeyInv, EnvelopesRecoverable, HeaderOpens, GenuineIn, WrapsDekOf, RecordAAD
  <2>13. NoLostRotation'
    <3>1. \A a \in acks : a.rev \in 1..Len(history) /\ history[a.rev] = a.ref /\ a.rev # ack.rev
      BY <1>1, <2>2, <2>4 DEF SharedKeyInv, NoLostRotation
    <3>2. \A a \in acks : a.rev \in 1..Len(history') /\ history'[a.rev] = a.ref
      BY <2>2, <2>4, <3>1
    <3>3. ack.rev \in 1..Len(history') /\ history'[ack.rev] = ack.ref
      BY <2>2, <2>4
    <3> HIDE DEF ack
    <3> QED BY <1>1, <2>1, <3>1, <3>2, <3>3 DEF SharedKeyInv, NoLostRotation
  <2> QED BY <2>9, <2>10, <2>11, <2>12, <2>13 DEF KeyInv, LocalKeyInv, SharedKeyInv
<1> QED BY <1>4, <1>5

(* Writing or removing one envelope. *)
LEMMA EnvelopeWriteKeepsKeys ==
  ASSUME ShapeInv, KeyInv, NEW p \in Proc, PutWrite(p) \/ DeleteWrite(p)
  PROVE  KeyInv'
<1> USE DEF ShapeInv, TypeOK
<1>1. LocalKeyInv /\ SharedKeyInv
  BY KeyInvSplit
<1>2. UNCHANGED <<header, memory, history, acks>> /\ HistoryGrows /\ Return(p)
  BY SameHistoryGrows DEF PutWrite, DeleteWrite
<1>3. call[p].alias \in Alias /\ pc[p] \in {"put_write", "delete_write"}
  BY DEF CallShape, PutWrite, DeleteWrite, AtBackend
<1>4. LocalKeyInv'
  BY <1>1, <1>2, ReturnKeepsKeys
<1>5. CASE PutWrite(p)
  <2> DEFINE blob == Seal(dek[p], call[p].rec, RecordAAD(hdr[p], call[p].alias))
  <2>1. /\ pc[p] = "put_write"
        /\ \/ UNCHANGED <<envelopes, promised>>
           \/ /\ envelopes[call[p].alias] = NULL
              /\ envelopes' = [envelopes EXCEPT ![call[p].alias] = blob]
              /\ \/ promised' = promised
                 \/ promised' = [promised EXCEPT ![call[p].alias] = call[p].rec]
    BY <1>5 DEF PutWrite, AtBackend
  <2>2. GenuineIn(hdr[p], header, history) /\ dek[p] = header.wrapped.body
    BY <1>1, <2>1 DEF LocalKeyInv, InFlightInv, Genuine
  <2>3. header # NULL /\ HeaderOpens
    BY <1>1, <2>2
    DEF SharedKeyInv, StoredInv, Genuine, GenuineIn, WrapsDekOf, HeaderOpens
  <2>4. Opens(blob, header.wrapped.body, RecordAAD(header, call[p].alias)) /\ blob.body = call[p].rec
    BY <2>2 DEF GenuineIn, WrapsDekOf, Opens, Seal, RecordAAD
  <2>5. blob # NULL
    BY <1>3, <2>1, HeaderFields DEF LocalShape, CallShape, Seal, RecordAAD, Envelope, RecordAADs
  <2> HIDE DEF blob
  <2>6. StoredInv' /\ MemoryInv' /\ NoLostRotation'
    BY <1>1, <1>2, <2>3 DEF SharedKeyInv, StoredInv, MemoryInv, NoLostRotation, Genuine
  <2>7. EnvelopesRecoverable'
    BY <1>1, <1>2, <1>3, <2>1, <2>3, <2>4
    DEF SharedKeyInv, EnvelopesRecoverable, HeaderOpens, DiskTypeOK
  <2>8. PromiseInv'
    BY <1>1, <1>3, <2>1, <2>4, <2>5 DEF SharedKeyInv, PromiseInv, DiskTypeOK, GhostTypeOK
  <2> QED BY <1>4, <2>6, <2>7, <2>8 DEF KeyInv, LocalKeyInv
<1>6. CASE DeleteWrite(p)
  <2>1. \/ UNCHANGED <<envelopes, promised>>
        \/ /\ envelopes' = [envelopes EXCEPT ![call[p].alias] = NULL]
           /\ promised' = [promised EXCEPT ![call[p].alias] = NULL]
    BY <1>6 DEF DeleteWrite
  <2>2. SharedKeyInv'
    BY <1>1, <1>2, <1>3, <2>1
    DEF SharedKeyInv, StoredInv, MemoryInv, PromiseInv, NoLostRotation, EnvelopesRecoverable,
        HeaderOpens, Genuine, DiskTypeOK, GhostTypeOK
  <2> QED BY <1>4, <2>2 DEF KeyInv, LocalKeyInv, SharedKeyInv
<1> QED BY <1>5, <1>6

(* A crash forgets memory and locals and nothing else. *)
LEMMA RestartKeepsKeys ==
  ASSUME ShapeInv, KeyInv, NEW i \in Inst, Restart(i)
  PROVE  KeyInv'
<1> USE DEF ShapeInv, TypeOK
<1>1. LocalKeyInv /\ SharedKeyInv
  BY KeyInvSplit
<1>2. UNCHANGED <<disk, ghosts>> /\ HistoryGrows
  BY SameHistoryGrows DEF Restart
<1>3. \A q \in Proc : \/ pc'[q] = "idle"
                      \/ /\ pc'[q] = pc[q] /\ call'[q] = call[q]
                         /\ hdr'[q] = hdr[q] /\ dek'[q] = dek[q]
  BY DEF Restart
<1>4. \A q \in Proc : KeyAt(q)'
  <2> TAKE q \in Proc
  <2>1. CASE pc'[q] = "idle"
    BY <2>1 DEF KeyAt
  <2>2. CASE pc'[q] # "idle"
    BY <1>1, <1>2, <1>3, <2>2, BystanderKeepsKeys, LocalKeyByGoroutine
  <2> QED BY <2>1, <2>2
<1>5. OneCreator'
  BY <1>1, <1>3, LocalKeyByGoroutine DEF OneCreator
<1>6. LocalKeyInv'
  BY <1>4, <1>5
  DEF LocalKeyInv, CreateInv, InFlightInv, UnlockInv, CreatorInv, Genuine, KeyAt, OneCreator
<1>7. MemoryInv'
  BY <1>1, <1>2 DEF SharedKeyInv, MemoryInv, Genuine, Restart, MemoryTypeOK
<1>8. SharedKeyInv'
  BY <1>1, <1>2, <1>7
  DEF SharedKeyInv, StoredInv, PromiseInv, EnvelopesRecoverable, HeaderOpens, NoLostRotation, Genuine
<1> QED BY <1>6, <1>8 DEF KeyInv, LocalKeyInv, SharedKeyInv

(* The second layer holds initially. *)
LEMMA KeyInit == Init => KeyInv
BY DEF Init, KeyInv, StoredInv, MemoryInv, CreateInv, InFlightInv, UnlockInv, CreatorInv,
       PromiseInv, EnvelopesRecoverable, NoLostRotation

(* Every step keeps the second layer. *)
LEMMA KeyStep == ShapeInv /\ KeyInv /\ [Next]_vars => KeyInv'
<1> SUFFICES ASSUME ShapeInv, KeyInv, [Next]_vars PROVE KeyInv'
  OBVIOUS
<1>1. ASSUME NEW p \in Proc, NEW i \in Inst, Start(p, i) PROVE KeyInv'
  BY <1>1, StartKeepsKeys
<1>2. ASSUME NEW p \in Proc, MutexStep(p) PROVE KeyInv'
  BY <1>2, InitializePublishKeepsKeys, PublishKeepsKeys, QuietKeepsKeys DEF MutexStep
<1>3. ASSUME NEW p \in Proc, BackendStep(p) PROVE KeyInv'
  <2>1. CASE NilBackend(p)
    <3>1. call[p].inst \in Inst
      BY <2>1, CallFields DEF NilBackend, BackendPC, ShapeInv
    <3> QED BY <2>1, <3>1, RestartKeepsKeys DEF NilBackend
  <2>2. CASE ~NilBackend(p)
    BY <1>3, <2>2, InitializeCreateKeepsKeys, RotateSwapKeepsKeys, EnvelopeWriteKeepsKeys,
       QuietKeepsKeys
    DEF BackendStep
  <2> QED BY <2>1, <2>2
<1>4. ASSUME NEW p \in Proc, CloseStep(p) PROVE KeyInv'
  BY <1>4, QuietKeepsKeys DEF CloseStep
<1>5. ASSUME NEW i \in Inst, Restart(i) PROVE KeyInv'
  BY <1>5, RestartKeepsKeys
<1>6. CASE UNCHANGED vars
  BY <1>6
  DEF vars, KeyInv, StoredInv, MemoryInv, CreateInv, InFlightInv, UnlockInv, CreatorInv,
      PromiseInv, EnvelopesRecoverable, HeaderOpens, NoLostRotation, Genuine
<1> QED BY <1>1, <1>2, <1>3, <1>4, <1>5, <1>6 DEF Next

-----------------------------------------------------------------------------
(***************************************************************************)
(* The theorems.                                                           *)
(***************************************************************************)

(* Every header in memory or in flight was once the stored one, and all of *)
(* them carry the one DEK that every envelope is sealed under.             *)
THEOREM InductiveInvariant == Spec => []IInv
<1>1. Init => IInv
  BY ShapeInit, KeyInit DEF IInv
<1>2. IInv /\ [Next]_vars => IInv'
  BY ShapeStep, KeyStep DEF IInv
<1> QED BY <1>1, <1>2, PTL DEF Spec

(* The KEK named by the stored header unwraps the DEK stored with it. *)
THEOREM StoredHeaderOpens == Spec => []HeaderOpens
<1>1. IInv => HeaderOpens
  BY DEF IInv, KeyInv, StoredInv, Genuine, GenuineIn, WrapsDekOf, HeaderOpens
<1> QED BY <1>1, InductiveInvariant, PTL

(* Every stored envelope opens under the DEK of the stored header, whenever *)
(* its Put took its snapshot.                                              *)
THEOREM EnvelopesStayRecoverable == Spec => []EnvelopesRecoverable
<1>1. IInv => EnvelopesRecoverable
  BY DEF IInv, KeyInv
<1> QED BY <1>1, InductiveInvariant, PTL

(* An acknowledged Put is readable through the current KEK until deleted. *)
THEOREM AcknowledgedPutsSurvive == Spec => []AckedPutDurable
<1>1. IInv => AckedPutDurable
  BY DEF IInv, KeyInv, PromiseInv, EnvelopesRecoverable, AckedPutDurable, Recovered
<1> QED BY <1>1, InductiveInvariant, PTL

(* An unlocked instance holds the DEK of the stored header, and a header   *)
(* that is not newer.                                                      *)
THEOREM UnlockedInstancesAgree == Spec => []UnlockedHoldsStoreDek
<1>1. IInv => UnlockedHoldsStoreDek
  <2> SUFFICES ASSUME IInv, NEW i \in Inst, memDek[i] # NULL
               PROVE  /\ header # NULL /\ memHeader[i] # NULL
                      /\ memDek[i] = header.wrapped.body
                      /\ memHeader[i].sid = header.sid
                      /\ memHeader[i].rev <= header.rev
    BY DEF UnlockedHoldsStoreDek
  <2>1. memHeader[i] # NULL
    BY DEF IInv, ShapeInv, MemoryShape
  <2>2. GenuineIn(memHeader[i], header, history) /\ memDek[i] = header.wrapped.body
    BY DEF IInv, KeyInv, MemoryInv, Genuine
  <2>3. header # NULL /\ header.rev = Len(history) /\ Len(history) \in Nat
    BY <2>2
    DEF IInv, KeyInv, StoredInv, GenuineIn, WrapsDekOf, ShapeInv, TypeOK, GhostTypeOK
  <2> QED BY <2>1, <2>2, <2>3 DEF GenuineIn, WrapsDekOf
<1> QED BY <1>1, InductiveInvariant, PTL

(* A delayed Get still opens what it reads. *)
THEOREM DelayedGetsOpen == Spec => []InFlightGetOpens
<1>1. IInv => InFlightGetOpens
  <2> SUFFICES ASSUME IInv, NEW p \in Proc, pc[p] = "get_read", envelopes[call[p].alias] # NULL
               PROVE  Opens(envelopes[call[p].alias], dek[p], RecordAAD(hdr[p], call[p].alias))
    BY DEF InFlightGetOpens
  <2>1. call[p].alias \in Alias
    BY DEF IInv, ShapeInv, CallShape
  <2>2. GenuineIn(hdr[p], header, history) /\ dek[p] = header.wrapped.body
    BY DEF IInv, KeyInv, InFlightInv, Genuine
  <2>3. Opens(envelopes[call[p].alias], header.wrapped.body, RecordAAD(header, call[p].alias))
    BY <2>1 DEF IInv, KeyInv, EnvelopesRecoverable
  <2> QED BY <2>2, <2>3 DEF GenuineIn, WrapsDekOf, RecordAAD
<1> QED BY <1>1, InductiveInvariant, PTL

(* Of concurrent rotations at most one reports a revision, and the header  *)
(* of that revision was its own.                                           *)
THEOREM RotationsAreNotLost == Spec => []NoLostRotation
<1>1. IInv => NoLostRotation
  BY DEF IInv, KeyInv
<1> QED BY <1>1, InductiveInvariant, PTL

(* Unlock never succeeds with a KEK rotated out before it was called. *)
THEOREM RetiredKeksAreRefused == Spec => []UnlockUsesCurrentKek
<1>1. IInv => UnlockUsesCurrentKek
  <2> SUFFICES ASSUME IInv, NEW p \in Proc, pc[p] = "unlock_publish"
               PROVE  \E r \in 1..Len(history) :
                         r >= call[p].since /\ history[r] = call[p].kek
    BY DEF UnlockUsesCurrentKek
  <2>1. hdr[p].rev \in 1..Len(history) /\ hdr[p].ref = history[hdr[p].rev]
    BY DEF IInv, KeyInv, InFlightInv, Genuine, GenuineIn
  <2>2. hdr[p].ref = call[p].kek /\ hdr[p].rev >= call[p].since
    BY DEF IInv, KeyInv, UnlockInv
  <2> QED BY <2>1, <2>2
<1> QED BY <1>1, InductiveInvariant, PTL

-----------------------------------------------------------------------------
(***************************************************************************)
(* Refinement: the store implements the vault.                             *)
(***************************************************************************)
PlainContents ==
    [a \in Alias |-> IF envelopes[a] = NULL THEN NULL ELSE envelopes[a].body]

(* No envelope stays shut, so what the vault shows are the sealed records. *)
LEMMA ContentsArePlain == IInv => VaultContents = PlainContents
BY DEF IInv, KeyInv, EnvelopesRecoverable, VaultContents, PlainContents, Recovered

(* An initial state of the store is one of the vault. *)
LEMMA VaultInit == Init => V!Init
BY DEF Init, V!Init, VaultKek, VaultVersion, VaultContents, Recovered

(* Every step of the store is a step of the vault or a stutter. *)
LEMMA VaultStep == IInv /\ IInv' /\ [Next]_vars => [V!Next]_(V!vars)
<1> SUFFICES ASSUME IInv, IInv', [Next]_vars PROVE [V!Next]_(V!vars)
  OBVIOUS
<1>0. (IInv => VaultContents = PlainContents)'
  BY ContentsArePlain, PTL
<1>1. VaultContents = PlainContents /\ VaultContents' = PlainContents'
  BY <1>0, ContentsArePlain
<1> USE DEF IInv, ShapeInv, TypeOK
<1>2. CASE UNCHANGED disk
  BY <1>1, <1>2 DEF PlainContents, VaultKek, VaultVersion, V!vars
<1>3. ASSUME NEW p \in Proc, InitializeCreate(p), header' # header PROVE V!Next
  <2>1. header = NULL /\ header' = hdr[p] /\ envelopes' = envelopes /\ pc[p] = "init_create"
    BY <1>3 DEF InitializeCreate, AtBackend
  <2>2. hdr[p] \in Header /\ hdr[p] # NULL /\ hdr[p].ref \in Kek /\ hdr[p].rev = 1
    BY <2>1, HeaderFields DEF LocalShape, KeyInv, CreateInv
  <2>3. V!Create(hdr[p].ref)
    BY <1>1, <2>1, <2>2 DEF V!Create, VaultKek, VaultVersion, PlainContents
  <2> QED BY <2>2, <2>3 DEF V!Next
<1>4. ASSUME NEW p \in Proc, RotateSwap(p), header' # header PROVE V!Next
  <2>1. /\ header # NULL /\ header.rev = hdr[p].rev - 1 /\ header' = hdr[p]
        /\ envelopes' = envelopes /\ pc[p] = "rotate_swap"
    BY <1>4 DEF RotateSwap, AtBackend
  <2>2. hdr[p] \in Header /\ hdr[p] # NULL /\ hdr[p].ref \in Kek /\ hdr[p].rev \in Nat
    BY <2>1, HeaderFields DEF LocalShape
  <2>3. header.ref # NULL
    BY <2>1, HeaderFields DEF DiskTypeOK
  <2>4. V!Rotate(hdr[p].ref)
    BY <1>1, <2>1, <2>2, <2>3 DEF V!Rotate, VaultKek, VaultVersion, PlainContents
  <2> QED BY <2>2, <2>4 DEF V!Next
<1>5. ASSUME NEW p \in Proc, PutWrite(p), envelopes' # envelopes PROVE V!Next
  <2> DEFINE a == call[p].alias
             r == call[p].rec
             blob == Seal(dek[p], r, RecordAAD(hdr[p], a))
  <2>1. /\ envelopes[a] = NULL /\ envelopes' = [envelopes EXCEPT ![a] = blob]
        /\ header' = header /\ pc[p] = "put_write"
    BY <1>5 DEF PutWrite, AtBackend
  <2>2. a \in Alias /\ r \in Rec /\ hdr[p] \in Header /\ dek[p] \in Draw
    BY <2>1 DEF CallShape, LocalShape
  <2>3. blob.body = r /\ blob # NULL
    BY <2>2, HeaderFields DEF Seal, RecordAAD, Envelope, RecordAADs
  <2>4. header # NULL /\ header.ref # NULL
    BY <2>1, HeaderFields DEF KeyInv, InFlightInv, Genuine, GenuineIn, WrapsDekOf, DiskTypeOK
  <2> HIDE DEF a, r, blob
  <2>5. PlainContents[a] = NULL /\ PlainContents' = [PlainContents EXCEPT ![a] = r]
    BY <2>1, <2>2, <2>3 DEF PlainContents, DiskTypeOK
  <2>6. V!Put(a, r)
    BY <1>1, <2>1, <2>4, <2>5 DEF V!Put, VaultKek, VaultVersion
  <2> QED BY <2>2, <2>6 DEF V!Next
<1>6. ASSUME NEW p \in Proc, DeleteWrite(p), envelopes' # envelopes PROVE V!Next
  <2> DEFINE a == call[p].alias
  <2>1. /\ envelopes[a] # NULL /\ envelopes' = [envelopes EXCEPT ![a] = NULL]
        /\ header' = header /\ pc[p] = "delete_write"
    BY <1>6 DEF DeleteWrite, AtBackend
  <2>2. a \in Alias
    BY <2>1 DEF CallShape
  <2>3. envelopes[a].body # NULL
    BY <2>1, <2>2 DEF DiskTypeOK, Envelope
  <2> HIDE DEF a
  <2>4. PlainContents[a] # NULL /\ PlainContents' = [PlainContents EXCEPT ![a] = NULL]
    BY <2>1, <2>2, <2>3 DEF PlainContents, DiskTypeOK
  <2>5. V!Delete(a)
    BY <1>1, <2>1, <2>4 DEF V!Delete, VaultKek, VaultVersion
  <2> QED BY <2>2, <2>5 DEF V!Next
<1>7. \/ UNCHANGED disk
      \/ \E p \in Proc : \/ InitializeCreate(p) \/ RotateSwap(p) \/ PutWrite(p) \/ DeleteWrite(p)
  BY DEF Next, vars, Start, StartInitialize, StartUnlock, StartRotateKEK, StartLock, StartPut,
         StartGet, StartDelete, StartClose, Begin, MutexStep, BackendStep, CloseStep,
         InitializeLoad, InitializeList, InitializePublish, UnlockLoad, UnlockPublish, Lock,
         RotateLock, RotateLoad, PutSnapshot, GetSnapshot, DeleteSnapshot, Snapshot, GetRead,
         CloseLock, CloseCheck, CloseBackend, CloseNil, BackendFails, NilBackend, Restart
<1> QED
  BY <1>2, <1>3, <1>4, <1>5, <1>6, <1>7
  DEF InitializeCreate, RotateSwap, PutWrite, DeleteWrite

(* Seen through the current KEK, every step of the store creates the vault, *)
(* changes its key, inserts or deletes one record, or changes nothing.     *)
THEOREM StoreImplementsVault == Spec => ImplementsVault
<1>1. Spec => []IInv
  BY InductiveInvariant
<1> QED BY <1>1, VaultInit, VaultStep, PTL DEF Spec, ImplementsVault, V!Spec
=============================================================================
