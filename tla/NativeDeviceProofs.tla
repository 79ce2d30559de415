------------------------- MODULE NativeDeviceProofs -------------------------
(***************************************************************************)
(* Cancel of a Device reaches open handles only, for any number of         *)
(* goroutines and operations at a time.                                    *)
(***************************************************************************)
EXTENDS NativeDevice, TLAPS

(* At the start no handle is open and nobody holds the mutex. *)
LEMMA InitIInv == Init => IInv
BY NullAssumption DEF Init, IInv, TypeOK, OwnInv, CancelInv, Running

(* A handle that opens was nobody's, so it becomes one operation's own and *)
(* the field cannot name it yet.                                           *)
LEMMA OpenNativeKeeps ==
    ASSUME IInv, NEW p \in Proc, OpenNative(p)
    PROVE  IInv'
BY NullAssumption DEF IInv, TypeOK, OwnInv, CancelInv, Running, OpenNative, At, Advance

(* The unlocked write names an operation that is running from now on. *)
LEMMA OpenPublishKeeps ==
    ASSUME IInv, NEW p \in Proc, OpenPublish(p)
    PROVE  IInv'
BY NullAssumption DEF IInv, TypeOK, OwnInv, CancelInv, Running, OpenPublish, At, Advance

(* The field is cleared while nobody is within Cancel: whoever is there    *)
(* holds the mutex.                                                        *)
LEMMA CloseClearKeeps ==
    ASSUME IInv, NEW p \in Proc, CloseClear(p)
    PROVE  IInv'
BY NullAssumption DEF IInv, TypeOK, OwnInv, CancelInv, Running, CloseClear, At, Advance

(* A handle is closed by its owner, who is not running any more. *)
LEMMA CloseNativeKeeps ==
    ASSUME IInv, NEW p \in Proc, CloseNative(p)
    PROVE  IInv'
BY NullAssumption DEF IInv, TypeOK, OwnInv, CancelInv, Running, CloseNative, At, Advance

(* The same of freeing it. *)
LEMMA FreeKeeps ==
    ASSUME IInv, NEW p \in Proc, Free(p)
    PROVE  IInv'
BY NullAssumption DEF IInv, TypeOK, OwnInv, CancelInv, Running, Free, At, Advance

(* Cancel finds what the field names, an operation in progress. *)
LEMMA CancelKeeps ==
    ASSUME IInv, NEW p \in Proc, Cancel(p) \/ CancelNative(p)
    PROVE  IInv'
BY NullAssumption DEF IInv, TypeOK, OwnInv, CancelInv, Running, Cancel, CancelNative, At, Advance

(* The invariant holds in every behaviour of the Device. *)
THEOREM DeviceInvariant == Spec => []IInv
<1>1. Init => IInv
  BY InitIInv
<1>2. IInv /\ [Next]_vars => IInv'
  <2> SUFFICES ASSUME IInv, [Next]_vars PROVE IInv'
    OBVIOUS
  <2>1. CASE UNCHANGED vars
    BY <2>1 DEF vars, IInv, TypeOK, OwnInv, CancelInv, Running
  <2>2. ASSUME NEW p \in Proc, OpenNative(p) PROVE IInv'
    BY <2>2, OpenNativeKeeps
  <2>3. ASSUME NEW p \in Proc, OpenPublish(p) PROVE IInv'
    BY <2>3, OpenPublishKeeps
  <2>4. ASSUME NEW p \in Proc, CloseClear(p) PROVE IInv'
    BY <2>4, CloseClearKeeps
  <2>5. ASSUME NEW p \in Proc, CloseNative(p) PROVE IInv'
    BY <2>5, CloseNativeKeeps
  <2>6. ASSUME NEW p \in Proc, Free(p) PROVE IInv'
    BY <2>6, FreeKeeps
  <2>7. ASSUME NEW p \in Proc, Cancel(p) \/ CancelNative(p) PROVE IInv'
    BY <2>7, CancelKeeps
  <2> QED
    BY <2>1, <2>2, <2>3, <2>4, <2>5, <2>6, <2>7 DEF Next
<1> QED
  BY <1>1, <1>2, PTL DEF Spec

(* What Cancel calls libfido2 with is open and of an operation in progress *)
(* (fido2.go:255-276).                                                     *)
THEOREM CancelIsSafe == Spec => []CancelReachesOpenHandle
<1>1. IInv => CancelReachesOpenHandle
  BY NullAssumption DEF IInv, OwnInv, CancelInv, Running, CancelReachesOpenHandle
<1> QED
  BY <1>1, DeviceInvariant, PTL
=============================================================================
