---------------------------- MODULE NativeDevice ----------------------------
(***************************************************************************)
(* A Device of the bundled Go binding of libfido2                          *)
(* (third_party/go-libfido2/fido2.go), shared by goroutines (Proc).  Every *)
(* operation opens a native handle of its own and closes it when it is     *)
(* done; the field dev names the handle opened last, for Cancel.  The      *)
(* field is cleared and read under the mutex of the Device and written     *)
(* without it.                                                             *)
(***************************************************************************)
EXTENDS Integers

CONSTANTS
    Proc,           \* goroutines
    Handle,         \* addresses of native handles
    NULL

ASSUME NullAssumption == NULL \notin Proc \cup Handle

VARIABLES
    native,         \* what has become of each handle: none, open, closed
    dev,            \* Device.dev
    mutex,          \* the holder of the mutex of the Device
    pc, mine,       \* per goroutine: its next step, its operation's handle
    target          \* per goroutine: the handle its Cancel has found

vars == <<native, dev, mutex, pc, mine, target>>

Init ==
    /\ native = [h \in Handle |-> "none"]
    /\ dev = NULL
    /\ mutex = NULL
    /\ pc = [p \in Proc |-> "idle"]
    /\ mine = [p \in Proc |-> NULL]
    /\ target = [p \in Proc |-> NULL]

(* Goroutine p is at step s of an operation and not within Cancel. *)
At(p, s) == pc[p] = s /\ target[p] = NULL

Advance(p, s) == pc' = [pc EXCEPT ![p] = s]

-----------------------------------------------------------------------------
(* open.  A handle that does not open stays allocated for good.            *)

OpenNative(p) ==
    /\ At(p, "idle")
    /\ \E h \in Handle :
          /\ native[h] = "none"
          /\ \/ /\ native' = [native EXCEPT ![h] = "closed"]
                /\ UNCHANGED <<pc, mine>>
             \/ /\ native' = [native EXCEPT ![h] = "open"]
                /\ mine' = [mine EXCEPT ![p] = h]
                /\ Advance(p, "opened")
    /\ UNCHANGED <<dev, mutex, target>>

OpenPublish(p) ==
    /\ At(p, "opened")
    /\ dev' = mine[p]
    /\ Advance(p, "running")
    /\ UNCHANGED <<native, mutex, mine, target>>

-----------------------------------------------------------------------------
(* close, deferred by every operation.                                     *)

(* Mutant: the field is cleared without the mutex. *)
CloseClearLockless(p) ==
    /\ At(p, "running")
    /\ dev' = NULL
    /\ Advance(p, "cleared")
    /\ UNCHANGED <<native, mutex, mine, target>>

(* Mutant: the field is cleared only if it names the handle of another. *)
CloseClearOthers(p) ==
    /\ At(p, "running")
    /\ mutex = NULL
    /\ dev' = IF dev = mine[p] THEN dev ELSE NULL
    /\ Advance(p, "cleared")
    /\ UNCHANGED <<native, mutex, mine, target>>

CloseClear(p) ==
    /\ At(p, "running")
    /\ mutex = NULL
    /\ dev' = NULL
    /\ Advance(p, "cleared")
    /\ UNCHANGED <<native, mutex, mine, target>>

CloseNative(p) ==
    /\ At(p, "cleared")
    /\ native' = [native EXCEPT ![mine[p]] = "closed"]
    /\ Advance(p, "closed")
    /\ UNCHANGED <<dev, mutex, mine, target>>

Free(p) ==
    /\ At(p, "closed")
    /\ native' = [native EXCEPT ![mine[p]] = "none"]
    /\ mine' = [mine EXCEPT ![p] = NULL]
    /\ Advance(p, "idle")
    /\ UNCHANGED <<dev, mutex, target>>

-----------------------------------------------------------------------------
(* Cancel, from a goroutine without an operation or, in BioEnroll, within  *)
(* one.                                                                    *)

Cancel(p) ==
    /\ At(p, "idle") \/ At(p, "running")
    /\ mutex = NULL
    /\ dev # NULL
    /\ mutex' = p
    /\ target' = [target EXCEPT ![p] = dev]
    /\ UNCHANGED <<native, dev, pc, mine>>

(* Mutant: an error of libfido2 leaves without unlocking. *)
CancelNativeKeeps(p) ==
    /\ target[p] # NULL
    /\ mutex' \in {NULL, p}
    /\ target' = [target EXCEPT ![p] = NULL]
    /\ UNCHANGED <<native, dev, pc, mine>>

CancelNative(p) ==
    /\ target[p] # NULL
    /\ mutex' = NULL
    /\ target' = [target EXCEPT ![p] = NULL]
    /\ UNCHANGED <<native, dev, pc, mine>>

Next == \E p \in Proc :
    \/ OpenNative(p) \/ OpenPublish(p)
    \/ CloseClear(p) \/ CloseNative(p) \/ Free(p)
    \/ Cancel(p) \/ CancelNative(p)

(* A native call returns, and a waiter for the mutex gets its turn. *)
Fairness == \A p \in Proc :
    /\ WF_vars(OpenPublish(p)) /\ WF_vars(CloseNative(p)) /\ WF_vars(Free(p))
    /\ WF_vars(CancelNative(p))
    /\ SF_vars(CloseClear(p))

Spec == Init /\ [][Next]_vars

FairSpec == Spec /\ Fairness

-----------------------------------------------------------------------------

TypeOK ==
    /\ native \in [Handle -> {"none", "open", "closed"}]
    /\ dev \in Handle \cup {NULL}
    /\ mutex \in Proc \cup {NULL}
    /\ pc \in [Proc -> {"idle", "opened", "running", "cleared", "closed"}]
    /\ mine \in [Proc -> Handle \cup {NULL}]
    /\ target \in [Proc -> Handle \cup {NULL}]

(* Cancel calls libfido2 with a handle that is open and belongs to an      *)
(* operation in progress, never one closed, freed or given to a later      *)
(* operation (fido2.go:255-276).                                           *)
CancelReachesOpenHandle ==
    \A p \in Proc : target[p] # NULL =>
        /\ native[target[p]] = "open"
        /\ \E q \in Proc : pc[q] = "running" /\ mine[q] = target[p]

(* Every operation that has opened a handle gives it back, however often   *)
(* others cancel (fido2.go:255-264).                                       *)
OperationsEnd == \A p \in Proc : pc[p] = "opened" ~> pc[p] = "idle"

-----------------------------------------------------------------------------
(* The inductive invariant: operations own different open handles, the     *)
(* field names one of a running operation, and a goroutine within Cancel   *)
(* holds the mutex and has found what the field still names or an unlocked *)
(* write has replaced.                                                     *)

OwnInv == \A p \in Proc :
    /\ pc[p] \in {"opened", "running", "cleared"} =>
          mine[p] # NULL /\ native[mine[p]] = "open"
    /\ pc[p] = "closed" => mine[p] # NULL /\ native[mine[p]] = "closed"
    /\ pc[p] = "idle" => mine[p] = NULL
    /\ \A q \in Proc : mine[p] = mine[q] /\ mine[p] # NULL => p = q

Running(h) == \E q \in Proc : pc[q] = "running" /\ mine[q] = h

CancelInv ==
    /\ dev # NULL => Running(dev)
    /\ \A p \in Proc : target[p] # NULL => mutex = p /\ Running(target[p])

IInv == TypeOK /\ OwnInv /\ CancelInv
=============================================================================
