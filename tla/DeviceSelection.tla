-------------------------- MODULE DeviceSelection --------------------------
(***************************************************************************)
(* Programs that choose a device and use it, on top of the device layer.   *)
(* pkg/secrets lists the devices, lets a DeviceSelector choose, here the   *)
(* one of pkg/device/cli, and opens the path of its choice; a caller of    *)
(* OpenIndex gives an index only.  Devices come and go at any time, also   *)
(* while the user looks at the list, and only a path is remembered, so     *)
(* that another authenticator than the one meant may be asked.  What the   *)
(* program asks for is left to the caller.                                 *)
(***************************************************************************)
EXTENDS LibfidoDevice, SequencesExt, FiniteSets

CONSTANTS
    Hello,          \* those paths that name the Windows WebAuthn broker
    MaxDevices,     \* how many devices an enumeration finds at most
    AutoSingle      \* Selector.AutoSingle

ASSUME PathAssumption == IsFiniteSet(Path)
ASSUME HelloAssumption == Hello \subseteq Path
ASSUME LimitAssumption == MaxDevices \in Nat
ASSUME OptionsAssumption == AutoSingle \in BOOLEAN

Listing == INSTANCE DeviceListing

VARIABLES
    step,           \* per goroutine: where its program is
    listing,        \* per goroutine: the list on its screen, and what it is of
    typed           \* per goroutine: the index given, NULL for an empty line

session == <<step, listing, typed>>

InitSelection ==
    /\ Init
    /\ step = [p \in Proc |-> "start"]
    /\ listing = [p \in Proc |-> NULL]
    /\ typed = [p \in Proc |-> NULL]

Continue(p, next) == step' = [step EXCEPT ![p] = next]

(* libfido2.DeviceLocations: an enumeration finds what is plugged in, in   *)
(* any order, and stops when its array is full.                            *)
Plugged == {d \in Path : port[d] # NULL}

Enumerable ==
    {S \in SUBSET Plugged : Cardinality(S) <= MaxDevices /\ (S = Plugged \/ Cardinality(S) = MaxDevices)}

Enumerations == UNION {SetToSeqs(S) : S \in Enumerable}

ListingOf(found, exclude) ==
    [found |-> found, exclude |-> exclude, shown |-> Listing!ListDevices(found, exclude)]

Shown(p) == listing[p].shown

Browse(p) ==
    /\ step[p] = "start"
    /\ \E found \in Enumerations, exclude \in BOOLEAN :
          LET list == ListingOf(found, exclude)
          IN  /\ listing' = [listing EXCEPT ![p] = list]
              /\ Continue(p, IF list.shown = <<>> THEN "exit" ELSE "choose")
    /\ UNCHANGED <<vars, typed>>

(* Selector.Select: a single device may go unasked, an empty line means    *)
(* the first, anything else must be an index of the list.                  *)
Skips(p) == AutoSingle /\ Len(Shown(p)) = 1

Type(p, i) ==
    /\ step[p] = "choose"
    /\ ~Skips(p)
    /\ typed' = [typed EXCEPT ![p] = i]
    /\ Continue(p, IF i \in {NULL} \cup 0..Len(Shown(p)) - 1 THEN "select" ELSE "exit")
    /\ UNCHANGED <<vars, listing>>

Skip(p) ==
    /\ step[p] = "choose"
    /\ Skips(p)
    /\ Continue(p, "select")
    /\ UNCHANGED <<vars, listing, typed>>

Number(p) == IF typed[p] = NULL THEN 0 ELSE typed[p]

Selected(p) == Shown(p)[Number(p) + 1]

(* The list is forgotten once the path is open. *)
OpenSelected(p, next) ==
    /\ Open(p, Selected(p).path)
    /\ Continue(p, next)
    /\ listing' = [listing EXCEPT ![p] = NULL]
    /\ typed' = [typed EXCEPT ![p] = NULL]

OpenChoice(p) == step[p] = "select" /\ OpenSelected(p, "use")

(* OpenIndex lists anew and takes the index in that list. *)
OpenIndex(p, i) ==
    /\ step[p] = "start"
    /\ \E found \in Enumerations, exclude \in BOOLEAN :
          LET devices == Listing!ListDevices(found, exclude)
          IN  \/ i \in 0..Len(devices) - 1 /\ Open(p, devices[i + 1].path) /\ Continue(p, "use")
              \/ i \notin 0..Len(devices) - 1 /\ UNCHANGED vars /\ Continue(p, "exit")
    /\ UNCHANGED <<listing, typed>>

Use(p, q) == step[p] = "use" /\ Ask(p, q) /\ UNCHANGED session

Take(p) == step[p] = "use" /\ Leave(p) /\ UNCHANGED session

(* The program ends, or starts over. *)
Exit(p) ==
    /\ \/ step[p] = "exit"
       \/ step[p] = "use" /\ pc[p] = "idle"
    /\ Continue(p, "start")
    /\ listing' = [listing EXCEPT ![p] = NULL]
    /\ typed' = [typed EXCEPT ![p] = NULL]
    /\ handle' = [handle EXCEPT ![p] = NULL]
    /\ UNCHANGED <<port, kept, pc, request, cred, salt, answer, mine>>

Index == -1..Cardinality(Path)

Choosing(p) ==
    \/ Browse(p) \/ Skip(p) \/ OpenChoice(p) \/ Take(p)
    \/ \E i \in {NULL} \cup Index : Type(p, i)
    \/ \E i \in Index : OpenIndex(p, i)
    \/ \E q \in Request : Use(p, q)

NextSelection ==
    \/ World /\ UNCHANGED session
    \/ \E p \in Proc :
          \/ Choosing(p) \/ Exit(p)
          \/ Operation(p) /\ UNCHANGED session

-----------------------------------------------------------------------------

TypeOKSelection ==
    /\ TypeOK
    /\ \A p \in Proc : listing[p] # NULL =>
          \A i \in DOMAIN Shown(p) : Shown(p)[i] \in Listing!DeviceInfo
    /\ typed \in [Proc -> {NULL} \cup Index]

(* A listing keeps what an enumeration found: each allowed location once,  *)
(* numbered by its place, the broker first if there is one, the others in  *)
(* the order they were found, whatever place the broker was moved from     *)
(* (device.go:28-62).                                                      *)
ListingFaithful ==
    \A p \in Proc : listing[p] # NULL =>
        LET found == listing[p].found
            allowed == {i \in DOMAIN found : Listing!LocationAllowed(found[i], listing[p].exclude)}
            place(d) == CHOOSE i \in DOMAIN Shown(p) : Shown(p)[i].path = d
        IN  /\ {Shown(p)[i].path : i \in DOMAIN Shown(p)} = {found[i] : i \in allowed}
            /\ Len(Shown(p)) = Cardinality(allowed)
            /\ \A i \in DOMAIN Shown(p) : Shown(p)[i].index = i - 1
            /\ \A i, j \in allowed :
                  /\ i < j
                  /\ found[i] \in Hello \/ found[j] \notin Hello
                  => place(found[i]) < place(found[j])
            /\ \A i \in allowed : found[i] \in Hello => Shown(p)[1].path \in Hello
=============================================================================
