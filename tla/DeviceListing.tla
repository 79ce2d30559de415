--------------------------- MODULE DeviceListing ---------------------------
(***************************************************************************)
(* How lib/hmacsecret/device.go turns the locations that libfido2 found    *)
(* into the numbered list of devices a user chooses from.                  *)
(***************************************************************************)
EXTENDS Integers, Sequences, FiniteSets

CONSTANTS
    Path,           \* paths of devices
    Hello           \* those that name the Windows WebAuthn broker

DeviceInfo == [index : Nat, path : Path]

LocationAllowed(path, exclude) == ~(exclude /\ path \in Hello)

(* Element i goes to the front, the ones before it move up by one. *)
MovedToFront(out, i) ==
    [j \in DOMAIN out |-> IF j = 1 THEN out[i] ELSE IF j <= i THEN out[j - 1] ELSE out[j]]

FirstHello(out, i) == out[i] \in Hello /\ \A j \in 1..i - 1 : out[j] \notin Hello

(* The first broker of the list goes to the front. *)
Preferred(out) ==
    IF \E i \in DOMAIN out : out[i] \in Hello
    THEN MovedToFront(out, CHOOSE i \in DOMAIN out : FirstHello(out, i))
    ELSE out

(* Mutant: the numbers are those given before the broker was moved. *)
NumberedFirst(out) ==
    LET hello == {i \in DOMAIN out : FirstHello(out, i)}
        place == [i \in DOMAIN out |-> [index |-> i - 1, path |-> out[i]]]
    IN  IF hello = {} THEN place ELSE MovedToFront(place, CHOOSE i \in hello : TRUE)

Numbered(out) ==
    LET order == Preferred(out)
    IN  [i \in DOMAIN out |-> [index |-> i - 1, path |-> order[i]]]

Allowed(locations, exclude) == {i \in DOMAIN locations : LocationAllowed(locations[i], exclude)}

Rank(S, i) == Cardinality({j \in S : j <= i})

(* The locations that are allowed, in the order they were found. *)
Picked(locations, exclude) ==
    LET S == Allowed(locations, exclude)
    IN  [k \in 1..Cardinality(S) |-> locations[CHOOSE i \in S : Rank(S, i) = k]]

(* The empty list stands for ErrNoDevice and ErrNoSelectableDevice. *)
ListDevices(locations, exclude) == Numbered(Picked(locations, exclude))
=============================================================================
