------------------------ MODULE HmacSecretCLIProofs ------------------------
(***************************************************************************)
(* The command hmac-secret and the programs that choose a device, over the *)
(* device layer: for any number of processes, paths, authenticators and    *)
(* credentials, from the inductive invariant IInv.  The list of devices is *)
(* dealt with first.                                                       *)
(***************************************************************************)
EXTENDS HmacSecretCLI, FiniteSetTheorems, TLAPS

-----------------------------------------------------------------------------
(* The inductive invariant. *)

Asked(p, ops) == request[p].op \in ops /\ request[p].rp \in Rp

(* The arguments of an assertion are the caller's, or the credential made  *)
(* and the caller's salt if he gave one.                                   *)
Arguments(p) ==
    /\ Asked(p, {"derive", "create_derive"})
    /\ cred[p] \in Cred /\ salt[p] \in Salt
    /\ request[p].op = "derive" =>
          cred[p] = request[p].cred /\ salt[p] = request[p].salt /\ mine[p] = NULL
    /\ request[p].op = "create_derive" => cred[p] = mine[p] /\ request[p].salt \in {NULL, salt[p]}

(* A secret is of a credential that is there and can derive. *)
Delivered(p) ==
    \E k \in kept : \E s \in Salt :
       /\ k.rp = request[p].rp /\ k.auth \in HmacSecret
       /\ answer[p] = <<"secret", k.id, s, <<k.id, s>>>>

Told(p) ==
    /\ answer[p] \in Answer
    /\ answer[p][1] = "secret" => Delivered(p)
    /\ /\ answer[p] \in {<<"failed", "ErrInvalidArgument">>, <<"failed", "ErrNotFIDO2">>}
       /\ request[p].op # "create_derive"
       => mine[p] = NULL

(* The calls of the device layer. *)
DeviceInv(p) ==
    /\ pc[p] = "idle" => request[p] = NULL /\ answer[p] = NULL /\ mine[p] = NULL
    /\ pc[p] # "idle" => request[p] \in Request
    /\ pc[p] # "done" => answer[p] = NULL
    /\ pc[p] = "done" => Told(p)
    /\ pc[p] \in {"arguments", "check_make", "make"} => mine[p] = NULL
    /\ pc[p] \in {"check_make", "make", "made"} => Asked(p, {"create", "create_derive"})
    /\ pc[p] = "made" => mine[p] \in Cred
    /\ pc[p] \in {"check_get", "get"} => Arguments(p)

(* The list on the screen is of one enumeration. *)
Listed(p) ==
    \E S \in SUBSET Path : \E found \in SetToSeqs(S), exclude \in BOOLEAN :
        listing[p] = ListingOf(found, exclude)

(* While a list is on the screen nothing is open yet.                      *)
SessionInv(p) ==
    /\ step[p] = "start" => listing[p] = NULL /\ typed[p] = NULL
    /\ step[p] \in {"start", "choose", "select", "list", "open"} => handle[p] = NULL
    /\ listing[p] # NULL => Listed(p) /\ handle[p] = NULL
    /\ step[p] \in {"choose", "select", "open"} => Listed(p)
    /\ step[p] = "choose" => typed[p] = NULL /\ Shown(p) # <<>>
    /\ step[p] \in {"select", "open"} => Number(p) \in 0..Len(Shown(p)) - 1

CommandInv(p) ==
    /\ step[p] \in {"list", "open", "credential", "create", "salt", "derive"} => flags[p] \in Flags
    /\ step[p] = "salt" => credentialID[p] \in Cred
    /\ step[p] = "derive" => request[p].rp = flags[p].rp

IInv ==
    /\ TypeOKCLI
    /\ listing = [p \in Proc |-> listing[p]]
    /\ PrintedSuffices
    /\ \A p \in Proc : DeviceInv(p) /\ SessionInv(p) /\ CommandInv(p)

-----------------------------------------------------------------------------
(* The list of devices.                                                    *)

Below(S, i) == {j \in S : j <= i}

LEMMA CountIs == \A S : Listing!Cardinality(S) = Cardinality(S)
BY Zenon DEF Listing!Cardinality, Cardinality

LEMMA RankIsCount == \A S, i : Listing!Rank(S, i) = Cardinality(Below(S, i))
BY CountIs, Zenon DEF Listing!Rank, Below

(* The elements of a set of numbers, counted in order. *)
LEMMA RankIs ==
    ASSUME NEW n \in Nat, NEW S \in SUBSET (1..n)
    PROVE  /\ IsFiniteSet(S) /\ Cardinality(S) \in Nat
           /\ \A i \in S : Listing!Rank(S, i) \in 1..Cardinality(S)
           /\ \A i, j \in S : i < j => Listing!Rank(S, i) < Listing!Rank(S, j)
           /\ \A k \in 1..Cardinality(S) : \E i \in S : Listing!Rank(S, i) = k
<1> DEFINE rank == [i \in S |-> Listing!Rank(S, i)]
<1>1. IsFiniteSet(S) /\ Cardinality(S) \in Nat
  <2>1. IsFiniteSet(1..n)
    BY FS_Interval
  <2>2. IsFiniteSet(S)
    BY <2>1, FS_Subset
  <2> QED
    BY <2>2, FS_CardinalityType
<1>2. \A T \in SUBSET S : IsFiniteSet(T) /\ Cardinality(T) \in Nat
  BY <1>1, FS_Subset, FS_CardinalityType
<1>3. ASSUME NEW i \in S
      PROVE  Listing!Rank(S, i) \in 1..Cardinality(S)
  <2>1. Below(S, i) \in SUBSET S /\ i \in Below(S, i)
    BY DEF Below
  <2>2. Cardinality(Below(S, i)) \in Nat /\ Cardinality(Below(S, i)) <= Cardinality(S)
    BY <1>1, <1>2, <2>1, FS_Subset
  <2>3. Cardinality(Below(S, i)) # 0
    BY <1>2, <2>1, FS_EmptySet
  <2> QED
    BY <1>1, <2>2, <2>3, RankIsCount
<1>4. ASSUME NEW i \in S, NEW j \in S, i < j
      PROVE  Listing!Rank(S, i) < Listing!Rank(S, j)
  <2>1. i \in Int /\ j \in Int
    OBVIOUS
  <2>2. /\ Below(S, i) \in SUBSET Below(S, j) /\ Below(S, i) \in SUBSET S /\ Below(S, j) \in SUBSET S
        /\ j \in Below(S, j) /\ j \notin Below(S, i)
    <3>1. \A k \in S : k \in Int /\ (k <= i => k <= j)
      BY <1>4
    <3>2. j <= j /\ ~(j <= i)
      BY <1>4, <2>1
    <3>3. Below(S, i) \subseteq Below(S, j)
      BY <3>1 DEF Below
    <3>4. Below(S, i) \subseteq S /\ Below(S, j) \subseteq S
      BY DEF Below
    <3>5. j \in Below(S, j) /\ j \notin Below(S, i)
      BY <3>2 DEF Below
    <3> QED
      BY <3>3, <3>4, <3>5
  <2>3. /\ Cardinality(Below(S, i)) <= Cardinality(Below(S, j))
        /\ Cardinality(Below(S, j)) # Cardinality(Below(S, i))
    <3>1. IsFiniteSet(Below(S, j)) /\ Below(S, i) # Below(S, j)
      BY <1>2, <2>2
    <3> QED
      BY <2>2, <3>1, FS_Subset
  <2>4. Cardinality(Below(S, i)) \in Nat /\ Cardinality(Below(S, j)) \in Nat
    BY <1>2, <2>2
  <2> QED
    BY <2>3, <2>4, RankIsCount
<1>5. rank \in Injection(S, 1..Cardinality(S))
  <2>1. rank \in [S -> 1..Cardinality(S)]
    BY <1>3
  <2>2. ASSUME NEW i \in S, NEW j \in S, rank[i] = rank[j]
        PROVE  i = j
    <3>1. i \in Int /\ j \in Int /\ Listing!Rank(S, i) = Listing!Rank(S, j)
      BY <2>2
    <3>2. Listing!Rank(S, i) \in Int /\ Listing!Rank(S, j) \in Int
      BY <1>3
    <3> QED
      BY <1>4, <3>1, <3>2
  <2> QED
    BY <2>1, <2>2 DEF Injection, IsInjective
<1>6. rank \in Surjection(S, 1..Cardinality(S))
  <2>1. IsFiniteSet(1..Cardinality(S)) /\ Cardinality(1..Cardinality(S)) = Cardinality(S)
    BY <1>1, FS_Interval
  <2> HIDE DEF rank
  <2> QED
    BY <1>5, <2>1, FS_Injection
<1>7. \A k \in 1..Cardinality(S) : \E i \in S : Listing!Rank(S, i) = k
  BY <1>6 DEF Surjection
<1> QED
  BY <1>1, <1>3, <1>4, <1>7

(* The allowed locations are picked in the order they were found. *)
LEMMA PickedIs ==
    ASSUME NEW found \in Seq(Path), NEW exclude \in BOOLEAN
    PROVE  LET allowed == Listing!Allowed(found, exclude)
               out == Listing!Picked(found, exclude)
           IN  /\ out \in Seq(Path) /\ Len(out) = Cardinality(allowed) /\ DOMAIN out = 1..Cardinality(allowed)
               /\ Cardinality(allowed) \in Nat
               /\ \A i \in allowed : /\ Listing!Rank(allowed, i) \in DOMAIN out
                                     /\ out[Listing!Rank(allowed, i)] = found[i]
               /\ \A i, j \in allowed : i < j => Listing!Rank(allowed, i) < Listing!Rank(allowed, j)
               /\ \A k \in DOMAIN out : \E i \in allowed : Listing!Rank(allowed, i) = k
<1> DEFINE allowed == Listing!Allowed(found, exclude)
           out == Listing!Picked(found, exclude)
           rank(i) == Listing!Rank(allowed, i)
           at(k) == CHOOSE i \in allowed : rank(i) = k
<1>1. allowed \in SUBSET (1..Len(found)) /\ Len(found) \in Nat
  BY DEF Listing!Allowed
<1>2. /\ Cardinality(allowed) \in Nat
      /\ \A i \in allowed : rank(i) \in 1..Cardinality(allowed)
      /\ \A i, j \in allowed : i < j => rank(i) < rank(j)
      /\ \A k \in 1..Cardinality(allowed) : \E i \in allowed : rank(i) = k
  BY <1>1, RankIs
<1>3. out = [k \in 1..Cardinality(allowed) |-> found[at(k)]]
  BY CountIs, Zenon DEF Listing!Picked
<1> HIDE DEF allowed, out, rank
<1>4. \A k \in 1..Cardinality(allowed) : at(k) \in allowed /\ rank(at(k)) = k
  BY <1>2
<1>5. \A i \in allowed : at(rank(i)) = i
  <2> SUFFICES ASSUME NEW i \in allowed PROVE at(rank(i)) = i
    OBVIOUS
  <2>1. at(rank(i)) \in allowed /\ rank(at(rank(i))) = rank(i) /\ rank(i) \in 1..Cardinality(allowed)
    BY <1>2, <1>4
  <2> DEFINE j == at(rank(i))
  <2>2. j \in allowed /\ rank(j) = rank(i)
    BY <2>1
  <2> HIDE DEF j
  <2>3. j \in Int /\ i \in Int /\ rank(i) \in Int
    BY <1>1, <1>2, <2>1, <2>2
  <2>4. ~(j < i) /\ ~(i < j)
    BY <1>2, <2>2, <2>3
  <2>5. j = i
    BY <2>3, <2>4
  <2> QED
    BY <2>5 DEF j
<1> HIDE DEF at
<1>6. \A k \in 1..Cardinality(allowed) : found[at(k)] \in Path
  <2> SUFFICES ASSUME NEW k \in 1..Cardinality(allowed) PROVE found[at(k)] \in Path
    OBVIOUS
  <2>1. at(k) \in 1..Len(found)
    BY <1>1, <1>4
  <2> QED
    BY <2>1
<1>7. out \in Seq(Path) /\ Len(out) = Cardinality(allowed) /\ DOMAIN out = 1..Cardinality(allowed)
  BY <1>2, <1>3, <1>6
<1>8. \A i \in allowed : rank(i) \in DOMAIN out /\ out[rank(i)] = found[i]
  BY <1>2, <1>3, <1>5, <1>7
<1> QED
  BY <1>2, <1>7, <1>8 DEF allowed, out, rank

(* A list with a broker in it has a first one. *)
LEMMA FirstHelloExists ==
    ASSUME NEW out \in Seq(Path), \E i \in DOMAIN out : out[i] \in Hello
    PROVE  \E i \in DOMAIN out : Listing!FirstHello(out, i)
<1> DEFINE T == {i \in DOMAIN out : out[i] \in Hello}
<1>1. T \subseteq Nat /\ T # {}
  OBVIOUS
<1>2. PICK i \in T : \A j \in T : ~(<<j, i>> \in OpToRel(<, Nat))
  BY <1>1, NatLessThanWellFounded, WFMin
<1>3. \A j \in T : ~(j < i)
  BY <1>1, <1>2 DEF OpToRel
<1>4. \A j \in 1..i - 1 : out[j] \notin Hello
  BY <1>3
<1> QED
  BY <1>2, <1>4 DEF Listing!FirstHello

(* Where the element at i goes when the one at h is moved to the front.    *)
Place(h, i) == IF i = h THEN 1 ELSE IF i < h THEN i + 1 ELSE i

(* ListDevices only rearranges the devices: each has a place of its own    *)
(* with its path and with the number of the place, a broker is first if    *)
(* there is one, and two devices change places only for the broker         *)
(* (device.go:28-62).                                                      *)
THEOREM NumberedRearranges ==
    ASSUME NEW out \in Seq(Path)
    PROVE  \E place \in [DOMAIN out -> DOMAIN out] :
              /\ \A i, j \in DOMAIN out : place[i] = place[j] => i = j
              /\ \A k \in DOMAIN out : \E i \in DOMAIN out : place[i] = k
              /\ \A i \in DOMAIN out :
                    Listing!Numbered(out)[place[i]] = [index |-> place[i] - 1, path |-> out[i]]
              /\ \A i, j \in DOMAIN out :
                    i < j /\ (out[i] \in Hello \/ out[j] \notin Hello) => place[i] < place[j]
              /\ (\E i \in DOMAIN out : out[i] \in Hello)
                    => Listing!Preferred(out)[1] \in Hello
<1> DEFINE Some == \E i \in DOMAIN out : out[i] \in Hello
           h == CHOOSE i \in DOMAIN out : Listing!FirstHello(out, i)
<1>1. CASE ~Some
  <2>1. Listing!Preferred(out) = out
    BY <1>1 DEF Listing!Preferred
  <2> DEFINE place == [i \in DOMAIN out |-> i]
  <2>2. \A i \in DOMAIN out : Listing!Numbered(out)[place[i]] = [index |-> place[i] - 1, path |-> out[i]]
    BY <2>1 DEF Listing!Numbered
  <2>3. /\ place \in [DOMAIN out -> DOMAIN out]
        /\ \A i, j \in DOMAIN out : place[i] = place[j] => i = j
        /\ \A k \in DOMAIN out : place[k] = k
        /\ \A i, j \in DOMAIN out : i < j => place[i] < place[j]
    OBVIOUS
  <2> HIDE DEF place
  <2> QED
    BY <1>1, <2>2, <2>3
<1>2. CASE Some
  <2>1. h \in DOMAIN out /\ Listing!FirstHello(out, h)
    BY <1>2, FirstHelloExists
  <2>2. Listing!Preferred(out) = Listing!MovedToFront(out, h)
    BY <1>2 DEF Listing!Preferred
  <2> HIDE DEF h
  <2> DEFINE place == [i \in DOMAIN out |-> Place(h, i)]
  <2>3. place \in [DOMAIN out -> DOMAIN out]
    BY <2>1 DEF Place
  <2>4. \A i, j \in DOMAIN out : place[i] = place[j] => i = j
    BY <2>1 DEF Place
  <2>9. ASSUME NEW k \in DOMAIN out
        PROVE  \E i \in DOMAIN out : place[i] = k
    <3> DEFINE i == IF k = 1 THEN h ELSE IF k <= h THEN k - 1 ELSE k
    <3>1. i \in DOMAIN out /\ Place(h, i) = k
      BY <2>1 DEF Place
    <3> QED
      BY <3>1
  <2>5. \A i \in DOMAIN out : Listing!MovedToFront(out, h)[Place(h, i)] = out[i]
    BY <2>1, <2>3 DEF Place, Listing!MovedToFront
  <2>6. \A i \in DOMAIN out : Listing!Numbered(out)[place[i]] = [index |-> place[i] - 1, path |-> out[i]]
    BY <2>2, <2>3, <2>5 DEF Listing!Numbered
  <2>7. \A i, j \in DOMAIN out :
           i < j /\ (out[i] \in Hello \/ out[j] \notin Hello) => place[i] < place[j]
    BY <2>1 DEF Place, Listing!FirstHello
  <2>8. Listing!Preferred(out)[1] \in Hello
    BY <2>1, <2>2 DEF Listing!MovedToFront, Listing!FirstHello
  <2> QED
    BY <2>3, <2>4, <2>6, <2>7, <2>8, <2>9
<1> QED
  BY <1>1, <1>2

(* What the list on the screen has to do with the enumeration. *)
Faithful(found, exclude, shown) ==
    LET allowed == {i \in DOMAIN found : Listing!LocationAllowed(found[i], exclude)}
        place(d) == CHOOSE i \in DOMAIN shown : shown[i].path = d
    IN  /\ {shown[i].path : i \in DOMAIN shown} = {found[i] : i \in allowed}
        /\ Len(shown) = Cardinality(allowed)
        /\ \A i \in DOMAIN shown : shown[i].index = i - 1
        /\ \A i, j \in allowed :
              /\ i < j
              /\ found[i] \in Hello \/ found[j] \notin Hello
              => place(found[i]) < place(found[j])
        /\ \A i \in allowed : found[i] \in Hello => shown[1].path \in Hello

LEMMA NumberedIs ==
    ASSUME NEW out \in Seq(Path)
    PROVE  /\ DOMAIN Listing!Numbered(out) = DOMAIN out
           /\ Listing!Numbered(out) \in Seq(Listing!DeviceInfo)
           /\ Len(Listing!Numbered(out)) = Len(out)
           /\ \A i \in DOMAIN out : Listing!Numbered(out)[i] = [index |-> i - 1, path |-> Listing!Preferred(out)[i]]
<1>1. DOMAIN out = 1..Len(out) /\ Len(out) \in Nat
  OBVIOUS
<1>2. Listing!Numbered(out) = [i \in DOMAIN out |-> [index |-> i - 1, path |-> Listing!Preferred(out)[i]]]
  BY DEF Listing!Numbered
<1>3. ASSUME NEW k \in DOMAIN out
      PROVE  Listing!Numbered(out)[k] \in Listing!DeviceInfo
  <2>1. PICK place \in [DOMAIN out -> DOMAIN out] :
          /\ \A i, j \in DOMAIN out : place[i] = place[j] => i = j
          /\ \A j \in DOMAIN out : \E i \in DOMAIN out : place[i] = j
          /\ \A i \in DOMAIN out :
                Listing!Numbered(out)[place[i]] = [index |-> place[i] - 1, path |-> out[i]]
          /\ \A i, j \in DOMAIN out :
                i < j /\ (out[i] \in Hello \/ out[j] \notin Hello) => place[i] < place[j]
          /\ (\E i \in DOMAIN out : out[i] \in Hello) => Listing!Preferred(out)[1] \in Hello
    BY NumberedRearranges
  <2>2. PICK i \in DOMAIN out : place[i] = k
    BY <2>1
  <2>3. Listing!Numbered(out)[k] = [index |-> k - 1, path |-> out[i]]
    BY <2>1, <2>2
  <2>4. k \in 1..Len(out) /\ i \in 1..Len(out)
    BY <1>1
  <2>5. k - 1 \in Nat /\ out[i] \in Path
    BY <1>1, <2>4
  <2> QED
    BY <2>3, <2>5 DEF Listing!DeviceInfo
<1> QED
  BY <1>1, <1>2, <1>3

LEMMA ListIsFaithful ==
    ASSUME NEW S \in SUBSET Path, NEW found \in SetToSeqs(S), NEW exclude \in BOOLEAN
    PROVE  LET shown == Listing!ListDevices(found, exclude)
           IN  shown \in Seq(Listing!DeviceInfo) /\ Faithful(found, exclude, shown)
<1> DEFINE out == Listing!Picked(found, exclude)
           allowed == Listing!Allowed(found, exclude)
           rank(i) == Listing!Rank(allowed, i)
           shown == Listing!ListDevices(found, exclude)
           at(d) == CHOOSE i \in DOMAIN shown : shown[i].path = d
<1>1. found \in Seq(Path) /\ \A i, j \in DOMAIN found : found[i] = found[j] => i = j
  <2>1. IsFiniteSet(S)
    BY PathAssumption, FS_Subset
  <2>2. Cardinality(S) \in Nat
    BY <2>1, FS_CardinalityType
  <2>3. /\ found \in [1..Cardinality(S) -> S]
        /\ \A i, j \in 1..Cardinality(S) : i # j => found[i] # found[j]
    BY DEF SetToSeqs
  <2> QED
    BY <2>2, <2>3
<1>2. /\ out \in Seq(Path) /\ Len(out) = Cardinality(allowed) /\ DOMAIN out = 1..Cardinality(allowed)
      /\ \A i \in allowed : rank(i) \in DOMAIN out /\ out[rank(i)] = found[i]
      /\ \A i, j \in allowed : i < j => rank(i) < rank(j)
      /\ \A k \in DOMAIN out : \E i \in allowed : rank(i) = k
  BY <1>1, PickedIs
<1>3. shown = Listing!Numbered(out)
  BY DEF Listing!ListDevices
<1>4. allowed = {i \in DOMAIN found : Listing!LocationAllowed(found[i], exclude)}
  BY DEF Listing!Allowed
<1> HIDE DEF out, allowed, rank, shown
<1>5. PICK place \in [DOMAIN out -> DOMAIN out] :
        /\ \A i, j \in DOMAIN out : place[i] = place[j] => i = j
        /\ \A k \in DOMAIN out : \E i \in DOMAIN out : place[i] = k
        /\ \A i \in DOMAIN out : Listing!Numbered(out)[place[i]] = [index |-> place[i] - 1, path |-> out[i]]
        /\ \A i, j \in DOMAIN out :
              i < j /\ (out[i] \in Hello \/ out[j] \notin Hello) => place[i] < place[j]
        /\ (\E i \in DOMAIN out : out[i] \in Hello) => Listing!Preferred(out)[1] \in Hello
  BY <1>2, NumberedRearranges
<1>6. /\ shown \in Seq(Listing!DeviceInfo) /\ DOMAIN shown = DOMAIN out /\ Len(shown) = Len(out)
      /\ \A i \in DOMAIN out : shown[i] = [index |-> i - 1, path |-> Listing!Preferred(out)[i]]
  BY <1>2, <1>3, NumberedIs
<1> DEFINE spot(i) == place[rank(i)]
<1>7. \A i \in allowed : spot(i) \in DOMAIN shown /\ shown[spot(i)].path = found[i]
  <2> SUFFICES ASSUME NEW i \in allowed
               PROVE  spot(i) \in DOMAIN shown /\ shown[spot(i)].path = found[i]
    OBVIOUS
  <2>1. rank(i) \in DOMAIN out /\ out[rank(i)] = found[i]
    BY <1>2
  <2>2. spot(i) \in DOMAIN out /\ shown[spot(i)] = [index |-> spot(i) - 1, path |-> out[rank(i)]]
    BY <1>3, <1>5, <2>1
  <2> QED
    BY <1>6, <2>1, <2>2
<1>8. \A k \in DOMAIN shown : \E i \in allowed : spot(i) = k
  BY <1>2, <1>5, <1>6
<1>9. \A i, j \in allowed : i < j /\ (found[i] \in Hello \/ found[j] \notin Hello) => spot(i) < spot(j)
  BY <1>2, <1>5
<1> HIDE DEF spot
<1>10. \A i \in allowed : at(found[i]) = spot(i)
  <2> SUFFICES ASSUME NEW i \in allowed PROVE at(found[i]) = spot(i)
    OBVIOUS
  <2>1. \A k \in DOMAIN shown : shown[k].path = found[i] => k = spot(i)
    <3> SUFFICES ASSUME NEW k \in DOMAIN shown, shown[k].path = found[i] PROVE k = spot(i)
      OBVIOUS
    <3>1. PICK j \in allowed : spot(j) = k
      BY <1>8
    <3>2. found[j] = found[i] /\ i \in DOMAIN found /\ j \in DOMAIN found
      BY <1>4, <1>7, <3>1
    <3> QED
      BY <1>1, <3>1, <3>2
  <2>2. spot(i) \in DOMAIN shown /\ shown[spot(i)].path = found[i]
    BY <1>7
  <2> QED
    BY <2>1, <2>2
<1>11. {shown[i].path : i \in DOMAIN shown} = {found[i] : i \in allowed}
  BY <1>7, <1>8
<1>12. \A i, j \in allowed : i < j /\ (found[i] \in Hello \/ found[j] \notin Hello) => at(found[i]) < at(found[j])
  BY <1>9, <1>10
<1>13. \A i \in allowed : found[i] \in Hello => shown[1].path \in Hello
  <2> SUFFICES ASSUME NEW i \in allowed, found[i] \in Hello PROVE shown[1].path \in Hello
    OBVIOUS
  <2>1. Listing!Preferred(out)[1] \in Hello
    BY <1>2, <1>5
  <2>2. 1 \in DOMAIN out
    BY <1>2
  <2> QED
    BY <1>6, <2>1, <2>2
<1>14. \A i \in DOMAIN shown : shown[i].index = i - 1
  BY <1>6
<1>15. Len(shown) = Cardinality(allowed)
  BY <1>2, <1>6
<1> HIDE DEF at
<1>16. Faithful(found, exclude, shown)
  BY <1>4, <1>11, <1>12, <1>13, <1>14, <1>15, Zenon DEF Faithful, at
<1> QED
  BY <1>6, <1>16, Zenon DEF shown

-----------------------------------------------------------------------------
(* The device layer. *)

DeviceOK == TypeOK /\ \A p \in Proc : DeviceInv(p)

PCs == {"idle", "arguments", "check_make", "make", "made", "check_get", "get", "done"}

Same(q) ==
    /\ pc'[q] = pc[q] /\ request'[q] = request[q] /\ cred'[q] = cred[q] /\ salt'[q] = salt[q]
    /\ answer'[q] = answer[q] /\ mine'[q] = mine[q]

LEMMA Types ==
    ASSUME DeviceOK
    PROVE  /\ port \in [Path -> Auth \cup {NULL}] /\ kept \subseteq Credential
           /\ handle \in [Proc -> Path \cup {NULL}] /\ pc \in [Proc -> PCs]
           /\ request \in [Proc -> Request \cup {NULL}]
           /\ cred \in [Proc -> Cred \cup {NULL}] /\ salt \in [Proc -> Salt \cup {NULL}]
           /\ answer \in [Proc -> Answer \cup {NULL}] /\ mine \in [Proc -> Cred \cup {NULL}]
BY DEF DeviceOK, TypeOK, PCs

LEMMA RequestShapes ==
    ASSUME NEW q \in Request
    PROVE  /\ q.op \in {"create", "derive", "create_derive"} /\ q.rp \in Rp \cup {NULL}
           /\ q.op = "derive" => q.cred \in Cred \cup {NULL} /\ q.salt \in Salt \cup {ShortSalt}
           /\ q.op = "create_derive" => q.salt \in Salt \cup {ShortSalt, NULL}
BY DEF Request, CreateRequest, DeriveRequest, CreateAndDeriveRequest, GivenRp, GivenSalt

LEMMA OthersKeep ==
    ASSUME NEW q \in Proc, DeviceInv(q), kept \subseteq kept', Same(q)
    PROVE  DeviceInv(q)'
<1>1. Delivered(q) => Delivered(q)'
  BY DEF Delivered, Same
<1>2. Told(q) => Told(q)'
  BY <1>1 DEF Told, Same
<1>3. Arguments(q) => Arguments(q)'
  BY DEF Arguments, Asked, Same
<1> QED
  BY <1>2, <1>3 DEF DeviceInv, Asked, Same

(* A step of p keeps the invariant if it keeps p's share of it. *)
LEMMA StepKeeps ==
    ASSUME DeviceOK, TypeOK', kept \subseteq kept', NEW p \in Proc, DeviceInv(p)',
           \A q \in Proc : q # p => Same(q)
    PROVE  DeviceOK'
<1>1. \A q \in Proc : DeviceInv(q)'
  BY OthersKeep DEF DeviceOK
<1> QED
  BY <1>1 DEF DeviceOK

LEMMA SameReplies ==
    /\ UNCHANGED answer => UNCHANGED Replies
    /\ UNCHANGED kept => UNCHANGED Registered
BY DEF Replies, Registered

LEMMA Stutters ==
    UNCHANGED <<kept, request, mine, answer>> => UNCHANGED Device!vars
BY SameReplies DEF Device!vars

(* Plugging, unplugging, opening and forgetting touch no call.             *)
LEMMA QuietKeeps ==
    ASSUME DeviceOK, UNCHANGED <<kept, pc, request, cred, salt, answer, mine>>,
           port' \in [Path -> Auth \cup {NULL}], handle' \in [Proc -> Path \cup {NULL}]
    PROVE  DeviceOK' /\ UNCHANGED Device!vars
<1>1. \A q \in Proc : DeviceInv(q)'
  BY OthersKeep DEF DeviceOK, Same
<1>2. TypeOK'
  BY DEF DeviceOK, TypeOK
<1> QED
  BY <1>1, <1>2, Stutters DEF DeviceOK

(* An answer is a reply of the contract if it fails or is promised. *)
LEMMA ReplyRefines ==
    ASSUME DeviceOK, NEW p \in Proc, NEW a \in Answer, answer' = [answer EXCEPT ![p] = a],
           answer[p] = NULL, UNCHANGED <<kept, request, mine>>, request[p] \in Request,
           a[1] = "failed" \/ a \in Device!Promised(request[p], mine[p])
    PROVE  Device!Reply(p)
<1> DEFINE b == IF a[1] = "failed" THEN <<"failed">> ELSE a
           R(x) == IF x = NULL THEN NULL ELSE IF x[1] = "failed" THEN <<"failed">> ELSE x
<1>1. a # NULL /\ request[p] # NULL
  BY AnswerAssumption
<1>2. answer' = [q \in Proc |-> IF q = p THEN a ELSE answer[q]]
  BY Types
<1>3. Replies = [q \in Proc |-> R(answer[q])] /\ Replies' = [q \in Proc |-> R(answer'[q])]
  BY DEF Replies
<1>4. R(a) = b /\ R(NULL) = NULL
  BY <1>1
<1>5. b \in Device!Promised(request[p], mine[p])
  <2>1. <<"failed">> \in Device!Promised(request[p], mine[p])
    BY DEF Device!Promised
  <2> QED
    BY <2>1
<1> HIDE DEF b, R
<1>6. Replies[p] = NULL /\ Replies'[p] = b /\ Replies' = [Replies EXCEPT ![p] = Replies'[p]]
  BY <1>2, <1>3, <1>4
<1> QED
  BY <1>1, <1>5, <1>6, SameReplies DEF Device!Reply

LEMMA FailureAnswers == \A why \in Reasons : <<"failed", why>> \in Answer /\ <<"failed", why>>[1] = "failed"
BY DEF Answer

(* A call of p that returns. *)
LEMMA ReturnKeeps ==
    ASSUME DeviceOK, NEW p \in Proc, pc[p] \notin {"idle", "done"}, NEW a \in Answer, Return(p, a),
           UNCHANGED <<port, kept, handle, request, cred, salt, mine>>,
           a[1] = "failed" \/ a \in Device!Promised(request[p], mine[p]), Told(p)'
    PROVE  DeviceOK' /\ Device!Reply(p)
<1>1. request[p] \in Request /\ answer[p] = NULL
  BY DEF DeviceOK, DeviceInv
<1>2. /\ answer' = [answer EXCEPT ![p] = a] /\ pc' = [pc EXCEPT ![p] = "done"]
  BY DEF Return, Advance
<1>3. TypeOK' /\ pc'[p] = "done" /\ \A q \in Proc : q # p => Same(q)
  BY <1>2, Types DEF TypeOK, PCs, Same
<1>4. DeviceInv(p)'
  BY <1>1, <1>3 DEF DeviceInv
<1>5. DeviceOK'
  BY <1>3, <1>4, StepKeeps
<1>6. Device!Reply(p)
  BY <1>1, <1>2, ReplyRefines
<1> QED
  BY <1>5, <1>6

LEMMA FailKeeps ==
    ASSUME DeviceOK, NEW p \in Proc, pc[p] \notin {"idle", "done"}, NEW why \in Reasons, Fail(p, why),
           UNCHANGED <<port, kept, handle, request, cred, salt, mine>>,
           why = "other" \/ request[p].op = "create_derive" \/ mine[p] = NULL
    PROVE  DeviceOK' /\ Device!Reply(p)
<1> DEFINE a == <<"failed", why>>
<1>1. a \in Answer /\ a[1] = "failed" /\ a[2] = why
  BY FailureAnswers
<1>2. answer'[p] = a /\ Return(p, a)
  BY Types DEF Fail, Return
<1>3. Told(p)'
  <2>1. why = "other" => a \notin {<<"failed", "ErrInvalidArgument">>, <<"failed", "ErrNotFIDO2">>}
    OBVIOUS
  <2> HIDE DEF a
  <2> QED
    BY <1>1, <1>2, <2>1 DEF Told
<1> HIDE DEF a
<1> QED
  BY <1>1, <1>2, <1>3, ReturnKeeps

(* A call of p that goes on. *)
LEMMA GoKeeps ==
    ASSUME DeviceOK, NEW p \in Proc, NEW next \in PCs, Advance(p, next),
           UNCHANGED <<port, kept, handle, request, answer, mine>>,
           cred' \in [Proc -> Cred \cup {NULL}], salt' \in [Proc -> Salt \cup {NULL}],
           \A q \in Proc : q # p => cred'[q] = cred[q] /\ salt'[q] = salt[q],
           DeviceInv(p)'
    PROVE  DeviceOK' /\ UNCHANGED Device!vars
<1>1. TypeOK' /\ \A q \in Proc : q # p => Same(q)
  BY Types DEF Advance, TypeOK, PCs, Same
<1>2. DeviceOK'
  BY <1>1, StepKeeps
<1> QED
  BY <1>2, Stutters

Refines(p) == Device!Make(p) \/ Device!Reply(p) \/ UNCHANGED Device!vars

LEMMA CreateCredentialKeeps ==
    ASSUME DeviceOK, NEW p \in Proc, CreateCredential(p)
    PROVE  DeviceOK' /\ Refines(p)
<1>1. /\ pc[p] = "arguments" /\ request[p].op \in {"create", "create_derive"}
      /\ UNCHANGED <<port, kept, handle, request, cred, salt, mine>>
      /\ request[p] \in Request /\ mine[p] = NULL /\ answer[p] = NULL
  BY DEF CreateCredential, DeviceOK, DeviceInv
<1>2. CASE Fail(p, "ErrInvalidArgument")
  BY <1>1, <1>2, FailKeeps DEF Reasons, Refines
<1>3. CASE request[p].rp # NULL /\ Advance(p, "check_make") /\ UNCHANGED answer
  <2>1. request[p].rp \in Rp
    BY <1>1, <1>3, RequestShapes
  <2>2. pc'[p] = "check_make"
    BY <1>3, Types DEF Advance
  <2>3. DeviceInv(p)'
    BY <1>1, <1>3, <2>1, <2>2 DEF DeviceInv, Asked
  <2> QED
    BY <1>1, <1>3, <2>3, Types, GoKeeps DEF PCs, Refines
<1> QED
  BY <1>2, <1>3 DEF CreateCredential

LEMMA DeriveArgumentsKeeps ==
    ASSUME DeviceOK, NEW p \in Proc, pc[p] \in {"arguments", "made"}, NEW c, NEW s, DeriveArguments(p, c, s),
           UNCHANGED <<port, kept, handle, request, mine>>, c \in Cred \cup {NULL},
           \/ request[p].op = "derive" /\ mine[p] = NULL /\ c = request[p].cred /\ s = request[p].salt
           \/ request[p].op = "create_derive" /\ c = mine[p] /\ request[p].salt \in {NULL, s}
    PROVE  DeviceOK' /\ Refines(p)
<1>1. request[p] \in Request /\ answer[p] = NULL
  BY DEF DeviceOK, DeviceInv
<1>2. CASE Fail(p, "ErrInvalidArgument") /\ UNCHANGED <<cred, salt>>
  BY <1>2, FailKeeps DEF Reasons, Refines
<1>3. CASE /\ request[p].rp # NULL /\ c # NULL /\ s \in Salt
           /\ cred' = [cred EXCEPT ![p] = c] /\ salt' = [salt EXCEPT ![p] = s]
           /\ Advance(p, "check_get") /\ UNCHANGED answer
  <2>1. request[p].rp \in Rp /\ c \in Cred
    BY <1>1, <1>3, RequestShapes
  <2>2. pc'[p] = "check_get" /\ cred'[p] = c /\ salt'[p] = s
    BY <1>3, Types DEF Advance
  <2>3. Arguments(p)'
    BY <1>3, <2>1, <2>2 DEF Arguments, Asked
  <2>4. DeviceInv(p)'
    BY <1>1, <1>3, <2>2, <2>3 DEF DeviceInv
  <2>5. /\ cred' \in [Proc -> Cred \cup {NULL}] /\ salt' \in [Proc -> Salt \cup {NULL}]
        /\ \A q \in Proc : q # p => cred'[q] = cred[q] /\ salt'[q] = salt[q]
    BY <1>3, <2>1, Types
  <2> QED
    BY <1>3, <2>4, <2>5, GoKeeps DEF PCs, Refines
<1> QED
  BY <1>2, <1>3 DEF DeriveArguments

LEMMA DeriveKeeps ==
    ASSUME DeviceOK, NEW p \in Proc, Derive(p)
    PROVE  DeviceOK' /\ Refines(p)
<1>1. /\ pc[p] = "arguments" /\ request[p].op = "derive" /\ DeriveArguments(p, request[p].cred, request[p].salt)
      /\ UNCHANGED <<port, kept, handle, request, mine>> /\ mine[p] = NULL /\ request[p] \in Request
  BY DEF Derive, DeviceOK, DeviceInv
<1> QED
  BY <1>1, RequestShapes, DeriveArgumentsKeeps

LEMMA IsFIDO2Keeps ==
    ASSUME DeviceOK, NEW p \in Proc,
           IsFIDO2(p, "check_make", "make") \/ IsFIDO2(p, "check_get", "get")
    PROVE  DeviceOK' /\ Refines(p)
<1>1. /\ pc[p] \in {"check_make", "check_get"}
      /\ UNCHANGED <<port, kept, handle, request, cred, salt, mine>>
      /\ answer[p] = NULL /\ request[p] \in Request
  BY DEF IsFIDO2, DeviceOK, DeviceInv
<1>2. mine[p] = NULL \/ request[p].op = "create_derive"
  <2>1. pc[p] = "check_get" => Arguments(p)
    BY DEF DeviceOK, DeviceInv
  <2>2. pc[p] = "check_make" => mine[p] = NULL
    BY DEF DeviceOK, DeviceInv
  <2> QED
    BY <1>1, <2>1, <2>2 DEF Arguments, Asked
<1>3. CASE Fail(p, "other") \/ Fail(p, "ErrNotFIDO2")
  BY <1>1, <1>2, <1>3, FailKeeps DEF Reasons, Refines
<1>4. CASE pc[p] = "check_make" /\ Advance(p, "make") /\ UNCHANGED answer
  <2>1. pc'[p] = "make"
    BY <1>4, Types DEF Advance
  <2>2. DeviceInv(p)'
    BY <1>1, <1>4, <2>1 DEF DeviceOK, DeviceInv, Asked
  <2> QED
    BY <1>1, <1>4, <2>2, Types, GoKeeps DEF PCs, Refines
<1>5. CASE pc[p] = "check_get" /\ Advance(p, "get") /\ UNCHANGED answer
  <2>1. pc'[p] = "get"
    BY <1>5, Types DEF Advance
  <2>2. Arguments(p)'
    BY <1>1, <1>5 DEF DeviceOK, DeviceInv, Arguments, Asked
  <2>3. DeviceInv(p)'
    BY <1>1, <1>5, <2>1, <2>2 DEF DeviceOK, DeviceInv
  <2> QED
    BY <1>1, <1>5, <2>3, Types, GoKeeps DEF PCs, Refines
<1> QED
  BY <1>3, <1>4, <1>5 DEF IsFIDO2

LEMMA OperationFailsKeeps ==
    ASSUME DeviceOK, NEW p \in Proc, OperationFails(p)
    PROVE  DeviceOK' /\ Refines(p)
BY FailKeeps DEF OperationFails, Reasons, Refines

LEMMA AuthenticatorMakesKeeps ==
    ASSUME DeviceOK, NEW p \in Proc, AuthenticatorMakes(p)
    PROVE  DeviceOK' /\ Refines(p)
<1> DEFINE a == port[handle[p]]
<1>1. /\ pc[p] = "make" /\ a \in Fido2 /\ Advance(p, "made")
      /\ UNCHANGED <<port, handle, request, cred, salt, answer>>
      /\ answer[p] = NULL /\ mine[p] = NULL /\ request[p] \in Request
      /\ Asked(p, {"create", "create_derive"})
  BY DEF AuthenticatorMakes, DeviceOK, DeviceInv
<1> HIDE DEF a
<1>2. PICK c \in Cred : /\ \A k \in kept : k.id # c
                        /\ kept' = kept \cup {[id |-> c, rp |-> request[p].rp, auth |-> a]}
                        /\ mine' = [mine EXCEPT ![p] = c]
  BY DEF AuthenticatorMakes, a
<1> DEFINE k0 == [id |-> c, rp |-> request[p].rp, auth |-> a]
<1>3. k0 \in Credential
  BY <1>1, AuthAssumption DEF Credential, Asked
<1>4. /\ pc'[p] = "made" /\ mine'[p] = c /\ pc' \in [Proc -> PCs] /\ mine' \in [Proc -> Cred \cup {NULL}]
      /\ \A q \in Proc : q # p => Same(q)
  BY <1>1, <1>2, Types DEF Advance, PCs, Same
<1>5. TypeOK'
  BY <1>1, <1>2, <1>3, <1>4, Types DEF TypeOK, PCs
<1>6. DeviceInv(p)'
  BY <1>1, <1>4 DEF DeviceInv, Asked
<1>7. DeviceOK'
  BY <1>2, <1>4, <1>5, <1>6, StepKeeps
<1>8. Device!Make(p)
  <2> DEFINE on == a \in HmacSecret
             r0 == [id |-> c, rp |-> request[p].rp, hmac |-> on]
             Reg(k) == [id |-> k.id, rp |-> k.rp, hmac |-> k.auth \in HmacSecret]
  <2>1. Registered = {Reg(k) : k \in kept} /\ Registered' = {Reg(k) : k \in kept'}
    BY DEF Registered
  <2>2. Reg(k0) = r0
    BY Zenon
  <2>3. \A k : Reg(k).id = k.id
    OBVIOUS
  <2> HIDE DEF Reg, r0
  <2>4. Registered' = Registered \cup {r0}
    BY <1>2, <2>1, <2>2
  <2>5. \A r \in Registered : r.id # c
    BY <1>2, <2>1, <2>3
  <2>6. on \in BOOLEAN
    OBVIOUS
  <2> HIDE DEF on
  <2>7. \E d \in Cred, o \in BOOLEAN :
           /\ \A r \in Registered : r.id # d
           /\ Registered' = Registered \cup {[id |-> d, rp |-> request[p].rp, hmac |-> o]}
           /\ mine' = [mine EXCEPT ![p] = d]
    BY <1>2, <2>4, <2>5, <2>6 DEF r0
  <2>8. request[p] # NULL /\ request[p].op \in {"create", "create_derive"} /\ Replies[p] = NULL
    BY <1>1, AnswerAssumption DEF Replies, Asked
  <2> QED
    BY <1>1, <2>7, <2>8, SameReplies, Zenon DEF Device!Make
<1> QED
  BY <1>7, <1>8 DEF Refines

LEMMA MakeCredentialKeeps ==
    ASSUME DeviceOK, NEW p \in Proc, MakeCredential(p)
    PROVE  DeviceOK' /\ Refines(p)
<1>1. /\ pc[p] = "made" /\ UNCHANGED <<port, kept, handle, request, mine>>
      /\ answer[p] = NULL /\ mine[p] \in Cred /\ request[p] \in Request
  BY DEF MakeCredential, DeviceOK, DeviceInv
<1>2. CASE Fail(p, "other") /\ UNCHANGED <<cred, salt>>
  BY <1>1, <1>2, FailKeeps DEF Reasons, Refines
<1>3. CASE request[p].op = "create" /\ Return(p, <<"credential", mine[p]>>) /\ UNCHANGED <<cred, salt>>
  <2> DEFINE a == <<"credential", mine[p]>>
  <2>1. /\ a \in Answer /\ a[1] = "credential"
        /\ a \notin {<<"failed", "ErrInvalidArgument">>, <<"failed", "ErrNotFIDO2">>}
    BY <1>1 DEF Answer
  <2>2. mine[p] # NULL
    BY <1>1, NullAssumption
  <2>3. a \in Device!Promised(request[p], mine[p])
    BY <1>1, <1>3, <2>2 DEF Device!Promised
  <2>4. Return(p, a) /\ answer'[p] = a
    BY <1>3, Types DEF Return
  <2> HIDE DEF a
  <2>5. Told(p)'
    BY <2>1, <2>4 DEF Told
  <2> QED
    BY <1>1, <1>3, <2>1, <2>3, <2>4, <2>5, ReturnKeeps DEF Refines
<1>4. CASE /\ request[p].op = "create_derive"
           /\ \E s \in IF request[p].salt = NULL THEN Salt ELSE {request[p].salt} :
                 DeriveArguments(p, mine[p], s)
  <2>1. PICK s \in IF request[p].salt = NULL THEN Salt ELSE {request[p].salt} :
               DeriveArguments(p, mine[p], s)
    BY <1>4
  <2>2. request[p].salt \in {NULL, s}
    BY <2>1
  <2> QED
    BY <1>1, <1>4, <2>1, <2>2, DeriveArgumentsKeeps
<1> QED
  BY <1>2, <1>3, <1>4 DEF MakeCredential

LEMMA AssertionKeeps ==
    ASSUME DeviceOK, NEW p \in Proc, Assertion(p)
    PROVE  DeviceOK' /\ Refines(p)
<1> DEFINE auth == port[handle[p]]
           a == <<"secret", cred[p], salt[p], <<cred[p], salt[p]>>>>
           q == request[p]
<1>1. /\ pc[p] = "get" /\ Holds(auth, cred[p], q.rp)
      /\ UNCHANGED <<port, kept, handle, request, cred, salt, mine>>
      /\ answer[p] = NULL /\ q \in Request /\ Arguments(p)
  BY DEF Assertion, DeviceOK, DeviceInv
<1>2. CASE Fail(p, "ErrEmptyHMACSecret")
  <2>1. <<"failed", "ErrEmptyHMACSecret">> \in Answer /\ "ErrEmptyHMACSecret" \in Reasons
    BY FailureAnswers DEF Reasons
  <2> DEFINE b == <<"failed", "ErrEmptyHMACSecret">>
  <2>2. /\ b \in Answer /\ b[1] = "failed" /\ answer'[p] = b /\ Return(p, b)
        /\ b \notin {<<"failed", "ErrInvalidArgument">>, <<"failed", "ErrNotFIDO2">>}
    BY <1>2, <2>1, Types DEF Fail, Return
  <2> HIDE DEF b
  <2>3. Told(p)'
    BY <2>2 DEF Told
  <2> QED
    BY <1>1, <2>2, <2>3, ReturnKeeps DEF Refines
<1>3. CASE auth \in HmacSecret /\ Return(p, a)
  <2> DEFINE k0 == [id |-> cred[p], rp |-> q.rp, auth |-> auth]
  <2>1. k0 \in kept /\ cred[p] \in Cred /\ salt[p] \in Salt
    BY <1>1 DEF Holds, Arguments
  <2>2. /\ a \in Answer /\ a[1] = "secret"
        /\ a \notin {<<"failed", "ErrInvalidArgument">>, <<"failed", "ErrNotFIDO2">>}
    <3>1. <<cred[p], salt[p]>> \in Hmac
      BY <2>1 DEF Hmac
    <3>2. a[1] = "secret"
      OBVIOUS
    <3>3. a \notin {<<"failed", "ErrInvalidArgument">>, <<"failed", "ErrNotFIDO2">>}
      <4>1. <<"failed", "ErrInvalidArgument">>[1] # "secret" /\ <<"failed", "ErrNotFIDO2">>[1] # "secret"
        OBVIOUS
      <4> HIDE DEF a
      <4> QED
        BY <3>2, <4>1
    <3>4. a \in Answer
      <4>1. \E c \in Cred, s \in Salt, v \in Hmac : a = <<"secret", c, s, v>>
        BY <2>1, <3>1
      <4> HIDE DEF a
      <4> QED
        BY <4>1 DEF Answer
    <3> QED
      BY <3>2, <3>3, <3>4
  <2>3. answer'[p] = a
    BY <1>3, Types DEF Return
  <2>4. Delivered(p)'
    <3>1. k0.rp = q.rp /\ k0.auth \in HmacSecret /\ a = <<"secret", k0.id, salt[p], <<k0.id, salt[p]>>>>
      BY <1>3
    <3>2. k0 \in kept' /\ request'[p] = q
      BY <1>1, <2>1
    <3> HIDE DEF k0, a, q
    <3> QED
      BY <2>1, <2>3, <3>1, <3>2 DEF Delivered
  <2>5. Told(p)'
    <3> HIDE DEF a
    <3> QED
      BY <2>2, <2>3, <2>4 DEF Told
  <2>6. Device!Derivable(cred[p], q.rp)
    <3> DEFINE Reg(k) == [id |-> k.id, rp |-> k.rp, hmac |-> k.auth \in HmacSecret]
               on == auth \in HmacSecret
    <3>1. Registered = {Reg(k) : k \in kept}
      BY DEF Registered
    <3>2. Reg(k0) = [id |-> cred[p], rp |-> q.rp, hmac |-> on]
      BY Zenon
    <3>3. on = TRUE
      BY <1>3
    <3> HIDE DEF Reg, on, k0
    <3> QED
      BY <2>1, <3>1, <3>2, <3>3 DEF Device!Derivable
  <2>7. a = Device!Secret(cred[p], salt[p])
    BY DEF Device!Secret
  <2>8. a \in Device!Promised(q, mine[p])
    <3>1. CASE q.op = "derive"
      <4>1. cred[p] = q.cred /\ salt[p] = q.salt
        BY <1>1, <3>1 DEF Arguments
      <4> HIDE DEF a, q
      <4> QED
        BY <2>1, <2>6, <2>7, <3>1, <4>1 DEF Device!Promised
    <3>2. CASE q.op = "create_derive"
      <4>1. cred[p] = mine[p] /\ q.salt \in {NULL, salt[p]}
        BY <1>1, <3>2 DEF Arguments
      <4> DEFINE y == <<cred[p], salt[p]>>
      <4>2. /\ y[1] = mine[p] /\ y[2] = salt[p] /\ y[1] = cred[p]
            /\ y \in Cred \X (Salt \cup {ShortSalt})
        BY <2>1, <4>1
      <4>3. Device!Derivable(mine[p], q.rp) /\ a = Device!Secret(y[1], y[2])
        BY <2>6, <2>7, <4>1, <4>2
      <4> HIDE DEF y, a, q
      <4> QED
        BY <3>2, <4>1, <4>2, <4>3 DEF Device!Promised
    <3> QED
      BY <1>1, <3>1, <3>2 DEF Arguments, Asked
  <2> HIDE DEF a
  <2> QED
    BY <1>1, <1>3, <2>2, <2>5, <2>8, ReturnKeeps DEF Refines
<1> QED
  BY <1>2, <1>3 DEF Assertion

LEMMA OperationKeeps ==
    ASSUME DeviceOK, NEW p \in Proc, Operation(p)
    PROVE  DeviceOK' /\ Refines(p)
BY CreateCredentialKeeps, DeriveKeeps, IsFIDO2Keeps, AuthenticatorMakesKeeps, MakeCredentialKeeps,
   AssertionKeeps, OperationFailsKeeps DEF Operation

LEMMA OperationFrame ==
    ASSUME DeviceOK, NEW p \in Proc, Operation(p)
    PROVE  UNCHANGED <<port, handle, request>> /\ kept \subseteq kept'
BY DEF Operation, CreateCredential, Derive, IsFIDO2, AuthenticatorMakes, MakeCredential, Assertion, OperationFails

LEMMA AskKeeps ==
    ASSUME DeviceOK, NEW p \in Proc, NEW q \in Request, Ask(p, q)
    PROVE  DeviceOK' /\ Device!Ask(p)
<1>1. /\ pc[p] = "idle" /\ Advance(p, "arguments") /\ request' = [request EXCEPT ![p] = q]
      /\ UNCHANGED <<port, kept, handle, cred, salt, answer, mine>>
      /\ request[p] = NULL /\ answer[p] = NULL /\ mine[p] = NULL
  BY DEF Ask, DeviceOK, DeviceInv
<1>2. request'[p] = q /\ pc'[p] = "arguments" /\ TypeOK' /\ \A r \in Proc : r # p => Same(r)
  BY <1>1, Types DEF Advance, TypeOK, PCs, Same
<1>3. DeviceInv(p)'
  BY <1>1, <1>2 DEF DeviceInv
<1>4. DeviceOK'
  BY <1>1, <1>2, <1>3, StepKeeps
<1>5. q \in Device!Request
  BY NullAssumption
  DEF Request, CreateRequest, DeriveRequest, CreateAndDeriveRequest, GivenRp, GivenSalt, Device!Request
<1>6. Device!Ask(p)
  BY <1>1, <1>2, <1>5, SameReplies DEF Device!Ask
<1> QED
  BY <1>4, <1>6

LEMMA LeaveKeeps ==
    ASSUME DeviceOK, NEW p \in Proc, Leave(p)
    PROVE  DeviceOK' /\ Device!Leave(p)
<1>1. /\ pc[p] = "done" /\ Advance(p, "idle") /\ UNCHANGED <<port, kept, handle>>
      /\ request' = [request EXCEPT ![p] = NULL] /\ cred' = [cred EXCEPT ![p] = NULL]
      /\ salt' = [salt EXCEPT ![p] = NULL] /\ answer' = [answer EXCEPT ![p] = NULL]
      /\ mine' = [mine EXCEPT ![p] = NULL]
  BY DEF Leave
<1>2. answer[p] \in Answer /\ answer[p] # NULL
  BY <1>1, AnswerAssumption DEF DeviceOK, DeviceInv, Told
<1>3. /\ pc'[p] = "idle" /\ request'[p] = NULL /\ answer'[p] = NULL /\ mine'[p] = NULL
      /\ TypeOK' /\ \A q \in Proc : q # p => Same(q)
  BY <1>1, Types DEF Advance, TypeOK, PCs, Same
<1>4. DeviceInv(p)'
  BY <1>3 DEF DeviceInv
<1>5. DeviceOK'
  BY <1>1, <1>3, <1>4, StepKeeps
<1>6. Replies[p] # NULL /\ Replies' = [Replies EXCEPT ![p] = NULL]
  <2> DEFINE R(x) == IF x = NULL THEN NULL ELSE IF x[1] = "failed" THEN <<"failed">> ELSE x
  <2>1. Replies = [q \in Proc |-> R(answer[q])] /\ Replies' = [q \in Proc |-> R(answer'[q])]
    BY DEF Replies
  <2>2. R(NULL) = NULL /\ R(answer[p]) # NULL
    <3>1. NULL # <<"failed">>
      BY AnswerAssumption
    <3> QED
      BY <1>2, <3>1
  <2> HIDE DEF R
  <2>3. answer' = [q \in Proc |-> IF q = p THEN NULL ELSE answer[q]]
    BY <1>1, Types
  <2> QED
    BY <2>1, <2>2, <2>3
<1>7. Device!Leave(p)
  BY <1>1, <1>6, SameReplies DEF Device!Leave
<1> QED
  BY <1>5, <1>7

-----------------------------------------------------------------------------
(* The programs on top of it. *)

Steps == {"start", "choose", "select", "use", "list", "open", "credential", "create", "salt", "derive", "exit"}

ShapeOK ==
    /\ listing = [p \in Proc |-> listing[p]]
    /\ step \in [Proc -> Steps]
    /\ typed \in [Proc -> {NULL} \cup Index]
    /\ flags \in [Proc -> Flags \cup {NULL}]
    /\ credentialID \in [Proc -> Cred \cup {NULL}]

Program(p) == SessionInv(p) /\ CommandInv(p)

Still(q) ==
    /\ step'[q] = step[q] /\ listing'[q] = listing[q] /\ typed'[q] = typed[q] /\ handle'[q] = handle[q]
    /\ flags'[q] = flags[q] /\ credentialID'[q] = credentialID[q] /\ request'[q] = request[q]

(* What is shown of every step. *)
Right ==
    /\ IInv'
    /\ Device!Next \/ UNCHANGED Device!vars

LEMMA ListedIs ==
    ASSUME NEW p \in Proc, Listed(p)
    PROVE  /\ Shown(p) \in Seq(Listing!DeviceInfo)
           /\ Faithful(listing[p].found, listing[p].exclude, Shown(p))
           /\ \A i \in DOMAIN Shown(p) : Shown(p)[i].path \in Path /\ Shown(p)[i].index = i - 1
<1>0. PICK S \in SUBSET Path :
            \E found \in SetToSeqs(S), exclude \in BOOLEAN : listing[p] = ListingOf(found, exclude)
  BY DEF Listed
<1>1. PICK found \in SetToSeqs(S), exclude \in BOOLEAN : listing[p] = ListingOf(found, exclude)
  BY <1>0
<1> DEFINE shown == Listing!ListDevices(found, exclude)
<1>2. listing[p].found = found /\ listing[p].exclude = exclude /\ Shown(p) = shown
  BY <1>1 DEF ListingOf, Shown
<1>3. shown \in Seq(Listing!DeviceInfo) /\ Faithful(found, exclude, shown)
  BY ListIsFaithful
<1>4. \A i \in DOMAIN shown : shown[i].index = i - 1
  BY <1>3 DEF Faithful
<1> HIDE DEF shown
<1>5. \A i \in DOMAIN shown : shown[i].path \in Path
  <2>1. \A i \in DOMAIN shown : shown[i] \in Listing!DeviceInfo
    BY <1>3
  <2> QED
    BY <2>1 DEF Listing!DeviceInfo
<1> QED
  BY <1>2, <1>3, <1>4, <1>5

Whole ==
    /\ DeviceOK /\ ShapeOK
    /\ printed \subseteq Output /\ PrintedSuffices
    /\ \A p \in Proc : Program(p)

LEMMA WholeIsIInv == IInv <=> Whole
<1>1. ASSUME \A p \in Proc : Program(p)
      PROVE  \A p \in Proc : listing[p] # NULL =>
                \A i \in DOMAIN Shown(p) : Shown(p)[i] \in Listing!DeviceInfo
  BY <1>1, ListedIs DEF Program, SessionInv
<1> QED
  BY <1>1 DEF Whole, IInv, TypeOKCLI, TypeOKSelection, DeviceOK, ShapeOK, Program, Steps

LEMMA Parts == IInv => Whole
BY WholeIsIInv

LEMMA PartsNext == Whole' => IInv'
BY WholeIsIInv, PTL

LEMMA ProgramStays ==
    ASSUME NEW q \in Proc, Program(q), Still(q)
    PROVE  Program(q)'
<1>1. Listed(q) => Listed(q)'
  BY DEF Listed, Still
<1> QED
  BY <1>1 DEF Program, SessionInv, CommandInv, Shown, Number, Still

LEMMA PrintedStays ==
    ASSUME PrintedSuffices, UNCHANGED printed, kept \subseteq kept'
    PROVE  PrintedSuffices'
BY DEF PrintedSuffices

(* A step of p is right if what it does to p is. *)
LEMMA ProcessStep ==
    ASSUME IInv, NEW p \in Proc, DeviceOK', ShapeOK', printed' \subseteq Output, PrintedSuffices',
           Device!Next \/ UNCHANGED Device!vars,
           \A q \in Proc : q # p => Still(q),
           Program(p)'
    PROVE  Right
<1>1. \A q \in Proc : q # p => Program(q)'
  BY Parts, ProgramStays DEF Whole
<1>2. IInv'
  BY <1>1, Parts, PartsNext DEF Whole
<1> QED
  BY <1>2 DEF Right

(* A step below the programs is right if it is for the device layer. *)
LEMMA StepBelow ==
    ASSUME IInv, DeviceOK', Device!Next \/ UNCHANGED Device!vars, kept \subseteq kept',
           UNCHANGED <<session, cli, handle, request>>
    PROVE  Right
<1>1. \A q \in Proc : Still(q)
  BY DEF Still, session, cli
<1>2. \A q \in Proc : Program(q)'
  BY <1>1, Parts, ProgramStays DEF Whole
<1>3. ShapeOK' /\ printed' \subseteq Output /\ PrintedSuffices'
  BY Parts, PrintedStays DEF ShapeOK, session, cli, Index, Whole
<1>4. IInv'
  BY <1>2, <1>3, PartsNext DEF Whole
<1> QED
  BY <1>4 DEF Right

LEMMA WorldRight ==
    ASSUME IInv, World, UNCHANGED <<session, cli>>
    PROVE  Right
<1>1. /\ UNCHANGED <<kept, handle, pc, request, cred, salt, answer, mine>>
      /\ port' \in [Path -> Auth \cup {NULL}] /\ handle' \in [Proc -> Path \cup {NULL}]
  BY Parts, Types DEF World, Plug, Unplug, Whole
<1>2. DeviceOK' /\ UNCHANGED Device!vars
  BY <1>1, Parts, QuietKeeps DEF Whole
<1> QED
  BY <1>1, <1>2, StepBelow

LEMMA OperationRight ==
    ASSUME IInv, NEW p \in Proc, Operation(p), UNCHANGED <<session, cli>>
    PROVE  Right
<1>1. DeviceOK' /\ Refines(p) /\ UNCHANGED <<handle, request>> /\ kept \subseteq kept'
  BY Parts, OperationKeeps, OperationFrame DEF Whole
<1>2. Device!Next \/ UNCHANGED Device!vars
  BY <1>1 DEF Refines, Device!Next
<1> QED
  BY <1>1, <1>2, StepBelow

(* Nothing of the device layer changes. *)
LEMMA Unmoved ==
    ASSUME IInv, UNCHANGED vars
    PROVE  /\ DeviceOK' /\ UNCHANGED Device!vars
           /\ UNCHANGED <<port, kept, handle, request>>
<1>1. /\ UNCHANGED <<kept, pc, request, cred, salt, answer, mine>>
      /\ port' \in [Path -> Auth \cup {NULL}] /\ handle' \in [Proc -> Path \cup {NULL}]
  BY Parts, Types DEF vars, Whole
<1> QED
  BY <1>1, Parts, QuietKeeps DEF vars, Whole

LEMMA StutterRight ==
    ASSUME IInv, UNCHANGED <<vars, session, cli>>
    PROVE  Right
BY Unmoved, StepBelow

(* A step of the program alone. *)
LEMMA ProgramStep ==
    ASSUME IInv, NEW p \in Proc, UNCHANGED <<vars, printed>>, ShapeOK',
           \A q \in Proc : q # p => Still(q), Program(p)'
    PROVE  Right
<1>1. DeviceOK' /\ UNCHANGED Device!vars /\ UNCHANGED <<kept, handle>>
  BY Unmoved
<1>2. printed' \subseteq Output /\ PrintedSuffices'
  BY <1>1, Parts, PrintedStays DEF Whole
<1> QED
  BY <1>1, <1>2, ProcessStep

LEMMA ContinueIs ==
    ASSUME ShapeOK, NEW p \in Proc, NEW next \in Steps, Continue(p, next)
    PROVE  /\ step' \in [Proc -> Steps] /\ step'[p] = next
           /\ \A q \in Proc : q # p => step'[q] = step[q]
BY DEF ShapeOK, Continue

LEMMA ListingIs ==
    ASSUME ShapeOK, NEW p \in Proc, NEW list, listing' = [listing EXCEPT ![p] = list]
    PROVE  /\ listing' = [q \in Proc |-> listing'[q]] /\ listing'[p] = list
           /\ \A q \in Proc : q # p => listing'[q] = listing[q]
BY DEF ShapeOK

LEMMA TypedIs ==
    ASSUME ShapeOK, NEW p \in Proc, NEW i \in {NULL} \cup Index, typed' = [typed EXCEPT ![p] = i]
    PROVE  /\ typed' \in [Proc -> {NULL} \cup Index] /\ typed'[p] = i
           /\ \A q \in Proc : q # p => typed'[q] = typed[q]
BY DEF ShapeOK

LEMMA IndexIs == Cardinality(Path) \in Nat /\ Index = -1..Cardinality(Path)
BY PathAssumption, FS_CardinalityType DEF Index

(* An enumeration is of devices. *)
LEMMA EnumerationIs ==
    ASSUME NEW found \in Enumerations
    PROVE  \E S \in SUBSET Path : found \in SetToSeqs(S)
<1>1. PICK S \in Enumerable : found \in SetToSeqs(S)
  BY DEF Enumerations
<1>2. S \in SUBSET Path
  BY DEF Enumerable, Plugged
<1> QED
  BY <1>1, <1>2

(* What an enumeration gives can be shown. *)
LEMMA EnumerationListed ==
    ASSUME NEW p \in Proc, NEW found \in Enumerations, NEW exclude \in BOOLEAN,
           listing'[p] = ListingOf(found, exclude)
    PROVE  Listed(p)' /\ Shown(p)' \in Seq(Listing!DeviceInfo)
<1>1. PICK S \in SUBSET Path : found \in SetToSeqs(S)
  BY EnumerationIs
<1>2. Listed(p)'
  BY <1>1 DEF Listed
<1>3. Shown(p)' = Listing!ListDevices(found, exclude)
  BY DEF Shown, ListingOf
<1>4. Listing!ListDevices(found, exclude) \in Seq(Listing!DeviceInfo)
  BY <1>1, ListIsFaithful
<1> QED
  BY <1>2, <1>3, <1>4

LEMMA EnumerationPaths ==
    ASSUME NEW found \in Enumerations, NEW exclude \in BOOLEAN
    PROVE  LET devices == Listing!ListDevices(found, exclude)
           IN  /\ Len(devices) \in Nat
               /\ \A i \in DOMAIN devices : devices[i].path \in Path
<1> DEFINE devices == Listing!ListDevices(found, exclude)
<1>1. PICK S \in SUBSET Path : found \in SetToSeqs(S)
  BY EnumerationIs
<1>2. devices \in Seq(Listing!DeviceInfo)
  BY <1>1, ListIsFaithful
<1> HIDE DEF devices
<1>3. \A i \in DOMAIN devices : devices[i] \in Listing!DeviceInfo
  BY <1>2
<1>4. Len(devices) \in Nat /\ \A i \in DOMAIN devices : devices[i].path \in Path
  BY <1>2, <1>3 DEF Listing!DeviceInfo
<1> QED
  BY <1>4 DEF devices

LEMMA StartRight ==
    ASSUME IInv, NEW p \in Proc, NEW f \in Flags, Start(p, f)
    PROVE  Right
<1>1. /\ step[p] = "start" /\ flags' = [flags EXCEPT ![p] = f] /\ Continue(p, "list")
      /\ UNCHANGED <<vars, listing, typed, credentialID, printed>>
  BY DEF Start
<1>2. ShapeOK /\ Program(p) /\ "list" \in Steps
  BY Parts DEF Whole, Steps
<1>3. step' \in [Proc -> Steps] /\ step'[p] = "list" /\ \A q \in Proc : q # p => step'[q] = step[q]
  BY <1>1, <1>2, ContinueIs
<1>4. /\ flags' \in [Proc -> Flags \cup {NULL}] /\ flags'[p] = f
      /\ \A q \in Proc : q # p => flags'[q] = flags[q]
  BY <1>1, <1>2 DEF ShapeOK
<1>5. UNCHANGED <<handle, request>>
  BY <1>1 DEF vars
<1>6. ShapeOK' /\ \A q \in Proc : q # p => Still(q)
  BY <1>1, <1>2, <1>3, <1>4, <1>5 DEF ShapeOK, Still, Index
<1>7. Program(p)'
  BY <1>1, <1>2, <1>3, <1>4, <1>5 DEF Program, SessionInv, CommandInv
<1> QED
  BY <1>1, <1>6, <1>7, ProgramStep

LEMMA ListRight ==
    ASSUME IInv, NEW p \in Proc, List(p)
    PROVE  Right
<1>1. step[p] = "list" /\ UNCHANGED <<vars, cli>>
  BY DEF List
<1>2. PICK found \in Enumerations, exclude, listOnly \in BOOLEAN, device \in Index \ {-1} :
          LET list == ListingOf(found, exclude)
          IN  /\ listing' = [listing EXCEPT ![p] = list]
              /\ typed' = [typed EXCEPT ![p] = device]
              /\ Continue(p, IF listOnly \/ device >= Len(list.shown) THEN "exit" ELSE "open")
  BY DEF List
<1> DEFINE list == ListingOf(found, exclude)
           next == IF listOnly \/ device >= Len(list.shown) THEN "exit" ELSE "open"
<1>3. ShapeOK /\ Program(p) /\ next \in Steps
  BY Parts DEF Whole, Steps
<1>4. /\ listing' = [q \in Proc |-> listing'[q]] /\ listing'[p] = list
      /\ \A q \in Proc : q # p => listing'[q] = listing[q]
  BY <1>2, <1>3, ListingIs
<1>5. /\ typed' \in [Proc -> {NULL} \cup Index] /\ typed'[p] = device
      /\ \A q \in Proc : q # p => typed'[q] = typed[q]
  BY <1>2, <1>3, TypedIs
<1>6. step' \in [Proc -> Steps] /\ step'[p] = next /\ \A q \in Proc : q # p => step'[q] = step[q]
  BY <1>2, <1>3, ContinueIs
<1>7. Listed(p)' /\ Shown(p)' \in Seq(Listing!DeviceInfo) /\ Shown(p)' = list.shown
  BY <1>4, EnumerationListed DEF Shown
<1>8. next = "open" => Number(p)' \in 0..Len(Shown(p)') - 1
  <2> HIDE DEF list
  <2>1. ASSUME ~(device >= Len(list.shown))
        PROVE  Number(p)' \in 0..Len(Shown(p)') - 1
    <3>1. device \in Nat
      BY IndexIs
    <3>2. Len(Shown(p)') \in Nat /\ device < Len(Shown(p)')
      BY <2>1, <3>1, <1>7
    <3>3. Number(p)' \in {0, device}
      BY <1>5 DEF Number
    <3> QED
      BY <3>1, <3>2, <3>3
  <2> QED
    BY <2>1
<1>9. next \in {"exit", "open"}
  OBVIOUS
<1> HIDE DEF next, list
<1>10. UNCHANGED <<flags, credentialID, printed, handle, request>>
  BY <1>1 DEF vars, cli
<1>11. ShapeOK' /\ \A q \in Proc : q # p => Still(q)
  BY <1>3, <1>4, <1>5, <1>6, <1>10 DEF ShapeOK, Still
<1>12. handle'[p] = NULL /\ flags'[p] \in Flags
  BY <1>1, <1>3, <1>10 DEF Program, SessionInv, CommandInv
<1>13. Program(p)'
  BY <1>6, <1>7, <1>8, <1>9, <1>12 DEF Program, SessionInv, CommandInv
<1> QED
  BY <1>1, <1>10, <1>11, <1>13, ProgramStep

(* Opening what was chosen. *)
LEMMA OpenSelectedRight ==
    ASSUME IInv, NEW p \in Proc, step[p] \in {"select", "open"}, NEW next \in {"use", "credential"},
           OpenSelected(p, next), UNCHANGED cli,
           next = "credential" => flags[p] \in Flags
    PROVE  Right
<1> DEFINE d == Selected(p).path
<1>1. /\ pc[p] = "idle" /\ handle' = [handle EXCEPT ![p] = d]
      /\ UNCHANGED <<port, kept, pc, request, cred, salt, answer, mine>>
      /\ Continue(p, next)
      /\ listing' = [listing EXCEPT ![p] = NULL] /\ typed' = [typed EXCEPT ![p] = NULL]
  BY DEF OpenSelected, Open
<1>2. DeviceOK /\ ShapeOK /\ Program(p) /\ next \in Steps
  BY Parts DEF Whole, Steps
<1>3. Listed(p) /\ Number(p) \in 0..Len(Shown(p)) - 1
  BY <1>2 DEF Program, SessionInv
<1>4. /\ Shown(p) \in Seq(Listing!DeviceInfo)
      /\ \A i \in DOMAIN Shown(p) : Shown(p)[i].path \in Path
  BY <1>3, ListedIs
<1>5. Number(p) \in Int /\ Number(p) + 1 \in DOMAIN Shown(p)
  BY <1>3, <1>4
<1>6. d \in Path
  BY <1>4, <1>5 DEF Selected
<1> HIDE DEF d
<1>7. /\ handle' \in [Proc -> Path \cup {NULL}] /\ handle'[p] = d
      /\ \A q \in Proc : q # p => handle'[q] = handle[q]
  BY <1>1, <1>2, <1>6, Types
<1>8. port' \in [Path -> Auth \cup {NULL}]
  BY <1>1, <1>2, Types
<1>9. DeviceOK' /\ UNCHANGED Device!vars
  BY <1>1, <1>2, <1>7, <1>8, QuietKeeps
<1>11. step' \in [Proc -> Steps] /\ step'[p] = next /\ \A q \in Proc : q # p => step'[q] = step[q]
  BY <1>1, <1>2, ContinueIs
<1>12. /\ listing' = [q \in Proc |-> listing'[q]] /\ listing'[p] = NULL
       /\ \A q \in Proc : q # p => listing'[q] = listing[q]
  BY <1>1, <1>2, ListingIs
<1>13. /\ typed' \in [Proc -> {NULL} \cup Index] /\ \A q \in Proc : q # p => typed'[q] = typed[q]
  BY <1>1, <1>2, TypedIs
<1>14. ShapeOK' /\ \A q \in Proc : q # p => Still(q)
  BY <1>1, <1>2, <1>7, <1>11, <1>12, <1>13 DEF ShapeOK, Still, cli
<1>15. flags'[p] = flags[p] /\ printed' = printed /\ kept' = kept
  BY <1>1 DEF cli
<1>16. Program(p)'
  BY <1>11, <1>12, <1>15 DEF Program, SessionInv, CommandInv
<1>17. printed' \subseteq Output /\ PrintedSuffices'
  BY <1>15, Parts, PrintedStays DEF Whole
<1> QED
  BY <1>9, <1>14, <1>16, <1>17, ProcessStep

LEMMA OpenDeviceRight ==
    ASSUME IInv, NEW p \in Proc, OpenDevice(p)
    PROVE  Right
<1>1. step[p] = "open" /\ OpenSelected(p, "credential") /\ UNCHANGED cli
  BY DEF OpenDevice
<1>2. flags[p] \in Flags
  BY <1>1, Parts DEF Whole, Program, CommandInv
<1> QED
  BY <1>1, <1>2, OpenSelectedRight

LEMMA OpenChoiceRight ==
    ASSUME IInv, NEW p \in Proc, OpenChoice(p), UNCHANGED cli
    PROVE  Right
BY OpenSelectedRight DEF OpenChoice

(* OpenIndex lists for itself: nothing is on the screen. *)
LEMMA OpenIndexRight ==
    ASSUME IInv, NEW p \in Proc, NEW i \in Index, OpenIndex(p, i), UNCHANGED cli
    PROVE  Right
<1>1. /\ step[p] = "start" /\ UNCHANGED <<listing, typed, cli>>
      /\ DeviceOK /\ ShapeOK /\ Program(p) /\ "use" \in Steps /\ "exit" \in Steps
  BY Parts DEF Whole, OpenIndex, Steps
<1>2. listing[p] = NULL /\ typed[p] = NULL /\ handle[p] = NULL
  BY <1>1 DEF Program, SessionInv
<1>3. PICK found \in Enumerations, exclude \in BOOLEAN :
          LET devices == Listing!ListDevices(found, exclude)
          IN  \/ i \in 0..Len(devices) - 1 /\ Open(p, devices[i + 1].path) /\ Continue(p, "use")
              \/ i \notin 0..Len(devices) - 1 /\ UNCHANGED vars /\ Continue(p, "exit")
  BY DEF OpenIndex
<1> DEFINE devices == Listing!ListDevices(found, exclude)
<1>4. Len(devices) \in Nat /\ \A j \in DOMAIN devices : devices[j].path \in Path
  BY EnumerationPaths
<1>5. CASE UNCHANGED vars /\ Continue(p, "exit")
  <2>1. step' \in [Proc -> Steps] /\ step'[p] = "exit" /\ \A q \in Proc : q # p => step'[q] = step[q]
    BY <1>1, <1>5, ContinueIs
  <2>2. UNCHANGED <<flags, credentialID, printed, handle, request>>
    BY <1>1, <1>5 DEF vars, cli
  <2>3. ShapeOK' /\ \A q \in Proc : q # p => Still(q)
    BY <1>1, <2>1, <2>2 DEF ShapeOK, Still, Index
  <2>4. Program(p)'
    BY <1>1, <1>2, <2>1 DEF Program, SessionInv, CommandInv
  <2> QED
    BY <1>5, <2>2, <2>3, <2>4, ProgramStep
<1>6. CASE i \in 0..Len(devices) - 1 /\ Open(p, devices[i + 1].path) /\ Continue(p, "use")
  <2> DEFINE d == devices[i + 1].path
  <2>1. d \in Path
    <3>1. i \in Int /\ i + 1 \in 1..Len(devices)
      BY <1>4, <1>6
    <3>2. devices \in Seq(Listing!DeviceInfo)
      <4>1. PICK S \in SUBSET Path : found \in SetToSeqs(S)
        BY EnumerationIs
      <4> QED
        BY <4>1, ListIsFaithful
    <3> HIDE DEF devices
    <3> QED
      BY <1>4, <3>1, <3>2
  <2>2. /\ handle' = [handle EXCEPT ![p] = d] /\ Continue(p, "use")
        /\ UNCHANGED <<port, kept, pc, request, cred, salt, answer, mine>>
    BY <1>6 DEF Open
  <2> HIDE DEF d
  <2>3. /\ handle' \in [Proc -> Path \cup {NULL}] /\ port' \in [Path -> Auth \cup {NULL}]
        /\ \A q \in Proc : q # p => handle'[q] = handle[q]
    BY <1>1, <2>1, <2>2, Types
  <2>4. DeviceOK' /\ UNCHANGED Device!vars
    BY <1>1, <2>2, <2>3, QuietKeeps
  <2>5. step' \in [Proc -> Steps] /\ step'[p] = "use" /\ \A q \in Proc : q # p => step'[q] = step[q]
    BY <1>1, <2>2, ContinueIs
  <2>6. ShapeOK' /\ \A q \in Proc : q # p => Still(q)
    BY <1>1, <2>2, <2>3, <2>5 DEF ShapeOK, Still, Index, cli
  <2>7. Program(p)'
    BY <1>1, <1>2, <2>5 DEF Program, SessionInv, CommandInv
  <2>8. printed' \subseteq Output /\ PrintedSuffices'
    BY <1>1, <2>2, Parts, PrintedStays DEF Whole, cli
  <2> QED
    BY <2>4, <2>6, <2>7, <2>8, ProcessStep
<1> HIDE DEF devices
<1> QED
  BY <1>3, <1>5, <1>6 DEF devices

LEMMA BrowseRight ==
    ASSUME IInv, NEW p \in Proc, Browse(p), UNCHANGED cli
    PROVE  Right
<1>1. step[p] = "start" /\ UNCHANGED <<vars, typed, cli>>
  BY DEF Browse
<1>2. PICK found \in Enumerations, exclude \in BOOLEAN :
          LET list == ListingOf(found, exclude)
          IN  /\ listing' = [listing EXCEPT ![p] = list]
              /\ Continue(p, IF list.shown = <<>> THEN "exit" ELSE "choose")
  BY DEF Browse
<1> DEFINE list == ListingOf(found, exclude)
           next == IF list.shown = <<>> THEN "exit" ELSE "choose"
<1>3. ShapeOK /\ Program(p) /\ next \in Steps
  BY Parts DEF Whole, Steps
<1>4. /\ listing' = [q \in Proc |-> listing'[q]] /\ listing'[p] = list
      /\ \A q \in Proc : q # p => listing'[q] = listing[q]
  BY <1>2, <1>3, ListingIs
<1>5. step' \in [Proc -> Steps] /\ step'[p] = next /\ \A q \in Proc : q # p => step'[q] = step[q]
  BY <1>2, <1>3, ContinueIs
<1>6. Listed(p)' /\ Shown(p)' = list.shown
  BY <1>4, EnumerationListed DEF Shown
<1>7. next \in {"exit", "choose"} /\ (next = "choose" => Shown(p)' # <<>>)
  BY <1>6
<1> HIDE DEF next, list
<1>8. UNCHANGED <<flags, credentialID, printed, handle, request>>
  BY <1>1 DEF vars, cli
<1>9. ShapeOK' /\ \A q \in Proc : q # p => Still(q)
  BY <1>1, <1>3, <1>4, <1>5, <1>8 DEF ShapeOK, Still, Index
<1>10. handle'[p] = NULL /\ typed'[p] = NULL
  BY <1>1, <1>3, <1>8 DEF Program, SessionInv
<1>11. Program(p)'
  BY <1>5, <1>6, <1>7, <1>10 DEF Program, SessionInv, CommandInv
<1> QED
  BY <1>1, <1>8, <1>9, <1>11, ProgramStep

LEMMA SkipRight ==
    ASSUME IInv, NEW p \in Proc, Skip(p), UNCHANGED cli
    PROVE  Right
<1>1. /\ step[p] = "choose" /\ Continue(p, "select") /\ UNCHANGED <<vars, listing, typed, cli>>
      /\ ShapeOK /\ Program(p) /\ "select" \in Steps
  BY Parts DEF Whole, Skip, Steps
<1>2. step' \in [Proc -> Steps] /\ step'[p] = "select" /\ \A q \in Proc : q # p => step'[q] = step[q]
  BY <1>1, ContinueIs
<1>3. UNCHANGED <<flags, credentialID, printed, handle, request>>
  BY <1>1 DEF vars, cli
<1>4. ShapeOK' /\ \A q \in Proc : q # p => Still(q)
  BY <1>1, <1>2, <1>3 DEF ShapeOK, Still, Index
<1>5. Listed(p) /\ typed[p] = NULL /\ handle[p] = NULL /\ Shown(p) # <<>>
  BY <1>1 DEF Program, SessionInv
<1>6. Number(p) \in 0..Len(Shown(p)) - 1
  BY <1>5, ListedIs DEF Number
<1>7. Listed(p)' /\ (Number(p) \in 0..Len(Shown(p)) - 1)'
  BY <1>1, <1>5, <1>6 DEF Listed, Number, Shown
<1>8. Program(p)'
  BY <1>1, <1>2, <1>3, <1>5, <1>7 DEF Program, SessionInv, CommandInv
<1> QED
  BY <1>1, <1>3, <1>4, <1>8, ProgramStep

LEMMA TypeRight ==
    ASSUME IInv, NEW p \in Proc, NEW i \in {NULL} \cup Index, Type(p, i), UNCHANGED cli
    PROVE  Right
<1> DEFINE next == IF i \in {NULL} \cup 0..Len(Shown(p)) - 1 THEN "select" ELSE "exit"
<1>1. /\ step[p] = "choose" /\ Continue(p, next) /\ UNCHANGED <<vars, listing, cli>>
      /\ typed' = [typed EXCEPT ![p] = i]
      /\ ShapeOK /\ Program(p) /\ next \in Steps
  BY Parts DEF Whole, Type, Steps
<1>2. step' \in [Proc -> Steps] /\ step'[p] = next /\ \A q \in Proc : q # p => step'[q] = step[q]
  BY <1>1, ContinueIs
<1>3. /\ typed' \in [Proc -> {NULL} \cup Index] /\ typed'[p] = i
      /\ \A q \in Proc : q # p => typed'[q] = typed[q]
  BY <1>1, TypedIs
<1>4. UNCHANGED <<flags, credentialID, printed, handle, request>>
  BY <1>1 DEF vars, cli
<1>5. ShapeOK' /\ \A q \in Proc : q # p => Still(q)
  BY <1>1, <1>2, <1>3, <1>4 DEF ShapeOK, Still
<1>6. Listed(p) /\ handle[p] = NULL /\ Shown(p) # <<>>
  BY <1>1 DEF Program, SessionInv
<1>7. next = "select" => (Number(p) \in 0..Len(Shown(p)) - 1)'
  <2>1. Len(Shown(p)) \in Nat /\ Len(Shown(p)) # 0
    BY <1>6, ListedIs
  <2>2. 0 \in 0..Len(Shown(p)) - 1
    BY <2>1
  <2>3. Shown(p)' = Shown(p) /\ Number(p)' = IF i = NULL THEN 0 ELSE i
    BY <1>1, <1>3 DEF Shown, Number
  <2> QED
    BY <2>2, <2>3
<1>8. Listed(p)' /\ next \in {"select", "exit"}
  BY <1>1, <1>6 DEF Listed
<1> HIDE DEF next
<1>9. Program(p)'
  BY <1>1, <1>2, <1>4, <1>6, <1>7, <1>8 DEF Program, SessionInv, CommandInv
<1> QED
  BY <1>1, <1>4, <1>5, <1>9, ProgramStep

LEMMA AskIs ==
    ASSUME IInv, NEW p \in Proc, NEW q \in Request, Ask(p, q)
    PROVE  /\ DeviceOK' /\ Device!Next
           /\ UNCHANGED <<kept, handle>> /\ request'[p] = q
           /\ \A r \in Proc : r # p => request'[r] = request[r]
<1>1. DeviceOK
  BY Parts DEF Whole
<1>2. DeviceOK' /\ Device!Ask(p)
  BY <1>1, AskKeeps
<1>3. UNCHANGED <<kept, handle>> /\ request' = [request EXCEPT ![p] = q]
  BY DEF Ask
<1> QED
  BY <1>1, <1>2, <1>3, Types DEF Device!Next

LEMMA LeaveIs ==
    ASSUME IInv, NEW p \in Proc, Leave(p)
    PROVE  /\ DeviceOK' /\ Device!Next /\ Told(p)
           /\ UNCHANGED <<kept, handle>>
           /\ \A r \in Proc : r # p => request'[r] = request[r]
<1>1. DeviceOK
  BY Parts DEF Whole
<1>2. DeviceOK' /\ Device!Leave(p)
  BY <1>1, LeaveKeeps
<1>3. UNCHANGED <<kept, handle>> /\ request' = [request EXCEPT ![p] = NULL] /\ pc[p] = "done"
  BY DEF Leave
<1>4. Told(p)
  BY <1>1, <1>3 DEF DeviceOK, DeviceInv
<1> QED
  BY <1>1, <1>2, <1>3, <1>4, Types DEF Device!Next

LEMMA TakeRight ==
    ASSUME IInv, NEW p \in Proc, Take(p), UNCHANGED cli
    PROVE  Right
<1>1. step[p] = "use" /\ Leave(p) /\ UNCHANGED <<step, listing, typed, flags, credentialID, printed>>
  BY DEF Take, session, cli
<1>2. /\ DeviceOK' /\ Device!Next /\ UNCHANGED <<kept, handle>>
      /\ \A r \in Proc : r # p => request'[r] = request[r]
  BY <1>1, LeaveIs
<1>3. ShapeOK /\ Program(p)
  BY Parts DEF Whole
<1>4. ShapeOK' /\ \A q \in Proc : q # p => Still(q)
  BY <1>1, <1>2, <1>3 DEF ShapeOK, Still, Index
<1>5. Program(p)'
  BY <1>1, <1>2, <1>3 DEF Program, SessionInv, CommandInv, Listed
<1>6. printed' \subseteq Output /\ PrintedSuffices'
  BY <1>1, <1>2, Parts, PrintedStays DEF Whole
<1> QED
  BY <1>2, <1>4, <1>5, <1>6, ProcessStep

LEMMA UseRight ==
    ASSUME IInv, NEW p \in Proc, NEW q \in Request, Use(p, q), UNCHANGED cli
    PROVE  Right
<1>1. step[p] = "use" /\ Ask(p, q) /\ UNCHANGED <<step, listing, typed, flags, credentialID, printed>>
  BY DEF Use, session, cli
<1>2. /\ DeviceOK' /\ Device!Next /\ UNCHANGED <<kept, handle>>
      /\ \A r \in Proc : r # p => request'[r] = request[r]
  BY <1>1, AskIs
<1>3. ShapeOK /\ Program(p)
  BY Parts DEF Whole
<1>4. ShapeOK' /\ \A r \in Proc : r # p => Still(r)
  BY <1>1, <1>2, <1>3 DEF ShapeOK, Still, Index
<1>5. Program(p)'
  BY <1>1, <1>2, <1>3 DEF Program, SessionInv, CommandInv, Listed
<1>6. printed' \subseteq Output /\ PrintedSuffices'
  BY <1>1, <1>2, Parts, PrintedStays DEF Whole
<1> QED
  BY <1>2, <1>4, <1>5, <1>6, ProcessStep

LEMMA ChoosingRight ==
    ASSUME IInv, NEW p \in Proc, Choosing(p), UNCHANGED cli
    PROVE  Right
BY BrowseRight, SkipRight, OpenChoiceRight, TakeRight, TypeRight, OpenIndexRight, UseRight DEF Choosing

LEMMA ReuseRight ==
    ASSUME IInv, NEW p \in Proc, Reuse(p)
    PROVE  Right
<1> DEFINE next == IF flags[p].salt = NULL THEN "exit" ELSE "salt"
<1>1. /\ step[p] = "credential" /\ flags[p].cred # NULL /\ Continue(p, next)
      /\ credentialID' = [credentialID EXCEPT ![p] = flags[p].cred]
      /\ UNCHANGED <<vars, listing, typed, flags, printed>>
      /\ ShapeOK /\ Program(p) /\ next \in Steps
  BY Parts DEF Whole, Reuse, Steps
<1>2. flags[p] \in Flags /\ flags[p].cred \in Cred
  BY <1>1 DEF Program, CommandInv, Flags
<1>3. step' \in [Proc -> Steps] /\ step'[p] = next /\ \A q \in Proc : q # p => step'[q] = step[q]
  BY <1>1, ContinueIs
<1>4. /\ credentialID' \in [Proc -> Cred \cup {NULL}] /\ credentialID'[p] \in Cred
      /\ \A q \in Proc : q # p => credentialID'[q] = credentialID[q]
  BY <1>1, <1>2 DEF ShapeOK
<1>5. UNCHANGED <<handle, request>> /\ next \in {"exit", "salt"}
  BY <1>1 DEF vars
<1> HIDE DEF next
<1>6. ShapeOK' /\ \A q \in Proc : q # p => Still(q)
  BY <1>1, <1>3, <1>4, <1>5 DEF ShapeOK, Still, Index
<1>7. Program(p)'
  BY <1>1, <1>2, <1>3, <1>4, <1>5 DEF Program, SessionInv, CommandInv, Listed
<1> QED
  BY <1>1, <1>6, <1>7, ProgramStep

LEMMA CreateRight ==
    ASSUME IInv, NEW p \in Proc, Create(p)
    PROVE  Right
<1> DEFINE r == [op |-> "create", rp |-> flags[p].rp]
<1>1. /\ step[p] = "credential" /\ Ask(p, r) /\ Continue(p, "create")
      /\ UNCHANGED <<listing, typed, flags, credentialID, printed>>
      /\ ShapeOK /\ Program(p) /\ "create" \in Steps
  BY Parts DEF Whole, Create, Steps, cli
<1>2. flags[p] \in Flags
  BY <1>1 DEF Program, CommandInv
<1>3. r \in Request
  BY <1>2 DEF Flags, Request, CreateRequest, GivenRp
<1> HIDE DEF r
<1>4. /\ DeviceOK' /\ Device!Next /\ UNCHANGED <<kept, handle>>
      /\ \A q \in Proc : q # p => request'[q] = request[q]
  BY <1>1, <1>3, AskIs
<1>5. step' \in [Proc -> Steps] /\ step'[p] = "create" /\ \A q \in Proc : q # p => step'[q] = step[q]
  BY <1>1, ContinueIs
<1>6. ShapeOK' /\ \A q \in Proc : q # p => Still(q)
  BY <1>1, <1>4, <1>5 DEF ShapeOK, Still, Index
<1>7. Program(p)'
  BY <1>1, <1>2, <1>4, <1>5 DEF Program, SessionInv, CommandInv, Listed
<1>8. printed' \subseteq Output /\ PrintedSuffices'
  BY <1>1, <1>4, Parts, PrintedStays DEF Whole
<1> QED
  BY <1>4, <1>6, <1>7, <1>8, ProcessStep

LEMMA CredentialAnswers == \A a \in Answer : a[1] = "credential" => a[2] \in Cred
<1> SUFFICES ASSUME NEW a \in Answer, a[1] = "credential" PROVE a[2] \in Cred
  OBVIOUS
<1>1. CASE a \in {<<"failed", why>> : why \in Reasons}
  BY <1>1
<1>2. CASE a \in {<<"credential", c>> : c \in Cred}
  BY <1>2
<1>3. CASE a \in {<<"secret", c, s, v>> : c \in Cred, s \in Salt, v \in Hmac}
  BY <1>3
<1> QED
  BY <1>1, <1>2, <1>3 DEF Answer

LEMMA CreateReturnsRight ==
    ASSUME IInv, NEW p \in Proc, CreateReturns(p)
    PROVE  Right
<1>1. /\ step[p] = "create" /\ Leave(p) /\ UNCHANGED <<listing, typed, flags, printed>>
      /\ ShapeOK /\ Program(p) /\ "salt" \in Steps /\ "exit" \in Steps
  BY Parts DEF Whole, CreateReturns, Steps
<1>2. /\ DeviceOK' /\ Device!Next /\ UNCHANGED <<kept, handle>> /\ answer[p] \in Answer
      /\ \A q \in Proc : q # p => request'[q] = request[q]
  BY <1>1, LeaveIs DEF Told
<1>3. /\ step' \in [Proc -> Steps] /\ \A q \in Proc : q # p => step'[q] = step[q]
      /\ credentialID' \in [Proc -> Cred \cup {NULL}]
      /\ \A q \in Proc : q # p => credentialID'[q] = credentialID[q]
      /\ step'[p] = "exit" \/ (step'[p] = "salt" /\ credentialID'[p] \in Cred)
  <2>1. CASE /\ answer[p][1] = "credential" /\ Continue(p, "salt")
             /\ credentialID' = [credentialID EXCEPT ![p] = answer[p][2]]
    <3>1. answer[p][2] \in Cred
      BY <1>2, <2>1, CredentialAnswers
    <3>2. step' \in [Proc -> Steps] /\ step'[p] = "salt" /\ \A q \in Proc : q # p => step'[q] = step[q]
      BY <1>1, <2>1, ContinueIs
    <3> QED
      BY <1>1, <2>1, <3>1, <3>2 DEF ShapeOK
  <2>2. CASE Continue(p, "exit") /\ UNCHANGED credentialID
    <3>1. step' \in [Proc -> Steps] /\ step'[p] = "exit" /\ \A q \in Proc : q # p => step'[q] = step[q]
      BY <1>1, <2>2, ContinueIs
    <3> QED
      BY <1>1, <2>2, <3>1 DEF ShapeOK
  <2> QED
    BY <2>1, <2>2 DEF CreateReturns
<1>4. ShapeOK' /\ \A q \in Proc : q # p => Still(q)
  BY <1>1, <1>2, <1>3 DEF ShapeOK, Still, Index
<1>5. Program(p)'
  BY <1>1, <1>2, <1>3 DEF Program, SessionInv, CommandInv, Listed
<1>6. printed' \subseteq Output /\ PrintedSuffices'
  BY <1>1, <1>2, Parts, PrintedStays DEF Whole
<1> QED
  BY <1>2, <1>4, <1>5, <1>6, ProcessStep

LEMMA ParseSaltRight ==
    ASSUME IInv, NEW p \in Proc, ParseSalt(p)
    PROVE  Right
<1>1. /\ step[p] = "salt" /\ UNCHANGED <<listing, typed, flags, credentialID, printed>>
      /\ ShapeOK /\ Program(p) /\ "derive" \in Steps /\ "exit" \in Steps
  BY Parts DEF Whole, ParseSalt, Steps, cli
<1>2. flags[p] \in Flags /\ credentialID[p] \in Cred
  BY <1>1 DEF Program, CommandInv
<1>3. CASE Continue(p, "exit") /\ UNCHANGED vars
  <2>1. step' \in [Proc -> Steps] /\ step'[p] = "exit" /\ \A q \in Proc : q # p => step'[q] = step[q]
    BY <1>1, <1>3, ContinueIs
  <2>2. UNCHANGED <<handle, request>>
    BY <1>3 DEF vars
  <2>3. ShapeOK' /\ \A q \in Proc : q # p => Still(q)
    BY <1>1, <2>1, <2>2 DEF ShapeOK, Still, Index
  <2>4. Program(p)'
    BY <1>1, <2>1, <2>2 DEF Program, SessionInv, CommandInv, Listed
  <2> QED
    BY <1>1, <1>3, <2>3, <2>4, ProgramStep
<1>4. CASE /\ flags[p].salt # ShortSalt /\ Continue(p, "derive")
           /\ \E s \in IF flags[p].salt = NULL THEN Salt ELSE {flags[p].salt} :
                 Ask(p, [op |-> "derive", rp |-> flags[p].rp, cred |-> credentialID[p],
                         salt |-> s, presence |-> TRUE])
  <2>1. PICK s \in IF flags[p].salt = NULL THEN Salt ELSE {flags[p].salt} :
               Ask(p, [op |-> "derive", rp |-> flags[p].rp, cred |-> credentialID[p],
                       salt |-> s, presence |-> TRUE])
    BY <1>4
  <2> DEFINE r == [op |-> "derive", rp |-> flags[p].rp, cred |-> credentialID[p],
                   salt |-> s, presence |-> TRUE]
  <2>2. flags[p].rp \in Rp /\ flags[p].salt \in Salt \cup {ShortSalt, NULL}
    BY <1>2 DEF Flags, GivenSalt
  <2>3. s \in Salt /\ s # NULL
    BY <1>4, <2>2, NullAssumption
  <2>4. r \in Request /\ r.rp = flags[p].rp
    <3>1. s \in GivenSalt \ {NULL}
      BY <2>3 DEF GivenSalt
    <3>2. r \in DeriveRequest
      BY <1>2, <2>2, <3>1 DEF DeriveRequest, GivenRp
    <3> QED
      BY <3>2 DEF Request
  <2> HIDE DEF r
  <2>5. /\ DeviceOK' /\ Device!Next /\ UNCHANGED <<kept, handle>> /\ request'[p] = r
        /\ \A q \in Proc : q # p => request'[q] = request[q]
    BY <2>1, <2>4, AskIs DEF r
  <2>6. step' \in [Proc -> Steps] /\ step'[p] = "derive" /\ \A q \in Proc : q # p => step'[q] = step[q]
    BY <1>1, <1>4, ContinueIs
  <2>7. ShapeOK' /\ \A q \in Proc : q # p => Still(q)
    BY <1>1, <2>5, <2>6 DEF ShapeOK, Still, Index
  <2>8. Program(p)'
    BY <1>1, <1>2, <2>4, <2>5, <2>6 DEF Program, SessionInv, CommandInv, Listed
  <2>9. printed' \subseteq Output /\ PrintedSuffices'
    BY <1>1, <2>5, Parts, PrintedStays DEF Whole
  <2> QED
    BY <2>5, <2>7, <2>8, <2>9, ProcessStep
<1> QED
  BY <1>3, <1>4 DEF ParseSalt

(* What is printed is what was delivered. *)
LEMMA DeliveredSuffices ==
    ASSUME IInv, NEW p \in Proc, Delivered(p), flags[p] \in Flags, request[p].rp = flags[p].rp
    PROVE  /\ OutputOf(p) \in Output /\ OutputOf(p).secret = <<OutputOf(p).cred, OutputOf(p).salt>>
           /\ \E k \in kept : k.id = OutputOf(p).cred /\ k.rp = OutputOf(p).rp /\ k.auth \in HmacSecret
<1>1. PICK k \in kept : \E s \in Salt :
             /\ k.rp = request[p].rp /\ k.auth \in HmacSecret
             /\ answer[p] = <<"secret", k.id, s, <<k.id, s>>>>
  BY DEF Delivered
<1>2. PICK s \in Salt : /\ k.rp = request[p].rp /\ k.auth \in HmacSecret
                        /\ answer[p] = <<"secret", k.id, s, <<k.id, s>>>>
  BY <1>1
<1>3. k.id \in Cred /\ flags[p].rp \in Rp
  <2>1. k \in Credential
    BY Parts, Types DEF Whole
  <2> QED
    BY <2>1 DEF Credential, Flags
<1> DEFINE c == k.id
           h == <<c, s>>
           a == <<"secret", c, s, h>>
<1>4. h \in Hmac
  BY <1>3 DEF Hmac
<1>5. a[2] = c /\ a[3] = s /\ a[4] = h
  OBVIOUS
<1>6. answer[p] = a
  BY <1>2
<1> HIDE DEF a
<1>7. OutputOf(p) = [rp |-> flags[p].rp, cred |-> c, salt |-> s, secret |-> h]
  BY <1>5, <1>6 DEF OutputOf
<1>8. h = <<c, s>> /\ c \in Cred /\ k.id = c
  BY <1>3
<1> HIDE DEF c, h
<1>9. OutputOf(p) \in Output
  BY <1>3, <1>4, <1>7, <1>8 DEF Output
<1> QED
  BY <1>2, <1>7, <1>8, <1>9

LEMMA DeriveReturnsRight ==
    ASSUME IInv, NEW p \in Proc, DeriveReturns(p)
    PROVE  Right
<1>1. /\ step[p] = "derive" /\ Leave(p) /\ Continue(p, "exit")
      /\ printed' = printed \cup (IF answer[p][1] = "secret" THEN {OutputOf(p)} ELSE {})
      /\ UNCHANGED <<listing, typed, flags, credentialID>>
      /\ ShapeOK /\ Program(p) /\ "exit" \in Steps
  BY Parts DEF Whole, DeriveReturns, Steps
<1>2. /\ DeviceOK' /\ Device!Next /\ UNCHANGED <<kept, handle>> /\ Told(p)
      /\ \A q \in Proc : q # p => request'[q] = request[q]
  BY <1>1, LeaveIs
<1>3. flags[p] \in Flags /\ request[p].rp = flags[p].rp
  BY <1>1 DEF Program, CommandInv
<1>4. step' \in [Proc -> Steps] /\ step'[p] = "exit" /\ \A q \in Proc : q # p => step'[q] = step[q]
  BY <1>1, ContinueIs
<1>5. ShapeOK' /\ \A q \in Proc : q # p => Still(q)
  BY <1>1, <1>2, <1>4 DEF ShapeOK, Still, Index
<1>6. Program(p)'
  BY <1>1, <1>2, <1>4 DEF Program, SessionInv, CommandInv, Listed
<1>7. printed' \subseteq Output /\ PrintedSuffices'
  <2>1. printed \subseteq Output /\ PrintedSuffices
    BY Parts DEF Whole
  <2>2. CASE answer[p][1] = "secret"
    <3>1. Delivered(p)
      BY <1>2, <2>2 DEF Told
    <3>2. /\ OutputOf(p) \in Output /\ OutputOf(p).secret = <<OutputOf(p).cred, OutputOf(p).salt>>
          /\ \E k \in kept : k.id = OutputOf(p).cred /\ k.rp = OutputOf(p).rp /\ k.auth \in HmacSecret
      BY <1>3, <3>1, DeliveredSuffices
    <3>3. printed' = printed \cup {OutputOf(p)}
      BY <1>1, <2>2
    <3> QED
      BY <1>2, <2>1, <3>2, <3>3 DEF PrintedSuffices
  <2>3. CASE answer[p][1] # "secret"
    <3>1. printed' = printed
      BY <1>1, <2>3
    <3> QED
      BY <1>2, <2>1, <3>1, PrintedStays
  <2> QED
    BY <2>2, <2>3
<1> QED
  BY <1>2, <1>5, <1>6, <1>7, ProcessStep

(* A program that ends forgets its handle; while a list was on the screen  *)
(* there was none.                                                         *)
LEMMA ExitRight ==
    ASSUME IInv, NEW p \in Proc, ExitCLI(p)
    PROVE  Right
<1>1. /\ Continue(p, "start")
      /\ listing' = [listing EXCEPT ![p] = NULL] /\ typed' = [typed EXCEPT ![p] = NULL]
      /\ handle' = [handle EXCEPT ![p] = NULL]
      /\ flags' = [flags EXCEPT ![p] = NULL] /\ credentialID' = [credentialID EXCEPT ![p] = NULL]
      /\ UNCHANGED <<port, kept, pc, request, cred, salt, answer, mine, printed>>
      /\ DeviceOK /\ ShapeOK /\ Program(p) /\ "start" \in Steps
  BY Parts DEF Whole, ExitCLI, Exit, Steps
<1>2. step' \in [Proc -> Steps] /\ step'[p] = "start" /\ \A q \in Proc : q # p => step'[q] = step[q]
  BY <1>1, ContinueIs
<1>3. /\ listing' = [q \in Proc |-> listing'[q]] /\ listing'[p] = NULL
      /\ \A q \in Proc : q # p => listing'[q] = listing[q]
  BY <1>1, ListingIs
<1>4. /\ typed' \in [Proc -> {NULL} \cup Index] /\ typed'[p] = NULL
      /\ \A q \in Proc : q # p => typed'[q] = typed[q]
  BY <1>1, TypedIs
<1>5. /\ flags' \in [Proc -> Flags \cup {NULL}] /\ credentialID' \in [Proc -> Cred \cup {NULL}]
      /\ \A q \in Proc : q # p => flags'[q] = flags[q] /\ credentialID'[q] = credentialID[q]
  BY <1>1 DEF ShapeOK
<1>6. /\ handle' \in [Proc -> Path \cup {NULL}] /\ port' \in [Path -> Auth \cup {NULL}] /\ handle'[p] = NULL
      /\ \A q \in Proc : q # p => handle'[q] = handle[q]
  BY <1>1, Types
<1>7. DeviceOK' /\ UNCHANGED Device!vars
  BY <1>1, <1>6, QuietKeeps
<1>8. ShapeOK' /\ \A q \in Proc : q # p => Still(q)
  BY <1>1, <1>2, <1>3, <1>4, <1>5, <1>6 DEF ShapeOK, Still
<1>9. Program(p)'
  BY <1>2, <1>3, <1>4, <1>6 DEF Program, SessionInv, CommandInv
<1>11. printed' \subseteq Output /\ PrintedSuffices'
  BY <1>1, Parts, PrintedStays DEF Whole
<1> QED
  BY <1>7, <1>8, <1>9, <1>11, ProcessStep

-----------------------------------------------------------------------------
(* The theorems. *)

LEMMA InitIInv == InitCLI => IInv /\ Device!Init
<1> SUFFICES ASSUME InitCLI PROVE IInv /\ Device!Init
  OBVIOUS
<1> USE DEF InitCLI, InitSelection, Init
<1>1. TypeOK
  BY DEF TypeOK
<1>2. \A p \in Proc : DeviceInv(p)
  BY DEF DeviceInv
<1>3. ShapeOK
  BY DEF ShapeOK, Steps
<1>4. \A p \in Proc : Program(p)
  BY DEF Program, SessionInv, CommandInv
<1>5. printed \subseteq Output /\ PrintedSuffices
  BY DEF PrintedSuffices
<1>6. IInv
  BY <1>1, <1>2, <1>3, <1>4, <1>5, WholeIsIInv DEF Whole, DeviceOK
<1>7. Device!Init
  BY DEF Device!Init, Registered, Replies
<1> QED
  BY <1>6, <1>7

LEMMA StepRight == IInv /\ [NextCLI]_<<vars, session, cli>> => Right
<1> SUFFICES ASSUME IInv, [NextCLI]_<<vars, session, cli>> PROVE Right
  OBVIOUS
<1>1. CASE UNCHANGED <<vars, session, cli>>
  BY <1>1, StutterRight
<1>2. CASE World /\ UNCHANGED <<session, cli>>
  BY <1>2, WorldRight
<1>3. ASSUME NEW p \in Proc,
             \/ \E f \in Flags : Start(p, f)
             \/ List(p) \/ OpenDevice(p) \/ Reuse(p) \/ Create(p) \/ CreateReturns(p)
             \/ ParseSalt(p) \/ DeriveReturns(p)
             \/ Choosing(p) /\ UNCHANGED cli
             \/ Operation(p) /\ UNCHANGED <<session, cli>>
             \/ ExitCLI(p)
      PROVE  Right
  BY <1>3, StartRight, ListRight, OpenDeviceRight, ReuseRight, CreateRight, CreateReturnsRight,
     ParseSaltRight, DeriveReturnsRight, ChoosingRight, OperationRight, ExitRight
<1> QED
  BY <1>1, <1>2, <1>3 DEF NextCLI

(* In every reachable state of the command the invariant holds.            *)
THEOREM Invariance == SpecCLI => []IInv
<1>1. IInv /\ [NextCLI]_<<vars, session, cli>> => IInv'
  BY StepRight DEF Right
<1> QED
  BY InitIInv, <1>1, PTL DEF SpecCLI

(* The variables keep their types: a number typed is one that could be     *)
(* meant, and every entry of a list is a device with its number            *)
(* (main.go:49-142, cli.go:28-69).                                         *)
THEOREM TypeCorrect == SpecCLI => []TypeOKCLI
<1>1. IInv => TypeOKCLI
  BY DEF IInv
<1> QED
  BY Invariance, <1>1, PTL

(* A listing keeps what the enumeration found, for any number of devices   *)
(* in any order: each allowed location once, numbered by its place, a      *)
(* broker first and the rest in the order they were found                  *)
(* (device.go:28-62).                                                      *)
THEOREM ListingStaysFaithful == SpecCLI => []ListingFaithful
<1>1. IInv => \A p \in Proc : listing[p] # NULL => Faithful(listing[p].found, listing[p].exclude, Shown(p))
  BY ListedIs DEF IInv, SessionInv
<1>2. (\A p \in Proc : listing[p] # NULL => Faithful(listing[p].found, listing[p].exclude, Shown(p)))
         => ListingFaithful
  BY Zenon DEF Faithful, ListingFaithful
<1>3. IInv => ListingFaithful
  BY <1>1, <1>2
<1> QED
  BY Invariance, <1>3, PTL

(* A call of CreateCredential or Derive that blames its arguments or the   *)
(* kind of the device has made no credential, whatever is plugged in and   *)
(* out meanwhile (hmacsecret.go:35-58, 81-105).                            *)
THEOREM RefusedIsUntouched == SpecCLI => []RefusedMeansUntouched
<1>1. IInv => RefusedMeansUntouched
  <2> SUFFICES ASSUME IInv, NEW p \in Proc,
                      answer[p] \in {<<"failed", "ErrInvalidArgument">>, <<"failed", "ErrNotFIDO2">>},
                      request[p].op # "create_derive"
               PROVE  mine[p] = NULL
    BY DEF RefusedMeansUntouched
  <2>1. <<"failed", "ErrInvalidArgument">> \in Answer /\ <<"failed", "ErrNotFIDO2">> \in Answer
    BY FailureAnswers DEF Reasons
  <2>2. answer[p] # NULL
    BY <2>1, AnswerAssumption
  <2>3. Told(p)
    BY <2>2 DEF IInv, DeviceInv
  <2> QED
    BY <2>3 DEF Told
<1> QED
  BY Invariance, <1>1, PTL

(* What a run prints is enough for another run: the credential belongs to  *)
(* the relying party of the run and is on an authenticator that can        *)
(* derive, and the secret is of the printed credential and salt            *)
(* (main.go:125-142).                                                      *)
THEOREM PrintedStaysSufficient == SpecCLI => []PrintedSuffices
<1>1. IInv => PrintedSuffices
  BY DEF IInv
<1> QED
  BY Invariance, <1>1, PTL

(* The device layer, used by the command, behaves as the contract of a     *)
(* Device says: a secret is of the credential and the salt it is returned  *)
(* with and of a credential of the relying party asked for, whatever is    *)
(* plugged in and out between the checks and the operation                 *)
(* (hmacsecret.go:35-213).                                                 *)
THEOREM Refinement == SpecCLI => ImplementsAuthenticator
<1>1. InitCLI => Device!Init
  BY InitIInv
<1>2. IInv /\ [NextCLI]_<<vars, session, cli>> => [Device!Next]_Device!vars
  BY StepRight DEF Right
<1> QED
  BY Invariance, <1>1, <1>2, PTL DEF SpecCLI, ImplementsAuthenticator, Device!Spec
=============================================================================
