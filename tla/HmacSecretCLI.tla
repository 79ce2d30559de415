--------------------------- MODULE HmacSecretCLI ---------------------------
(***************************************************************************)
(* The command hmac-secret (cmd/hmac-secret/main.go) on top of the device  *)
(* layer: a run lists the devices, takes the one with the number it was    *)
(* given, creates a credential or takes the one it was given, and prints a *)
(* credential id, a salt and the secret they give.  A later run may be     *)
(* given what an earlier one has printed.  Each process (Proc) runs the    *)
(* command or another program of DeviceSelection, again and again.         *)
(***************************************************************************)
EXTENDS DeviceSelection

(* The flags that matter to the end, with NULL for one that is not given. *)
Flags == [rp : Rp, cred : Cred \cup {NULL}, salt : GivenSalt]

Output == [rp : Rp, cred : Cred, salt : Salt, secret : Hmac]

VARIABLES
    flags,          \* per process: the flags of its run
    credentialID,   \* per process: the credential to derive from
    printed         \* what has been printed by all runs so far, with -rp-id

cli == <<flags, credentialID, printed>>

InitCLI ==
    /\ InitSelection
    /\ flags = [p \in Proc |-> NULL]
    /\ credentialID = [p \in Proc |-> NULL]
    /\ printed = {}

(* The user gives flags; a credential id he knows is one that was printed. *)
Start(p, f) ==
    /\ step[p] = "start"
    /\ f.cred # NULL => \E x \in printed : x.cred = f.cred
    /\ flags' = [flags EXCEPT ![p] = f]
    /\ Continue(p, "list")
    /\ UNCHANGED <<vars, listing, typed, credentialID, printed>>

(* With -list the run ends here, and with a -device past the list. *)
List(p) ==
    /\ step[p] = "list"
    /\ \E found \in Enumerations, exclude, listOnly \in BOOLEAN, device \in Index \ {-1} :
          LET list == ListingOf(found, exclude)
          IN  /\ listing' = [listing EXCEPT ![p] = list]
              /\ typed' = [typed EXCEPT ![p] = device]
              /\ Continue(p, IF listOnly \/ device >= Len(list.shown) THEN "exit" ELSE "open")
    /\ UNCHANGED <<vars, cli>>

(* The PIN of a device other than the broker has been typed meanwhile. *)
OpenDevice(p) ==
    /\ step[p] = "open"
    /\ OpenSelected(p, "credential")
    /\ UNCHANGED cli

(* Reusing a credential needs a salt; else one is created. *)
Reuse(p) ==
    /\ step[p] = "credential"
    /\ flags[p].cred # NULL
    /\ credentialID' = [credentialID EXCEPT ![p] = flags[p].cred]
    /\ Continue(p, IF flags[p].salt = NULL THEN "exit" ELSE "salt")
    /\ UNCHANGED <<vars, listing, typed, flags, printed>>

Create(p) ==
    /\ step[p] = "credential"
    /\ flags[p].cred = NULL
    /\ Ask(p, [op |-> "create", rp |-> flags[p].rp])
    /\ Continue(p, "create")
    /\ UNCHANGED <<listing, typed, cli>>

CreateReturns(p) ==
    /\ step[p] = "create"
    /\ Leave(p)
    /\ IF answer[p][1] = "credential"
       THEN /\ credentialID' = [credentialID EXCEPT ![p] = answer[p][2]]
            /\ Continue(p, "salt")
       ELSE Continue(p, "exit") /\ UNCHANGED credentialID
    /\ UNCHANGED <<listing, typed, flags, printed>>

(* ParseSalt: a random salt if none is given, an error for a malformed one *)
(* (and the credential made for it is forgotten).                          *)
ParseSalt(p) ==
    /\ step[p] = "salt"
    /\ \/ /\ flags[p].salt = ShortSalt
          /\ Continue(p, "exit")
          /\ UNCHANGED vars
       \/ /\ flags[p].salt # ShortSalt
          /\ \E s \in IF flags[p].salt = NULL THEN Salt ELSE {flags[p].salt} :
                Ask(p, [op |-> "derive", rp |-> flags[p].rp, cred |-> credentialID[p],
                        salt |-> s, presence |-> TRUE])
          /\ Continue(p, "derive")
    /\ UNCHANGED <<listing, typed, cli>>

(* Mutant: the salt printed is the flag's, given or not. *)
OutputOfFlag(p) ==
    [rp |-> flags[p].rp, cred |-> answer[p][2], salt |-> flags[p].salt, secret |-> answer[p][4]]

(* Mutant: a salt that was not given is drawn again when it is printed. *)
OutputOfNewSalt(p) ==
    [rp |-> flags[p].rp, cred |-> answer[p][2], secret |-> answer[p][4],
     salt |-> IF flags[p].salt = NULL THEN CHOOSE s \in Salt : TRUE ELSE answer[p][3]]

OutputOf(p) ==
    [rp |-> flags[p].rp, cred |-> answer[p][2], salt |-> answer[p][3], secret |-> answer[p][4]]

DeriveReturns(p) ==
    /\ step[p] = "derive"
    /\ Leave(p)
    /\ printed' = printed \cup (IF answer[p][1] = "secret" THEN {OutputOf(p)} ELSE {})
    /\ Continue(p, "exit")
    /\ UNCHANGED <<listing, typed, flags, credentialID>>

ExitCLI(p) ==
    /\ Exit(p)
    /\ flags' = [flags EXCEPT ![p] = NULL]
    /\ credentialID' = [credentialID EXCEPT ![p] = NULL]
    /\ UNCHANGED printed

NextCLI ==
    \/ World /\ UNCHANGED <<session, cli>>
    \/ \E p \in Proc :
          \/ \E f \in Flags : Start(p, f)
          \/ List(p) \/ OpenDevice(p) \/ Reuse(p) \/ Create(p) \/ CreateReturns(p)
          \/ ParseSalt(p) \/ DeriveReturns(p)
          \/ Choosing(p) /\ UNCHANGED cli
          \/ Operation(p) /\ UNCHANGED <<session, cli>>
          \/ ExitCLI(p)

SpecCLI == InitCLI /\ [][NextCLI]_<<vars, session, cli>>

-----------------------------------------------------------------------------

TypeOKCLI ==
    /\ TypeOKSelection
    /\ step \in [Proc -> {"start", "choose", "select", "use", "list", "open", "credential",
                          "create", "salt", "derive", "exit"}]
    /\ flags \in [Proc -> Flags \cup {NULL}]
    /\ credentialID \in [Proc -> Cred \cup {NULL}]
    /\ printed \subseteq Output

(* What a run prints, with its -rp-id, is enough for another run: the      *)
(* credential belongs to that relying party and is on an authenticator     *)
(* that can derive, and the secret is of the printed credential and salt   *)
(* (main.go:125-142).                                                      *)
PrintedSuffices ==
    \A x \in printed :
       /\ x.secret = <<x.cred, x.salt>>
       /\ \E k \in kept : k.id = x.cred /\ k.rp = x.rp /\ k.auth \in HmacSecret
=============================================================================
