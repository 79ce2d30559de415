--------------------------- MODULE SqliteBackend ---------------------------
(***************************************************************************)
(* pkg/store/sqlite/sqlite.go: handles of any processes on one SQLite      *)
(* database with a table each for records, the header and the envelopes.   *)
(* There is no mutex: every operation is one SQL statement, which SQLite   *)
(* makes atomic, but a compare-and-swap that updated no row asks with a    *)
(* second statement why.                                                   *)
(***************************************************************************)
EXTENDS Integers

CONSTANTS
    Proc,           \* goroutines, of any process
    Alias, Blob, Revision, NULL,
    Asked           \* the requests the clients make

VARIABLES
    credentials,            \* alias -> value
    encryptionHeader,       \* the single row: revision column and JSON body
    encryptedCredentials,   \* alias -> value
    pc, request, answer

vars == <<credentials, encryptionHeader, encryptedCredentials, pc, request, answer>>
tables == <<credentials, encryptionHeader, encryptedCredentials>>

Rows == [space : {"plain", "envelope"}, alias : Alias] \cup {[space |-> "header", alias |-> NULL]}

Content(row) ==
    CASE row.space = "plain" -> credentials[row.alias]
      [] row.space = "envelope" -> encryptedCredentials[row.alias]
      [] row.space = "header" -> IF encryptionHeader = NULL THEN NULL ELSE encryptionHeader.body

Table == [r \in Rows |-> Content(r)]

B == INSTANCE EnvelopeBackend WITH table <- Table

ASSUME RevisionAssumption == Revision \subseteq Nat
ASSUME NullAssumption ==
    NULL \notin Revision \cup B!Value \cup Asked \cup [revision : Revision, body : B!Value]

(* A header has a revision and is never removed; a swap writes a later one *)
(* than it expects (encrypted.go:200-205).                                 *)
ASSUME AskedAssumption ==
    /\ Asked \subseteq B!Request
    /\ \A q \in Asked :
          /\ q.op = "insert" /\ q.row.space = "header" => q.value.rev \in Revision
          /\ q.op = "remove" => q.row.space # "header"
          /\ q.op = "swap" => q.value.rev \in Revision /\ q.value.rev > q.expected

Init ==
    /\ credentials = [a \in Alias |-> NULL]
    /\ encryptionHeader = NULL
    /\ encryptedCredentials = [a \in Alias |-> NULL]
    /\ pc = [p \in Proc |-> "idle"]
    /\ request = [p \in Proc |-> NULL]
    /\ answer = [p \in Proc |-> NULL]

(* The only caller of CompareAndSwapHeader expects the revision of a       *)
(* header it has loaded, and writes the next one (encrypted.go:187-205).   *)
Ask(p) ==
    /\ pc[p] = "idle"
    /\ \E q \in Asked :
          /\ q.op = "swap" => encryptionHeader # NULL /\ q.expected <= encryptionHeader.revision
          /\ request' = [request EXCEPT ![p] = q]
    /\ pc' = [pc EXCEPT ![p] = "statement"]
    /\ UNCHANGED <<tables, answer>>

Tell(p, told) ==
    /\ answer' = [answer EXCEPT ![p] = told]
    /\ pc' = [pc EXCEPT ![p] = "return"]

(* The row of a plain record, an envelope, or the header, set to value v.  *)
Write(row, v) ==
    /\ credentials' = IF row.space = "plain" THEN [credentials EXCEPT ![row.alias] = v] ELSE credentials
    /\ encryptedCredentials' = IF row.space = "envelope"
                               THEN [encryptedCredentials EXCEPT ![row.alias] = v]
                               ELSE encryptedCredentials
    /\ encryptionHeader' = IF row.space # "header" THEN encryptionHeader
                           ELSE [revision |-> v.rev, body |-> v]

AtStatement(p, op) == pc[p] = "statement" /\ request[p].op = op

(* INSERT, refused by the primary key. *)
InsertInto(p, space) ==
    LET q == request[p] IN
    /\ AtStatement(p, "insert")
    /\ q.row.space = space
    /\ \/ Content(q.row) # NULL /\ Tell(p, <<"exists">>) /\ UNCHANGED tables
       \/ Content(q.row) = NULL /\ Write(q.row, q.value) /\ (Tell(p, <<"ok">>) \/ Tell(p, <<"failed">>))
    /\ UNCHANGED request

(* DELETE, and the number of rows. *)
RemoveFrom(p, space) ==
    LET q == request[p] IN
    /\ AtStatement(p, "remove")
    /\ q.row.space = space
    /\ \/ Content(q.row) = NULL /\ Tell(p, <<"not found">>) /\ UNCHANGED tables
       \/ Content(q.row) # NULL /\ Write(q.row, NULL) /\ (Tell(p, <<"ok">>) \/ Tell(p, <<"failed">>))
    /\ UNCHANGED request

SelectFrom(p, space, result) ==
    /\ AtStatement(p, "read")
    /\ request[p].row.space = space
    /\ Tell(p, result)
    /\ UNCHANGED <<tables, request>>

ListOf(p, space, rows) ==
    /\ AtStatement(p, "list")
    /\ request[p].space = space
    /\ Tell(p, <<"rows", {a \in Alias : rows[a] # NULL}>>)
    /\ UNCHANGED <<tables, request>>

-----------------------------------------------------------------------------
(***************************************************************************)
(* The operations.  Has and HasEnvelope count the row that Get and         *)
(* GetEnvelope select, and are not listed again.                           *)
(***************************************************************************)
Put(p) == InsertInto(p, "plain")
PutEnvelope(p) == InsertInto(p, "envelope")
CreateHeader(p) == InsertInto(p, "header")

Get(p) == SelectFrom(p, "plain", <<"row", Content(request[p].row)>>)
GetEnvelope(p) == SelectFrom(p, "envelope", <<"row", Content(request[p].row)>>)

(* A row whose column and body disagree is refused. *)
LoadHeader(p) ==
    LET torn == encryptionHeader # NULL /\ encryptionHeader.revision # encryptionHeader.body.rev
    IN  SelectFrom(p, "header", IF torn THEN <<"invalid record">>
                                ELSE <<"row", Content(request[p].row)>>)

Delete(p) == RemoveFrom(p, "plain")
DeleteEnvelope(p) == RemoveFrom(p, "envelope")

List(p) == ListOf(p, "plain", credentials)
ListEnvelopes(p) == ListOf(p, "envelope", encryptedCredentials)

(* Mutant: the revision column is not updated. *)
SwapBodyOnly(p) ==
    LET q == request[p]
        matches == encryptionHeader # NULL /\ encryptionHeader.revision = q.expected
    IN
    /\ AtStatement(p, "swap")
    /\ \/ /\ matches
          /\ encryptionHeader' = [encryptionHeader EXCEPT !.body = q.value]
          /\ UNCHANGED <<credentials, encryptedCredentials>>
          /\ Tell(p, <<"ok">>)
       \/ /\ ~matches
          /\ pc' = [pc EXCEPT ![p] = "count"]
          /\ UNCHANGED <<tables, answer>>
    /\ UNCHANGED request

(* Mutant: the UPDATE stores the body in the revision column too. *)
SwapBodyTwice(p) ==
    LET q == request[p]
        matches == encryptionHeader # NULL /\ encryptionHeader.revision = q.expected
    IN
    /\ AtStatement(p, "swap")
    /\ matches
    /\ encryptionHeader' = [revision |-> q.value.blob, body |-> q.value]
    /\ Tell(p, <<"ok">>)
    /\ UNCHANGED <<credentials, encryptedCredentials, request>>

(* UPDATE ... WHERE revision = expected. *)
CompareAndSwapHeader(p) ==
    LET q == request[p]
        matches == encryptionHeader # NULL /\ encryptionHeader.revision = q.expected
    IN
    /\ AtStatement(p, "swap")
    /\ \/ /\ matches
          /\ Write([space |-> "header", alias |-> NULL], q.value)
          /\ Tell(p, <<"ok">>) \/ Tell(p, <<"failed">>)
       \/ /\ ~matches
          /\ pc' = [pc EXCEPT ![p] = "count"]
          /\ UNCHANGED <<tables, answer>>
    /\ UNCHANGED request

(* SELECT COUNT after an UPDATE of no row. *)
Count(p) ==
    /\ pc[p] = "count"
    /\ Tell(p, IF encryptionHeader = NULL THEN <<"not initialized">> ELSE <<"conflict">>)
    /\ UNCHANGED <<tables, request>>

(* Busy database, cancelled context, closed handle: nothing has changed.   *)
Fails(p) ==
    /\ pc[p] \in {"statement", "count"}
    /\ Tell(p, <<"failed">>)
    /\ UNCHANGED <<tables, request>>

(* The call returns, or the goroutine dies with its process. *)
Leave(p) ==
    /\ pc[p] # "idle"
    /\ pc' = [pc EXCEPT ![p] = "idle"]
    /\ request' = [request EXCEPT ![p] = NULL]
    /\ answer' = [answer EXCEPT ![p] = NULL]
    /\ UNCHANGED tables

Next == \E p \in Proc :
    \/ Ask(p) \/ Put(p) \/ PutEnvelope(p) \/ CreateHeader(p) \/ Delete(p) \/ DeleteEnvelope(p)
    \/ Get(p) \/ GetEnvelope(p) \/ LoadHeader(p) \/ CompareAndSwapHeader(p) \/ Count(p)
    \/ List(p) \/ ListEnvelopes(p) \/ Fails(p) \/ Leave(p)

Spec == Init /\ [][Next]_vars

-----------------------------------------------------------------------------
(***************************************************************************)
(* Properties.                                                             *)
(***************************************************************************)
(* The types of the tables, and of the requests under way.                 *)
TypeOK ==
    /\ credentials \in [Alias -> B!Value \cup {NULL}]
    /\ encryptedCredentials \in [Alias -> B!Value \cup {NULL}]
    /\ encryptionHeader \in [revision : Revision, body : B!Value] \cup {NULL}
    /\ pc \in [Proc -> {"idle", "statement", "count", "return"}]
    /\ request \in [Proc -> Asked \cup {NULL}]

(* Every operation takes effect at one moment, with the answer of that     *)
(* moment, across processes: LoadHeader never refuses a header of which    *)
(* column and body disagree, and what the SELECT after a failed UPDATE     *)
(* says is true when it runs (sqlite.go:205-214, 226-256).                 *)
ImplementsBackend == B!Spec
=============================================================================
