--------------------------- MODULE PebbleBackend ---------------------------
(***************************************************************************)
(* pkg/store/pebble/pebble.go: one handle on one Pebble database, whose    *)
(* directory lock keeps other processes out.  The database is one map from *)
(* keys to values: plain records, the header and the envelopes share it.   *)
(* A writer takes Store.mu, reads the key, and writes it; readers do not   *)
(* take the mutex.  Each call of the Pebble library is atomic, an iterator *)
(* reads a snapshot, and a synchronous write is on disk when it returns.   *)
(*                                                                         *)
(* Keys are byte strings, here sequences whose elements stand for runs of  *)
(* bytes; the runs that begin with the NUL byte are named.                 *)
(***************************************************************************)
EXTENDS Integers, Sequences

CONSTANTS
    Proc,           \* goroutines
    Alias,          \* aliases, trimmed and valid, as sequences
    Blob, Revision, NULL,
    Uses            \* what a program may ask for: a set of sets of requests

EncryptionHeaderKey == <<"NUL hmacsecret/", "header">>
EnvelopePrefix == <<"NUL hmacsecret/", "record/">>
EnvelopeKey(alias) == EnvelopePrefix \o alias

HasPrefix(k, prefix) == Len(k) >= Len(prefix) /\ SubSeq(k, 1, Len(prefix)) = prefix

(* store.ValidateAlias refuses the empty alias only.                       *)
ASSUME AliasAssumption == Alias \subseteq Seq(STRING) \ {<<>>}

(* What it does not refuse: an alias that is a key of the encrypted store, *)
(* whose plain record would take the place of the header or an envelope.   *)
InternalKey(k) == k = EncryptionHeaderKey \/ HasPrefix(k, EnvelopePrefix)
NoInternalAlias == \A a \in Alias : ~InternalKey(a)

VARIABLES
    db,             \* key -> value, for the keys that are present
    mu,             \* the goroutine that holds Store.mu
    handle,         \* "open", or "nil" after Close
    use,            \* the requests of the program that has the database
    pc, request, answer

vars == <<db, mu, handle, use, pc, request, answer>>

KeyOf(row) ==
    CASE row.space = "header" -> EncryptionHeaderKey
      [] row.space = "envelope" -> EnvelopeKey(row.alias)
      [] row.space = "plain" -> row.alias

Rows == [space : {"plain", "envelope"}, alias : Alias] \cup {[space |-> "header", alias |-> NULL]}
Keys == {KeyOf(r) : r \in Rows}
Table == [r \in Rows |-> db[KeyOf(r)]]

B == INSTANCE EnvelopeBackend WITH table <- Table

ASSUME UsesAssumption == \A U \in Uses : U \subseteq B!Request
ASSUME NullAssumption ==
    NULL \notin Proc \cup B!Value \cup B!Request
                \cup {<<"exists">>, <<"not found">>, <<"not initialized">>, <<"conflict">>}

Init ==
    /\ db = [k \in Keys |-> NULL]
    /\ mu = NULL
    /\ handle = "open"
    /\ use \in Uses
    /\ pc = [p \in Proc |-> "idle"]
    /\ request = [p \in Proc |-> NULL]
    /\ answer = [p \in Proc |-> NULL]

Ask(p) ==
    /\ pc[p] = "idle"
    /\ \E q \in use :
          /\ request' = [request EXCEPT ![p] = q]
          /\ pc' = [pc EXCEPT ![p] = IF q.op \in {"read", "list"} THEN q.op ELSE "lock"]
    /\ UNCHANGED <<db, mu, handle, use, answer>>

At(p, here) == pc[p] = here /\ handle = "open"

Tell(p, told) ==
    /\ answer' = [answer EXCEPT ![p] = told]
    /\ pc' = [pc EXCEPT ![p] = "return"]

(* Mutant: the check is made without the mutex. *)
LockNot(p) ==
    /\ At(p, "lock")
    /\ pc' = [pc EXCEPT ![p] = "check"]
    /\ UNCHANGED <<db, mu, handle, use, request, answer>>

Lock(p) ==
    /\ At(p, "lock")
    /\ mu = NULL
    /\ mu' = p
    /\ pc' = [pc EXCEPT ![p] = "check"]
    /\ UNCHANGED <<db, handle, use, request, answer>>

(* db.Get under the mutex: the write is refused, the read fails, or the    *)
(* write goes ahead.                                                       *)
CheckKey(p, refusal) ==
    /\ At(p, "check")
    /\ \/ refusal = NULL /\ pc' = [pc EXCEPT ![p] = "apply"] /\ UNCHANGED <<mu, answer>>
       \/ \E told \in {refusal, <<"failed">>} \ {NULL} : Tell(p, told) /\ mu' = NULL
    /\ UNCHANGED <<db, handle, use, request>>

(* db.Set or db.Delete; an error may be reported with or without effect.   *)
WriteKey(p, key, v) ==
    LET written == [db EXCEPT ![key] = v] IN
    /\ At(p, "apply")
    /\ mu' = NULL
    /\ \/ db' = written /\ Tell(p, <<"ok">>)
       \/ db' \in {db, written} /\ Tell(p, <<"failed">>)
    /\ UNCHANGED <<handle, use, request>>

Asks(p, op, space) == request[p] # NULL /\ request[p].op = op /\ request[p].row.space = space

InsertInto(p, space) ==
    LET key == KeyOf(request[p].row) IN
    /\ Asks(p, "insert", space)
    /\ \/ CheckKey(p, IF db[key] # NULL THEN <<"exists">> ELSE NULL)
       \/ WriteKey(p, key, request[p].value)

RemoveFrom(p, space) ==
    LET key == KeyOf(request[p].row) IN
    /\ Asks(p, "remove", space)
    /\ \/ CheckKey(p, IF db[key] = NULL THEN <<"not found">> ELSE NULL)
       \/ WriteKey(p, key, NULL)

ReadFrom(p, space) ==
    /\ Asks(p, "read", space)
    /\ At(p, "read")
    /\ \E told \in {<<"row", db[KeyOf(request[p].row)]>>, <<"failed">>} : Tell(p, told)
    /\ UNCHANGED <<db, mu, handle, use, request>>

-----------------------------------------------------------------------------
(***************************************************************************)
(* The operations.  Has and HasEnvelope read a key as Get and GetEnvelope  *)
(* do, and are not listed again.                                           *)
(***************************************************************************)
Put(p) == InsertInto(p, "plain")
PutEnvelope(p) == InsertInto(p, "envelope")
CreateHeader(p) == InsertInto(p, "header")

Get(p) == ReadFrom(p, "plain")
GetEnvelope(p) == ReadFrom(p, "envelope")
LoadHeader(p) == ReadFrom(p, "header")

Delete(p) == RemoveFrom(p, "plain")

(* Mutant: a deletion leaves an empty value behind. *)
DeleteEnvelopeTombstone(p) ==
    LET key == KeyOf(request[p].row) IN
    /\ Asks(p, "remove", "envelope")
    /\ \/ CheckKey(p, IF db[key] = NULL THEN <<"not found">> ELSE NULL)
       \/ WriteKey(p, key, <<>>)

DeleteEnvelope(p) == RemoveFrom(p, "envelope")

CompareAndSwapHeader(p) ==
    LET q == request[p]
        current == db[EncryptionHeaderKey]
    IN
    /\ q # NULL /\ q.op = "swap"
    /\ \/ CheckKey(p, CASE current = NULL -> <<"not initialized">>
                        [] current # NULL -> IF current.rev # q.expected THEN <<"conflict">> ELSE NULL)
       \/ WriteKey(p, EncryptionHeaderKey, q.value)

Present == {k \in Keys : db[k] # NULL}

ListKeys(p, space, names) ==
    /\ At(p, "list")
    /\ request[p].space = space
    /\ \E told \in {<<"rows", names>>, <<"failed">>} : Tell(p, told)
    /\ UNCHANGED <<db, mu, handle, use, request>>

(* Every key of the database. *)
List(p) == ListKeys(p, "plain", Present)

(* The keys from envelopePrefix up to the next string that does not have   *)
(* it, without the prefix.                                                 *)
ListEnvelopes(p) ==
    ListKeys(p, "envelope", {SubSeq(k, Len(EnvelopePrefix) + 1, Len(k)) :
                                k \in {e \in Present : HasPrefix(e, EnvelopePrefix)}})

Return(p) ==
    /\ pc[p] = "return"
    /\ pc' = [pc EXCEPT ![p] = "idle"]
    /\ request' = [request EXCEPT ![p] = NULL]
    /\ answer' = [answer EXCEPT ![p] = NULL]
    /\ UNCHANGED <<db, mu, handle, use>>

(* Close takes no mutex; closing again is a no-op. *)
Close(p) ==
    /\ pc[p] = "idle"
    /\ handle' = "nil"
    /\ UNCHANGED <<db, mu, use, pc, request, answer>>

(* The process dies and the database is opened again: at any time, and     *)
(* when a call meets the closed handle and panics.                         *)
Crash ==
    /\ mu' = NULL
    /\ handle' = "open"
    /\ pc' = [p \in Proc |-> "idle"]
    /\ request' = [p \in Proc |-> NULL]
    /\ answer' = [p \in Proc |-> NULL]
    /\ UNCHANGED <<db, use>>

Step(p) ==
    \/ Lock(p) \/ Put(p) \/ PutEnvelope(p) \/ CreateHeader(p) \/ CompareAndSwapHeader(p)
    \/ Get(p) \/ GetEnvelope(p) \/ LoadHeader(p) \/ Delete(p) \/ DeleteEnvelope(p)
    \/ List(p) \/ ListEnvelopes(p) \/ Return(p)

Next == Crash \/ \E p \in Proc : Ask(p) \/ Step(p) \/ Close(p)

Spec == Init /\ [][Next]_vars

-----------------------------------------------------------------------------
(***************************************************************************)
(* Properties.                                                             *)
(***************************************************************************)
(* The types of the database, of the handle and its mutex, and of the      *)
(* requests under way.                                                     *)
TypeOK ==
    /\ db \in [Keys -> B!Value \cup {NULL}]
    /\ mu \in Proc \cup {NULL}
    /\ handle \in {"open", "nil"}
    /\ pc \in [Proc -> {"idle", "lock", "check", "apply", "read", "list", "return"}]
    /\ use \in Uses
    /\ request \in [Proc -> use \cup {NULL}]

(* A program that lists plain records keeps nothing else in the database:  *)
(* cmd/secrets, whose service lists them (secrets.go:253), opens the       *)
(* database as a store.Store alone (main.go:179-188).                      *)
Separated(U) ==
    (\E q \in U : q.op = "list" /\ q.space = "plain") =>
        \A q \in U : q.op = "insert" => q.row.space = "plain"

(* Every operation takes effect at one moment, with the answer of that     *)
(* moment: the atomic backend that the encrypted store relies on.  Check   *)
(* and write are two calls of the database, and readers are not locked out *)
(* in between (pebble.go:60-85, 202-216, 253-275).  Of programs whose      *)
(* aliases are no keys of the encrypted store.                             *)
ImplementsBackend == B!Spec

(* "List returns all aliases" (lib/store/store.go:41).                     *)
ListReturnsAliases ==
    \A p \in Proc : answer[p] # NULL /\ answer[p][1] = "rows" => answer[p][2] \subseteq Alias
=============================================================================
