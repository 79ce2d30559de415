-------------------------- MODULE EnvelopeBackend --------------------------
(***************************************************************************)
(* What a backend of lib/store promises: one table whose operations take   *)
(* effect at one moment between call and return, with the answer of that   *)
(* moment.  store.Store uses the plain rows, store.EnvelopeBackend the     *)
(* header and the envelope rows.                                           *)
(***************************************************************************)
EXTENDS Integers

CONSTANTS
    Proc,           \* callers
    Alias,
    Blob,           \* contents of a row or of a header
    Revision,       \* revisions of headers
    NULL

(* The rows of the table: of Put and Get, of PutEnvelope and GetEnvelope,  *)
(* and the one of CreateHeader and LoadHeader.                             *)
HeaderRow == [space |-> "header", alias |-> NULL]
Row == [space : {"plain", "envelope"}, alias : Alias] \cup {HeaderRow}

Value == [rev : Revision \cup {NULL}, blob : Blob]

Request ==
    [op : {"insert"}, row : Row, value : Value] \cup
    [op : {"swap"}, expected : Revision, value : Value] \cup
    [op : {"remove", "read"}, row : Row] \cup
    [op : {"list"}, space : {"plain", "envelope"}]

VARIABLES
    table,          \* row -> value, NULL where there is none
    request,        \* per caller: what it asked for, NULL between calls
    answer          \* per caller: the answer, NULL while there is none

vars == <<table, request, answer>>

Init ==
    /\ table = [r \in Row |-> NULL]
    /\ request = [p \in Proc |-> NULL]
    /\ answer = [p \in Proc |-> NULL]

(* A failed operation may have taken effect. *)
Told(result) == {result, <<"failed">>}

Insert(q, told) ==
    \/ table[q.row] # NULL /\ told = <<"exists">> /\ UNCHANGED table
    \/ /\ table[q.row] = NULL
       /\ told \in Told(<<"ok">>)
       /\ table' = [table EXCEPT ![q.row] = q.value]

Swap(q, told) ==
    \/ table[HeaderRow] = NULL /\ told = <<"not initialized">> /\ UNCHANGED table
    \/ /\ table[HeaderRow] # NULL
       /\ table[HeaderRow].rev # q.expected
       /\ told = <<"conflict">>
       /\ UNCHANGED table
    \/ /\ table[HeaderRow] # NULL
       /\ table[HeaderRow].rev = q.expected
       /\ told \in Told(<<"ok">>)
       /\ table' = [table EXCEPT ![HeaderRow] = q.value]

Remove(q, told) ==
    \/ table[q.row] = NULL /\ told = <<"not found">> /\ UNCHANGED table
    \/ /\ table[q.row] # NULL
       /\ told \in Told(<<"ok">>)
       /\ table' = [table EXCEPT ![q.row] = NULL]

Read(q, told) == told = <<"row", table[q.row]>> /\ UNCHANGED table

List(q, told) ==
    /\ told = <<"rows", {r.alias : r \in {s \in Row : s.space = q.space /\ table[s] # NULL}}>>
    /\ UNCHANGED table

Effect(q, told) ==
    \/ told = <<"failed">> /\ UNCHANGED table
    \/ q.op = "insert" /\ Insert(q, told)
    \/ q.op = "swap" /\ Swap(q, told)
    \/ q.op = "remove" /\ Remove(q, told)
    \/ q.op = "read" /\ Read(q, told)
    \/ q.op = "list" /\ List(q, told)

Ask(p) ==
    /\ request[p] = NULL
    /\ request'[p] \in Request
    /\ request' = [request EXCEPT ![p] = request'[p]]
    /\ UNCHANGED <<table, answer>>

Perform(p) ==
    /\ request[p] # NULL
    /\ answer[p] = NULL
    /\ Effect(request[p], answer'[p])
    /\ answer' = [answer EXCEPT ![p] = answer'[p]]
    /\ UNCHANGED request

(* Callers return with their answers, or die without one. *)
Leave(S) ==
    /\ request' = [p \in Proc |-> IF p \in S THEN NULL ELSE request[p]]
    /\ answer' = [p \in Proc |-> IF p \in S THEN NULL ELSE answer[p]]
    /\ UNCHANGED table

Next ==
    \/ \E p \in Proc : Ask(p) \/ Perform(p)
    \/ \E S \in SUBSET Proc : Leave(S)

Spec == Init /\ [][Next]_vars
=============================================================================
