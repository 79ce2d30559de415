------------------------ MODULE SqliteBackendProofs ------------------------
(***************************************************************************)
(* The SQLite backend keeps its types and is an atomic backend, for any    *)
(* number of clients, aliases and revisions.                               *)
(***************************************************************************)
EXTENDS SqliteBackend, TLAPS

-----------------------------------------------------------------------------
(* The inductive invariant. *)

(* The revision column is the revision of the body. *)
HeaderInv == encryptionHeader # NULL => encryptionHeader.revision = encryptionHeader.body.rev

(* The header that a swap expects has been there, and revisions only grow: *)
(* a swap that has found another revision will not find its own again.     *)
SwapInv(p) ==
    request[p].op = "swap" =>
        /\ pc[p] \in {"statement", "count"} =>
              encryptionHeader # NULL /\ request[p].expected <= encryptionHeader.revision
        /\ pc[p] = "count" => request[p].expected < encryptionHeader.revision

CallInv(p) ==
    /\ pc[p] = "idle" => request[p] = NULL
    /\ pc[p] # "idle" => request[p] \in Asked
    /\ pc[p] # "return" => answer[p] = NULL
    /\ pc[p] = "count" => request[p].op = "swap"
    /\ pc[p] \in {"statement", "count"} => SwapInv(p)

IInv ==
    /\ TypeOK
    /\ answer = [p \in Proc |-> answer[p]]
    /\ HeaderInv
    /\ \A p \in Proc : CallInv(p)

-----------------------------------------------------------------------------
(* Statements on the tables. *)

(* A header stays, and its revision does not fall. *)
HeaderGrows ==
    encryptionHeader # NULL =>
        encryptionHeader' # NULL /\ encryptionHeader.revision <= encryptionHeader'.revision

Tables ==
    /\ credentials \in [Alias -> B!Value \cup {NULL}]
    /\ encryptedCredentials \in [Alias -> B!Value \cup {NULL}]
    /\ encryptionHeader \in [revision : Revision, body : B!Value] \cup {NULL}
    /\ HeaderInv

LEMMA RowsAreRows == B!Row = Rows /\ B!HeaderRow \in Rows /\ B!HeaderRow.space = "header"
BY DEF B!Row, B!HeaderRow, Rows

LEMMA RequestShapes ==
    ASSUME NEW q \in Asked
    PROVE  /\ q.op \in {"insert", "swap", "remove", "read", "list"}
           /\ q.op = "insert" => /\ q.row \in Rows /\ q.value \in B!Value
                                 /\ q.row.space = "header" => q.value.rev \in Revision
           /\ q.op = "swap" => /\ q.expected \in Revision /\ q.value \in B!Value
                               /\ q.value.rev \in Revision /\ q.value.rev > q.expected
           /\ q.op = "remove" => q.row \in Rows /\ q.row.space # "header"
           /\ q.op = "read" => q.row \in Rows
           /\ q.op = "list" => q.space \in {"plain", "envelope"}
BY AskedAssumption, RowsAreRows DEF B!Request

LEMMA ContentIs ==
    /\ \A r \in Rows :
          /\ r.space = "plain" => Content(r) = credentials[r.alias]
          /\ r.space = "envelope" => Content(r) = encryptedCredentials[r.alias]
          /\ r.space = "header" =>
                Content(r) = IF encryptionHeader = NULL THEN NULL ELSE encryptionHeader.body
    /\ \A r \in Rows :
          /\ r.space = "plain" => Content(r)' = credentials'[r.alias]
          /\ r.space = "envelope" => Content(r)' = encryptedCredentials'[r.alias]
          /\ r.space = "header" =>
                Content(r)' = IF encryptionHeader' = NULL THEN NULL ELSE encryptionHeader'.body
BY Zenon DEF Content

LEMMA HeaderUntouched ==
    ASSUME IInv, UNCHANGED encryptionHeader
    PROVE  HeaderInv' /\ HeaderGrows /\ encryptionHeader' \in [revision : Revision, body : B!Value] \cup {NULL}
<1>1. /\ encryptionHeader \in [revision : Revision, body : B!Value] \cup {NULL}
      /\ HeaderInv /\ encryptionHeader' = encryptionHeader
  BY DEF IInv, TypeOK
<1>2. ASSUME encryptionHeader # NULL PROVE encryptionHeader.revision <= encryptionHeader.revision
  <2>1. encryptionHeader.revision \in Nat
    BY <1>1, <1>2, RevisionAssumption
  <2> QED
    BY <2>1
<1>3. HeaderGrows
  BY <1>1, <1>2 DEF HeaderGrows
<1>4. HeaderInv'
  BY <1>1 DEF HeaderInv
<1> QED
  BY <1>1, <1>3, <1>4

(* What Write does to the table of the contract: one row changes. *)
LEMMA WriteRow ==
    ASSUME IInv, NEW row \in Rows, NEW v \in B!Value \cup {NULL}, Write(row, v),
           row.space = "header" =>
              /\ v \in B!Value /\ v.rev \in Revision
              /\ encryptionHeader # NULL => encryptionHeader.revision <= v.rev
    PROVE  Tables' /\ HeaderGrows /\ Table' = [Table EXCEPT ![row] = v]
<1>1. /\ credentials \in [Alias -> B!Value \cup {NULL}]
      /\ encryptedCredentials \in [Alias -> B!Value \cup {NULL}]
      /\ encryptionHeader \in [revision : Revision, body : B!Value] \cup {NULL}
      /\ HeaderInv
  BY DEF IInv, TypeOK
<1>2. CASE row.space = "plain"
  <2>1. row.alias \in Alias
    BY <1>2 DEF Rows
  <2>2. /\ credentials' = [credentials EXCEPT ![row.alias] = v]
        /\ UNCHANGED <<encryptedCredentials, encryptionHeader>>
    BY <1>2 DEF Write
  <2>3. Tables' /\ HeaderGrows
    BY <1>1, <2>1, <2>2, HeaderUntouched DEF Tables
  <2>4. ASSUME NEW r \in Rows
        PROVE  Content(r)' = IF r = row THEN v ELSE Content(r)
    BY <1>1, <1>2, <2>1, <2>2, ContentIs DEF Rows
  <2> QED
    BY <2>3, <2>4 DEF Table
<1>3. CASE row.space = "envelope"
  <2>1. row.alias \in Alias
    BY <1>3 DEF Rows
  <2>2. /\ encryptedCredentials' = [encryptedCredentials EXCEPT ![row.alias] = v]
        /\ UNCHANGED <<credentials, encryptionHeader>>
    BY <1>3 DEF Write
  <2>3. Tables' /\ HeaderGrows
    BY <1>1, <2>1, <2>2, HeaderUntouched DEF Tables
  <2>4. ASSUME NEW r \in Rows
        PROVE  Content(r)' = IF r = row THEN v ELSE Content(r)
    BY <1>1, <1>3, <2>1, <2>2, ContentIs DEF Rows
  <2> QED
    BY <2>3, <2>4 DEF Table
<1>4. CASE row.space = "header"
  <2>1. /\ encryptionHeader' = [revision |-> v.rev, body |-> v]
        /\ UNCHANGED <<credentials, encryptedCredentials>>
    BY <1>4 DEF Write
  <2>2. encryptionHeader' \in [revision : Revision, body : B!Value] /\ encryptionHeader' # NULL
    BY <1>4, <2>1, NullAssumption
  <2>3. Tables' /\ HeaderGrows
    BY <1>1, <1>4, <2>1, <2>2 DEF Tables, HeaderInv, HeaderGrows
  <2>4. \A r \in Rows : r.space = "header" => r = row
    BY <1>4 DEF Rows
  <2>5. ASSUME NEW r \in Rows
        PROVE  Content(r)' = IF r = row THEN v ELSE Content(r)
    BY <1>4, <2>1, <2>2, <2>4, ContentIs DEF Rows
  <2> QED
    BY <2>3, <2>5 DEF Table
<1> QED
  BY <1>2, <1>3, <1>4 DEF Rows

LEMMA SameTables ==
    ASSUME IInv, UNCHANGED tables
    PROVE  Tables' /\ HeaderGrows /\ UNCHANGED Table
<1>1. Tables' /\ HeaderGrows
  BY RevisionAssumption DEF tables, IInv, TypeOK, Tables, HeaderInv, HeaderGrows
<1>2. \A r : Content(r)' = Content(r)
  BY DEF tables, Content
<1> QED
  BY <1>1, <1>2 DEF Table

-----------------------------------------------------------------------------
(* Steps. *)

Same(q) == pc'[q] = pc[q] /\ request'[q] = request[q] /\ answer'[q] = answer[q]

LEMMA OthersKeep ==
    ASSUME IInv, Tables', HeaderGrows, NEW q \in Proc, Same(q)
    PROVE  CallInv(q)'
<1>1. CallInv(q) /\ pc[q] \in {"idle", "statement", "count", "return"}
  BY DEF IInv, TypeOK
<1>2. ASSUME pc[q] \in {"statement", "count"}
      PROVE  SwapInv(q)'
  <2>1. request[q] \in Asked /\ SwapInv(q)
    BY <1>1, <1>2 DEF CallInv
  <2>2. request[q].op = "swap" => request[q].expected \in Revision
    BY <2>1, RequestShapes
  <2>3. ASSUME request[q].op = "swap"
        PROVE  /\ encryptionHeader # NULL /\ encryptionHeader' # NULL
               /\ encryptionHeader.revision \in Nat /\ encryptionHeader'.revision \in Nat
               /\ request[q].expected \in Nat
               /\ encryptionHeader.revision <= encryptionHeader'.revision
    BY <1>2, <2>1, <2>2, <2>3, RevisionAssumption DEF SwapInv, HeaderGrows, Tables, IInv, TypeOK
  <2> QED
    BY <1>2, <2>1, <2>3 DEF SwapInv, Same
<1> QED
  BY <1>1, <1>2 DEF CallInv, Same

(* A step of p keeps the invariant if it keeps p's share of it. *)
LEMMA StepKeeps ==
    ASSUME IInv, Tables', HeaderGrows, NEW p \in Proc, CallInv(p)', \A q \in Proc : q # p => Same(q),
           pc' \in [Proc -> {"idle", "statement", "count", "return"}],
           request' \in [Proc -> Asked \cup {NULL}], answer' = [q \in Proc |-> answer'[q]]
    PROVE  IInv'
<1>1. \A q \in Proc : CallInv(q)'
  BY OthersKeep
<1> QED
  BY <1>1 DEF IInv, TypeOK, Tables

(* An operation of p that ends is the operation of the contract. *)
LEMMA TellKeeps ==
    ASSUME IInv, NEW p \in Proc, NEW told, pc[p] \in {"statement", "count"}, Tell(p, told),
           UNCHANGED request, Tables', HeaderGrows, B!Effect(request[p], told)
    PROVE  IInv' /\ B!Perform(p)
<1>1. request[p] \in Asked /\ answer[p] = NULL
  BY DEF IInv, CallInv
<1>2. /\ answer = [q \in Proc |-> answer[q]] /\ pc \in [Proc -> {"idle", "statement", "count", "return"}]
      /\ request \in [Proc -> Asked \cup {NULL}]
  BY DEF IInv, TypeOK
<1>3. /\ answer' = [answer EXCEPT ![p] = told] /\ pc' = [pc EXCEPT ![p] = "return"]
      /\ answer' = [q \in Proc |-> IF q = p THEN told ELSE answer[q]]
  BY <1>2 DEF Tell
<1>4. /\ pc' \in [Proc -> {"idle", "statement", "count", "return"}] /\ request' \in [Proc -> Asked \cup {NULL}]
      /\ answer' = [q \in Proc |-> answer'[q]] /\ answer'[p] = told /\ pc'[p] = "return"
  BY <1>2, <1>3
<1>5. \A q \in Proc : q # p => Same(q)
  BY <1>2, <1>3 DEF Same
<1>6. CallInv(p)'
  BY <1>1, <1>4 DEF CallInv
<1>7. IInv'
  BY <1>4, <1>5, <1>6, StepKeeps
<1>8. request[p] # NULL
  BY <1>1, NullAssumption
<1>9. B!Perform(p)
  BY <1>1, <1>3, <1>4, <1>8 DEF B!Perform
<1> QED
  BY <1>7, <1>9

LEMMA TableAt ==
    /\ \A r \in Rows : Table[r] = Content(r)
    /\ Table[B!HeaderRow] = IF encryptionHeader = NULL THEN NULL ELSE encryptionHeader.body
BY RowsAreRows, ContentIs DEF Table

LEMMA InsertKeeps ==
    ASSUME IInv, NEW p \in Proc, NEW space, InsertInto(p, space)
    PROVE  IInv' /\ B!Perform(p)
<1> DEFINE q == request[p]
<1>1. pc[p] = "statement" /\ q.op = "insert" /\ UNCHANGED request /\ q \in Asked
  BY DEF InsertInto, AtStatement, IInv, CallInv
<1>2. q.row \in Rows /\ q.value \in B!Value /\ (q.row.space = "header" => q.value.rev \in Revision)
  BY <1>1, RequestShapes
<1>3. Table[q.row] = Content(q.row)
  BY <1>2, TableAt
<1>4. \/ Content(q.row) # NULL /\ Tell(p, <<"exists">>) /\ UNCHANGED tables
      \/ Content(q.row) = NULL /\ Write(q.row, q.value) /\ (Tell(p, <<"ok">>) \/ Tell(p, <<"failed">>))
  BY DEF InsertInto
<1> HIDE DEF q
<1>5. CASE Content(q.row) # NULL /\ Tell(p, <<"exists">>) /\ UNCHANGED tables
  <2>1. B!Effect(q, <<"exists">>)
    BY <1>1, <1>3, <1>5, SameTables DEF B!Effect, B!Insert
  <2> QED
    BY <1>1, <1>5, <2>1, SameTables, TellKeeps DEF q
<1>6. CASE Content(q.row) = NULL /\ Write(q.row, q.value) /\ (Tell(p, <<"ok">>) \/ Tell(p, <<"failed">>))
  <2>1. q.row.space = "header" => encryptionHeader = NULL
    <3>1. ASSUME encryptionHeader # NULL PROVE encryptionHeader.body # NULL
      BY <3>1, NullAssumption DEF IInv, TypeOK
    <3> QED
      BY <1>2, <1>6, <3>1, ContentIs
  <2>2. Tables' /\ HeaderGrows /\ Table' = [Table EXCEPT ![q.row] = q.value]
    BY <1>2, <1>6, <2>1, WriteRow
  <2>3. \A told \in {<<"ok">>, <<"failed">>} : B!Effect(q, told)
    BY <1>1, <1>3, <1>6, <2>2 DEF B!Effect, B!Insert, B!Told
  <2> QED
    BY <1>1, <1>6, <2>2, <2>3, TellKeeps DEF q
<1> QED
  BY <1>4, <1>5, <1>6

LEMMA RemoveKeeps ==
    ASSUME IInv, NEW p \in Proc, NEW space, RemoveFrom(p, space)
    PROVE  IInv' /\ B!Perform(p)
<1> DEFINE q == request[p]
<1>1. pc[p] = "statement" /\ q.op = "remove" /\ UNCHANGED request /\ q \in Asked
  BY DEF RemoveFrom, AtStatement, IInv, CallInv
<1>2. q.row \in Rows /\ q.row.space # "header"
  BY <1>1, RequestShapes
<1>3. Table[q.row] = Content(q.row)
  BY <1>2, TableAt
<1>4. \/ Content(q.row) = NULL /\ Tell(p, <<"not found">>) /\ UNCHANGED tables
      \/ Content(q.row) # NULL /\ Write(q.row, NULL) /\ (Tell(p, <<"ok">>) \/ Tell(p, <<"failed">>))
  BY DEF RemoveFrom
<1> HIDE DEF q
<1>5. CASE Content(q.row) = NULL /\ Tell(p, <<"not found">>) /\ UNCHANGED tables
  <2>1. Table[q.row] = NULL /\ UNCHANGED Table
    BY <1>3, <1>5, SameTables
  <2> DEFINE told == <<"not found">>
  <2>2. Tell(p, told) /\ B!Remove(q, told)
    BY <1>5, <2>1 DEF B!Remove
  <2> HIDE DEF told
  <2>3. B!Effect(q, told)
    BY <1>1, <2>2 DEF B!Effect
  <2>4. UNCHANGED tables
    BY <1>5
  <2> QED
    BY <1>1, <2>2, <2>3, <2>4, SameTables, TellKeeps DEF q
<1>6. CASE Content(q.row) # NULL /\ Write(q.row, NULL) /\ (Tell(p, <<"ok">>) \/ Tell(p, <<"failed">>))
  <2>1. Tables' /\ HeaderGrows /\ Table' = [Table EXCEPT ![q.row] = NULL]
    BY <1>2, <1>6, WriteRow
  <2>2. \A told \in {<<"ok">>, <<"failed">>} : B!Effect(q, told)
    BY <1>1, <1>3, <1>6, <2>1 DEF B!Effect, B!Remove, B!Told
  <2> QED
    BY <1>1, <1>6, <2>1, <2>2, TellKeeps DEF q
<1> QED
  BY <1>4, <1>5, <1>6

LEMMA SelectKeeps ==
    ASSUME IInv, NEW p \in Proc, NEW space, SelectFrom(p, space, <<"row", Content(request[p].row)>>)
    PROVE  IInv' /\ B!Perform(p)
<1> DEFINE q == request[p]
<1>1. /\ pc[p] = "statement" /\ q.op = "read" /\ UNCHANGED request /\ q \in Asked
      /\ Tell(p, <<"row", Content(q.row)>>) /\ UNCHANGED tables
  BY DEF SelectFrom, AtStatement, IInv, CallInv
<1>2. Table[q.row] = Content(q.row)
  BY <1>1, RequestShapes, TableAt
<1> HIDE DEF q
<1>3. B!Effect(q, <<"row", Content(q.row)>>)
  BY <1>1, <1>2, SameTables DEF B!Effect, B!Read
<1> QED
  BY <1>1, <1>3, SameTables, TellKeeps DEF q

(* A header that is there is never refused. *)
LEMMA LoadHeaderKeeps ==
    ASSUME IInv, NEW p \in Proc, LoadHeader(p)
    PROVE  IInv' /\ B!Perform(p)
<1>1. ~(encryptionHeader # NULL /\ encryptionHeader.revision # encryptionHeader.body.rev)
  BY DEF IInv, HeaderInv
<1> QED
  BY <1>1, SelectKeeps DEF LoadHeader

LEMMA ListKeeps ==
    ASSUME IInv, NEW p \in Proc, NEW space \in {"plain", "envelope"}, NEW rows,
           ListOf(p, space, rows),
           \A a \in Alias : rows[a] = Content([space |-> space, alias |-> a])
    PROVE  IInv' /\ B!Perform(p)
<1> DEFINE q == request[p]
           names == {a \in Alias : rows[a] # NULL}
<1>1. /\ pc[p] = "statement" /\ q.op = "list" /\ UNCHANGED request /\ q \in Asked /\ q.space = space
      /\ Tell(p, <<"rows", names>>) /\ UNCHANGED tables
  BY DEF ListOf, AtStatement, IInv, CallInv
<1>2. names = {r.alias : r \in {s \in B!Row : s.space = space /\ Table[s] # NULL}}
  <2>1. ASSUME NEW a \in names
        PROVE  a \in {r.alias : r \in {s \in B!Row : s.space = space /\ Table[s] # NULL}}
    <3> DEFINE r == [space |-> space, alias |-> a]
    <3>1. r \in Rows /\ r.space = space /\ r.alias = a /\ Content(r) # NULL
      BY DEF Rows
    <3> QED
      BY <3>1, TableAt, RowsAreRows
  <2>2. ASSUME NEW r \in B!Row, r.space = space, Table[r] # NULL
        PROVE  r.alias \in names
    <3>1. r.alias \in Alias /\ r = [space |-> space, alias |-> r.alias] /\ r \in Rows
      BY <2>2, RowsAreRows DEF Rows
    <3> QED
      BY <2>2, <3>1, TableAt
  <2> QED
    BY <2>1, <2>2
<1> HIDE DEF q, names
<1>3. B!Effect(q, <<"rows", names>>)
  BY <1>1, <1>2, SameTables DEF B!Effect, B!List
<1> QED
  BY <1>1, <1>3, SameTables, TellKeeps DEF q

LEMMA FailsKeeps ==
    ASSUME IInv, NEW p \in Proc, Fails(p)
    PROVE  IInv' /\ B!Perform(p)
<1>1. B!Effect(request[p], <<"failed">>)
  BY SameTables DEF Fails, B!Effect
<1> QED
  BY <1>1, SameTables, TellKeeps DEF Fails

(* The UPDATE of a swap, or its wait for the SELECT that says why.         *)
LEMMA SwapKeeps ==
    ASSUME IInv, NEW p \in Proc, CompareAndSwapHeader(p)
    PROVE  IInv' /\ (B!Perform(p) \/ UNCHANGED B!vars)
<1> DEFINE q == request[p]
           matches == encryptionHeader # NULL /\ encryptionHeader.revision = q.expected
<1>1. pc[p] = "statement" /\ q.op = "swap" /\ UNCHANGED request /\ q \in Asked /\ SwapInv(p) /\ answer[p] = NULL
  BY DEF CompareAndSwapHeader, AtStatement, IInv, CallInv
<1>2. /\ q.expected \in Revision /\ q.value \in B!Value /\ q.value.rev \in Revision
      /\ q.value.rev > q.expected
  BY <1>1, RequestShapes
<1>3. \/ matches /\ Write(B!HeaderRow, q.value) /\ (Tell(p, <<"ok">>) \/ Tell(p, <<"failed">>))
      \/ ~matches /\ pc' = [pc EXCEPT ![p] = "count"] /\ UNCHANGED <<tables, answer>>
  BY DEF CompareAndSwapHeader, B!HeaderRow
<1>4. CASE matches /\ Write(B!HeaderRow, q.value) /\ (Tell(p, <<"ok">>) \/ Tell(p, <<"failed">>))
  <2>1. encryptionHeader.revision <= q.value.rev
    <3>1. q.expected \in Nat /\ q.value.rev \in Nat /\ encryptionHeader.revision = q.expected
      BY <1>2, <1>4, RevisionAssumption
    <3> QED
      BY <1>2, <3>1
  <2>2. Tables' /\ HeaderGrows /\ Table' = [Table EXCEPT ![B!HeaderRow] = q.value]
    BY <1>2, <1>4, <2>1, RowsAreRows, WriteRow
  <2>3. Table[B!HeaderRow] # NULL /\ Table[B!HeaderRow].rev = q.expected
    <3>1. encryptionHeader # NULL /\ encryptionHeader.body # NULL
          /\ encryptionHeader.body.rev = q.expected
      BY <1>4, NullAssumption DEF IInv, TypeOK, HeaderInv
    <3> QED
      BY <3>1, TableAt
  <2> HIDE DEF q
  <2>4. \A told \in {<<"ok">>, <<"failed">>} : B!Effect(q, told)
    BY <1>1, <2>2, <2>3 DEF B!Effect, B!Swap, B!Told
  <2> QED
    BY <1>1, <1>4, <2>2, <2>4, TellKeeps DEF q
<1>5. CASE ~matches /\ pc' = [pc EXCEPT ![p] = "count"] /\ UNCHANGED <<tables, answer>>
  <2>1. /\ pc' \in [Proc -> {"idle", "statement", "count", "return"}] /\ pc'[p] = "count"
        /\ \A r \in Proc : r # p => Same(r)
        /\ request' \in [Proc -> Asked \cup {NULL}] /\ answer' = [r \in Proc |-> answer'[r]]
    BY <1>1, <1>5 DEF Same, IInv, TypeOK
  <2>2. CallInv(p)'
    <3>1. encryptionHeader # NULL /\ q.expected <= encryptionHeader.revision
      BY <1>1 DEF SwapInv
    <3>2. encryptionHeader.revision # q.expected
      BY <1>5, <3>1
    <3>3. encryptionHeader.revision \in Nat /\ q.expected \in Nat
      BY <1>2, <3>1, RevisionAssumption DEF IInv, TypeOK
    <3>4. q.expected < encryptionHeader.revision
      BY <3>1, <3>2, <3>3
    <3> QED
      BY <1>1, <1>5, <2>1, <3>1, <3>4 DEF CallInv, SwapInv, tables
  <2>3. IInv'
    BY <1>5, <2>1, <2>2, SameTables, StepKeeps
  <2> QED
    BY <1>1, <1>5, <2>3, SameTables DEF B!vars
<1> QED
  BY <1>3, <1>4, <1>5

(* What the SELECT finds is true of the header then.                       *)
LEMMA CountKeeps ==
    ASSUME IInv, NEW p \in Proc, Count(p)
    PROVE  IInv' /\ B!Perform(p)
<1> DEFINE q == request[p]
<1>1. /\ pc[p] = "count" /\ q.op = "swap" /\ UNCHANGED request /\ q \in Asked /\ SwapInv(p)
      /\ UNCHANGED tables
  BY DEF Count, IInv, CallInv
<1>2. encryptionHeader # NULL /\ q.expected < encryptionHeader.revision /\ Tell(p, <<"conflict">>)
  BY <1>1 DEF SwapInv, Count
<1>3. Table[B!HeaderRow] # NULL /\ Table[B!HeaderRow].rev # q.expected
  <2>1. /\ encryptionHeader.body # NULL /\ encryptionHeader.revision \in Nat
        /\ encryptionHeader.body.rev = encryptionHeader.revision
    BY <1>2, NullAssumption, RevisionAssumption DEF IInv, TypeOK, HeaderInv
  <2>2. q.expected \in Nat
    BY <1>1, RequestShapes, RevisionAssumption
  <2> QED
    BY <1>2, <2>1, <2>2, TableAt
<1> HIDE DEF q
<1>4. B!Effect(q, <<"conflict">>)
  BY <1>1, <1>3, SameTables DEF B!Effect, B!Swap
<1> QED
  BY <1>1, <1>2, <1>4, SameTables, TellKeeps DEF q

LEMMA AskKeeps ==
    ASSUME IInv, NEW p \in Proc, Ask(p)
    PROVE  IInv' /\ B!Ask(p)
<1>1. PICK q \in Asked :
        /\ q.op = "swap" => encryptionHeader # NULL /\ q.expected <= encryptionHeader.revision
        /\ request' = [request EXCEPT ![p] = q]
  BY DEF Ask
<1>2. /\ pc[p] = "idle" /\ pc' = [pc EXCEPT ![p] = "statement"] /\ UNCHANGED <<tables, answer>>
      /\ request[p] = NULL /\ answer[p] = NULL
  BY DEF Ask, IInv, CallInv
<1>3. /\ pc' \in [Proc -> {"idle", "statement", "count", "return"}] /\ pc'[p] = "statement"
      /\ request' \in [Proc -> Asked \cup {NULL}] /\ request'[p] = q
      /\ answer' = [r \in Proc |-> answer'[r]]
      /\ \A r \in Proc : r # p => Same(r)
  BY <1>1, <1>2 DEF Same, IInv, TypeOK
<1>4. CallInv(p)'
  BY <1>1, <1>2, <1>3 DEF CallInv, SwapInv, tables
<1>5. IInv'
  BY <1>2, <1>3, <1>4, SameTables, StepKeeps
<1>6. B!Ask(p)
  BY <1>1, <1>2, <1>3, AskedAssumption, SameTables DEF B!Ask
<1> QED
  BY <1>5, <1>6

LEMMA LeaveKeeps ==
    ASSUME IInv, NEW p \in Proc, Leave(p)
    PROVE  IInv' /\ B!Leave({p})
<1>1. /\ pc \in [Proc -> {"idle", "statement", "count", "return"}]
      /\ request \in [Proc -> Asked \cup {NULL}] /\ answer = [r \in Proc |-> answer[r]]
  BY DEF IInv, TypeOK
<1>2. /\ request' = [r \in Proc |-> IF r = p THEN NULL ELSE request[r]]
      /\ answer' = [r \in Proc |-> IF r = p THEN NULL ELSE answer[r]]
      /\ UNCHANGED tables
  BY <1>1 DEF Leave
<1>3. /\ pc' \in [Proc -> {"idle", "statement", "count", "return"}] /\ pc'[p] = "idle"
      /\ \A r \in Proc : r # p => pc'[r] = pc[r]
  BY <1>1 DEF Leave
<1>4. /\ request' \in [Proc -> Asked \cup {NULL}] /\ request'[p] = NULL /\ answer'[p] = NULL
      /\ answer' = [r \in Proc |-> answer'[r]]
      /\ \A r \in Proc : r # p => Same(r)
  BY <1>1, <1>2, <1>3 DEF Same
<1>5. CallInv(p)'
  BY <1>3, <1>4 DEF CallInv
<1>6. IInv'
  BY <1>2, <1>3, <1>4, <1>5, SameTables, StepKeeps
<1>7. B!Leave({p})
  BY <1>2, SameTables DEF B!Leave
<1> QED
  BY <1>6, <1>7

-----------------------------------------------------------------------------
(* The theorems. *)

LEMMA InitIInv == Init => IInv /\ B!Init
<1> SUFFICES ASSUME Init PROVE IInv /\ B!Init
  OBVIOUS
<1>1. IInv
  BY DEF Init, IInv, TypeOK, HeaderInv, CallInv
<1>2. \A r \in Rows : Content(r) = NULL
  BY ContentIs DEF Init, Rows
<1>3. B!Init
  BY <1>2, RowsAreRows DEF Init, B!Init, Table
<1> QED
  BY <1>1, <1>3

LEMMA StepIInv == IInv /\ [Next]_vars => IInv' /\ [B!Next]_(B!vars)
<1> SUFFICES ASSUME IInv, [Next]_vars
             PROVE  IInv' /\ (B!Next \/ UNCHANGED B!vars)
  OBVIOUS
<1>1. CASE UNCHANGED vars
  <2>1. UNCHANGED <<tables, pc, request, answer>>
    BY <1>1 DEF vars, tables
  <2>2. UNCHANGED B!vars
    BY <2>1, SameTables DEF B!vars
  <2>3. Tables' /\ HeaderGrows /\ \A q \in Proc : Same(q)
    BY <2>1, SameTables DEF Same
  <2>4. \A q \in Proc : CallInv(q)'
    BY <2>3, OthersKeep
  <2> QED
    BY <2>1, <2>2, <2>3, <2>4 DEF IInv, TypeOK, Tables
<1>2. CASE Next
  <2>1. PICK p \in Proc :
          \/ Ask(p) \/ Put(p) \/ PutEnvelope(p) \/ CreateHeader(p) \/ Delete(p) \/ DeleteEnvelope(p)
          \/ Get(p) \/ GetEnvelope(p) \/ LoadHeader(p) \/ CompareAndSwapHeader(p) \/ Count(p)
          \/ List(p) \/ ListEnvelopes(p) \/ Fails(p) \/ Leave(p)
    BY <1>2 DEF Next
  <2>2. SUFFICES IInv' /\ (B!Ask(p) \/ B!Perform(p) \/ B!Leave({p}) \/ UNCHANGED B!vars)
    BY DEF B!Next
  <2>3. CASE Ask(p) \/ Leave(p) \/ Fails(p) \/ Count(p) \/ CompareAndSwapHeader(p)
    BY <2>3, AskKeeps, LeaveKeeps, FailsKeeps, CountKeeps, SwapKeeps
  <2>4. CASE Put(p) \/ PutEnvelope(p) \/ CreateHeader(p)
    BY <2>4, InsertKeeps DEF Put, PutEnvelope, CreateHeader
  <2>5. CASE Delete(p) \/ DeleteEnvelope(p)
    BY <2>5, RemoveKeeps DEF Delete, DeleteEnvelope
  <2>6. CASE Get(p) \/ GetEnvelope(p) \/ LoadHeader(p)
    BY <2>6, SelectKeeps, LoadHeaderKeeps DEF Get, GetEnvelope
  <2>7. CASE List(p)
    <3>1. \A a \in Alias : credentials[a] = Content([space |-> "plain", alias |-> a])
      BY ContentIs DEF Rows
    <3> QED
      BY <2>7, <3>1, ListKeeps DEF List
  <2>8. CASE ListEnvelopes(p)
    <3>1. \A a \in Alias : encryptedCredentials[a] = Content([space |-> "envelope", alias |-> a])
      BY ContentIs DEF Rows
    <3> QED
      BY <2>8, <3>1, ListKeeps DEF ListEnvelopes
  <2> QED
    BY <2>1, <2>3, <2>4, <2>5, <2>6, <2>7, <2>8
<1> QED
  BY <1>1, <1>2

(* IInv holds of the clients of one SQLite database, however many.         *)
THEOREM Invariance == Spec => []IInv
<1> QED
  BY InitIInv, StepIInv, PTL DEF Spec

(* The tables and the requests under way keep their types                  *)
(* (sqlite.go:43-65).                                                     *)
THEOREM TypeCorrect == Spec => []TypeOK
<1>1. IInv => TypeOK
  BY DEF IInv
<1> QED
  BY <1>1, Invariance, PTL

(* Every operation takes effect at one moment with the answer of that      *)
(* moment, the swap that is told why with the SELECT that says so, and no  *)
(* header is refused for a column that disagrees with its body             *)
(* (sqlite.go:205-214, 226-256).                                           *)
THEOREM Refinement == Spec => ImplementsBackend
<1> QED
  BY InitIInv, StepIInv, Invariance, PTL DEF Spec, ImplementsBackend, B!Spec
=============================================================================
