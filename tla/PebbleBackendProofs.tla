------------------------ MODULE PebbleBackendProofs ------------------------
(***************************************************************************)
(* The Pebble backend keeps its types, whatever its aliases; and it is an  *)
(* atomic backend for every program whose aliases are no keys of the       *)
(* encrypted store and that does not list plain records beside envelopes.  *)
(* Both for any number of goroutines, aliases and revisions.               *)
(***************************************************************************)
EXTENDS PebbleBackend, SequenceTheorems, TLAPS

-----------------------------------------------------------------------------
(* The inductive invariant. *)

(* What the check has found out is still so when the write is made.        *)
Checked(q) ==
    /\ q.op = "insert" => db[KeyOf(q.row)] = NULL
    /\ q.op = "remove" => db[KeyOf(q.row)] # NULL
    /\ q.op = "swap" => /\ db[EncryptionHeaderKey] # NULL
                        /\ db[EncryptionHeaderKey].rev = q.expected

CallInv(p) ==
    /\ pc[p] = "idle" => request[p] = NULL
    /\ pc[p] # "idle" => request[p] \in use
    /\ pc[p] # "return" => answer[p] = NULL
    /\ pc[p] \in {"check", "apply"} => mu = p
    /\ pc[p] = "apply" => Checked(request[p])
    /\ pc[p] = "list" => request[p].op = "list"

(* Where plain records are listed there is nothing else, if no alias is a  *)
(* key of the encrypted store.                                             *)
ListsPlain == NoInternalAlias /\ Separated(use) /\ \E q \in use : q.op = "list" /\ q.space = "plain"
PlainInv == ListsPlain => \A r \in Rows : r.space # "plain" => db[KeyOf(r)] = NULL

IInv ==
    /\ TypeOK
    /\ answer = [p \in Proc |-> answer[p]]
    /\ PlainInv
    /\ \A p \in Proc : CallInv(p)

-----------------------------------------------------------------------------
(* Keys. *)

Nul == "NUL hmacsecret/"
Run == STRING \cup {"NUL hmacsecret/", "header", "record/"}

LEMMA WiderSeq ==
    ASSUME NEW S, NEW T, S \subseteq T, NEW s \in Seq(S)
    PROVE  s \in Seq(T)
OBVIOUS

LEMMA PairIs ==
    ASSUME NEW S, NEW x \in S, NEW y \in S
    PROVE  <<x, y>> \in Seq(S) /\ Len(<<x, y>>) = 2 /\ <<x, y>>[1] = x /\ <<x, y>>[2] = y
OBVIOUS

LEMMA FixedKeys ==
    /\ EncryptionHeaderKey \in Seq(Run) /\ Len(EncryptionHeaderKey) = 2 /\ EncryptionHeaderKey[1] = Nul
    /\ EnvelopePrefix \in Seq(Run) /\ Len(EnvelopePrefix) = 2 /\ EnvelopePrefix[1] = Nul
    /\ EncryptionHeaderKey # EnvelopePrefix
<1>1. "NUL hmacsecret/" \in Run /\ "header" \in Run /\ "record/" \in Run
  BY Zenon DEF Run
<1>2. "header" # "record/"
  OBVIOUS
<1>3. /\ EncryptionHeaderKey \in Seq(Run) /\ Len(EncryptionHeaderKey) = 2
      /\ EncryptionHeaderKey[1] = Nul /\ EncryptionHeaderKey[2] = "header"
  BY <1>1, PairIs, Zenon DEF EncryptionHeaderKey, Nul
<1>4. /\ EnvelopePrefix \in Seq(Run) /\ Len(EnvelopePrefix) = 2
      /\ EnvelopePrefix[1] = Nul /\ EnvelopePrefix[2] = "record/"
  BY <1>1, PairIs, Zenon DEF EnvelopePrefix, Nul
<1> QED
  BY <1>2, <1>3, <1>4, Zenon

LEMMA AliasIs ==
    ASSUME NEW a \in Alias
    PROVE  a \in Seq(Run) /\ Len(a) \in Nat /\ Len(a) > 0
<1>1. a \in Seq(STRING) /\ a # <<>>
  BY AliasAssumption, Zenon
<1>2. STRING \subseteq Run
  BY Zenon DEF Run
<1>3. a \in Seq(Run)
  BY <1>1, <1>2, WiderSeq, Zenon
<1> HIDE DEF Run
<1>4. Len(a) > 0
  BY <1>1, <1>3
<1> QED
  BY <1>1, <1>3, <1>4

LEMMA AfterPair ==
    ASSUME NEW S, NEW s \in Seq(S), Len(s) = 2, NEW t \in Seq(S), Len(t) > 0
    PROVE  /\ s \o t \in Seq(S) /\ Len(s \o t) = 2 + Len(t) /\ (s \o t)[1] = s[1]
           /\ SubSeq(s \o t, 1, 2) = s
           /\ SubSeq(s \o t, 3, 2 + Len(t)) = t
<1>1. /\ s \o t \in Seq(S) /\ Len(s \o t) = Len(s) + Len(t)
      /\ \A i \in 1 .. Len(s) + Len(t) : (s \o t)[i] = IF i <= Len(s) THEN s[i] ELSE t[i - Len(s)]
  BY ConcatProperties
<1>2. Len(t) \in Nat
  OBVIOUS
<1>3. (s \o t)[1] = s[1]
  <2>1. 1 \in 1 .. Len(s) + Len(t) /\ 1 <= Len(s)
    BY <1>2
  <2> QED
    BY <1>1, <2>1
<1>4. SubSeq(s \o t, 1, 2) = s
  <2>1. 1 \in 1 .. Len(s) /\ 2 \in 1 .. Len(s)
    OBVIOUS
  <2>2. SubSeq(s \o t, 1, 2) = SubSeq(s, 1, 2)
    BY <2>1, SubSeqOfConcat1
  <2> QED
    BY <2>2, SubSeqFull
<1>5. SubSeq(s \o t, 3, 2 + Len(t)) = t
  <2>1. /\ 3 \in Len(s) + 1 .. Len(s) + Len(t)
        /\ 2 + Len(t) \in Len(s) + 1 .. Len(s) + Len(t)
    BY <1>2
  <2>2. SubSeq(s \o t, 3, 2 + Len(t)) = SubSeq(t, 3 - Len(s), (2 + Len(t)) - Len(s))
    BY <2>1, SubSeqOfConcat2
  <2>3. 3 - Len(s) = 1 /\ (2 + Len(t)) - Len(s) = Len(t)
    BY <1>2
  <2>4. SubSeq(t, 1, Len(t)) = t
    BY SubSeqFull
  <2> QED
    BY <2>2, <2>3, <2>4
<1> QED
  BY <1>1, <1>3, <1>4, <1>5

LEMMA EnvelopeKeyIs ==
    ASSUME NEW a \in Alias
    PROVE  /\ EnvelopeKey(a) \in Seq(Run) /\ Len(EnvelopeKey(a)) = 2 + Len(a)
           /\ EnvelopeKey(a)[1] = Nul
           /\ HasPrefix(EnvelopeKey(a), EnvelopePrefix)
           /\ SubSeq(EnvelopeKey(a), Len(EnvelopePrefix) + 1, Len(EnvelopeKey(a))) = a
<1>1. a \in Seq(Run) /\ Len(a) \in Nat /\ Len(a) > 0
  BY AliasIs
<1>2. EnvelopePrefix \in Seq(Run) /\ Len(EnvelopePrefix) = 2 /\ EnvelopePrefix[1] = Nul
  BY FixedKeys
<1>3. /\ EnvelopeKey(a) \in Seq(Run) /\ Len(EnvelopeKey(a)) = 2 + Len(a)
      /\ EnvelopeKey(a)[1] = Nul
      /\ SubSeq(EnvelopeKey(a), 1, 2) = EnvelopePrefix
      /\ SubSeq(EnvelopeKey(a), 3, 2 + Len(a)) = a
  BY <1>1, <1>2, AfterPair DEF EnvelopeKey
<1>4. HasPrefix(EnvelopeKey(a), EnvelopePrefix)
  BY <1>1, <1>2, <1>3 DEF HasPrefix
<1>5. Len(EnvelopePrefix) + 1 = 3
  BY <1>2
<1> QED
  BY <1>3, <1>4, <1>5

LEMMA NoOtherHasPrefix ==
    /\ ~HasPrefix(EncryptionHeaderKey, EnvelopePrefix)
    /\ NoInternalAlias => \A a \in Alias : ~HasPrefix(a, EnvelopePrefix)
<1>1. SubSeq(EncryptionHeaderKey, 1, 2) = EncryptionHeaderKey
  BY FixedKeys, SubSeqFull
<1>2. ~HasPrefix(EncryptionHeaderKey, EnvelopePrefix)
  BY <1>1, FixedKeys DEF HasPrefix
<1> QED
  BY <1>2 DEF NoInternalAlias, InternalKey

LEMMA KeyIs ==
    /\ \A r \in Rows : r.space = "header" => KeyOf(r) = EncryptionHeaderKey
    /\ \A r \in Rows : r.space = "envelope" => KeyOf(r) = EnvelopeKey(r.alias)
    /\ \A r \in Rows : r.space = "plain" => KeyOf(r) = r.alias
BY Zenon DEF KeyOf

LEMMA RowsAreRows ==
    /\ B!Row = Rows /\ B!HeaderRow \in Rows /\ B!HeaderRow.space = "header"
    /\ \A r \in Rows : /\ r.space \in {"plain", "envelope", "header"}
                       /\ r.space = "header" => r = B!HeaderRow
                       /\ r.space # "header" => /\ r.alias \in Alias
                                                /\ r = [space |-> r.space, alias |-> r.alias]
BY DEF B!Row, B!HeaderRow, Rows

LEMMA KeyOfHeader == KeyOf(B!HeaderRow) = EncryptionHeaderKey
BY KeyIs, RowsAreRows

(* Two rows do not share a key, unless an alias is one of those keys.      *)
LEMMA KeysDiffer ==
    ASSUME NoInternalAlias, NEW r \in Rows, NEW s \in Rows, KeyOf(r) = KeyOf(s)
    PROVE  r = s
<1>1. ASSUME NEW a \in Alias
      PROVE  /\ a # EncryptionHeaderKey /\ EnvelopeKey(a) # EncryptionHeaderKey
             /\ \A b \in Alias : EnvelopeKey(b) # a
             /\ \A b \in Alias : EnvelopeKey(a) = EnvelopeKey(b) => a = b
  <2>1. Len(a) \in Nat /\ Len(a) > 0
    BY AliasIs
  <2>2. Len(EnvelopeKey(a)) = 2 + Len(a) /\ Len(EncryptionHeaderKey) = 2
    BY EnvelopeKeyIs, FixedKeys
  <2>3. \A b \in Alias : HasPrefix(EnvelopeKey(b), EnvelopePrefix)
    BY EnvelopeKeyIs
  <2>4. \A b \in Alias : EnvelopeKey(a) = EnvelopeKey(b) => a = b
    BY EnvelopeKeyIs, Zenon
  <2>5. ASSUME a = EncryptionHeaderKey PROVE FALSE
    BY <2>5 DEF NoInternalAlias, InternalKey
  <2>6. ASSUME EnvelopeKey(a) = EncryptionHeaderKey PROVE FALSE
    <3>1. 2 + Len(a) = 2
      BY <2>2, <2>6, Zenon
    <3> QED
      BY <2>1, <3>1
  <2>7. ASSUME NEW b \in Alias, EnvelopeKey(b) = a PROVE FALSE
    BY <2>3, <2>7, NoOtherHasPrefix
  <2> QED
    BY <2>4, <2>5, <2>6, <2>7, Zenon
<1>2. CASE r.space = "header"
  BY <1>1, <1>2, KeyIs, RowsAreRows
<1>3. CASE r.space = "envelope"
  BY <1>1, <1>3, KeyIs, RowsAreRows
<1>4. CASE r.space = "plain"
  BY <1>1, <1>4, KeyIs, RowsAreRows
<1> QED
  BY <1>2, <1>3, <1>4, RowsAreRows

LEMMA KeysAre == \A r \in Rows : KeyOf(r) \in Keys /\ Table[r] = db[KeyOf(r)]
BY DEF Keys, Table

LEMMA SameTable ==
    ASSUME UNCHANGED db
    PROVE  UNCHANGED Table
BY DEF Table

(* A write to one key is a write to one row. *)
LEMMA WriteRow ==
    ASSUME NoInternalAlias, IInv, NEW row \in Rows, NEW v, db' = [db EXCEPT ![KeyOf(row)] = v]
    PROVE  Table' = [Table EXCEPT ![row] = v]
<1>1. db \in [Keys -> B!Value \cup {NULL}]
  BY DEF IInv, TypeOK
<1>2. ASSUME NEW r \in Rows
      PROVE  db'[KeyOf(r)] = IF r = row THEN v ELSE db[KeyOf(r)]
  BY <1>1, KeysAre, KeysDiffer
<1> QED
  BY <1>2 DEF Table

-----------------------------------------------------------------------------
(* Steps. *)

PCs == {"idle", "lock", "check", "apply", "read", "list", "return"}

Same(q) == pc'[q] = pc[q] /\ request'[q] = request[q] /\ answer'[q] = answer[q]

(* Only the goroutine that holds the mutex writes. *)
Held(q) == mu = q => mu' = q /\ db' = db

LEMMA OthersKeep ==
    ASSUME IInv, NEW q \in Proc, Same(q), Held(q), use' = use
    PROVE  CallInv(q)'
<1>1. CallInv(q)
  BY DEF IInv
<1>2. ASSUME pc[q] = "apply" PROVE Checked(request[q])'
  BY <1>1, <1>2 DEF CallInv, Checked, Same, Held
<1> QED
  BY <1>1, <1>2 DEF CallInv, Checked, Same, Held

LEMMA StepKeeps ==
    ASSUME IInv, NEW p \in Proc, CallInv(p)', \A q \in Proc : q # p => Same(q) /\ Held(q),
           use' = use, PlainInv', db' \in [Keys -> B!Value \cup {NULL}], mu' \in Proc \cup {NULL},
           handle' \in {"open", "nil"}, pc' \in [Proc -> PCs], request' \in [Proc -> use \cup {NULL}],
           answer' = [q \in Proc |-> answer'[q]]
    PROVE  IInv'
<1>1. \A q \in Proc : CallInv(q)'
  BY OthersKeep
<1> QED
  BY <1>1 DEF IInv, TypeOK, PCs

LEMMA Types ==
    ASSUME IInv
    PROVE  /\ db \in [Keys -> B!Value \cup {NULL}] /\ mu \in Proc \cup {NULL}
           /\ handle \in {"open", "nil"} /\ pc \in [Proc -> PCs]
           /\ use \in Uses /\ request \in [Proc -> use \cup {NULL}]
           /\ answer = [q \in Proc |-> answer[q]] /\ PlainInv
BY DEF IInv, TypeOK, PCs

LEMMA SamePlain ==
    ASSUME IInv, UNCHANGED <<db, use>>
    PROVE  PlainInv'
BY Types DEF PlainInv, ListsPlain

LEMMA RequestShapes ==
    ASSUME IInv, NEW p \in Proc, request[p] # NULL
    PROVE  /\ request[p] \in use /\ request[p] \in B!Request
           /\ request[p].op = "insert" => request[p].row \in Rows /\ request[p].value \in B!Value
           /\ request[p].op = "remove" => request[p].row \in Rows
           /\ request[p].op = "read" => request[p].row \in Rows
           /\ request[p].op = "swap" => request[p].value \in B!Value
           /\ request[p].op = "list" => request[p].space \in {"plain", "envelope"}
<1>1. request[p] \in use /\ request[p] \in B!Request
  BY Types, UsesAssumption
<1> QED
  BY <1>1, RowsAreRows DEF B!Request

(* A call of p that is answered without a write. *)
LEMMA TellKeeps ==
    ASSUME IInv, NEW p \in Proc, NEW told, pc[p] \notin {"idle", "return"}, Tell(p, told),
           UNCHANGED <<db, handle, use, request>>, mu' = mu \/ (mu = p /\ mu' = NULL)
    PROVE  IInv' /\ (B!Effect(request[p], told) => B!Perform(p))
<1>1. request[p] \in use /\ answer[p] = NULL
  BY DEF IInv, CallInv
<1>2. answer = [q \in Proc |-> answer[q]] /\ pc \in [Proc -> PCs]
  BY Types
<1>3. /\ answer' = [answer EXCEPT ![p] = told] /\ pc' = [pc EXCEPT ![p] = "return"]
      /\ answer' = [q \in Proc |-> IF q = p THEN told ELSE answer[q]]
  BY <1>2 DEF Tell
<1>4. /\ pc' \in [Proc -> PCs] /\ answer' = [q \in Proc |-> answer'[q]]
      /\ answer'[p] = told /\ pc'[p] = "return"
  BY <1>2, <1>3 DEF PCs
<1>5. \A q \in Proc : q # p => Same(q) /\ Held(q)
  BY <1>2, <1>3, NullAssumption DEF Same, Held
<1>6. CallInv(p)'
  BY <1>1, <1>4 DEF CallInv
<1>7. mu' \in Proc \cup {NULL} /\ PlainInv'
  BY Types, SamePlain
<1>8. IInv'
  BY <1>4, <1>5, <1>6, <1>7, Types, StepKeeps
<1>9. request[p] # NULL
  BY <1>1, Types, UsesAssumption, NullAssumption
<1>10. B!Effect(request[p], told) => B!Perform(p)
  BY <1>1, <1>3, <1>4, <1>9 DEF B!Perform
<1> QED
  BY <1>8, <1>10

(* A step of p that leaves the contract alone: it locks, or goes on.       *)
LEMMA GoKeeps ==
    ASSUME IInv, NEW p \in Proc, NEW here \in {"check", "apply"}, pc' = [pc EXCEPT ![p] = here],
           pc[p] \notin {"idle", "return"}, UNCHANGED <<db, handle, use, request, answer>>,
           mu \in {NULL, p}, mu' = p, here = "apply" => Checked(request[p])
    PROVE  IInv' /\ UNCHANGED B!vars
<1>1. CallInv(p)
  BY DEF IInv
<1>2. pc' \in [Proc -> PCs] /\ pc'[p] = here
  BY Types DEF PCs
<1>3. \A q \in Proc : q # p => Same(q) /\ Held(q)
  BY Types, NullAssumption DEF Same, Held
<1>4. CallInv(p)'
  <2>1. here = "apply" => Checked(request[p])'
    BY DEF Checked
  <2> QED
    BY <1>1, <1>2, <2>1 DEF CallInv, Checked
<1>5. IInv'
  BY <1>2, <1>3, <1>4, Types, SamePlain, StepKeeps
<1> QED
  BY <1>5, SameTable DEF B!vars

LEMMA CheckKeeps ==
    ASSUME IInv, NEW p \in Proc, NEW refusal, CheckKey(p, refusal),
           refusal = NULL => Checked(request[p]),
           refusal # NULL => B!Effect(request[p], refusal)
    PROVE  IInv' /\ (B!Perform(p) \/ UNCHANGED B!vars)
<1>1. /\ pc[p] = "check" /\ mu = p /\ UNCHANGED <<db, handle, use, request>>
  BY DEF CheckKey, At, IInv, CallInv
<1>2. CASE refusal = NULL /\ pc' = [pc EXCEPT ![p] = "apply"] /\ UNCHANGED <<mu, answer>>
  BY <1>1, <1>2, GoKeeps
<1>3. CASE \E told \in {refusal, <<"failed">>} \ {NULL} : Tell(p, told) /\ mu' = NULL
  <2>1. PICK told \in {refusal, <<"failed">>} \ {NULL} : Tell(p, told) /\ mu' = NULL
    BY <1>3
  <2>2. B!Effect(request[p], <<"failed">>)
    BY <1>1, SameTable DEF B!Effect
  <2>3. B!Effect(request[p], told)
    BY <2>1, <2>2, Zenon
  <2> QED
    BY <1>1, <2>1, <2>3, TellKeeps
<1> QED
  BY <1>2, <1>3 DEF CheckKey

LEMMA WriteKeeps ==
    ASSUME IInv, NEW p \in Proc, NEW row \in Rows, NEW v \in B!Value \cup {NULL},
           WriteKey(p, KeyOf(row), v),
           ListsPlain => row.space = "plain" \/ v = NULL,
           Table' = [Table EXCEPT ![row] = v] =>
               \A told \in {<<"ok">>, <<"failed">>} : B!Effect(request[p], told)
    PROVE  IInv' /\ (NoInternalAlias => B!Perform(p))
<1> DEFINE written == [db EXCEPT ![KeyOf(row)] = v]
<1>1. pc[p] = "apply" /\ mu = p /\ mu' = NULL /\ UNCHANGED <<handle, use, request>>
  BY DEF WriteKey, At, IInv, CallInv
<1>2. PICK told \in {<<"ok">>, <<"failed">>} : Tell(p, told)
  BY DEF WriteKey
<1>3. CASE db' = db /\ Tell(p, <<"failed">>)
  <2>1. B!Effect(request[p], <<"failed">>)
    BY <1>3, SameTable DEF B!Effect
  <2> QED
    BY <1>1, <1>3, <2>1, TellKeeps
<1>4. CASE db' = written
  <2>1. NoInternalAlias => B!Effect(request[p], told)
    BY <1>2, <1>4, WriteRow
  <2>2. request[p] \in use /\ answer[p] = NULL
    BY <1>1 DEF IInv, CallInv
  <2>3. /\ db \in [Keys -> B!Value \cup {NULL}] /\ answer = [q \in Proc |-> answer[q]]
        /\ pc \in [Proc -> PCs]
    BY Types
  <2>4. /\ answer' = [answer EXCEPT ![p] = told] /\ pc' = [pc EXCEPT ![p] = "return"]
        /\ answer' = [q \in Proc |-> IF q = p THEN told ELSE answer[q]]
    BY <1>2, <2>3 DEF Tell
  <2>5. /\ pc' \in [Proc -> PCs] /\ answer' = [q \in Proc |-> answer'[q]]
        /\ answer'[p] = told /\ pc'[p] = "return"
    BY <2>3, <2>4 DEF PCs
  <2>6. \A q \in Proc : q # p => Same(q) /\ Held(q)
    BY <1>1, <2>3, <2>4 DEF Same, Held
  <2>7. CallInv(p)'
    BY <1>1, <2>2, <2>5 DEF CallInv
  <2>8. db' \in [Keys -> B!Value \cup {NULL}]
    BY <1>4, <2>3, KeysAre
  <2>9. PlainInv'
    <3>1. NoInternalAlias => \A r \in Rows : db'[KeyOf(r)] = IF r = row THEN v ELSE db[KeyOf(r)]
      BY <1>4, <2>3, KeysAre, KeysDiffer
    <3> QED
      BY <1>1, <3>1, Types DEF PlainInv, ListsPlain
  <2>10. IInv'
    BY <1>1, <2>5, <2>6, <2>7, <2>8, <2>9, Types, StepKeeps
  <2>11. request[p] # NULL
    BY <2>2, Types, UsesAssumption, NullAssumption
  <2>12. NoInternalAlias => B!Perform(p)
    BY <1>1, <2>1, <2>2, <2>4, <2>5, <2>11 DEF B!Perform
  <2> QED
    BY <2>10, <2>12
<1> QED
  BY <1>3, <1>4 DEF WriteKey

LEMMA InsertKeeps ==
    ASSUME IInv, NEW p \in Proc, NEW space, InsertInto(p, space)
    PROVE  IInv' /\ (NoInternalAlias => B!Perform(p) \/ UNCHANGED B!vars)
<1> DEFINE q == request[p]
           key == KeyOf(q.row)
<1>1. q # NULL /\ q.op = "insert"
  BY DEF InsertInto, Asks
<1>2. q \in use /\ q.row \in Rows /\ q.value \in B!Value
  BY <1>1, RequestShapes
<1>3. Table[q.row] = db[key]
  BY <1>2, KeysAre
<1>4. CASE CheckKey(p, IF db[key] # NULL THEN <<"exists">> ELSE NULL)
  <2>1. UNCHANGED Table
    BY <1>4, SameTable DEF CheckKey
  <2>2. CASE db[key] # NULL
    <3>1. CheckKey(p, <<"exists">>) /\ B!Effect(q, <<"exists">>) /\ NULL # <<"exists">>
      BY <1>1, <1>3, <1>4, <2>1, <2>2, NullAssumption DEF B!Effect, B!Insert
    <3> QED
      BY <3>1, CheckKeeps
  <2>3. CASE db[key] = NULL
    <3>1. CheckKey(p, NULL) /\ Checked(q)
      BY <1>1, <1>4, <2>3 DEF Checked
    <3> QED
      BY <3>1, CheckKeeps
  <2> QED
    BY <2>2, <2>3
<1>5. CASE WriteKey(p, key, q.value)
  <2>1. db[key] = NULL
    <3>1. pc[p] = "apply" /\ CallInv(p)
      BY <1>5 DEF WriteKey, At, IInv
    <3> QED
      BY <1>1, <3>1 DEF CallInv, Checked
  <2>2. ListsPlain => q.row.space = "plain"
    BY <1>1, <1>2 DEF ListsPlain, Separated
  <2>3. ASSUME Table' = [Table EXCEPT ![q.row] = q.value], NEW told \in {<<"ok">>, <<"failed">>}
        PROVE  B!Effect(q, told)
    <3> HIDE DEF q, key
    <3> QED
      BY <1>1, <1>3, <2>1, <2>3 DEF B!Effect, B!Insert, B!Told
  <2> QED
    BY <1>2, <1>5, <2>2, <2>3, WriteKeeps
<1> QED
  BY <1>4, <1>5 DEF InsertInto

LEMMA RemoveKeeps ==
    ASSUME IInv, NEW p \in Proc, NEW space, RemoveFrom(p, space)
    PROVE  IInv' /\ (NoInternalAlias => B!Perform(p) \/ UNCHANGED B!vars)
<1> DEFINE q == request[p]
           key == KeyOf(q.row)
           refused == <<"not found">>
<1>1. q # NULL /\ q.op = "remove"
  BY DEF RemoveFrom, Asks
<1>2. q.row \in Rows
  BY <1>1, RequestShapes
<1>3. Table[q.row] = db[key]
  BY <1>2, KeysAre
<1>4. CASE CheckKey(p, IF db[key] = NULL THEN refused ELSE NULL)
  <2>1. UNCHANGED Table
    BY <1>4, SameTable, Zenon DEF CheckKey
  <2>2. CASE db[key] = NULL
    <3>1. CheckKey(p, refused) /\ NULL # refused
      BY <1>4, <2>2, NullAssumption, Zenon
    <3>2. B!Effect(q, refused)
      BY <1>1, <1>3, <2>1, <2>2, Zenon DEF B!Effect, B!Remove
    <3> HIDE DEF refused
    <3> QED
      BY <3>1, <3>2, CheckKeeps
  <2>3. CASE db[key] # NULL
    <3>1. CheckKey(p, NULL)
      BY <1>4, <2>3, Zenon
    <3>2. Checked(q)
      BY <1>1, <2>3 DEF Checked
    <3> QED
      BY <3>1, <3>2, CheckKeeps
  <2> QED
    BY <2>2, <2>3
<1>5. CASE WriteKey(p, key, NULL)
  <2>1. db[key] # NULL
    <3>1. pc[p] = "apply" /\ CallInv(p)
      BY <1>5 DEF WriteKey, At, IInv
    <3> QED
      BY <1>1, <3>1 DEF CallInv, Checked
  <2>2. ASSUME Table' = [Table EXCEPT ![q.row] = NULL], NEW told \in {<<"ok">>, <<"failed">>}
        PROVE  B!Effect(q, told)
    <3> HIDE DEF q, key
    <3> QED
      BY <1>1, <1>3, <2>1, <2>2 DEF B!Effect, B!Remove, B!Told
  <2> QED
    BY <1>2, <1>5, <2>2, WriteKeeps
<1> QED
  BY <1>4, <1>5 DEF RemoveFrom

LEMMA SwapKeeps ==
    ASSUME IInv, NEW p \in Proc, CompareAndSwapHeader(p)
    PROVE  IInv' /\ (NoInternalAlias => B!Perform(p) \/ UNCHANGED B!vars)
<1> DEFINE q == request[p]
           current == db[EncryptionHeaderKey]
           absent == <<"not initialized">>
           refusal == CASE current = NULL -> absent
                        [] current # NULL -> IF current.rev # q.expected THEN <<"conflict">> ELSE NULL
<1>1. q # NULL /\ q.op = "swap"
  BY DEF CompareAndSwapHeader
<1>2. q.value \in B!Value
  BY <1>1, RequestShapes
<1>3. Table[B!HeaderRow] = current
  BY RowsAreRows, KeysAre, KeyOfHeader
<1>4. CASE CheckKey(p, refusal)
  <2>1. UNCHANGED Table
    BY <1>4, SameTable, Zenon DEF CheckKey
  <2>2. CASE current = NULL
    <3>1. refusal = absent
      BY <2>2, Zenon
    <3>2. NULL # absent
      BY NullAssumption, Zenon
    <3>3. B!Effect(q, absent)
      BY <1>1, <1>3, <2>1, <2>2, Zenon DEF B!Effect, B!Swap
    <3> HIDE DEF refusal, absent
    <3> QED
      BY <1>4, <3>1, <3>2, <3>3, CheckKeeps
  <2>3. CASE current # NULL
    <3>1. refusal = IF current.rev # q.expected THEN <<"conflict">> ELSE NULL
      BY <2>3, Zenon
    <3> HIDE DEF refusal, absent
    <3>2. CASE current.rev # q.expected
      <4>1. refusal = <<"conflict">> /\ NULL # <<"conflict">>
        BY <3>1, <3>2, NullAssumption, Zenon
      <4>2. B!Effect(q, <<"conflict">>)
        BY <1>1, <1>3, <2>1, <2>3, <3>2, Zenon DEF B!Effect, B!Swap
      <4> QED
        BY <1>4, <4>1, <4>2, CheckKeeps
    <3>3. CASE current.rev = q.expected
      <4>1. refusal = NULL
        BY <3>1, <3>3
      <4>2. Checked(q)
        BY <1>1, <2>3, <3>3 DEF Checked
      <4> QED
        BY <1>4, <4>1, <4>2, CheckKeeps
    <3> QED
      BY <3>2, <3>3
  <2> QED
    BY <2>2, <2>3
<1>5. CASE WriteKey(p, EncryptionHeaderKey, q.value)
  <2>1. current # NULL /\ current.rev = q.expected
    <3>1. pc[p] = "apply" /\ CallInv(p)
      BY <1>5 DEF WriteKey, At, IInv
    <3> QED
      BY <1>1, <3>1 DEF CallInv, Checked
  <2>2. ~ListsPlain
    <3>1. B!HeaderRow \in Rows /\ B!HeaderRow.space # "plain"
      BY RowsAreRows
    <3> QED
      BY <2>1, <3>1, Types, KeyOfHeader DEF PlainInv
  <2>3. ASSUME Table' = [Table EXCEPT ![B!HeaderRow] = q.value], NEW told \in {<<"ok">>, <<"failed">>}
        PROVE  B!Effect(q, told)
    <3>1. B!Told(<<"ok">>) = {<<"ok">>, <<"failed">>}
      BY DEF B!Told
    <3> QED
      BY <1>1, <1>3, <2>1, <2>3, <3>1, Zenon DEF B!Effect, B!Swap
  <2> HIDE DEF q, current
  <2>4. WriteKey(p, KeyOf(B!HeaderRow), q.value)
    BY <1>5, KeyOfHeader
  <2> QED
    BY <1>2, <2>2, <2>3, <2>4, RowsAreRows, WriteKeeps DEF q
<1> QED
  BY <1>4, <1>5, Zenon DEF CompareAndSwapHeader

LEMMA ReadKeeps ==
    ASSUME IInv, NEW p \in Proc, NEW space, ReadFrom(p, space)
    PROVE  IInv' /\ B!Perform(p)
<1> DEFINE q == request[p]
<1>1. q # NULL /\ q.op = "read" /\ pc[p] = "read" /\ UNCHANGED <<db, mu, handle, use, request>>
  BY DEF ReadFrom, Asks, At
<1>2. PICK told \in {<<"row", db[KeyOf(q.row)]>>, <<"failed">>} : Tell(p, told)
  BY DEF ReadFrom
<1>3. Table[q.row] = db[KeyOf(q.row)] /\ UNCHANGED Table
  BY <1>1, RequestShapes, KeysAre, SameTable
<1>4. B!Effect(q, told)
  BY <1>1, <1>2, <1>3 DEF B!Effect, B!Read
<1> QED
  BY <1>1, <1>2, <1>4, TellKeeps

LEMMA ListKeeps ==
    ASSUME IInv, NEW p \in Proc, NEW space, NEW names, ListKeys(p, space, names)
    PROVE  /\ IInv'
           /\ names = {r.alias : r \in {s \in B!Row : s.space = space /\ Table[s] # NULL}} => B!Perform(p)
<1> DEFINE q == request[p]
<1>1. /\ pc[p] = "list" /\ q.space = space /\ UNCHANGED <<db, mu, handle, use, request>>
      /\ q.op = "list"
  BY DEF ListKeys, At, IInv, CallInv
<1>2. PICK told \in {<<"rows", names>>, <<"failed">>} : Tell(p, told)
  BY DEF ListKeys
<1>3. ASSUME names = {r.alias : r \in {s \in B!Row : s.space = space /\ Table[s] # NULL}}
      PROVE  B!Effect(q, told)
  <2>1. UNCHANGED Table
    BY <1>1, SameTable
  <2> HIDE DEF q
  <2> QED
    BY <1>1, <1>2, <1>3, <2>1, Zenon DEF B!Effect, B!List
<1> QED
  BY <1>1, <1>2, <1>3, TellKeeps

(* The keys under the prefix, without it, are the aliases with an envelope. *)
LEMMA EnvelopesListed ==
    ASSUME NoInternalAlias
    PROVE  {SubSeq(k, Len(EnvelopePrefix) + 1, Len(k)) : k \in {e \in Present : HasPrefix(e, EnvelopePrefix)}}
               = {r.alias : r \in {s \in B!Row : s.space = "envelope" /\ Table[s] # NULL}}
<1> DEFINE Cut(k) == SubSeq(k, Len(EnvelopePrefix) + 1, Len(k))
           Left == {e \in Present : HasPrefix(e, EnvelopePrefix)}
           Right == {s \in B!Row : s.space = "envelope" /\ Table[s] # NULL}
<1>1. ASSUME NEW r \in Right
      PROVE  KeyOf(r) \in Left /\ Cut(KeyOf(r)) = r.alias
  <2>1. r \in Rows /\ r.space = "envelope" /\ r.alias \in Alias /\ Table[r] # NULL
    BY RowsAreRows
  <2>2. KeyOf(r) = EnvelopeKey(r.alias) /\ KeyOf(r) \in Keys /\ db[KeyOf(r)] # NULL
    BY <2>1, KeyIs, KeysAre
  <2> QED
    BY <2>1, <2>2, EnvelopeKeyIs DEF Present
<1>2. ASSUME NEW k \in Left
      PROVE  \E r \in Right : Cut(k) = r.alias
  <2>1. k \in Keys /\ db[k] # NULL /\ HasPrefix(k, EnvelopePrefix)
    BY DEF Present
  <2>2. PICK r \in Rows : k = KeyOf(r)
    BY <2>1 DEF Keys
  <2>3. r.space = "envelope"
    BY <2>1, <2>2, KeyIs, RowsAreRows, NoOtherHasPrefix
  <2>4. r \in Right
    BY <2>1, <2>2, <2>3, KeysAre, RowsAreRows
  <2> QED
    BY <2>2, <2>4, <1>1
<1> HIDE DEF Cut, Left, Right
<1>3. {Cut(k) : k \in Left} = {r.alias : r \in Right}
  BY <1>1, <1>2
<1> QED
  BY <1>3 DEF Cut, Left, Right

LEMMA PlainListed ==
    ASSUME IInv, ListsPlain
    PROVE  Present = {r.alias : r \in {s \in B!Row : s.space = "plain" /\ Table[s] # NULL}}
<1> DEFINE Right == {s \in B!Row : s.space = "plain" /\ Table[s] # NULL}
<1>1. ASSUME NEW r \in Right
      PROVE  r.alias \in Present
  BY RowsAreRows, KeyIs, KeysAre DEF Present
<1>2. ASSUME NEW k \in Present
      PROVE  \E r \in Right : k = r.alias
  <2>1. PICK r \in Rows : k = KeyOf(r)
    BY DEF Keys, Present
  <2>2. db[KeyOf(r)] # NULL
    BY <2>1 DEF Present
  <2>3. r.space = "plain"
    BY <2>2, Types DEF PlainInv
  <2> QED
    BY <2>1, <2>2, <2>3, KeyIs, KeysAre, RowsAreRows
<1> QED
  BY <1>1, <1>2

LEMMA LockKeeps ==
    ASSUME IInv, NEW p \in Proc, Lock(p)
    PROVE  IInv' /\ UNCHANGED B!vars
BY GoKeeps DEF Lock, At

LEMMA AskKeeps ==
    ASSUME IInv, NEW p \in Proc, Ask(p)
    PROVE  IInv' /\ B!Ask(p)
<1>1. PICK q \in use :
        /\ request' = [request EXCEPT ![p] = q]
        /\ pc' = [pc EXCEPT ![p] = IF q.op \in {"read", "list"} THEN q.op ELSE "lock"]
  BY DEF Ask
<1>2. pc[p] = "idle" /\ UNCHANGED <<db, mu, handle, use, answer>> /\ request[p] = NULL /\ answer[p] = NULL
  BY DEF Ask, IInv, CallInv
<1>3. q \in B!Request
  BY Types, UsesAssumption
<1>4. /\ pc' \in [Proc -> PCs] /\ request' \in [Proc -> use \cup {NULL}] /\ request'[p] = q
      /\ pc'[p] = IF q.op \in {"read", "list"} THEN q.op ELSE "lock"
      /\ \A r \in Proc : r # p => Same(r) /\ Held(r)
  BY <1>1, <1>2, Types DEF PCs, Same, Held
<1>5. CallInv(p)'
  BY <1>2, <1>4 DEF CallInv
<1>6. IInv'
  BY <1>2, <1>4, <1>5, Types, SamePlain, StepKeeps
<1>7. B!Ask(p)
  BY <1>1, <1>2, <1>3, <1>4, SameTable DEF B!Ask
<1> QED
  BY <1>6, <1>7

LEMMA ReturnKeeps ==
    ASSUME IInv, NEW p \in Proc, Return(p)
    PROVE  IInv' /\ B!Leave({p})
<1>1. /\ request' = [r \in Proc |-> IF r = p THEN NULL ELSE request[r]]
      /\ answer' = [r \in Proc |-> IF r = p THEN NULL ELSE answer[r]]
      /\ UNCHANGED <<db, mu, handle, use>>
  BY Types DEF Return
<1>2. /\ pc' \in [Proc -> PCs] /\ pc'[p] = "idle" /\ \A r \in Proc : r # p => pc'[r] = pc[r]
  BY Types DEF Return, PCs
<1>3. /\ request' \in [Proc -> use \cup {NULL}] /\ request'[p] = NULL /\ answer'[p] = NULL
      /\ answer' = [r \in Proc |-> answer'[r]]
      /\ \A r \in Proc : r # p => Same(r) /\ Held(r)
  BY <1>1, <1>2, Types DEF Same, Held
<1>4. CallInv(p)'
  BY <1>2, <1>3 DEF CallInv
<1>5. IInv'
  BY <1>1, <1>2, <1>3, <1>4, Types, SamePlain, StepKeeps
<1>6. B!Leave({p})
  BY <1>1, SameTable DEF B!Leave
<1> QED
  BY <1>5, <1>6

LEMMA CloseKeeps ==
    ASSUME IInv, NEW p \in Proc, Close(p)
    PROVE  IInv' /\ UNCHANGED B!vars
<1>1. UNCHANGED <<db, mu, use, pc, request, answer>> /\ handle' = "nil"
  BY DEF Close
<1>2. CallInv(p)'
  BY <1>1 DEF IInv, CallInv, Checked
<1>3. IInv'
  BY <1>1, <1>2, Types, SamePlain, StepKeeps DEF Same, Held
<1> QED
  BY <1>1, <1>3, SameTable DEF B!vars

LEMMA CrashKeeps ==
    ASSUME IInv, Crash
    PROVE  IInv' /\ B!Leave(Proc)
<1>1. \A p \in Proc : CallInv(p)'
  BY DEF Crash, CallInv
<1>2. IInv'
  BY <1>1, Types, SamePlain DEF Crash, IInv, TypeOK
<1>3. B!Leave(Proc)
  BY SameTable DEF Crash, B!Leave
<1> QED
  BY <1>2, <1>3

-----------------------------------------------------------------------------
(* The theorems. *)

LEMMA InitIInv == Init => IInv /\ B!Init
<1> SUFFICES ASSUME Init PROVE IInv /\ B!Init
  OBVIOUS
<1>1. \A r \in Rows : db[KeyOf(r)] = NULL
  BY KeysAre DEF Init
<1>2. IInv
  BY <1>1 DEF Init, IInv, TypeOK, CallInv, PlainInv
<1>3. B!Init
  BY <1>1, RowsAreRows DEF Init, B!Init, Table
<1> QED
  BY <1>2, <1>3

Apart == NoInternalAlias /\ Separated(use)

LEMMA StepIInv == IInv /\ [Next]_vars => IInv' /\ (Apart => [B!Next]_(B!vars))
<1> SUFFICES ASSUME IInv, [Next]_vars
             PROVE  IInv' /\ (Apart => B!Next \/ UNCHANGED B!vars)
  OBVIOUS
<1>1. CASE UNCHANGED vars
  <2>1. UNCHANGED <<db, mu, handle, use, pc, request, answer>>
    BY <1>1 DEF vars
  <2>2. \A q \in Proc : CallInv(q)'
    BY <2>1, OthersKeep DEF Same, Held
  <2> QED
    BY <2>1, <2>2, Types, SamePlain, SameTable DEF IInv, TypeOK, B!vars
<1>2. CASE Crash
  BY <1>2, CrashKeeps DEF B!Next
<1>3. CASE \E p \in Proc : Ask(p) \/ Step(p) \/ Close(p)
  <2>1. PICK p \in Proc : Ask(p) \/ Step(p) \/ Close(p)
    BY <1>3
  <2>2. SUFFICES /\ IInv'
                 /\ Apart => B!Ask(p) \/ B!Perform(p) \/ B!Leave({p}) \/ UNCHANGED B!vars
    BY DEF B!Next
  <2>3. CASE Ask(p) \/ Close(p) \/ Lock(p) \/ Return(p) \/ CompareAndSwapHeader(p)
    BY <2>3, AskKeeps, CloseKeeps, LockKeeps, ReturnKeeps, SwapKeeps DEF Apart
  <2>4. CASE Put(p) \/ PutEnvelope(p) \/ CreateHeader(p)
    BY <2>4, InsertKeeps DEF Apart, Put, PutEnvelope, CreateHeader
  <2>5. CASE Get(p) \/ GetEnvelope(p) \/ LoadHeader(p)
    BY <2>5, ReadKeeps DEF Get, GetEnvelope, LoadHeader
  <2>6. CASE Delete(p) \/ DeleteEnvelope(p)
    BY <2>6, RemoveKeeps DEF Apart, Delete, DeleteEnvelope
  <2>7. CASE List(p)
    <3>1. ListKeys(p, "plain", Present)
      BY <2>7 DEF List
    <3>2. request[p] \in use /\ request[p].op = "list" /\ request[p].space = "plain"
      BY <3>1 DEF ListKeys, At, IInv, CallInv
    <3>3. Apart => ListsPlain
      BY <3>2 DEF Apart, ListsPlain
    <3> QED
      BY <3>1, <3>3, ListKeeps, PlainListed
  <2>8. CASE ListEnvelopes(p)
    BY <2>8, ListKeeps, EnvelopesListed DEF Apart, ListEnvelopes
  <2> QED
    BY <2>1, <2>3, <2>4, <2>5, <2>6, <2>7, <2>8 DEF Step
<1> QED
  BY <1>1, <1>2, <1>3 DEF Next

(* IInv holds of the goroutines of one Pebble database, however many.      *)
THEOREM Invariance == Spec => []IInv
<1> QED
  BY InitIInv, StepIInv, PTL DEF Spec

(* The database, the mutex and the requests under way keep their types     *)
(* (pebble.go:28-58).                                                      *)
THEOREM TypeCorrect == Spec => []TypeOK
<1>1. IInv => TypeOK
  BY DEF IInv
<1> QED
  BY <1>1, Invariance, PTL

(* Every operation takes effect at one moment with the answer of that      *)
(* moment, though its check and its write are two calls and readers come   *)
(* in between (pebble.go:60-85, 202-216, 253-275), for programs that do    *)
(* not list plain records beside envelopes and whose aliases are no keys   *)
(* of the encrypted store, which store.ValidateAlias does not check        *)
(* (lib/store/store.go:48-53).                                             *)
THEOREM Refinement ==
    ASSUME NoInternalAlias, \A U \in Uses : Separated(U)
    PROVE  Spec => ImplementsBackend
<1>1. IInv /\ [Next]_vars => [B!Next]_(B!vars)
  <2>1. IInv => Apart
    BY Types DEF Apart
  <2> QED
    BY <2>1, StepIInv
<1> QED
  BY <1>1, InitIInv, Invariance, PTL DEF Spec, ImplementsBackend, B!Spec
=============================================================================
