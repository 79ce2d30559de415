-------------------------- MODULE EnvelopeBinding --------------------------
(***************************************************************************)
(* Envelopes and headers down to their bytes: what Put seals, what Get     *)
(* opens, and what Unlock accepts, when the database under the store gives *)
(* back rows other than those written: an older header, half a header, the *)
(* row of another alias or of another store.  The reason for headerAAD and *)
(* recordAAD (pkg/store/encrypted/encrypted.go:482-505), which             *)
(* EncryptedStore takes as injective.                                      *)
(*                                                                         *)
(* One Store per database and no interleaving: EncryptedStore has those.   *)
(* Aliases and RP ids are as strings.TrimSpace leaves them.                *)
(***************************************************************************)
EXTENDS RecordCodec

CONSTANTS
    Database,       \* databases, each named by the store id Initialize draws
    Alias,          \* aliases, as bytes
    Candidate,      \* the records that callers put
    Ref,            \* KEK references [cred, salt, rpid]
    MaxNonce,       \* bound: seals
    MaxRevision,    \* bound: header revisions
    NULL

ASSUME DatabaseAssumption == Database \subseteq {s \in Bytes : Len(s) = StoreIdSize}
ASSUME ArgumentAssumption == Alias \subseteq Bytes \ {<<>>} /\ Candidate \subseteq Record
ASSUME RefAssumption ==
    Ref \subseteq {r \in Record : Len(r.cred) > 0 /\ Len(r.salt) = SaltSize /\ Len(r.rpid) > 0}
ASSUME BoundAssumption == MaxNonce \in Nat /\ MaxRevision \in Nat /\ MaxRevision <= Longest

Dek(d) == <<"dek", d>>
Kek(ref) == <<"kek", ref.cred, ref.salt>>

VARIABLES
    header,         \* per database: [pub, blob], NULL before Initialize
    row,            \* per database and alias: the envelope, or NULL
    session,        \* per database: the header unlocked, NULL while locked
    got,            \* the last Get: [id, alias, blob, outcome], NULL before
    nonce,          \* seals so far, each with a nonce of its own
    written,        \* ghost: every header ever written
    put             \* ghost: every Put: [id, alias, rec, blob]

vars == <<header, row, session, got, nonce, written, put>>

Init ==
    /\ header = [d \in Database |-> NULL]
    /\ row = [d \in Database |-> [a \in Alias |-> NULL]]
    /\ session = [d \in Database |-> NULL]
    /\ got = NULL
    /\ nonce = 0
    /\ written = {} /\ put = {}

Seal(key, plain, aad) == [key |-> key, plain |-> plain, aad |-> aad, nonce |-> nonce]

-----------------------------------------------------------------------------
(* Headers. *)

Public(id, revision, ref) ==
    [version |-> FormatVersion, revision |-> revision, id |-> id,
     cred |-> ref.cred, salt |-> ref.salt, rpid |-> ref.rpid]

Store(d, h) ==
    /\ nonce < MaxNonce /\ nonce' = nonce + 1
    /\ header' = [header EXCEPT ![d] = h]
    /\ session' = [session EXCEPT ![d] = h]
    /\ written' = written \cup {h}
    /\ UNCHANGED <<row, got, put>>

Initialize(d, ref) ==
    /\ header[d] = NULL
    /\ \A a \in Alias : row[d][a] = NULL
    /\ LET pub == Public(d, 1, ref)
       IN  Store(d, [pub |-> pub, blob |-> Seal(Kek(ref), Dek(d), HeaderAAD(pub))])

(* The revisions match, or it is a conflict. *)
RotateKEK(d, ref) ==
    /\ session[d] # NULL /\ header[d] # NULL
    /\ header[d].pub.revision = session[d].pub.revision
    /\ header[d].pub.revision < MaxRevision
    /\ LET pub == Public(header[d].pub.id, header[d].pub.revision + 1, ref)
       IN  Store(d, [pub |-> pub, blob |-> Seal(Kek(ref), session[d].blob.plain, HeaderAAD(pub))])

(* The AEAD opens under the key and the additional data it sealed with. *)
Opens(blob, key, aad) == blob.key = key /\ blob.aad = aad

Unlock(d, ref) ==
    /\ header[d] # NULL
    /\ Opens(header[d].blob, Kek(ref), HeaderAAD(header[d].pub))
    /\ session' = [session EXCEPT ![d] = header[d]]
    /\ UNCHANGED <<header, row, got, nonce, written, put>>

Lock(d) ==
    /\ session[d] # NULL
    /\ session' = [session EXCEPT ![d] = NULL]
    /\ UNCHANGED <<header, row, got, nonce, written, put>>

-----------------------------------------------------------------------------
(* Records. *)

Put(d, a, rec) ==
    /\ ValidateRecord(rec)
    /\ session[d] # NULL
    /\ Encodable(rec)
    /\ row[d][a] = NULL
    /\ nonce < MaxNonce /\ nonce' = nonce + 1
    /\ LET id == session[d].pub.id
           blob == Seal(session[d].blob.plain, EncodeRecord(rec), RecordAAD(id, a))
       IN  /\ row' = [row EXCEPT ![d] = [row[d] EXCEPT ![a] = blob]]
           /\ put' = put \cup {[id |-> id, alias |-> a, rec |-> rec, blob |-> blob]}
    /\ UNCHANGED <<header, session, got, written>>

(* What Get makes of an envelope: a record in a sequence, or an error. *)
Opened(blob, key, aad) ==
    LET rec == DecodeRecord(blob.plain)
    IN  IF /\ ValidSize(blob.plain) /\ Opens(blob, key, aad)
           /\ \A k \in DOMAIN rec : ValidateRecord(rec[k])
        THEN rec ELSE <<>>

Get(d, a) ==
    /\ session[d] # NULL
    /\ row[d][a] # NULL
    /\ LET id == session[d].pub.id
       IN  got' = [id |-> id, alias |-> a, blob |-> row[d][a],
                   outcome |-> Opened(row[d][a], session[d].blob.plain, RecordAAD(id, a))]
    /\ UNCHANGED <<header, row, session, nonce, written, put>>

Delete(d, a) ==
    /\ session[d] # NULL
    /\ row[d][a] # NULL
    /\ row' = [row EXCEPT ![d] = [row[d] EXCEPT ![a] = NULL]]
    /\ UNCHANGED <<header, session, got, nonce, written, put>>

-----------------------------------------------------------------------------
(* The database gives back something else than what was last written. *)

RowRestored(d, a) ==
    /\ \E p \in put : row' = [row EXCEPT ![d] = [row[d] EXCEPT ![a] = p.blob]]
    /\ UNCHANGED <<header, session, got, nonce, written, put>>

(* The public part of one header of the store with the wrapped key of      *)
(* another.  (Of the store: RotateKEK compares revisions, not store ids.)  *)
HeaderRestored(d) ==
    /\ \E v, w \in {h \in written : h.pub.id = d} :
          header' = [header EXCEPT ![d] = [pub |-> v.pub, blob |-> w.blob]]
    /\ UNCHANGED <<row, session, got, nonce, written, put>>

Next == \E d \in Database :
    \/ \E ref \in Ref : Initialize(d, ref) \/ RotateKEK(d, ref) \/ Unlock(d, ref)
    \/ Lock(d) \/ HeaderRestored(d)
    \/ \E a \in Alias :
          \/ \E rec \in Candidate : Put(d, a, rec)
          \/ Get(d, a) \/ Delete(d, a) \/ RowRestored(d, a)

Spec == Init /\ [][Next]_vars

-----------------------------------------------------------------------------
(* Whatever rows the database gives back, the record that Get returns for  *)
(* an alias was put under that alias of that store, and was sealed in the  *)
(* very envelope it was read from: additional data that left out the alias *)
(* or could be read in two ways would answer with the record of another    *)
(* (encrypted.go:247-272, 499-505).                                        *)
GetReturnsWhatWasPut ==
    got # NULL => \A k \in DOMAIN got.outcome :
        \E p \in put : /\ p.id = got.id /\ p.alias = got.alias
                       /\ p.blob = got.blob /\ p.rec = got.outcome[k]

(* A header is accepted only as it was written: the revision, the store id *)
(* and the KEK reference that go with this wrapped key, never those of     *)
(* another revision (encrypted.go:141-148, 488-497).                       *)
UnlockAcceptsWrittenHeader ==
    \A d \in Database : session[d] # NULL => session[d] \in written

(* A record that Put accepted can be read back from its envelope: every    *)
(* size it accepts is one that openLocked and the decoder accept           *)
(* (encrypted.go:507-516, 444-480, 577-594).                               *)
PutIsReadable ==
    got # NULL => \A p \in put :
        p.id = got.id /\ p.alias = got.alias /\ p.blob = got.blob => got.outcome = <<p.rec>>

-----------------------------------------------------------------------------
(* The inductive invariant. *)

(* Every header was sealed over its own public part and wraps its store's  *)
(* DEK; what a database holds is made of the headers of its store; what is *)
(* unlocked is one of them (encrypted.go:97-113, 196-204).                 *)
Genuine(h) ==
    /\ h = [pub |-> h.pub, blob |-> h.blob]
    /\ \E id \in Database, n \in 1..(MaxRevision + 1), ref \in Ref : h.pub = Public(id, n, ref)
    /\ h.blob.aad = HeaderAAD(h.pub)
    /\ h.blob.plain = Dek(h.pub.id)

HeaderInv ==
    /\ DOMAIN header = Database /\ DOMAIN session = Database
    /\ \A h \in written : Genuine(h)
    /\ \A d \in Database : header[d] # NULL =>
          \E v, w \in written : /\ v.pub.id = d /\ w.pub.id = d
                                /\ header[d] = [pub |-> v.pub, blob |-> w.blob]
    /\ \A d \in Database : session[d] # NULL => session[d] \in written /\ session[d].pub.id = d

(* Every envelope was sealed for a record that can be encoded, under the   *)
(* DEK of its store, with a nonce of its own (encrypted.go:223-240).       *)
Sealed(p) ==
    /\ p.id \in Database /\ p.alias \in Alias
    /\ p.rec \in Candidate /\ ValidateRecord(p.rec) /\ Encodable(p.rec)
    /\ p.blob.key = Dek(p.id) /\ p.blob.plain = EncodeRecord(p.rec)
    /\ p.blob.aad = RecordAAD(p.id, p.alias)
    /\ p.blob.nonce \in Nat /\ p.blob.nonce < nonce

RowInv ==
    /\ nonce \in Nat
    /\ DOMAIN row = Database /\ \A d \in Database : DOMAIN row[d] = Alias
    /\ \A p \in put : Sealed(p)
    /\ \A d \in Database, a \in Alias : row[d][a] # NULL => \E p \in put : p.blob = row[d][a]
    /\ got # NULL => \E p \in put : p.blob = got.blob

(* The two, and what is to be shown of the last Get. *)
IInv == HeaderInv /\ RowInv /\ GetReturnsWhatWasPut /\ PutIsReadable
=============================================================================
