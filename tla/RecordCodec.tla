---------------------------- MODULE RecordCodec ----------------------------
(***************************************************************************)
(* The bytes of the encrypted store: the record codec, the additional data *)
(* that bind a ciphertext to its place, and the limits of sizes            *)
(* (pkg/store/encrypted/encrypted.go:444-594).  A byte is a number, a      *)
(* string of bytes a sequence; strings are shorter than 2^31 bytes.        *)
(***************************************************************************)
EXTENDS Integers, Sequences

CONSTANTS
    MaxPayloadField,    \* 2^20 in the code
    MaxCiphertext,      \* 2^22
    Overhead,           \* of the AEAD, 16
    SaltSize,           \* 32
    StoreIdSize,        \* 16
    HeaderAADPrefix,    \* the two prefixes, different strings
    RecordAADPrefix

Byte == 0..255

(* Strings of bytes are shorter than 2^31. *)
Longest == 2147483647

Bytes == {s \in Seq(Byte) : Len(s) < Longest}

ASSUME SizeAssumption ==
    /\ {MaxPayloadField, MaxCiphertext, Overhead, SaltSize, StoreIdSize} \subseteq Nat
    /\ SaltSize <= MaxPayloadField

(* The largest record, two fields at the limit, a salt, three lengths and  *)
(* a version, still fits under the limit of ciphertexts.                   *)
ASSUME FitAssumption == 2 * MaxPayloadField + SaltSize + 14 + Overhead <= MaxCiphertext

ASSUME PrefixAssumption ==
    /\ HeaderAADPrefix \in Seq(Byte) /\ Len(HeaderAADPrefix) < Longest
    /\ RecordAADPrefix \in Seq(Byte) /\ Len(RecordAADPrefix) < Longest
    /\ HeaderAADPrefix # RecordAADPrefix

FormatVersion == 1

-----------------------------------------------------------------------------
(* Big-endian numbers and length-prefixed strings. *)

Uint16(n) == <<(n \div 256) % 256, n % 256>>
Uint32(n) ==
    <<((n \div 65536) \div 256) % 256, (n \div 65536) % 256, (n \div 256) % 256, n % 256>>
Uint64(n) == Uint32((n \div 65536) \div 65536) \o Uint32(n)

LengthPrefixed(s) == Uint32(Len(s)) \o s

-----------------------------------------------------------------------------
(* Additional data. *)

(* Mutant: the revision is left out. *)
HeaderAADNoRevision(h) ==
    LengthPrefixed(HeaderAADPrefix) \o Uint16(h.version) \o LengthPrefixed(h.id)
    \o LengthPrefixed(h.cred) \o LengthPrefixed(h.salt) \o LengthPrefixed(h.rpid)

HeaderAAD(h) ==
    LengthPrefixed(HeaderAADPrefix)
    \o (Uint16(h.version) \o (Uint64(h.revision) \o (LengthPrefixed(h.id)
    \o (LengthPrefixed(h.cred) \o (LengthPrefixed(h.salt) \o LengthPrefixed(h.rpid))))))

(* Mutant: the alias is left out. *)
RecordAADNoAlias(id, alias) ==
    LengthPrefixed(RecordAADPrefix) \o Uint16(FormatVersion) \o LengthPrefixed(id)

RecordAAD(id, alias) ==
    LengthPrefixed(RecordAADPrefix)
    \o (Uint16(FormatVersion) \o (LengthPrefixed(id) \o LengthPrefixed(alias)))

-----------------------------------------------------------------------------
(* Records. *)

Record == [cred : Bytes, salt : Bytes, rpid : Bytes]

ValidateRecord(rec) == Len(rec.cred) > 0 /\ Len(rec.salt) = SaltSize /\ Len(rec.rpid) > 0

(* Mutant: only the credential id is measured. *)
EncodableCred(rec) == Len(rec.cred) <= MaxPayloadField

Encodable(rec) == Len(rec.cred) <= MaxPayloadField /\ Len(rec.rpid) <= MaxPayloadField

EncodeRecord(rec) ==
    Uint16(FormatVersion)
    \o (LengthPrefixed(rec.cred) \o (LengthPrefixed(rec.salt) \o LengthPrefixed(rec.rpid)))

Uint16At(d) == 256 * d[1] + d[2]
Uint32At(d) == 16777216 * d[1] + 65536 * d[2] + 256 * d[3] + d[4]

(* payloadReader.bytes: the next field and what follows it, or nothing. *)
ReadBytes(d) ==
    IF Len(d) < 4 \/ Uint32At(d) > MaxPayloadField \/ Uint32At(d) > Len(d) - 4 THEN <<>>
    ELSE <<[value |-> SubSeq(d, 5, 4 + Uint32At(d)),
            rest |-> SubSeq(d, 5 + Uint32At(d), Len(d))]>>

ReadVersion(d) == Len(d) >= 2 /\ Uint16At(d) = FormatVersion

NothingLeft(rest) == rest = <<>>

(* The fields after the version one by one, and nothing after them. *)
ReadFields(d) ==
    LET cred == ReadBytes(d)
        salt == ReadBytes(cred[1].rest)
        rpid == ReadBytes(salt[1].rest)
    IN  IF cred = <<>> THEN <<>>
        ELSE IF salt = <<>> THEN <<>>
        ELSE IF rpid = <<>> THEN <<>>
        ELSE IF ~NothingLeft(rpid[1].rest) THEN <<>>
        ELSE <<[cred |-> cred[1].value, salt |-> salt[1].value, rpid |-> rpid[1].value]>>

(* A record, in a sequence of one, or the empty sequence for an error. *)
DecodeRecord(d) ==
    IF ReadVersion(d) THEN ReadFields(SubSeq(d, 3, Len(d))) ELSE <<>>

(* The sizes of a ciphertext that validateBlob accepts. *)
ValidSize(plain) == Len(plain) + Overhead <= MaxCiphertext
=============================================================================
