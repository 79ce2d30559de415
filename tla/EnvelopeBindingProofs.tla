----------------------- MODULE EnvelopeBindingProofs -----------------------
(***************************************************************************)
(* What the additional data achieve, for all databases, aliases, records   *)
(* and KEK references.  First the encodings: the additional data of        *)
(* headers and records are injective, what is encoded is decoded, and what *)
(* Put accepts fits the limit of ciphertexts, for every size and every     *)
(* string of bytes (pkg/store/encrypted/encrypted.go:444-594).  Then the   *)
(* theorems about EnvelopeBinding.                                         *)
(***************************************************************************)
EXTENDS EnvelopeBinding, SequenceTheorems, TLAPS

(* The range of Go's uint16, and 2^32. *)
Word16 == {n \in Nat : n < 65536}

Word32 == 4294967296

(* Equal concatenations whose first parts are equally long are equal part  *)
(* by part.                                                                *)
LEMMA ConcatSplit ==
    ASSUME NEW s \in Seq(Byte), NEW t \in Seq(Byte), NEW x \in Seq(Byte), NEW y \in Seq(Byte),
           Len(s) = Len(t), s \o x = t \o y
    PROVE  s = t /\ x = y
<1>1. Len(x) = Len(y)
  BY ConcatProperties, LenProperties
<1>2. ASSUME NEW i \in 1..Len(s) PROVE s[i] = t[i]
  <2>1. (s \o x)[i] = s[i] /\ (t \o y)[i] = t[i]
    BY ConcatProperties, LenProperties
  <2> QED BY <2>1
<1>3. s = t
  BY <1>2, SeqEqual
<1> QED BY <1>3, ConcatSimplifications

LEMMA Uint32Type ==
    ASSUME NEW n \in Nat
    PROVE  Uint32(n) \in Seq(Byte) /\ Len(Uint32(n)) = 4
<1>1. /\ ((n \div 65536) \div 256) % 256 \in Byte /\ (n \div 65536) % 256 \in Byte
      /\ (n \div 256) % 256 \in Byte /\ n % 256 \in Byte
  BY SMT DEF Byte
<1> QED BY <1>1, SMT DEF Uint32

(* The last two bytes of a number. *)
LEMMA LowBytes ==
    ASSUME NEW n \in Nat
    PROVE  n = 65536 * (n \div 65536) + 256 * ((n \div 256) % 256) + (n % 256)
<1>1. n = 256 * (n \div 256) + (n % 256) /\ n \div 256 \in Nat /\ n % 256 \in 0..255
  BY SMT
<1>2. n \div 256 = 256 * ((n \div 256) \div 256) + ((n \div 256) % 256)
  BY <1>1, SMT
<1>3. (n \div 256) \div 256 = n \div 65536
  BY SMT
<1> QED BY <1>1, <1>2, <1>3, SMT

LEMMA Uint32Low ==
    ASSUME NEW n \in Nat
    PROVE  n = Word32 * ((n \div 65536) \div 65536) + Uint32At(Uint32(n))
<1> DEFINE h == n \div 65536
<1>1. h \in Nat
  BY SMT
<1>2. n = 65536 * h + 256 * ((n \div 256) % 256) + (n % 256)
  BY LowBytes
<1>3. h = 65536 * (h \div 65536) + 256 * ((h \div 256) % 256) + (h % 256)
  <2> HIDE DEF h
  <2> QED BY <1>1, LowBytes
<1>4. Uint32At(Uint32(n)) = 16777216 * ((h \div 256) % 256) + 65536 * (h % 256)
                            + 256 * ((n \div 256) % 256) + (n % 256)
  <2>1. /\ Uint32(n)[1] = (h \div 256) % 256 /\ Uint32(n)[2] = h % 256
        /\ Uint32(n)[3] = (n \div 256) % 256 /\ Uint32(n)[4] = n % 256
    BY DEF Uint32
  <2> QED BY <2>1 DEF Uint32At
<1>5. (h \div 256) % 256 \in Nat /\ h % 256 \in Nat /\ (n \div 256) % 256 \in Nat /\ n % 256 \in Nat
      /\ h \div 65536 \in Nat
  BY <1>1, SMT
<1> QED
  <2> DEFINE a == (h \div 256) % 256
             b == h % 256
             c == (n \div 256) % 256
             e == n % 256
             q == h \div 65536
  <2>1. /\ n = 65536 * h + 256 * c + e
        /\ h = 65536 * q + 256 * a + b
        /\ Uint32At(Uint32(n)) = 16777216 * a + 65536 * b + 256 * c + e
        /\ a \in Nat /\ b \in Nat /\ c \in Nat /\ e \in Nat /\ q \in Nat
    BY <1>2, <1>3, <1>4, <1>5
  <2>2. n = Word32 * q + Uint32At(Uint32(n))
    <3> HIDE DEF a, b, c, e, q, h
    <3> QED BY <1>1, <2>1, SMT DEF Word32
  <2> QED BY <2>2

LEMMA Uint32Value ==
    ASSUME NEW n \in Nat, n < Word32
    PROVE  Uint32At(Uint32(n)) = n
<1>1. (n \div 65536) \div 65536 = 0
  BY SMT DEF Word32
<1>2. n = Word32 * 0 + Uint32At(Uint32(n)) /\ Word32 \in Nat
  BY <1>1, Uint32Low, SMT DEF Word32
<1>3. Uint32At(Uint32(n)) \in Int
  BY SMT DEF Uint32At, Uint32
<1> QED BY <1>2, <1>3

LEMMA WordBound == Longest \in Nat /\ Longest < Word32
BY SMT DEF Longest, Word32

LEMMA BytesAreSeq ==
    ASSUME NEW s \in Bytes
    PROVE  s \in Seq(Byte) /\ Len(s) \in Nat /\ Len(s) < Longest
<1>1. s \in Seq(Byte) /\ Len(s) < Longest
  BY SMT DEF Bytes
<1> QED BY <1>1, LenProperties, SMT

LEMMA PrefixedType ==
    ASSUME NEW s \in Bytes
    PROVE  LengthPrefixed(s) \in Seq(Byte) /\ Len(LengthPrefixed(s)) = 4 + Len(s)
<1>1. s \in Seq(Byte) /\ Uint32(Len(s)) \in Seq(Byte) /\ Len(Uint32(Len(s))) = 4
  BY BytesAreSeq, Uint32Type
<1>2. /\ Uint32(Len(s)) \o s \in Seq(Byte)
      /\ Len(Uint32(Len(s)) \o s) = Len(Uint32(Len(s))) + Len(s)
  BY <1>1, ConcatProperties
<1> QED BY <1>1, <1>2 DEF LengthPrefixed

(* What follows a length-prefixed string can be set apart from it. *)
LEMMA PrefixedThen ==
    ASSUME NEW s \in Bytes, NEW x \in Seq(Byte)
    PROVE  LengthPrefixed(s) \o x = Uint32(Len(s)) \o (s \o x)
<1>1. s \in Seq(Byte) /\ Uint32(Len(s)) \in Seq(Byte)
  BY BytesAreSeq, Uint32Type
<1> QED BY <1>1, ConcatAssociative DEF LengthPrefixed

LEMMA PrefixedCancel ==
    ASSUME NEW s, NEW t, NEW x, NEW y,
           s \in Bytes, t \in Bytes, x \in Seq(Byte), y \in Seq(Byte),
           LengthPrefixed(s) \o x = LengthPrefixed(t) \o y
    PROVE  s = t /\ x = y
<1>1. /\ s \in Seq(Byte) /\ Len(s) \in Nat /\ Len(s) < Longest
      /\ t \in Seq(Byte) /\ Len(t) \in Nat /\ Len(t) < Longest
  BY BytesAreSeq
<1>2. s \o x \in Seq(Byte) /\ t \o y \in Seq(Byte)
  BY <1>1, ConcatProperties
<1>3. Uint32(Len(s)) \o (s \o x) = Uint32(Len(t)) \o (t \o y)
  BY PrefixedThen
<1>4. /\ Uint32(Len(s)) \in Seq(Byte) /\ Uint32(Len(t)) \in Seq(Byte)
      /\ Len(Uint32(Len(s))) = Len(Uint32(Len(t)))
  BY <1>1, Uint32Type
<1>5. Uint32(Len(s)) = Uint32(Len(t)) /\ s \o x = t \o y
  BY <1>2, <1>3, <1>4, ConcatSplit
<1>6. Uint32At(Uint32(Len(s))) = Len(s) /\ Uint32At(Uint32(Len(t))) = Len(t)
  <2>1. Len(s) < Word32 /\ Len(t) < Word32
    BY <1>1, WordBound, SMT DEF Word32
  <2> QED BY <1>1, <2>1, Uint32Value
<1>7. Len(s) = Len(t)
  BY <1>5, <1>6
<1> QED BY <1>1, <1>5, <1>7, ConcatSplit

LEMMA PrefixedInjective ==
    ASSUME NEW s \in Bytes, NEW t \in Bytes, LengthPrefixed(s) = LengthPrefixed(t)
    PROVE  s = t
<1>1. LengthPrefixed(s) \o <<>> = LengthPrefixed(t) \o <<>> /\ <<>> \in Seq(Byte)
  BY EmptySeq
<1> QED BY <1>1, PrefixedCancel

LEMMA Uint16Type ==
    ASSUME NEW n \in Nat
    PROVE  Uint16(n) \in Seq(Byte) /\ Len(Uint16(n)) = 2
<1>1. (n \div 256) % 256 \in Byte /\ n % 256 \in Byte
  BY SMT DEF Byte
<1> QED BY <1>1, SMT DEF Uint16

LEMMA Uint16Value ==
    ASSUME NEW n \in Word16
    PROVE  Uint16At(Uint16(n)) = n
<1>1. n \in Nat /\ n < 65536
  BY DEF Word16
<1>2. n = 65536 * (n \div 65536) + 256 * ((n \div 256) % 256) + (n % 256)
  BY <1>1, LowBytes
<1>3. n \div 65536 = 0 /\ (n \div 256) % 256 \in Nat /\ n % 256 \in Nat
  BY <1>1, SMT
<1>4. n = 256 * ((n \div 256) % 256) + (n % 256)
  BY <1>2, <1>3
<1>5. Uint16(n)[1] = (n \div 256) % 256 /\ Uint16(n)[2] = n % 256
  BY DEF Uint16
<1> QED BY <1>4, <1>5 DEF Uint16At

LEMMA Uint16Injective ==
    ASSUME NEW m \in Word16, NEW n \in Word16, Uint16(m) = Uint16(n)
    PROVE  m = n
<1>1. Uint16At(Uint16(m)) = m /\ Uint16At(Uint16(n)) = n
  BY Uint16Value
<1> QED BY <1>1

LEMMA Uint32Injective ==
    ASSUME NEW m \in Nat, NEW n \in Nat, m < Word32, n < Word32, Uint32(m) = Uint32(n)
    PROVE  m = n
<1>1. Uint32At(Uint32(m)) = m /\ Uint32At(Uint32(n)) = n
  BY Uint32Value
<1> QED BY <1>1

(* The range of Go's uint64. *)
Word64 == {n \in Nat : (n \div 65536) \div 65536 < Word32}

LEMMA Uint64Type ==
    ASSUME NEW n \in Nat
    PROVE  Uint64(n) \in Seq(Byte) /\ Len(Uint64(n)) = 8
<1>1. (n \div 65536) \div 65536 \in Nat
  BY SMT
<1>2. /\ Uint32((n \div 65536) \div 65536) \in Seq(Byte) /\ Len(Uint32((n \div 65536) \div 65536)) = 4
      /\ Uint32(n) \in Seq(Byte) /\ Len(Uint32(n)) = 4
  BY <1>1, Uint32Type
<1>3. /\ Uint32((n \div 65536) \div 65536) \o Uint32(n) \in Seq(Byte)
      /\ Len(Uint32((n \div 65536) \div 65536) \o Uint32(n)) = 4 + 4
  <2> DEFINE u == Uint32((n \div 65536) \div 65536)
             v == Uint32(n)
  <2> HIDE DEF u, v
  <2>1. u \in Seq(Byte) /\ v \in Seq(Byte) /\ Len(u) = 4 /\ Len(v) = 4
    BY <1>2 DEF u, v
  <2>2. u \o v \in Seq(Byte) /\ Len(u \o v) = Len(u) + Len(v)
    BY <2>1, ConcatProperties
  <2> QED BY <2>1, <2>2 DEF u, v
<1> QED BY <1>3 DEF Uint64

LEMMA Uint64Injective ==
    ASSUME NEW m \in Word64, NEW n \in Word64, Uint64(m) = Uint64(n)
    PROVE  m = n
<1> DEFINE High(k) == (k \div 65536) \div 65536
<1>1. /\ m \in Nat /\ High(m) \in Nat /\ High(m) < Word32
      /\ n \in Nat /\ High(n) \in Nat /\ High(n) < Word32
  BY SMT DEF Word64
<1>2. /\ Uint32(High(m)) \in Seq(Byte) /\ Len(Uint32(High(m))) = 4
      /\ Uint32(High(n)) \in Seq(Byte) /\ Len(Uint32(High(n))) = 4
      /\ Uint32(m) \in Seq(Byte) /\ Len(Uint32(m)) = 4
      /\ Uint32(n) \in Seq(Byte) /\ Len(Uint32(n)) = 4
  BY <1>1, Uint32Type
<1>3. Uint32(High(m)) \o Uint32(m) = Uint32(High(n)) \o Uint32(n)
  BY DEF Uint64
<1>4. Uint32(High(m)) = Uint32(High(n)) /\ Uint32(m) = Uint32(n)
  <2> DEFINE A == Uint32(High(m))
             B == Uint32(High(n))
             C == Uint32(m)
             E == Uint32(n)
  <2>1. /\ A \in Seq(Byte) /\ B \in Seq(Byte) /\ C \in Seq(Byte) /\ E \in Seq(Byte)
        /\ Len(A) = Len(B) /\ A \o C = B \o E
    BY <1>2, <1>3
  <2> HIDE DEF A, B, C, E
  <2>2. A = B /\ C = E
    BY <2>1, ConcatSplit
  <2> QED BY <2>2 DEF A, B, C, E
<1>5. High(m) = High(n)
  <2> HIDE DEF High
  <2> QED BY <1>1, <1>4, Uint32Injective
<1>6. /\ m = Word32 * High(m) + Uint32At(Uint32(m))
      /\ n = Word32 * High(n) + Uint32At(Uint32(n))
  BY <1>1, Uint32Low
<1> QED BY <1>4, <1>5, <1>6

-----------------------------------------------------------------------------
(* Additional data. *)

LEMMA PrefixesAreBytes == HeaderAADPrefix \in Bytes /\ RecordAADPrefix \in Bytes
BY PrefixAssumption, SMT DEF Bytes

(* Two records with the same additional data have the same store id and    *)
(* the same alias (encrypted.go:499-505).                                  *)
THEOREM RecordAADInjective ==
    ASSUME NEW id1 \in Bytes, NEW id2 \in Bytes, NEW a1 \in Bytes, NEW a2 \in Bytes,
           RecordAAD(id1, a1) = RecordAAD(id2, a2)
    PROVE  id1 = id2 /\ a1 = a2
<1> DEFINE Version == Uint16(FormatVersion)
           Tail1 == LengthPrefixed(id1) \o LengthPrefixed(a1)
           Tail2 == LengthPrefixed(id2) \o LengthPrefixed(a2)
<1>1. /\ LengthPrefixed(a1) \in Seq(Byte) /\ LengthPrefixed(a2) \in Seq(Byte)
      /\ LengthPrefixed(id1) \in Seq(Byte) /\ LengthPrefixed(id2) \in Seq(Byte)
  BY PrefixedType
<1>2. Version \in Seq(Byte)
  BY Uint16Type DEF FormatVersion
<1>3. Tail1 \in Seq(Byte) /\ Tail2 \in Seq(Byte)
  BY <1>1, ConcatProperties
<1>4. LengthPrefixed(RecordAADPrefix) \o (Version \o Tail1)
        = LengthPrefixed(RecordAADPrefix) \o (Version \o Tail2)
  BY DEF RecordAAD
<1>5. Tail1 = Tail2
  <2> HIDE DEF Version, Tail1, Tail2
  <2>1. Version \o Tail1 \in Seq(Byte) /\ Version \o Tail2 \in Seq(Byte)
    BY <1>2, <1>3, ConcatProperties
  <2>2. RecordAADPrefix \in Bytes
    BY PrefixesAreBytes
  <2>3. Version \o Tail1 = Version \o Tail2
    <3> DEFINE X == Version \o Tail1
               Y == Version \o Tail2
    <3>1. /\ X \in Seq(Byte) /\ Y \in Seq(Byte)
          /\ LengthPrefixed(RecordAADPrefix) \o X = LengthPrefixed(RecordAADPrefix) \o Y
      BY <1>4, <2>1
    <3> HIDE DEF X, Y
    <3>2. X = Y
      BY <2>2, <3>1, PrefixedCancel
    <3> QED BY <3>2 DEF X, Y
  <2> QED BY <1>2, <1>3, <2>3, ConcatSplit
<1>6. id1 = id2 /\ LengthPrefixed(a1) = LengthPrefixed(a2)
  BY <1>1, <1>5, PrefixedCancel
<1> QED BY <1>6, PrefixedInjective

(* What a header's additional data is made of: numbers of Go's widths. *)
PublicHeader == [version : Word16, revision : Word64,
                 id : Bytes, cred : Bytes, salt : Bytes, rpid : Bytes]

(* The fields of a header after the numbers. *)
Reference(h) ==
    LengthPrefixed(h.id) \o (LengthPrefixed(h.cred) \o (LengthPrefixed(h.salt) \o LengthPrefixed(h.rpid)))


LEMMA ReferenceType ==
    ASSUME NEW h \in PublicHeader
    PROVE  /\ LengthPrefixed(h.salt) \o LengthPrefixed(h.rpid) \in Seq(Byte)
           /\ LengthPrefixed(h.cred) \o (LengthPrefixed(h.salt) \o LengthPrefixed(h.rpid)) \in Seq(Byte)
           /\ Reference(h) \in Seq(Byte)
<1> DEFINE I == LengthPrefixed(h.id)
           C == LengthPrefixed(h.cred)
           S == LengthPrefixed(h.salt)
           R == LengthPrefixed(h.rpid)
<1>1. h.id \in Bytes /\ h.cred \in Bytes /\ h.salt \in Bytes /\ h.rpid \in Bytes
  BY DEF PublicHeader
<1>2. I \in Seq(Byte) /\ C \in Seq(Byte) /\ S \in Seq(Byte) /\ R \in Seq(Byte)
  BY <1>1, PrefixedType
<1>3. /\ S \o R \in Seq(Byte)
      /\ C \o (S \o R) \in Seq(Byte)
      /\ I \o (C \o (S \o R)) \in Seq(Byte)
  <2> HIDE DEF I, C, S, R
  <2>1. S \o R \in Seq(Byte)
    BY <1>2, ConcatProperties
  <2>2. C \o (S \o R) \in Seq(Byte)
    BY <1>2, <2>1, ConcatProperties
  <2>3. I \o (C \o (S \o R)) \in Seq(Byte)
    BY <1>2, <2>2, ConcatProperties
  <2> QED BY <2>1, <2>2, <2>3
<1> QED BY <1>3 DEF Reference

LEMMA ReferenceInjective ==
    ASSUME NEW g \in PublicHeader, NEW h \in PublicHeader, Reference(g) = Reference(h)
    PROVE  g.id = h.id /\ g.cred = h.cred /\ g.salt = h.salt /\ g.rpid = h.rpid
<1> DEFINE Sg == LengthPrefixed(g.salt) \o LengthPrefixed(g.rpid)
           Sh == LengthPrefixed(h.salt) \o LengthPrefixed(h.rpid)
           Cg == LengthPrefixed(g.cred) \o Sg
           Ch == LengthPrefixed(h.cred) \o Sh
<1>2. /\ g.id \in Bytes /\ g.cred \in Bytes /\ g.salt \in Bytes /\ g.rpid \in Bytes
      /\ h.id \in Bytes /\ h.cred \in Bytes /\ h.salt \in Bytes /\ h.rpid \in Bytes
  BY DEF PublicHeader
<1>3. Sg \in Seq(Byte) /\ Sh \in Seq(Byte) /\ Cg \in Seq(Byte) /\ Ch \in Seq(Byte)
  BY ReferenceType
<1>4. LengthPrefixed(g.rpid) \in Seq(Byte) /\ LengthPrefixed(h.rpid) \in Seq(Byte)
  BY <1>2, PrefixedType
<1>5. LengthPrefixed(g.id) \o Cg = LengthPrefixed(h.id) \o Ch
  BY DEF Reference
<1>6. g.id = h.id /\ Cg = Ch
  <2> HIDE DEF Cg, Ch
  <2> QED BY <1>2, <1>3, <1>5, PrefixedCancel
<1>7. g.cred = h.cred /\ Sg = Sh
  <2>1. LengthPrefixed(g.cred) \o Sg = LengthPrefixed(h.cred) \o Sh
    BY <1>6
  <2> HIDE DEF Sg, Sh
  <2> QED BY <1>2, <1>3, <2>1, PrefixedCancel
<1>8. g.salt = h.salt /\ LengthPrefixed(g.rpid) = LengthPrefixed(h.rpid)
  <2>1. LengthPrefixed(g.salt) \o LengthPrefixed(g.rpid) = LengthPrefixed(h.salt) \o LengthPrefixed(h.rpid)
    BY <1>7
  <2> QED BY <1>2, <1>4, <2>1, PrefixedCancel
<1>9. g.rpid = h.rpid
  BY <1>2, <1>8, PrefixedInjective
<1> QED BY <1>6, <1>7, <1>8, <1>9

(* Two headers with the same additional data are the same version,         *)
(* revision, store id and KEK reference (encrypted.go:488-497).            *)
THEOREM HeaderAADInjective ==
    ASSUME NEW g \in PublicHeader, NEW h \in PublicHeader, HeaderAAD(g) = HeaderAAD(h)
    PROVE  g = h
<1> DEFINE V(k) == Uint16(k.version)
           N(k) == Uint64(k.revision)
           R(k) == Reference(k)
           NR(k) == N(k) \o R(k)
           VNR(k) == V(k) \o NR(k)
<1>1. /\ g.version \in Word16 /\ g.revision \in Word64
      /\ h.version \in Word16 /\ h.revision \in Word64
  BY DEF PublicHeader
<1>2. /\ g.version \in Nat /\ g.revision \in Nat
      /\ h.version \in Nat /\ h.revision \in Nat
  BY <1>1 DEF Word16, Word64
<1>3. /\ V(g) \in Seq(Byte) /\ Len(V(g)) = 2 /\ V(h) \in Seq(Byte) /\ Len(V(h)) = 2
      /\ N(g) \in Seq(Byte) /\ Len(N(g)) = 8 /\ N(h) \in Seq(Byte) /\ Len(N(h)) = 8
      /\ R(g) \in Seq(Byte) /\ R(h) \in Seq(Byte)
  BY <1>2, Uint16Type, Uint64Type, ReferenceType
<1>4. NR(g) \in Seq(Byte) /\ NR(h) \in Seq(Byte)
  <2> HIDE DEF N, R
  <2> QED BY <1>3, ConcatProperties
<1>5. VNR(g) \in Seq(Byte) /\ VNR(h) \in Seq(Byte)
  <2> HIDE DEF V, NR
  <2> QED BY <1>3, <1>4, ConcatProperties
<1>6. LengthPrefixed(HeaderAADPrefix) \o VNR(g) = LengthPrefixed(HeaderAADPrefix) \o VNR(h)
  BY DEF HeaderAAD, Reference
<1>7. VNR(g) = VNR(h)
  <2>1. HeaderAADPrefix \in Bytes
    BY PrefixesAreBytes
  <2> HIDE DEF VNR
  <2> QED BY <1>5, <1>6, <2>1, PrefixedCancel
<1>8. V(g) = V(h) /\ NR(g) = NR(h)
  <2>1. V(g) \o NR(g) = V(h) \o NR(h)
    BY <1>7
  <2> HIDE DEF V, NR
  <2> QED BY <1>3, <1>4, <2>1, ConcatSplit
<1>9. N(g) = N(h) /\ R(g) = R(h)
  <2>1. N(g) \o R(g) = N(h) \o R(h)
    BY <1>8
  <2> HIDE DEF N, R
  <2> QED BY <1>3, <2>1, ConcatSplit
<1>10. g.version = h.version /\ g.revision = h.revision
  BY <1>1, <1>8, <1>9, Uint16Injective, Uint64Injective
<1>11. g.id = h.id /\ g.cred = h.cred /\ g.salt = h.salt /\ g.rpid = h.rpid
  BY <1>9, ReferenceInjective
<1> QED BY <1>10, <1>11 DEF PublicHeader

(* The additional data of a header is never that of a record               *)
(* (encrypted.go:488-505).                                                 *)
THEOREM AdditionalDataApart ==
    ASSUME NEW h \in PublicHeader, NEW id \in Bytes, NEW a \in Bytes
    PROVE  HeaderAAD(h) # RecordAAD(id, a)
<1> DEFINE V == Uint16(h.version)
           N == Uint64(h.revision)
           R == Reference(h)
           NR == N \o R
           X == V \o NR
           W == Uint16(FormatVersion)
           T == LengthPrefixed(id) \o LengthPrefixed(a)
           Y == W \o T
<1>1. h.version \in Nat /\ h.revision \in Nat /\ FormatVersion \in Nat
  BY DEF PublicHeader, Word16, Word64, FormatVersion
<1>2. V \in Seq(Byte) /\ N \in Seq(Byte) /\ R \in Seq(Byte) /\ W \in Seq(Byte)
  BY <1>1, Uint16Type, Uint64Type, ReferenceType
<1>3. LengthPrefixed(id) \in Seq(Byte) /\ LengthPrefixed(a) \in Seq(Byte)
  BY PrefixedType
<1>4. T \in Seq(Byte)
  BY <1>3, ConcatProperties
<1>5. NR \in Seq(Byte)
  <2> HIDE DEF N, R
  <2> QED BY <1>2, ConcatProperties
<1>6. X \in Seq(Byte) /\ Y \in Seq(Byte)
  <2> HIDE DEF V, NR, W, T
  <2> QED BY <1>2, <1>4, <1>5, ConcatProperties
<1>7. HeaderAAD(h) = LengthPrefixed(HeaderAADPrefix) \o X
  BY DEF HeaderAAD, Reference
<1>8. RecordAAD(id, a) = LengthPrefixed(RecordAADPrefix) \o Y
  BY DEF RecordAAD
<1> HIDE DEF X, Y
<1>9. LengthPrefixed(HeaderAADPrefix) \o X # LengthPrefixed(RecordAADPrefix) \o Y
  BY <1>6, PrefixesAreBytes, PrefixAssumption, PrefixedCancel
<1> QED BY <1>7, <1>8, <1>9

-----------------------------------------------------------------------------
(* Records. *)

LEMMA SubSeqMiddle ==
    ASSUME NEW u, NEW s, NEW x, u \in Seq(Byte), s \in Seq(Byte), x \in Seq(Byte)
    PROVE  SubSeq(u \o (s \o x), Len(u) + 1, Len(u) + Len(s)) = s
<1> DEFINE d == u \o (s \o x)
           m == SubSeq(d, Len(u) + 1, Len(u) + Len(s))
<1>1. Len(u) \in Nat /\ Len(s) \in Nat /\ Len(x) \in Nat
  BY LenProperties
<1>2. /\ s \o x \in Seq(Byte) /\ Len(s \o x) = Len(s) + Len(x)
      /\ \A i \in 1..Len(s) : (s \o x)[i] = s[i]
  BY <1>1, ConcatProperties
<1>3. \A i \in 1..Len(s) : d[Len(u) + i] = s[i]
  BY <1>1, <1>2, ConcatProperties
<1>4. \A i \in 1..Len(s) : s[i] \in Byte
  BY ElementOfSeq
<1>5. \A k \in (Len(u) + 1)..(Len(u) + Len(s)) : d[k] \in Byte
  <2> TAKE k \in (Len(u) + 1)..(Len(u) + Len(s))
  <2>1. k - Len(u) \in 1..Len(s) /\ k = Len(u) + (k - Len(u))
    BY <1>1
  <2> HIDE DEF d
  <2> QED BY <1>3, <1>4, <2>1
<1>6. m \in Seq(Byte) /\ Len(m) = Len(s) /\ \A i \in 1..Len(s) : m[i] = d[Len(u) + i]
  <2> HIDE DEF d
  <2>1. Len(u) + 1 \in Int /\ Len(u) + Len(s) \in Int
    BY <1>1
  <2>2. /\ m \in Seq(Byte)
        /\ Len(m) = IF Len(u) + 1 <= Len(u) + Len(s) THEN Len(u) + Len(s) - (Len(u) + 1) + 1 ELSE 0
        /\ \A i \in 1..(Len(u) + Len(s) - (Len(u) + 1) + 1) : m[i] = d[Len(u) + 1 + i - 1]
    BY <1>5, <2>1, SubSeqProperties
  <2> HIDE DEF m
  <2> QED BY <1>1, <2>2
<1>7. \A i \in 1..Len(m) : m[i] = s[i]
  <2> HIDE DEF d, m
  <2> QED BY <1>3, <1>6
<1> HIDE DEF m
<1>8. m = s
  BY <1>6, <1>7, SeqEqual
<1> QED BY <1>8 DEF m

LEMMA SubSeqRest ==
    ASSUME NEW u, NEW x, u \in Seq(Byte), x \in Seq(Byte)
    PROVE  SubSeq(u \o x, Len(u) + 1, Len(u \o x)) = x
<1>1. x \o <<>> = x /\ <<>> \in Seq(Byte)
  BY ConcatEmptySeq, EmptySeq
<1>2. Len(u \o x) = Len(u) + Len(x)
  BY ConcatProperties
<1>3. SubSeq(u \o (x \o <<>>), Len(u) + 1, Len(u) + Len(x)) = x
  BY <1>1, SubSeqMiddle
<1> QED BY <1>1, <1>2, <1>3

LEMMA FirstOfConcat ==
    ASSUME NEW u, NEW x, u \in Seq(Byte), x \in Seq(Byte), NEW i \in 1..Len(u)
    PROVE  (u \o x)[i] = u[i]
BY ConcatProperties, LenProperties

(* A reader takes a field off the front exactly as it was appended         *)
(* (payloadReader.bytes, encrypted.go:563-575).                            *)
LEMMA ReadBytesOfPrefixed ==
    ASSUME NEW s, NEW x, s \in Bytes, Len(s) <= MaxPayloadField, x \in Seq(Byte)
    PROVE  ReadBytes(LengthPrefixed(s) \o x) = <<[value |-> s, rest |-> x]>>
<1> DEFINE u == Uint32(Len(s))
           p == LengthPrefixed(s)
           d == p \o x
<1>1. s \in Seq(Byte) /\ Len(s) \in Nat /\ Len(s) < Longest /\ Len(x) \in Nat
  BY BytesAreSeq, LenProperties
<1>2. u \in Seq(Byte) /\ Len(u) = 4
  BY <1>1, Uint32Type
<1>3. p \in Seq(Byte) /\ Len(p) = 4 + Len(s)
  BY PrefixedType
<1>4. d = u \o (s \o x) /\ s \o x \in Seq(Byte)
  BY <1>1, PrefixedThen, ConcatProperties
<1>5. Len(d) = 4 + Len(s) + Len(x)
  <2> HIDE DEF p
  <2> QED BY <1>1, <1>3, ConcatProperties
<1>6. Uint32At(d) = Len(s)
  <2> HIDE DEF d, u
  <2> DEFINE r == s \o x
  <2>1. d[1] = u[1] /\ d[2] = u[2] /\ d[3] = u[3] /\ d[4] = u[4]
    <3>1. r \in Seq(Byte) /\ d = u \o r
      BY <1>4
    <3> HIDE DEF r
    <3>2. \A i \in 1..Len(u) : (u \o r)[i] = u[i]
      BY <1>2, <3>1, FirstOfConcat
    <3>3. 1 \in 1..Len(u) /\ 2 \in 1..Len(u) /\ 3 \in 1..Len(u) /\ 4 \in 1..Len(u)
      BY <1>2
    <3> QED BY <3>1, <3>2, <3>3
  <2>2. Uint32At(d) = Uint32At(u)
    BY <2>1 DEF Uint32At
  <2>3. Uint32At(u) = Len(s)
    <3>1. Len(s) < Word32
      BY <1>1, WordBound, SMT DEF Word32
    <3> QED BY <1>1, <3>1, Uint32Value DEF u
  <2> QED BY <2>2, <2>3
<1>7. SubSeq(d, 5, 4 + Len(s)) = s
  <2> HIDE DEF d, u
  <2>1. SubSeq(u \o (s \o x), Len(u) + 1, Len(u) + Len(s)) = s
    BY <1>1, <1>2, SubSeqMiddle
  <2>2. Len(u) + 1 = 5 /\ Len(u) + Len(s) = 4 + Len(s)
    BY <1>2
  <2> QED BY <1>4, <2>1, <2>2
<1>8. SubSeq(d, 5 + Len(s), Len(d)) = x
  <2> HIDE DEF p
  <2>1. SubSeq(p \o x, Len(p) + 1, Len(p \o x)) = x
    BY <1>3, SubSeqRest
  <2>2. Len(p) + 1 = 5 + Len(s)
    BY <1>1, <1>3
  <2> QED BY <2>1, <2>2
<1>9. ~ (Len(d) < 4 \/ Uint32At(d) > MaxPayloadField \/ Uint32At(d) > Len(d) - 4)
  <2> HIDE DEF d
  <2>1. MaxPayloadField \in Nat
    BY SizeAssumption
  <2> QED BY <1>1, <1>5, <1>6, <2>1
<1>10. ReadBytes(d) = <<[value |-> s, rest |-> x]>>
  <2> HIDE DEF d
  <2> QED BY <1>6, <1>7, <1>8, <1>9 DEF ReadBytes
<1> QED BY <1>10

LEMMA SubSeqAfterVersion ==
    ASSUME NEW u, NEW x, u \in Seq(Byte), x \in Seq(Byte), Len(u) = 2
    PROVE  /\ Len(u \o x) >= 2 /\ Uint16At(u \o x) = Uint16At(u)
           /\ SubSeq(u \o x, 3, Len(u \o x)) = x
<1>1. Len(x) \in Nat /\ Len(u \o x) = Len(u) + Len(x)
  BY ConcatProperties, LenProperties
<1>2. \A i \in 1..Len(u) : (u \o x)[i] = u[i]
  BY FirstOfConcat
<1>3. (u \o x)[1] = u[1] /\ (u \o x)[2] = u[2]
  BY <1>2
<1>4. Uint16At(u \o x) = Uint16At(u)
  BY <1>3 DEF Uint16At
<1>5. SubSeq(u \o x, Len(u) + 1, Len(u \o x)) = x
  BY SubSeqRest
<1> QED BY <1>1, <1>4, <1>5

(* Every record that Put encodes is decoded to the record it was           *)
(* (encrypted.go:507-561).                                                 *)
THEOREM DecodeOfEncode ==
    ASSUME NEW rec \in Record, ValidateRecord(rec), Encodable(rec)
    PROVE  DecodeRecord(EncodeRecord(rec)) = <<rec>>
<1> DEFINE V == Uint16(FormatVersion)
           R == LengthPrefixed(rec.rpid)
           SR == LengthPrefixed(rec.salt) \o R
           CSR == LengthPrefixed(rec.cred) \o SR
<1>1. rec.cred \in Bytes /\ rec.salt \in Bytes /\ rec.rpid \in Bytes
  BY DEF Record
<1>2. Len(rec.cred) <= MaxPayloadField /\ Len(rec.salt) <= MaxPayloadField /\ Len(rec.rpid) <= MaxPayloadField
  BY SizeAssumption DEF ValidateRecord, Encodable
<1>3. /\ LengthPrefixed(rec.cred) \in Seq(Byte)
      /\ LengthPrefixed(rec.salt) \in Seq(Byte)
      /\ R \in Seq(Byte) /\ R \o <<>> = R /\ <<>> \in Seq(Byte)
  BY <1>1, PrefixedType, ConcatEmptySeq, EmptySeq
<1>4. SR \in Seq(Byte)
  <2> HIDE DEF R
  <2> QED BY <1>3, ConcatProperties
<1>5. CSR \in Seq(Byte)
  <2> HIDE DEF SR
  <2> QED BY <1>3, <1>4, ConcatProperties
<1>6. V \in Seq(Byte) /\ Len(V) = 2 /\ Uint16At(V) = FormatVersion
  <2>1. FormatVersion \in Nat /\ FormatVersion \in Word16
    BY DEF FormatVersion, Word16
  <2> QED BY <2>1, Uint16Type, Uint16Value
<1>7. EncodeRecord(rec) = V \o CSR
  BY DEF EncodeRecord
<1>8. DecodeRecord(EncodeRecord(rec)) = ReadFields(CSR)
  <2> HIDE DEF V, CSR
  <2>1. /\ Len(V \o CSR) >= 2 /\ Uint16At(V \o CSR) = Uint16At(V)
        /\ SubSeq(V \o CSR, 3, Len(V \o CSR)) = CSR
    BY <1>5, <1>6, SubSeqAfterVersion
  <2> QED BY <1>6, <1>7, <2>1 DEF DecodeRecord, ReadVersion
<1>9. ReadBytes(CSR) = <<[value |-> rec.cred, rest |-> SR]>>
  <2> HIDE DEF SR
  <2> QED BY <1>1, <1>2, <1>4, ReadBytesOfPrefixed
<1>10. ReadBytes(SR) = <<[value |-> rec.salt, rest |-> R]>>
  <2> HIDE DEF R
  <2> QED BY <1>1, <1>2, <1>3, ReadBytesOfPrefixed
<1>11. ReadBytes(R) = <<[value |-> rec.rpid, rest |-> <<>>]>>
  <2>1. ReadBytes(LengthPrefixed(rec.rpid) \o <<>>) = <<[value |-> rec.rpid, rest |-> <<>>]>>
    BY <1>1, <1>2, <1>3, ReadBytesOfPrefixed
  <2> QED BY <1>3, <2>1
<1>12. ReadFields(CSR) = <<[cred |-> rec.cred, salt |-> rec.salt, rpid |-> rec.rpid]>>
  <2> HIDE DEF CSR, SR, R
  <2> QED BY <1>9, <1>10, <1>11 DEF ReadFields, NothingLeft
<1>13. rec = [cred |-> rec.cred, salt |-> rec.salt, rpid |-> rec.rpid]
  BY DEF Record
<1> QED BY <1>8, <1>12, <1>13

(* A record within the limits of fields is within the limit of ciphertexts *)
(* (encrypted.go:444-480).                                                 *)
THEOREM EncodedFits ==
    ASSUME NEW rec \in Record, ValidateRecord(rec), Encodable(rec)
    PROVE  ValidSize(EncodeRecord(rec))
<1> DEFINE V == Uint16(FormatVersion)
           C == LengthPrefixed(rec.cred)
           S == LengthPrefixed(rec.salt)
           R == LengthPrefixed(rec.rpid)
<1>1. rec.cred \in Bytes /\ rec.salt \in Bytes /\ rec.rpid \in Bytes
  BY DEF Record
<1>2. /\ Len(rec.cred) \in Nat /\ Len(rec.cred) <= MaxPayloadField
      /\ Len(rec.salt) \in Nat /\ Len(rec.salt) = SaltSize
      /\ Len(rec.rpid) \in Nat /\ Len(rec.rpid) <= MaxPayloadField
  BY <1>1, BytesAreSeq DEF ValidateRecord, Encodable
<1>3. /\ C \in Seq(Byte) /\ Len(C) = 4 + Len(rec.cred)
      /\ S \in Seq(Byte) /\ Len(S) = 4 + Len(rec.salt)
      /\ R \in Seq(Byte) /\ Len(R) = 4 + Len(rec.rpid)
  BY <1>1, PrefixedType
<1>4. V \in Seq(Byte) /\ Len(V) = 2
  <2>1. FormatVersion \in Nat
    BY DEF FormatVersion
  <2> QED BY <2>1, Uint16Type
<1>5. Len(V \o (C \o (S \o R))) = Len(V) + (Len(C) + (Len(S) + Len(R)))
  <2> HIDE DEF V, C, S, R
  <2> DEFINE SR == S \o R
             CSR == C \o SR
  <2>1. SR \in Seq(Byte) /\ Len(SR) = Len(S) + Len(R)
    BY <1>3, ConcatProperties
  <2> HIDE DEF SR
  <2>2. CSR \in Seq(Byte) /\ Len(CSR) = Len(C) + Len(SR)
    BY <1>3, <2>1, ConcatProperties
  <2> HIDE DEF CSR
  <2>3. Len(V \o CSR) = Len(V) + Len(CSR)
    BY <1>4, <2>2, ConcatProperties
  <2>4. Len(V \o CSR) = Len(V) + (Len(C) + (Len(S) + Len(R)))
    BY <2>1, <2>2, <2>3
  <2> QED BY <2>4 DEF CSR, SR
<1>6. EncodeRecord(rec) = V \o (C \o (S \o R))
  BY DEF EncodeRecord
<1>7. /\ MaxPayloadField \in Nat /\ MaxCiphertext \in Nat /\ Overhead \in Nat /\ SaltSize \in Nat
      /\ 2 * MaxPayloadField + SaltSize + 14 + Overhead <= MaxCiphertext
  BY SizeAssumption, FitAssumption
<1>8. Len(EncodeRecord(rec)) + Overhead <= MaxCiphertext
  <2> DEFINE c == Len(rec.cred)
             s == Len(rec.salt)
             r == Len(rec.rpid)
             n == Len(EncodeRecord(rec))
  <2>1. /\ c \in Nat /\ s \in Nat /\ r \in Nat
        /\ c <= MaxPayloadField /\ s = SaltSize /\ r <= MaxPayloadField
    BY <1>2
  <2>2. Len(V) = 2 /\ Len(C) = 4 + c /\ Len(S) = 4 + s /\ Len(R) = 4 + r
    BY <1>3, <1>4
  <2>3. n = Len(V) + (Len(C) + (Len(S) + Len(R)))
    BY <1>5, <1>6
  <2> HIDE DEF c, s, r, n, V, C, S, R
  <2>4. n = 2 + ((4 + c) + ((4 + s) + (4 + r)))
    BY <2>2, <2>3
  <2>5. n + Overhead <= MaxCiphertext
    BY <1>7, <2>1, <2>4
  <2> QED BY <2>5 DEF n
<1> QED BY <1>8 DEF ValidSize

-----------------------------------------------------------------------------
(* Headers. *)

LEMMA RevisionIsWord ==
    ASSUME NEW n \in 1..(MaxRevision + 1)
    PROVE  n \in Word64
<1>1. MaxRevision \in Nat /\ MaxRevision <= Longest
  BY BoundAssumption
<1>2. n \in Nat /\ n <= MaxRevision + 1
  BY <1>1
<1>3. Longest \in Nat /\ (\A k \in Nat : k <= Longest + 1 => (k \div 65536) \div 65536 < Word32)
  BY SMT DEF Longest, Word32
<1>4. n <= Longest + 1
  BY <1>1, <1>2, <1>3
<1> QED BY <1>2, <1>3, <1>4 DEF Word64

LEMMA PublicType ==
    ASSUME NEW id \in Database, NEW n \in 1..(MaxRevision + 1), NEW ref \in Ref
    PROVE  Public(id, n, ref) \in PublicHeader
<1>1. id \in Bytes
  BY DatabaseAssumption
<1>2. ref.cred \in Bytes /\ ref.salt \in Bytes /\ ref.rpid \in Bytes
  BY RefAssumption DEF Record
<1>3. n \in Word64
  BY RevisionIsWord
<1>4. FormatVersion \in Word16
  BY DEF FormatVersion, Word16
<1> QED BY <1>1, <1>2, <1>3, <1>4 DEF Public, PublicHeader

LEMMA GenuineType ==
    ASSUME NEW h, Genuine(h)
    PROVE  h.pub \in PublicHeader /\ h.pub.id \in Database
<1>1. PICK id \in Database, n \in 1..(MaxRevision + 1), ref \in Ref : h.pub = Public(id, n, ref)
  BY DEF Genuine
<1>2. h.pub \in PublicHeader
  BY <1>1, PublicType
<1>3. h.pub.id = id
  BY <1>1 DEF Public
<1> QED BY <1>2, <1>3

(* The wrapped key of one header opens under the additional data of        *)
(* another only if the two are the same header.                            *)
LEMMA MixedHeaderIsWhole ==
    ASSUME NEW v, NEW w, Genuine(v), Genuine(w), w.blob.aad = HeaderAAD(v.pub)
    PROVE  [pub |-> v.pub, blob |-> w.blob] = w
<1>1. v.pub \in PublicHeader /\ w.pub \in PublicHeader
  BY GenuineType
<1>2. HeaderAAD(w.pub) = HeaderAAD(v.pub)
  BY DEF Genuine
<1>3. w.pub = v.pub
  BY <1>1, <1>2, HeaderAADInjective
<1>4. w = [pub |-> w.pub, blob |-> w.blob]
  BY DEF Genuine
<1> QED BY <1>3, <1>4

(* A header stored by Initialize or RotateKEK keeps the invariant. *)
LEMMA StoreKeepsHeaders ==
    ASSUME HeaderInv, NEW d \in Database, NEW h, Genuine(h), h.pub.id = d, Store(d, h)
    PROVE  HeaderInv'
<1> USE DEF HeaderInv, Store
<1>1. DOMAIN header' = Database /\ DOMAIN session' = Database
  OBVIOUS
<1>2. \A k \in written' : Genuine(k)
  OBVIOUS
<1>3. ASSUME NEW e \in Database, header'[e] # NULL
      PROVE  \E v, w \in written' : /\ v.pub.id = e /\ w.pub.id = e
                                    /\ header'[e] = [pub |-> v.pub, blob |-> w.blob]
  <2>1. CASE e = d
    <3>1. /\ h.pub.id = e /\ h \in written'
          /\ header'[e] = [pub |-> h.pub, blob |-> h.blob]
      BY <2>1 DEF Genuine
    <3> WITNESS h \in written', h \in written'
    <3> QED BY <3>1
  <2>2. CASE e # d
    <3>1. header'[e] = header[e] /\ header[e] # NULL
      BY <1>3, <2>2
    <3>2. PICK v \in written, w \in written :
            /\ v.pub.id = e /\ w.pub.id = e
            /\ header[e] = [pub |-> v.pub, blob |-> w.blob]
      BY <3>1
    <3>3. v \in written' /\ w \in written'
      OBVIOUS
    <3> WITNESS v \in written', w \in written'
    <3> QED BY <3>1, <3>2
  <2> QED BY <2>1, <2>2
<1>4. ASSUME NEW e \in Database, session'[e] # NULL
      PROVE  session'[e] \in written' /\ session'[e].pub.id = e
  <2>1. CASE e = d
    BY <2>1
  <2>2. CASE e # d
    BY <1>4, <2>2
  <2> QED BY <2>1, <2>2
<1>5. \A k \in written' : Genuine(k)'
  BY <1>2 DEF Genuine
<1> QED BY <1>1, <1>3, <1>4, <1>5

LEMMA HeaderStep ==
    ASSUME HeaderInv, [Next]_vars
    PROVE  HeaderInv'
<1>1. CASE UNCHANGED vars
  BY <1>1 DEF vars, HeaderInv, Genuine
<1>2. ASSUME NEW d \in Database, NEW ref \in Ref, Initialize(d, ref)
      PROVE  HeaderInv'
  <2> DEFINE pub == Public(d, 1, ref)
             h == [pub |-> pub, blob |-> Seal(Kek(ref), Dek(d), HeaderAAD(pub))]
  <2>1. Store(d, h)
    BY <1>2 DEF Initialize
  <2>2. 1 \in 1..(MaxRevision + 1)
    BY BoundAssumption
  <2>3. h.pub = pub /\ h.pub.id = d /\ h.blob.aad = HeaderAAD(pub) /\ h.blob.plain = Dek(d)
    BY DEF Public, Seal
  <2>4. Genuine(h)
    BY <2>2, <2>3 DEF Genuine
  <2> HIDE DEF h
  <2> QED BY <2>1, <2>3, <2>4, StoreKeepsHeaders
<1>3. ASSUME NEW d \in Database, NEW ref \in Ref, RotateKEK(d, ref)
      PROVE  HeaderInv'
  <2> DEFINE n == header[d].pub.revision
             pub == Public(header[d].pub.id, n + 1, ref)
             h == [pub |-> pub, blob |-> Seal(Kek(ref), session[d].blob.plain, HeaderAAD(pub))]
  <2>1. Store(d, h) /\ session[d] # NULL /\ n = session[d].pub.revision /\ n < MaxRevision
    BY <1>3 DEF RotateKEK
  <2>2. session[d] \in written /\ session[d].pub.id = d /\ Genuine(session[d])
    BY <2>1 DEF HeaderInv
  <2>3. session[d].blob.plain = Dek(d)
    BY <2>2 DEF Genuine
  <2>4. n \in 1..(MaxRevision + 1)
    <3>1. PICK id \in Database, k \in 1..(MaxRevision + 1), r \in Ref : session[d].pub = Public(id, k, r)
      BY <2>2 DEF Genuine
    <3>2. session[d].pub.revision = k
      BY <3>1 DEF Public
    <3> QED BY <2>1, <3>2
  <2>5. n + 1 \in 1..(MaxRevision + 1)
    BY <2>1, <2>4, BoundAssumption
  <2>6. header[d].pub.id = d
    <3>1. header[d] # NULL
      BY <1>3 DEF RotateKEK
    <3> QED BY <3>1 DEF HeaderInv
  <2>7. h.pub = Public(d, n + 1, ref) /\ h.pub.id = d /\ h.blob.aad = HeaderAAD(h.pub) /\ h.blob.plain = Dek(d)
    BY <2>3, <2>6 DEF Public, Seal
  <2>8. h = [pub |-> h.pub, blob |-> h.blob]
    OBVIOUS
  <2> HIDE DEF h, n
  <2>9. Genuine(h)
    BY <2>5, <2>7, <2>8 DEF Genuine
  <2> QED BY <2>1, <2>7, <2>9, StoreKeepsHeaders
<1>4. ASSUME NEW d \in Database, NEW ref \in Ref, Unlock(d, ref)
      PROVE  HeaderInv'
  <2>1. PICK v \in written, w \in written : /\ v.pub.id = d /\ w.pub.id = d
                                            /\ header[d] = [pub |-> v.pub, blob |-> w.blob]
    BY <1>4 DEF Unlock, HeaderInv
  <2>2. Genuine(v) /\ Genuine(w)
    BY DEF HeaderInv
  <2>3. w.blob.aad = HeaderAAD(v.pub)
    BY <1>4, <2>1 DEF Unlock, Opens
  <2>4. header[d] = w
    BY <2>1, <2>2, <2>3, MixedHeaderIsWhole
  <2>5. \A e \in Database : session'[e] # NULL => session'[e] \in written /\ session'[e].pub.id = e
    BY <1>4, <2>1, <2>4 DEF Unlock, HeaderInv
  <2>6. DOMAIN session' = Database /\ UNCHANGED <<header, written>>
    BY <1>4 DEF Unlock, HeaderInv
  <2> QED BY <2>5, <2>6 DEF HeaderInv, Genuine
<1>5. ASSUME NEW d \in Database, Lock(d)
      PROVE  HeaderInv'
  BY <1>5 DEF Lock, HeaderInv, Genuine
<1>6. ASSUME NEW d \in Database, HeaderRestored(d)
      PROVE  HeaderInv'
  <2>1. PICK v \in written, w \in written :
          /\ v.pub.id = d /\ w.pub.id = d
          /\ header' = [header EXCEPT ![d] = [pub |-> v.pub, blob |-> w.blob]]
    BY <1>6 DEF HeaderRestored
  <2>2. DOMAIN header' = Database /\ UNCHANGED <<session, written>>
    BY <1>6, <2>1 DEF HeaderRestored, HeaderInv
  <2>3. ASSUME NEW e \in Database, header'[e] # NULL
        PROVE  \E x, y \in written : /\ x.pub.id = e /\ y.pub.id = e
                                     /\ header'[e] = [pub |-> x.pub, blob |-> y.blob]
    <3>1. CASE e = d
      BY <2>1, <3>1 DEF HeaderInv
    <3>2. CASE e # d
      BY <2>1, <2>3, <3>2 DEF HeaderInv
    <3> QED BY <3>1, <3>2
  <2> QED BY <2>2, <2>3 DEF HeaderInv, Genuine
<1>7. ASSUME NEW d \in Database, NEW a \in Alias,
             (\E rec \in Candidate : Put(d, a, rec)) \/ Get(d, a) \/ Delete(d, a) \/ RowRestored(d, a)
      PROVE  HeaderInv'
  <2>1. UNCHANGED <<header, session, written>>
    BY <1>7 DEF Put, Get, Delete, RowRestored
  <2> QED BY <2>1 DEF HeaderInv, Genuine
<1> QED BY <1>1, <1>2, <1>3, <1>4, <1>5, <1>6, <1>7 DEF Next

-----------------------------------------------------------------------------
(* Records. *)

LEMMA DatabaseIsBytes ==
    ASSUME NEW d \in Database
    PROVE  d \in Bytes
BY DatabaseAssumption

LEMMA AliasIsBytes ==
    ASSUME NEW a \in Alias
    PROVE  a \in Bytes
BY ArgumentAssumption

LEMMA SealedReads ==
    ASSUME NEW p, Sealed(p)
    PROVE  /\ DecodeRecord(p.blob.plain) = <<p.rec>>
           /\ ValidSize(p.blob.plain) /\ ValidateRecord(p.rec)
<1>1. p.rec \in Record
  BY ArgumentAssumption DEF Sealed
<1>2. ValidateRecord(p.rec) /\ Encodable(p.rec) /\ p.blob.plain = EncodeRecord(p.rec)
  BY DEF Sealed
<1> QED BY <1>1, <1>2, DecodeOfEncode, EncodedFits

(* What Get makes of an envelope: nothing if it was sealed for another     *)
(* place, and otherwise the record it was sealed for.                      *)
LEMMA OpenedEnvelope ==
    ASSUME NEW p, Sealed(p), NEW d \in Database, NEW a \in Alias
    PROVE  Opened(p.blob, Dek(d), RecordAAD(d, a))
             = IF p.id = d /\ p.alias = a THEN <<p.rec>> ELSE <<>>
<1> DEFINE aad == RecordAAD(d, a)
<1>1. DecodeRecord(p.blob.plain) = <<p.rec>> /\ ValidSize(p.blob.plain) /\ ValidateRecord(p.rec)
  BY SealedReads
<1>2. CASE p.id = d /\ p.alias = a
  <2>1. Opens(p.blob, Dek(d), aad)
    BY <1>2 DEF Opens, Sealed
  <2>2. \A k \in DOMAIN <<p.rec>> : ValidateRecord(<<p.rec>>[k])
    BY <1>1
  <2>3. Opened(p.blob, Dek(d), aad) = <<p.rec>>
    <3> HIDE DEF aad
    <3> QED BY <1>1, <2>1, <2>2 DEF Opened
  <2> QED BY <1>2, <2>3
<1>3. CASE ~(p.id = d /\ p.alias = a)
  <2>1. ASSUME Opens(p.blob, Dek(d), aad)
        PROVE  FALSE
    <3>1. RecordAAD(p.id, p.alias) = RecordAAD(d, a)
      BY <2>1 DEF Opens, Sealed
    <3>2. p.id \in Bytes /\ d \in Bytes /\ p.alias \in Bytes /\ a \in Bytes
      BY DatabaseIsBytes, AliasIsBytes DEF Sealed
    <3>3. p.id = d /\ p.alias = a
      BY <3>1, <3>2, RecordAADInjective
    <3> QED BY <1>3, <3>3
  <2>2. Opened(p.blob, Dek(d), aad) = <<>>
    <3> HIDE DEF aad
    <3> QED BY <2>1 DEF Opened
  <2> QED BY <1>3, <2>2
<1> QED BY <1>2, <1>3

LEMMA SealedKept ==
    ASSUME NEW p, Sealed(p), nonce \in Nat, nonce' \in Nat, nonce <= nonce'
    PROVE  Sealed(p)'
BY DEF Sealed

LEMMA RowsUnchanged ==
    ASSUME RowInv, UNCHANGED <<row, put, got>>, nonce' = nonce \/ nonce' = nonce + 1
    PROVE  RowInv'
<1>1. nonce \in Nat /\ nonce' \in Nat /\ nonce <= nonce'
  BY DEF RowInv
<1>2. \A p \in put' : Sealed(p)'
  BY <1>1, SealedKept DEF RowInv
<1> QED BY <1>1, <1>2 DEF RowInv

(* The facts about the last Get are about what does not change. *)
GotInv == GetReturnsWhatWasPut /\ PutIsReadable

LEMMA GotUnchanged ==
    ASSUME GotInv, UNCHANGED <<put, got>>
    PROVE  GotInv'
BY DEF GotInv, GetReturnsWhatWasPut, PutIsReadable

LEMMA PutStep ==
    ASSUME HeaderInv, RowInv, GotInv,
           NEW d \in Database, NEW a \in Alias, NEW rec \in Candidate, Put(d, a, rec)
    PROVE  RowInv' /\ GotInv'
<1> DEFINE id == session[d].pub.id
           blob == Seal(session[d].blob.plain, EncodeRecord(rec), RecordAAD(id, a))
           new == [id |-> id, alias |-> a, rec |-> rec, blob |-> blob]
<1>1. /\ ValidateRecord(rec) /\ Encodable(rec) /\ session[d] # NULL
      /\ nonce' = nonce + 1
      /\ row' = [row EXCEPT ![d] = [row[d] EXCEPT ![a] = blob]]
      /\ put' = put \cup {new} /\ got' = got
  BY DEF Put
<1>2. id = d /\ session[d].blob.plain = Dek(d)
  <2>1. session[d] \in written /\ session[d].pub.id = d
    BY <1>1 DEF HeaderInv
  <2>2. Genuine(session[d])
    BY <2>1 DEF HeaderInv
  <2> QED BY <2>1, <2>2 DEF Genuine
<1>3. nonce \in Nat /\ nonce' \in Nat /\ nonce < nonce'
  BY <1>1 DEF RowInv
<1>4. /\ new.id = d /\ new.alias = a /\ new.rec = rec /\ new.blob = blob
      /\ blob.key = Dek(d) /\ blob.plain = EncodeRecord(rec) /\ blob.aad = RecordAAD(d, a)
      /\ blob.nonce = nonce
  BY <1>2 DEF Seal
<1> HIDE DEF new, blob
<1>5. ASSUME NEW p, p = new
      PROVE  Sealed(p)'
  BY <1>1, <1>3, <1>4, <1>5 DEF Sealed
<1>6. \A p \in put' : Sealed(p)'
  <2>1. \A p \in put : Sealed(p)'
    BY <1>3, SealedKept DEF RowInv
  <2> QED BY <1>1, <1>5, <2>1
<1>7. DOMAIN row' = Database /\ \A e \in Database : DOMAIN row'[e] = Alias
  BY <1>1 DEF RowInv
<1>8. ASSUME NEW e \in Database, NEW b \in Alias, row'[e][b] # NULL
      PROVE  \E p \in put' : p.blob = row'[e][b]
  <2>1. CASE e = d /\ b = a
    <3>1. row'[e][b] = new.blob /\ new \in put'
      BY <1>1, <1>4, <2>1 DEF RowInv
    <3> QED BY <3>1
  <2>2. CASE ~(e = d /\ b = a)
    <3>1. row'[e][b] = row[e][b]
      BY <1>1, <2>2 DEF RowInv
    <3> QED BY <1>1, <1>8, <3>1 DEF RowInv
  <2> QED BY <2>1, <2>2
<1>9. got' # NULL => \E p \in put' : p.blob = got'.blob
  BY <1>1 DEF RowInv
<1>10. RowInv'
  BY <1>3, <1>6, <1>7, <1>8, <1>9 DEF RowInv
<1>11. GetReturnsWhatWasPut'
  BY <1>1 DEF GotInv, GetReturnsWhatWasPut
<1>12. got # NULL => new.blob # got.blob
  <2> SUFFICES ASSUME got # NULL PROVE new.blob # got.blob
    OBVIOUS
  <2>1. PICK p \in put : p.blob = got.blob
    BY DEF RowInv
  <2>2. p.blob.nonce \in Nat /\ p.blob.nonce < nonce
    BY DEF RowInv, Sealed
  <2> QED BY <1>3, <1>4, <2>1, <2>2
<1>13. PutIsReadable'
  BY <1>1, <1>12 DEF GotInv, PutIsReadable
<1> QED BY <1>10, <1>11, <1>13 DEF GotInv

LEMMA GetStep ==
    ASSUME HeaderInv, RowInv, NEW d \in Database, NEW a \in Alias, Get(d, a)
    PROVE  RowInv' /\ GotInv'
<1> DEFINE blob == row[d][a]
<1>1. session[d] # NULL /\ blob # NULL /\ UNCHANGED <<row, nonce, put>>
  BY DEF Get
<1>2. session[d].pub.id = d /\ session[d].blob.plain = Dek(d)
  <2>1. session[d] \in written /\ session[d].pub.id = d
    BY <1>1 DEF HeaderInv
  <2>2. Genuine(session[d])
    BY <2>1 DEF HeaderInv
  <2> QED BY <2>1, <2>2 DEF Genuine
<1>3. got' = [id |-> d, alias |-> a, blob |-> blob,
              outcome |-> Opened(blob, Dek(d), RecordAAD(d, a))]
  BY <1>2 DEF Get
<1>4. PICK q \in put : q.blob = blob
  BY <1>1 DEF RowInv
<1>5. got'.id = d /\ got'.alias = a /\ got'.blob = blob
  BY <1>3
<1>6. \A p \in put : p.blob = blob => Sealed(p) /\
        got'.outcome = IF p.id = d /\ p.alias = a THEN <<p.rec>> ELSE <<>>
  <2> TAKE p \in put
  <2> HAVE p.blob = blob
  <2>1. Sealed(p)
    BY DEF RowInv
  <2>2. Opened(p.blob, Dek(d), RecordAAD(d, a)) = IF p.id = d /\ p.alias = a THEN <<p.rec>> ELSE <<>>
    BY <2>1, OpenedEnvelope
  <2> QED BY <1>3, <2>1, <2>2
<1> HIDE DEF blob
<1>7. RowInv'
  <2>1. \A p \in put' : Sealed(p)'
    BY <1>1 DEF RowInv, Sealed
  <2> QED BY <1>1, <1>4, <1>5, <2>1 DEF RowInv
<1>8. ASSUME NEW k \in DOMAIN got'.outcome
      PROVE  \E p \in put' : /\ p.id = got'.id /\ p.alias = got'.alias
                             /\ p.blob = got'.blob /\ p.rec = got'.outcome[k]
  <2>1. q.id = d /\ q.alias = a /\ got'.outcome = <<q.rec>>
    <3>1. got'.outcome = IF q.id = d /\ q.alias = a THEN <<q.rec>> ELSE <<>>
      BY <1>4, <1>6
    <3>2. got'.outcome # <<>>
      BY <1>8
    <3> QED BY <3>1, <3>2
  <2>2. k = 1 /\ got'.outcome[k] = q.rec
    BY <1>8, <2>1
  <2> QED BY <1>1, <1>4, <1>5, <2>1, <2>2
<1>9. \A p \in put' : p.id = got'.id /\ p.alias = got'.alias /\ p.blob = got'.blob
                        => got'.outcome = <<p.rec>>
  BY <1>1, <1>5, <1>6
<1> QED BY <1>7, <1>8, <1>9 DEF GotInv, GetReturnsWhatWasPut, PutIsReadable

LEMMA RowStep ==
    ASSUME HeaderInv, RowInv, GotInv, [Next]_vars
    PROVE  RowInv' /\ GotInv'
<1>1. CASE UNCHANGED vars
  <2>1. UNCHANGED <<row, put, got, nonce>>
    BY <1>1 DEF vars
  <2> QED BY <2>1, RowsUnchanged, GotUnchanged
<1>2. ASSUME NEW d \in Database, NEW ref \in Ref,
             Initialize(d, ref) \/ RotateKEK(d, ref) \/ Unlock(d, ref)
      PROVE  RowInv' /\ GotInv'
  <2>1. UNCHANGED <<row, put, got>> /\ (nonce' = nonce \/ nonce' = nonce + 1)
    BY <1>2 DEF Initialize, RotateKEK, Unlock, Store
  <2> QED BY <2>1, RowsUnchanged, GotUnchanged
<1>3. ASSUME NEW d \in Database, Lock(d) \/ HeaderRestored(d)
      PROVE  RowInv' /\ GotInv'
  <2>1. UNCHANGED <<row, put, got, nonce>>
    BY <1>3 DEF Lock, HeaderRestored
  <2> QED BY <2>1, RowsUnchanged, GotUnchanged
<1>4. ASSUME NEW d \in Database, NEW a \in Alias, NEW rec \in Candidate, Put(d, a, rec)
      PROVE  RowInv' /\ GotInv'
  BY <1>4, PutStep
<1>5. ASSUME NEW d \in Database, NEW a \in Alias, Get(d, a)
      PROVE  RowInv' /\ GotInv'
  BY <1>5, GetStep
<1>6. ASSUME NEW d \in Database, NEW a \in Alias, Delete(d, a) \/ RowRestored(d, a)
      PROVE  RowInv' /\ GotInv'
  <2>1. UNCHANGED <<got, nonce, put>>
    BY <1>6 DEF Delete, RowRestored
  <2>2. PICK b : /\ row' = [row EXCEPT ![d] = [row[d] EXCEPT ![a] = b]]
                 /\ b # NULL => \E p \in put : p.blob = b
    BY <1>6 DEF Delete, RowRestored
  <2>3. DOMAIN row' = Database /\ \A e \in Database : DOMAIN row'[e] = Alias
    BY <2>2 DEF RowInv
  <2>4. ASSUME NEW e \in Database, NEW c \in Alias, row'[e][c] # NULL
        PROVE  \E p \in put : p.blob = row'[e][c]
    <3>1. CASE e = d /\ c = a
      <4>1. row'[e][c] = b
        BY <2>2, <3>1 DEF RowInv
      <4> QED BY <2>2, <2>4, <4>1
    <3>2. CASE ~(e = d /\ c = a)
      <4>1. row'[e][c] = row[e][c]
        BY <2>2, <3>2 DEF RowInv
      <4> QED BY <2>4, <4>1 DEF RowInv
    <3> QED BY <3>1, <3>2
  <2>5. \A p \in put' : Sealed(p)'
    BY <2>1 DEF RowInv, Sealed
  <2>6. RowInv'
    BY <2>1, <2>3, <2>4, <2>5 DEF RowInv
  <2> QED BY <2>1, <2>6, GotUnchanged
<1> QED BY <1>1, <1>2, <1>3, <1>4, <1>5, <1>6 DEF Next

-----------------------------------------------------------------------------
LEMMA InitInv == Init => IInv
<1> SUFFICES ASSUME Init PROVE IInv
  OBVIOUS
<1>1. HeaderInv
  BY DEF Init, HeaderInv
<1>2. RowInv
  BY DEF Init, RowInv
<1>3. GetReturnsWhatWasPut /\ PutIsReadable
  BY DEF Init, GetReturnsWhatWasPut, PutIsReadable
<1> QED BY <1>1, <1>2, <1>3 DEF IInv

(* The invariant of EnvelopeBinding holds for any number of databases,     *)
(* aliases and records, whatever rows are restored.                        *)
THEOREM BindingInvariant == Spec => []IInv
<1>1. IInv /\ [Next]_vars => IInv'
  BY HeaderStep, RowStep DEF IInv, GotInv
<1> QED BY InitInv, <1>1, PTL DEF Spec

(* Get answers with a record put under that alias of that store and        *)
(* sealed in that envelope, never with another's                           *)
(* (encrypted.go:247-272, 499-505).                                        *)
THEOREM GetIsFaithful == Spec => []GetReturnsWhatWasPut
<1>1. IInv => GetReturnsWhatWasPut
  BY DEF IInv
<1> QED BY BindingInvariant, <1>1, PTL

(* What Put accepted, Get decrypts and decodes                             *)
(* (encrypted.go:444-480, 507-594).                                        *)
THEOREM PutsAreReadable == Spec => []PutIsReadable
<1>1. IInv => PutIsReadable
  BY DEF IInv
<1> QED BY BindingInvariant, <1>1, PTL

(* Unlock accepts a header as it was written or not at all                 *)
(* (encrypted.go:141-148, 488-497).                                        *)
THEOREM HeadersAreWhole == Spec => []UnlockAcceptsWrittenHeader
<1>1. IInv => UnlockAcceptsWrittenHeader
  BY DEF IInv, HeaderInv, UnlockAcceptsWrittenHeader
<1> QED BY BindingInvariant, <1>1, PTL
=============================================================================
