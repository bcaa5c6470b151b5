---------------------------- MODULE AsmCodecProofs ----------------------------
(***************************************************************************)
(* Laws of the codecs, for bytes of any number of values.                  *)
(***************************************************************************)
EXTENDS AsmCodec, SequenceTheorems, TLAPS

-----------------------------------------------------------------------------
(***************************************************************************)
(* Arithmetic.                                                             *)
(***************************************************************************)
LEMMA BaseIsLarge == Base \in Nat /\ Base >= 4
PROOF
  <1>1. Digit \in Nat /\ Digit >= 2
    BY DigitAssumption
  <1>2. Digit * Digit >= 2 * Digit
    BY <1>1
  <1> QED
    BY <1>1, <1>2 DEF Base

\* The powers of a byte that the decoders shift by are numbers, and large ones.
LEMMA Powers ==
  /\ Base2 \in Nat /\ Base2 >= 16
  /\ Base3 \in Nat /\ Base3 >= 64
  /\ Word \in Nat /\ Word >= 256
PROOF
  <1> DEFINE B == Base
  <1>1. B \in Nat /\ B >= 4
    BY BaseIsLarge
  <1> HIDE DEF B
  <1>2. B * B \in Nat /\ B * B >= 4 * B
    BY <1>1
  <1>3. B * B * B \in Nat /\ B * B * B >= 4 * (B * B)
    BY <1>1, <1>2
  <1>4. B * B * B * B \in Nat /\ B * B * B * B >= 4 * (B * B * B)
    BY <1>1, <1>3
  <1> QED
    BY <1>1, <1>2, <1>3, <1>4 DEF B, Base2, Base3, Word

\* Dividing twice is dividing by the product.
LEMMA DivDiv ==
  ASSUME NEW a \in Nat, NEW b \in Nat, NEW n \in Nat, a > 0, b > 0
  PROVE  (n \div a) \div b = n \div (a * b)
PROOF
  <1> DEFINE q == n \div a
             p == q \div b
             d == n \div (a * b)
  <1>0. a * b \in Nat /\ a * b > 0
    OBVIOUS
  <1>1. q \in Nat /\ q * a <= n /\ n < (q + 1) * a
    OBVIOUS
  <1>2. p \in Nat /\ p * b <= q /\ q + 1 <= (p + 1) * b
    BY <1>1
  <1>3. d \in Nat /\ d * (a * b) <= n /\ n < (d + 1) * (a * b)
    BY <1>0
  <1> HIDE DEF q, p, d
  <1>4. p * (a * b) <= n
    <2>1. (p * b) * a <= q * a
      BY <1>1, <1>2
    <2> QED
      BY <1>1, <1>2, <2>1
  <1>5. n < (p + 1) * (a * b)
    <2>1. (q + 1) * a <= ((p + 1) * b) * a
      BY <1>1, <1>2
    <2> QED
      BY <1>1, <1>2, <2>1
  <1>6. ~(p < d)
    <2>1. p < d => (p + 1) * (a * b) <= d * (a * b)
      BY <1>0, <1>2, <1>3
    <2> QED
      BY <1>0, <1>2, <1>3, <1>5, <2>1
  <1>7. ~(d < p)
    <2>1. d < p => (d + 1) * (a * b) <= p * (a * b)
      BY <1>0, <1>2, <1>3
    <2> QED
      BY <1>0, <1>2, <1>3, <1>4, <2>1
  <1> QED
    BY <1>2, <1>3, <1>6, <1>7 DEF p, q, d

\* Division with remainder.
LEMMA DivMod ==
  ASSUME NEW a \in Nat, a > 0, NEW n \in Nat
  PROVE  /\ n \div a \in Nat
         /\ n % a \in 0 .. a - 1
         /\ n = (n \div a) * a + (n % a)
PROOF
  OBVIOUS

\* A number is the next digit and what is above it.
LEMMA NextDigit ==
  ASSUME NEW a \in Nat, a > 0, NEW n \in Nat, NEW b \in Nat, b = a * Base
  PROVE  /\ n \div a \in Nat
         /\ (n \div a) % Base \in Byte
         /\ n \div a = (n \div b) * Base + ((n \div a) % Base)
PROOF
  <1>1. Base \in Nat /\ Base > 0
    BY BaseIsLarge
  <1>2. n \div a \in Nat
    OBVIOUS
  <1> DEFINE q == n \div a
  <1>3. q = (q \div Base) * Base + (q % Base) /\ q % Base \in 0 .. Base - 1
    BY <1>1, <1>2
  <1>4. q \div Base = n \div (a * Base)
    BY <1>1, DivDiv
  <1> QED
    BY <1>2, <1>3, <1>4 DEF Byte

\* The four bytes of a number of 32 bits, and a byte that is split off a longer one.
LEMMA Digits ==
  ASSUME NEW n \in Nat
  PROVE  /\ n = (n \div Base3) * Base3 + ((n \div Base2) % Base) * Base2
                  + ((n \div Base) % Base) * Base + (n % Base)
         /\ n \div Base3 = (n \div Word) * Base + ((n \div Base3) % Base)
         /\ {(n \div Base3) % Base, (n \div Base2) % Base, (n \div Base) % Base,
             n % Base} \subseteq Byte
PROOF
  <1>0. Base \in Nat /\ Base >= 4
    BY BaseIsLarge
  <1>1. n = (n \div Base) * Base + (n % Base) /\ n % Base \in Byte
    BY <1>0 DEF Byte
  <1>2. n \div Base = (n \div Base2) * Base + ((n \div Base) % Base)
        /\ (n \div Base) % Base \in Byte
    <2>1. Base \in Nat /\ Base > 0 /\ Base2 \in Nat
      BY <1>0, Powers
    <2>2. Base2 = Base * Base
      BY DEF Base2
    <2> QED
      BY <2>1, <2>2, NextDigit, Zenon
  <1>3. n \div Base2 = (n \div Base3) * Base + ((n \div Base2) % Base)
        /\ (n \div Base2) % Base \in Byte
    <2>1. Base2 \in Nat /\ Base2 > 0 /\ Base3 \in Nat
      BY <1>0, Powers
    <2>2. Base3 = Base2 * Base
      BY DEF Base3
    <2> QED
      BY <2>1, <2>2, NextDigit, Zenon
  <1>4. n \div Base3 = (n \div Word) * Base + ((n \div Base3) % Base)
        /\ (n \div Base3) % Base \in Byte
    <2>1. Base3 \in Nat /\ Base3 > 0 /\ Word \in Nat
      BY <1>0, Powers
    <2>2. Word = Base3 * Base
      BY DEF Word
    <2> QED
      BY <2>1, <2>2, NextDigit, Zenon
  <1>5. n = (n \div Base3) * Base3 + ((n \div Base2) % Base) * Base2
              + ((n \div Base) % Base) * Base + (n % Base)
    <2> DEFINE d0 == n % Base
               d1 == (n \div Base) % Base
               d2 == (n \div Base2) % Base
               q1 == n \div Base
               q2 == n \div Base2
               q3 == n \div Base3
    <2>1. {d0, d1, d2} \subseteq Int /\ {q1, q2, q3} \subseteq Int
      BY <1>0, Powers, <1>1, <1>2, <1>3 DEF Byte
    <2>2. n = q1 * Base + d0 /\ q1 = q2 * Base + d1 /\ q2 = q3 * Base + d2
      BY <1>1, <1>2, <1>3
    <2> HIDE DEF d0, d1, d2, q1, q2, q3
    <2>3. q1 = q3 * (Base * Base) + d2 * Base + d1
      BY <1>0, <2>1, <2>2
    <2>4. n = q3 * (Base * Base * Base) + d2 * (Base * Base) + d1 * Base + d0
      BY <1>0, <2>1, <2>2, <2>3
    <2> QED
      BY <2>4 DEF d0, d1, d2, q3, Base2, Base3
  <1> QED
    BY <1>1, <1>2, <1>3, <1>4, <1>5

\* Four bytes append_be_u32 wrote, wherever they lie, are the number.
LEMMA DecodeAt ==
  ASSUME NEW v \in 0 .. Word - 1, NEW b, NEW o \in Nat,
         \A i \in 1 .. 4 : b[o + i] = EncodeU32(v)[i]
  PROVE  DecodeU32(b, o) = v
PROOF
  <1>1. v \in Nat /\ v \div Word = 0
    BY Powers
  <1>2. v \div Base3 = (v \div Word) * Base + ((v \div Base3) % Base)
    BY <1>1, Digits
  <1>3. (v \div Base3) % Base \in Int
    BY <1>1, Digits DEF Byte
  <1>4. v \div Base3 = (v \div Base3) % Base
    BY <1>1, <1>2, <1>3, BaseIsLarge
  <1>5. /\ b[o + 1] = EncodeU32(v)[1]
        /\ b[o + 2] = EncodeU32(v)[2]
        /\ b[o + 3] = EncodeU32(v)[3]
        /\ b[o + 4] = EncodeU32(v)[4]
    OBVIOUS
  <1>6. /\ b[o + 1] = (v \div Base3) % Base
        /\ b[o + 2] = (v \div Base2) % Base
        /\ b[o + 3] = (v \div Base) % Base
        /\ b[o + 4] = v % Base
    BY <1>5 DEF EncodeU32
  <1>7. v = (v \div Base3) * Base3 + ((v \div Base2) % Base) * Base2
              + ((v \div Base) % Base) * Base + (v % Base)
    BY <1>1, Digits
  <1> QED
    BY <1>4, <1>6, <1>7, Zenon DEF DecodeU32

\* write_be32 writes four bytes.
LEMMA U32Bytes ==
  ASSUME NEW v \in Nat
  PROVE  /\ EncodeU32(v) \in Seq(Byte)
         /\ Len(EncodeU32(v)) = 4
PROOF
  <1>1. {(v \div Base3) % Base, (v \div Base2) % Base, (v \div Base) % Base,
             v % Base} \subseteq Byte
    BY Digits
  <1> QED
    BY <1>1 DEF EncodeU32

\* decode_be_u32 undoes append_be_u32, for every std::uint32_t.
THEOREM U32RoundTrip ==
  ASSUME NEW v \in 0 .. Word - 1
  PROVE  DecodeU32(EncodeU32(v), 0) = v
PROOF
  <1>1. \A i \in 1 .. 4 : 0 + i = i
    OBVIOUS
  <1>2. \A i \in 1 .. 4 : EncodeU32(v)[0 + i] = EncodeU32(v)[i]
    BY <1>1, Zenon
  <1> QED
    BY <1>2, DecodeAt

\* Any four bytes are a std::uint32_t.
LEMMA DecodedIsWord ==
  ASSUME NEW b, NEW o \in Nat, \A i \in 1 .. 4 : b[o + i] \in Byte
  PROVE  DecodeU32(b, o) \in 0 .. Word - 1
PROOF
  <1> DEFINE w == b[o + 1]
             x == b[o + 2]
             y == b[o + 3]
             z == b[o + 4]
  <1>1. {w, x, y, z} \subseteq Byte
    OBVIOUS
  <1> HIDE DEF w, x, y, z
  <1> DEFINE B == Base
  <1>2. B \in Nat /\ B >= 4 /\ {w, x, y, z} \subseteq 0 .. B - 1
    BY <1>1, BaseIsLarge DEF Byte
  <1>3. DecodeU32(b, o) = w * (B * B * B) + x * (B * B) + y * B + z
    BY DEF DecodeU32, Base3, Base2, w, x, y, z
  <1>4. Word = B * B * B * B
    BY DEF Word, Base3, Base2
  <1> HIDE DEF B
  <1>5. /\ w * (B * B * B) \in Nat
        /\ w * (B * B * B) <= (B - 1) * (B * B * B)
    BY <1>2
  <1>6. x * (B * B) \in Nat /\ x * (B * B) <= (B - 1) * (B * B)
    BY <1>2
  <1>7. y * B \in Nat /\ y * B <= (B - 1) * B
    BY <1>2
  <1>8. (B - 1) * (B * B * B) + (B - 1) * (B * B) + (B - 1) * B + (B - 1)
          = B * B * B * B - 1
    BY <1>2
  <1> QED
    BY <1>2, <1>3, <1>4, <1>5, <1>6, <1>7, <1>8

-----------------------------------------------------------------------------
(***************************************************************************)
(* The KLV frame.                                                          *)
(***************************************************************************)
LEMMA FunctionsAreSequences ==
  ASSUME NEW S, NEW n \in Nat, NEW f \in [1 .. n -> S]
  PROVE  f \in Seq(S) /\ Len(f) = n
PROOF
  <1>1. f \in Seq(S)
    BY SeqDef
  <1>2. DOMAIN f = 1 .. Len(f) /\ Len(f) \in Nat
    BY <1>1, LenProperties
  <1> QED
    BY <1>1, <1>2

\* The two parts of a concatenation.
LEMMA Parts ==
  ASSUME NEW S, NEW s \in Seq(S), NEW t \in Seq(S), NEW b, b = s \o t
  PROVE  /\ b \in Seq(S)
         /\ Len(b) = Len(s) + Len(t)
         /\ \A i \in 1 .. Len(s) : b[i] = s[i]
         /\ \A i \in 1 .. Len(t) : b[Len(s) + i] = t[i]
PROOF
  OBVIOUS

LengthField(n) ==
    << LongForm, (n \div Base2) % Base, (n \div Base) % Base, n % Base >>

\* Where the parts of a frame lie.
LEMMA KlvLayout ==
  ASSUME NEW ul \in Label, NEW value \in Seq(Byte)
  PROVE  /\ Klv(ul, value) \in Seq(Byte)
         /\ Len(Klv(ul, value)) = HeaderSize + Len(value)
         /\ \A i \in 1 .. 16 : Klv(ul, value)[i] = ul[i]
         /\ \A i \in 1 .. 4 : Klv(ul, value)[16 + i] = LengthField(Len(value))[i]
         /\ \A i \in 1 .. Len(value) : Klv(ul, value)[HeaderSize + i] = value[i]
PROOF
  <1> DEFINE f == LengthField(Len(value))
             h == ul \o f
             b == Klv(ul, value)
  <1>1. ul \in [1 .. 16 -> Byte]
    BY DEF Label
  <1>2. ul \in Seq(Byte)
    BY <1>1, FunctionsAreSequences
  <1>3. Len(ul) = 16
    BY <1>1, FunctionsAreSequences
  <1>4. Len(value) \in Nat
    BY LenProperties
  <1>5. f \in Seq(Byte)
    <2>1. /\ (Len(value) \div Base2) % Base \in Byte
          /\ (Len(value) \div Base) % Base \in Byte
          /\ Len(value) % Base \in Byte
      BY <1>4, Digits
    <2> QED
      BY <2>1, LongFormAssumption DEF LengthField
  <1>6. Len(f) = 4
    BY DEF LengthField
  <1> HIDE DEF f
  <1>7. /\ h \in Seq(Byte)
        /\ Len(h) = Len(ul) + Len(f)
        /\ \A i \in 1 .. Len(ul) : h[i] = ul[i]
        /\ \A i \in 1 .. Len(f) : h[Len(ul) + i] = f[i]
    BY <1>2, <1>5
  <1>8. b = h \o value
    BY DEF Klv, f, LengthField
  <1> HIDE DEF h, b
  <1>9. /\ b \in Seq(Byte)
        /\ Len(b) = Len(h) + Len(value)
        /\ \A i \in 1 .. Len(h) : b[i] = h[i]
        /\ \A i \in 1 .. Len(value) : b[Len(h) + i] = value[i]
    <2>1. h \in Seq(Byte)
      BY <1>7
    <2> QED
      BY <2>1, <1>8, Parts
  <1>10. /\ Len(h) = 20
         /\ \A i \in 1 .. 16 : h[i] = ul[i]
         /\ \A i \in 1 .. 4 : h[16 + i] = f[i]
    BY <1>3, <1>6, <1>7
  <1>11. /\ Len(b) = 20 + Len(value)
         /\ \A i \in 1 .. 20 : b[i] = h[i]
         /\ \A i \in 1 .. Len(value) : b[20 + i] = value[i]
    BY <1>9, <1>10
  <1>12. \A i \in 1 .. 16 : b[i] = ul[i]
    BY <1>10, <1>11
  <1>13. \A i \in 1 .. 4 : b[16 + i] = f[i]
    BY <1>10, <1>11
  <1> QED
    BY <1>9, <1>11, <1>12, <1>13 DEF b, f, HeaderSize

\* The three bytes after 0x83 hold every length below Base3.
LEMMA LengthRoundTrip ==
  ASSUME NEW n \in 0 .. Base3 - 1
  PROVE  n = ((n \div Base2) % Base) * Base2 + ((n \div Base) % Base) * Base
               + (n % Base)
PROOF
  <1>1. n \in Nat /\ n \div Base3 = 0
    BY Powers
  <1>2. /\ (n \div Base2) % Base \in Int
        /\ (n \div Base) % Base \in Int
        /\ n % Base \in Int
    BY <1>1, Digits, BaseIsLarge DEF Byte
  <1>3. n = (n \div Base3) * Base3 + ((n \div Base2) % Base) * Base2
              + ((n \div Base) % Base) * Base + (n % Base)
    BY <1>1, Digits
  <1> DEFINE x == ((n \div Base2) % Base) * Base2
             y == ((n \div Base) % Base) * Base
             z == n % Base
  <1>4. {x, y, z} \subseteq Int
    BY <1>2, BaseIsLarge, Powers
  <1>5. n = 0 * Base3 + x + y + z
    BY <1>1, <1>3
  <1> HIDE DEF x, y, z
  <1>6. n = x + y + z
    BY <1>4, <1>5, Powers
  <1> QED
    BY <1>6 DEF x, y, z

\* Klv::decode undoes Klv::encode for every value the length field has room
\* for.
THEOREM KlvRoundTrip ==
  ASSUME NEW ul \in Label, NEW value \in Seq(Byte), Len(value) < Base3
  PROVE  /\ IsKlv(Klv(ul, value))
         /\ KlvUl(Klv(ul, value)) = ul
         /\ KlvLength(Klv(ul, value)) = Len(value)
         /\ KlvValue(Klv(ul, value)) = value
PROOF
  <1> DEFINE b == Klv(ul, value)
             n == Len(value)
  <1>1. n \in Nat
    BY LenProperties
  <1>2. /\ b \in Seq(Byte)
        /\ Len(b) = 20 + n
        /\ \A i \in 1 .. 16 : b[i] = ul[i]
        /\ \A i \in 1 .. 4 : b[16 + i] = LengthField(n)[i]
        /\ \A i \in 1 .. n : b[20 + i] = value[i]
    BY KlvLayout DEF HeaderSize
  <1> HIDE DEF b
  <1>3. /\ b[17] = LongForm
        /\ b[18] = (n \div Base2) % Base
        /\ b[19] = (n \div Base) % Base
        /\ b[20] = n % Base
    <2>1. /\ b[16 + 1] = LengthField(n)[1]
          /\ b[16 + 2] = LengthField(n)[2]
          /\ b[16 + 3] = LengthField(n)[3]
          /\ b[16 + 4] = LengthField(n)[4]
      BY <1>2
    <2> QED
      BY <2>1 DEF LengthField
  <1>4. KlvLength(b) = n
    <2>1. n = ((n \div Base2) % Base) * Base2 + ((n \div Base) % Base) * Base
                + (n % Base)
      BY <1>1, LengthRoundTrip, Powers
    <2> QED
      BY <1>3, <2>1 DEF KlvLength
  <1>5. IsKlv(b)
    BY <1>1, <1>2, <1>3, <1>4 DEF IsKlv, HeaderSize
  <1>6. KlvUl(b) = ul
    <2>1. ul = [i \in 1 .. 16 |-> ul[i]]
      BY DEF Label
    <2>2. \A i \in 1 .. 16 : b[i] = ul[i]
      BY <1>2, Zenon
    <2>3. \A i \in 1 .. 16 : 0 + i = i
      OBVIOUS
    <2>4. \A i \in 1 .. 16 : b[0 + i] = ul[i]
      BY <2>2, <2>3, Zenon
    <2> QED
      BY <2>1, <2>4, Zenon DEF KlvUl, Slice
  <1>7. KlvValue(b) = value
    <2>1. KlvValue(b) = [i \in 1 .. n |-> value[i]]
      <3>1. Len(b) - 20 = n
        BY <1>1, <1>2
      <3> QED
        BY <1>2, <3>1 DEF KlvValue, Slice, HeaderSize
    <2>2. value = [i \in 1 .. n |-> value[i]]
      BY LenProperties
    <2> QED
      BY <2>1, <2>2
  <1> QED
    BY <1>4, <1>5, <1>6, <1>7 DEF b

\* A frame of which only a first part has been read does not pass the length
\* check of Klv::decode: it never is taken for another frame.
THEOREM NoPartIsAFrame ==
  ASSUME NEW b \in Seq(Byte), IsKlv(b),
         NEW n \in 0 .. Len(b), IsKlv(Slice(b, 0, n))
  PROVE  Slice(b, 0, n) = b
PROOF
  <1> DEFINE p == Slice(b, 0, n)
  <1>1. Len(b) \in Nat /\ b = [i \in 1 .. Len(b) |-> b[i]]
    BY LenProperties
  <1>2. p = [i \in 1 .. n |-> b[i]] /\ Len(p) = n
    BY <1>1 DEF Slice
  <1> HIDE DEF p
  <1>3. Len(p) = HeaderSize + KlvLength(p) /\ Len(p) >= HeaderSize
    BY DEF IsKlv, p
  <1>4. Len(b) = HeaderSize + KlvLength(b)
    BY DEF IsKlv
  <1>5. KlvLength(p) = KlvLength(b)
    BY <1>1, <1>2, <1>3 DEF KlvLength, HeaderSize
  <1>6. n = Len(b)
    BY <1>2, <1>3, <1>4, <1>5
  <1> QED
    BY <1>1, <1>2, <1>6 DEF p

-----------------------------------------------------------------------------
(***************************************************************************)
(* Requests and responses.                                                 *)
(***************************************************************************)

\* describe_ul undoes the lookup of a label.
LEMMA UlRoundTrip ==
  ASSUME NEW u \in UlMap
  PROVE  IsUl(Ul[u]) /\ DescribeUl(Ul[u]) = u
PROOF
  BY UlAssumption, Zenon DEF IsUl, DescribeUl

\* The byte of a response code stands for that code.
LEMMA CodeRoundTrip ==
  ASSUME NEW code \in {"successful", "failed", "invalid", "busy"}
  PROVE  /\ CodeByte(code) \in 0 .. Len(Codes) - 1
         /\ CodeByte(code) \in Byte
         /\ Codes[CodeByte(code) + 1] = code
PROOF
  <1>1. Len(Codes) = 4 /\ DOMAIN Codes = 1 .. 4
    BY DEF Codes
  <1>2. \E i \in 1 .. 4 : Codes[i] = code
    <2>1. Codes[1] = "successful" /\ Codes[2] = "failed"
          /\ Codes[3] = "invalid" /\ Codes[4] = "busy"
      BY DEF Codes
    <2> QED
      BY <2>1
  <1> DEFINE j == CHOOSE i \in DOMAIN Codes : Codes[i] = code
  <1>3. j \in 1 .. 4 /\ Codes[j] = code
    BY <1>1, <1>2
  <1>4. CodeByte(code) = j - 1
    BY DEF CodeByte
  <1> HIDE DEF j
  <1>5. CodeByte(code) + 1 = j /\ CodeByte(code) \in 0 .. 3
    BY <1>3, <1>4
  <1> QED
    BY <1>1, <1>3, <1>5, BaseIsLarge DEF Byte

\* What the decoders find in a frame of the encoders.
LEMMA FrameRoundTrip ==
  ASSUME NEW u \in UlMap, NEW v \in Seq(Byte), Len(v) < Base3,
         NEW b, b = Klv(Ul[u], v)
  PROVE  /\ b \in Seq(Byte)
         /\ Len(b) = 20 + Len(v)
         /\ \A i \in 1 .. Len(v) : b[20 + i] = v[i]
         /\ IsKlv(b)
         /\ KlvLength(b) = Len(v)
         /\ IsUl(KlvUl(b))
         /\ DescribeUl(KlvUl(b)) = u
PROOF
  <1>1. Ul[u] \in Label
    BY UlAssumption
  <1>2. /\ Klv(Ul[u], v) \in Seq(Byte)
        /\ Len(Klv(Ul[u], v)) = HeaderSize + Len(v)
        /\ \A i \in 1 .. Len(v) : Klv(Ul[u], v)[HeaderSize + i] = v[i]
    BY <1>1, KlvLayout
  <1>3. /\ IsKlv(b)
        /\ KlvUl(b) = Ul[u]
        /\ KlvLength(b) = Len(v)
    BY <1>1, KlvRoundTrip, Zenon
  <1>4. IsUl(KlvUl(b)) /\ DescribeUl(KlvUl(b)) = u
    BY <1>3, UlRoundTrip
  <1> QED
    BY <1>2, <1>3, <1>4, Zenon DEF HeaderSize

\* decode_request undoes encode_request.
THEOREM RequestRoundTrip ==
  ASSUME NEW cmd \in Commands, NEW rid \in 0 .. Word - 1,
         NEW payload \in Seq(Byte), 4 + Len(payload) < Base3,
         NEW b, b = EncodeRequest([cmd |-> cmd, rid |-> rid, payload |-> payload])
  PROVE  /\ b \in Seq(Byte)
         /\ IsRequest(b)
         /\ RequestOf(b) = [cmd |-> cmd, rid |-> rid, payload |-> payload]
PROOF
  <1> DEFINE u == [cmd |-> cmd, resp |-> FALSE]
             id == EncodeU32(rid)
             v == id \o payload
             n == Len(payload)
  <1>1. u \in UlMap /\ u.cmd = cmd /\ u.resp = FALSE
    BY DEF UlMap
  <1>2. b = Klv(Ul[u], v)
    BY DEF EncodeRequest
  <1>3. id \in Seq(Byte)
    BY U32Bytes, Powers
  <1>4. Len(id) = 4
    BY U32Bytes, Powers
  <1> HIDE DEF u, id
  <1>5. n \in Nat
    BY LenProperties
  <1>6. /\ v \in Seq(Byte)
        /\ Len(v) = Len(id) + n
        /\ \A i \in 1 .. Len(id) : v[i] = id[i]
        /\ \A i \in 1 .. n : v[Len(id) + i] = payload[i]
    BY <1>3
  <1> HIDE DEF v
  <1>7. /\ Len(v) = 4 + n
        /\ \A i \in 1 .. 4 : v[i] = id[i]
        /\ \A i \in 1 .. n : v[4 + i] = payload[i]
    BY <1>4, <1>6
  <1>8. /\ b \in Seq(Byte)
        /\ Len(b) = 20 + Len(v)
        /\ \A i \in 1 .. Len(v) : b[20 + i] = v[i]
        /\ IsKlv(b)
        /\ KlvLength(b) = Len(v)
        /\ IsUl(KlvUl(b))
        /\ DescribeUl(KlvUl(b)) = u
    <2>1. Len(v) < Base3
      BY <1>7
    <2> QED
      BY <1>1, <1>2, <1>6, <2>1, FrameRoundTrip, Zenon
  <1>9. /\ Len(b) = 24 + n
        /\ \A i \in 1 .. 4 : b[20 + i] = id[i]
        /\ \A i \in 1 .. n : b[24 + i] = payload[i]
    BY <1>5, <1>7, <1>8
  <1>10. IsRequest(b)
    BY <1>1, <1>5, <1>7, <1>8 DEF IsRequest
  <1>11. DecodeU32(b, HeaderSize) = rid
    BY <1>9, DecodeAt DEF id, HeaderSize
  <1>12. Slice(b, HeaderSize + 4, Len(b) - HeaderSize - 4) = payload
    <2>1. payload = [i \in 1 .. n |-> payload[i]]
      BY LenProperties
    <2>2. Len(b) - 20 - 4 = n /\ 20 + 4 = 24
      BY <1>5, <1>9
    <2> QED
      BY <1>9, <2>1, <2>2 DEF Slice, HeaderSize
  <1> QED
    BY <1>1, <1>8, <1>10, <1>11, <1>12 DEF RequestOf

\* decode_response undoes encode_response.
THEOREM ResponseRoundTrip ==
  ASSUME NEW cmd \in Commands \cup {"bad_request"},
         NEW rid \in IF cmd = "bad_request" THEN {NoId} ELSE 0 .. Word - 1,
         NEW payload \in Seq(Byte),
         NEW code \in {"successful", "failed", "invalid", "busy"},
         (IF cmd = "bad_request" THEN 0 ELSE 4) + Len(payload) + 1 < Base3,
         NEW b, b = EncodeResponse([cmd |-> cmd, rid |-> rid,
                                    payload |-> payload, code |-> code])
  PROVE  /\ b \in Seq(Byte)
         /\ IsResponse(b)
         /\ ResponseOf(b) = [cmd |-> cmd, rid |-> rid,
                             payload |-> payload, code |-> code]
PROOF
  <1> DEFINE u == [cmd |-> cmd, resp |-> TRUE]
             id == IF cmd = "bad_request" THEN << >> ELSE EncodeU32(rid)
             m == IF cmd = "bad_request" THEN 0 ELSE 4
             c == << CodeByte(code) >>
             w == id \o payload
             v == w \o c
             n == Len(payload)
  <1>1. u \in UlMap /\ u.cmd = cmd /\ u.resp = TRUE
    BY DEF UlMap
  <1>2. b = Klv(Ul[u], v)
    BY DEF EncodeResponse
  <1>3. id \in Seq(Byte)
    BY U32Bytes, Powers
  <1>4. Len(id) = m
    <2>1. CASE cmd = "bad_request"
      BY <2>1
    <2>2. CASE cmd # "bad_request"
      <3>1. rid \in Nat /\ id = EncodeU32(rid) /\ m = 4
        BY <2>2, Powers
      <3> QED
        BY <3>1, U32Bytes, Zenon
    <2> QED
      BY <2>1, <2>2
  <1>5. c \in Seq(Byte)
    BY CodeRoundTrip
  <1>6. Len(c) = 1 /\ c[1] = CodeByte(code)
    OBVIOUS
  <1>7. n \in Nat /\ m \in {0, 4} /\ m + n + 1 < Base3
    BY LenProperties
  <1> HIDE DEF u, id, c
  <1>8. /\ w \in Seq(Byte)
        /\ Len(w) = Len(id) + n
        /\ \A i \in 1 .. Len(id) : w[i] = id[i]
        /\ \A i \in 1 .. n : w[Len(id) + i] = payload[i]
    BY <1>3
  <1>9. w \in Seq(Byte)
    BY <1>8
  <1> HIDE DEF w
  <1>10. /\ v \in Seq(Byte)
         /\ Len(v) = Len(w) + Len(c)
         /\ \A i \in 1 .. Len(w) : v[i] = w[i]
         /\ \A i \in 1 .. Len(c) : v[Len(w) + i] = c[i]
    BY <1>5, <1>9
  <1> HIDE DEF v, m
  <1>11. /\ Len(w) = m + n
         /\ \A i \in 1 .. m : w[i] = id[i]
         /\ \A i \in 1 .. n : w[m + i] = payload[i]
    BY <1>4, <1>8
  <1>12. /\ Len(v) = m + n + 1
         /\ \A i \in 1 .. m : v[i] = id[i]
         /\ \A i \in 1 .. n : v[m + i] = payload[i]
         /\ v[m + n + 1] = CodeByte(code)
    BY <1>6, <1>7, <1>10, <1>11
  <1>13. /\ b \in Seq(Byte)
         /\ Len(b) = 20 + Len(v)
         /\ \A i \in 1 .. Len(v) : b[20 + i] = v[i]
         /\ IsKlv(b)
         /\ KlvLength(b) = Len(v)
         /\ IsUl(KlvUl(b))
         /\ DescribeUl(KlvUl(b)) = u
    <2>1. Len(v) < Base3
      BY <1>7, <1>12
    <2> QED
      BY <1>1, <1>2, <1>10, <2>1, FrameRoundTrip, Zenon
  <1>14. /\ Len(b) = 20 + m + n + 1
         /\ \A i \in 1 .. m : b[20 + i] = id[i]
         /\ \A i \in 1 .. n : b[20 + m + i] = payload[i]
         /\ b[20 + m + n + 1] = CodeByte(code)
    <2>1. Len(b) = 20 + m + n + 1
      BY <1>7, <1>12, <1>13
    <2>2. \A i \in 1 .. m : b[20 + i] = id[i]
      BY <1>7, <1>12, <1>13
    <2>3. \A i \in 1 .. n : b[20 + m + i] = payload[i]
      <3> TAKE i \in 1 .. n
      <3>1. m + i \in 1 .. Len(v) /\ 20 + (m + i) = 20 + m + i
        BY <1>7, <1>12
      <3>2. b[20 + (m + i)] = v[m + i]
        BY <1>13, <3>1, Zenon
      <3> QED
        BY <1>12, <3>1, <3>2
    <2>4. b[20 + m + n + 1] = CodeByte(code)
      <3>1. m + n + 1 \in 1 .. Len(v) /\ 20 + (m + n + 1) = 20 + m + n + 1
        BY <1>7, <1>12
      <3>2. b[20 + (m + n + 1)] = v[m + n + 1]
        BY <1>13, <3>1, Zenon
      <3> QED
        BY <1>12, <3>1, <3>2
    <2> QED
      BY <2>1, <2>2, <2>3, <2>4
  <1>15. b[Len(b)] = CodeByte(code)
    BY <1>14
  <1>16. cmd # "bad_request" => m = 4
    BY DEF m
  <1>17. IsResponse(b)
    <2>1. KlvLength(b) >= 1 /\ (cmd # "bad_request" => KlvLength(b) >= 5)
      BY <1>7, <1>12, <1>13, <1>16
    <2>2. b[Len(b)] \in 0 .. Len(Codes) - 1
      BY <1>15, CodeRoundTrip
    <2> QED
      BY <1>1, <1>13, <2>1, <2>2, Zenon DEF IsResponse
  <1>18. (IF m = 0 THEN NoId ELSE DecodeU32(b, HeaderSize)) = rid
    <2>1. CASE cmd = "bad_request"
      BY <2>1 DEF m
    <2>2. CASE cmd # "bad_request"
      BY <1>14, <2>2, DecodeAt DEF m, id, HeaderSize
    <2> QED
      BY <2>1, <2>2
  <1>19. Slice(b, HeaderSize + m, Len(b) - HeaderSize - m - 1) = payload
    <2>1. payload = [i \in 1 .. n |-> payload[i]]
      BY LenProperties
    <2>2. Len(b) - 20 - m - 1 = n
      BY <1>7, <1>14
    <2> QED
      BY <1>14, <2>1, <2>2 DEF Slice, HeaderSize
  <1>20. Codes[b[Len(b)] + 1] = code
    BY <1>15, CodeRoundTrip
  <1> QED
    BY <1>1, <1>13, <1>17, <1>18, <1>19, <1>20 DEF ResponseOf, m

-----------------------------------------------------------------------------
(***************************************************************************)
(* Payloads.                                                               *)
(***************************************************************************)

\* Eight bytes append_be_u64 wrote, wherever they lie, are the number.
LEMMA DecodeLongAt ==
  ASSUME NEW v \in 0 .. Word * Word - 1, NEW c, NEW o \in Nat
  PROVE  /\ EncodeU64(v) \in Seq(Byte)
         /\ Len(EncodeU64(v)) = 8
         /\ (\A i \in 1 .. 8 : c[o + i] = EncodeU64(v)[i]) => DecodeU64(c, o) = v
PROOF
  <1> DEFINE h == v \div Word
             l == v % Word
             s == EncodeU32(h)
             t == EncodeU32(l)
             b == s \o t
  <1>1. h \in 0 .. Word - 1 /\ l \in 0 .. Word - 1 /\ v = h * Word + l
    <2> DEFINE W == Word
    <2>1. W \in Nat /\ W >= 256
      BY Powers
    <2> HIDE DEF W
    <2>2. /\ v \div W \in Nat /\ v % W \in 0 .. W - 1
          /\ v = (v \div W) * W + (v % W)
      <3>1. v \in Nat
        BY <2>1 DEF W
      <3> QED
        BY <2>1, <3>1, DivMod
    <2>3. v < W * W
      BY <2>1 DEF W
    <2>4. v \div W < W
      <3> DEFINE q == v \div W
                 r == v % W
      <3>1. q \in Nat /\ r \in Nat /\ v = q * W + r
        BY <2>1, <2>2
      <3> HIDE DEF q, r
      <3>2. q >= W => q * W >= W * W
        BY <2>1, <3>1
      <3>3. q < W
        BY <2>1, <2>3, <3>1, <3>2
      <3> QED
        BY <3>3 DEF q
    <2> QED
      BY <2>1, <2>2, <2>4 DEF W
  <1> HIDE DEF h, l
  <1>2. h \in Nat /\ l \in Nat
    BY <1>1, Powers
  <1>3. s \in Seq(Byte) /\ t \in Seq(Byte)
    BY <1>2, U32Bytes
  <1>4. Len(s) = 4 /\ Len(t) = 4
    BY <1>2, U32Bytes
  <1> HIDE DEF s, t
  <1>5. /\ b \in Seq(Byte)
        /\ Len(b) = Len(s) + Len(t)
        /\ \A i \in 1 .. Len(s) : b[i] = s[i]
        /\ \A i \in 1 .. Len(t) : b[Len(s) + i] = t[i]
    BY <1>3
  <1>6. b = EncodeU64(v)
    BY DEF EncodeU64, s, t, h, l
  <1> HIDE DEF b
  <1>7. /\ \A i \in 1 .. 4 : b[i] = s[i]
        /\ \A i \in 1 .. 4 : b[4 + i] = t[i]
    BY <1>4, <1>5
  <1>8. ASSUME \A i \in 1 .. 8 : c[o + i] = b[i]
        PROVE  DecodeU64(c, o) = v
    <2>1. \A i \in 1 .. 4 : c[o + i] = s[i]
      BY <1>7, <1>8
    <2>2. \A i \in 1 .. 4 : c[(o + 4) + i] = t[i]
      <3> TAKE i \in 1 .. 4
      <3>1. 4 + i \in 1 .. 8 /\ o + (4 + i) = (o + 4) + i
        OBVIOUS
      <3> QED
        BY <1>7, <1>8, <3>1, Zenon
    <2>3. DecodeU32(c, o) = h
      BY <1>1, <2>1, DecodeAt DEF s
    <2>4. o + 4 \in Nat
      OBVIOUS
    <2>5. DecodeU32(c, o + 4) = l
      BY <1>1, <2>2, <2>4, DecodeAt, Zenon DEF t
    <2> QED
      BY <1>1, <2>3, <2>5 DEF DecodeU64
  <1> QED
    BY <1>4, <1>5, <1>6, <1>8

\* decode_be_u64 undoes append_be_u64, for every std::uint64_t.
THEOREM U64RoundTrip ==
  ASSUME NEW v \in 0 .. Word * Word - 1
  PROVE  DecodeU64(EncodeU64(v), 0) = v
PROOF
  <1>1. \A i \in 1 .. 8 : 0 + i = i
    OBVIOUS
  <1>2. \A i \in 1 .. 8 : EncodeU64(v)[0 + i] = EncodeU64(v)[i]
    BY <1>1, Zenon
  <1> QED
    BY <1>2, DecodeLongAt

\* write_be64 writes eight bytes.
LEMMA U64Bytes ==
  ASSUME NEW v \in 0 .. Word * Word - 1
  PROVE  EncodeU64(v) \in Seq(Byte) /\ Len(EncodeU64(v)) = 8
PROOF
  BY DecodeLongAt

\* A run of numbers.
LEMMA WordsLayout ==
  ASSUME NEW ws \in Seq(0 .. Word - 1)
  PROVE  /\ EncodeWordsOf(ws) \in Seq(Byte)
         /\ Len(EncodeWordsOf(ws)) = 4 * Len(ws)
         /\ \A j \in 1 .. Len(ws) : \A i \in 1 .. 4 :
               EncodeWordsOf(ws)[4 * (j - 1) + i] = EncodeU32(ws[j])[i]
PROOF
  <1> DEFINE n == Len(ws)
             b == EncodeWordsOf(ws)
  <1>1. n \in Nat /\ \A j \in 1 .. n : ws[j] \in 0 .. Word - 1
    BY LenProperties
  <1> HIDE DEF n
  <1>2. b = [k \in 1 .. 4 * n |-> EncodeU32(ws[(k - 1) \div 4 + 1])[((k - 1) % 4) + 1]]
    BY DEF EncodeWordsOf, n
  <1>3. \A k \in 1 .. 4 * n :
           /\ (k - 1) \div 4 + 1 \in 1 .. n
           /\ ((k - 1) % 4) + 1 \in 1 .. 4
    BY <1>1
  <1>4. \A j \in 1 .. n, i \in 1 .. 4 : EncodeU32(ws[j])[i] \in Byte
    <2> TAKE j \in 1 .. n, i \in 1 .. 4
    <2>1. ws[j] \in Nat
      BY <1>1, Powers
    <2>2. EncodeU32(ws[j]) \in Seq(Byte) /\ Len(EncodeU32(ws[j])) = 4
      BY <2>1, U32Bytes
    <2> QED
      BY <2>2, ElementOfSeq
  <1>5. b \in [1 .. 4 * n -> Byte]
    <2>1. \A k \in 1 .. 4 * n :
             EncodeU32(ws[(k - 1) \div 4 + 1])[((k - 1) % 4) + 1] \in Byte
      BY <1>3, <1>4, Zenon
    <2> QED
      BY <1>2, <2>1, Zenon
  <1>6. b \in Seq(Byte) /\ Len(b) = 4 * n
    BY <1>1, <1>5, FunctionsAreSequences
  <1>7. \A j \in 1 .. n : \A i \in 1 .. 4 :
           b[4 * (j - 1) + i] = EncodeU32(ws[j])[i]
    <2> TAKE j \in 1 .. n
    <2> TAKE i \in 1 .. 4
    <2> DEFINE k == 4 * (j - 1) + i
    <2>1. /\ k \in 1 .. 4 * n
          /\ (k - 1) \div 4 + 1 = j
          /\ ((k - 1) % 4) + 1 = i
      BY <1>1
    <2> HIDE DEF k
    <2>2. b[k] = EncodeU32(ws[j])[i]
      BY <1>2, <2>1, Zenon
    <2> QED
      BY <2>2 DEF k
  <1> QED
    BY <1>6, <1>7 DEF n

\* The count and the size of the items, in front of the items of a batch.
Batch(n, item, w) == EncodeU32(n) \o EncodeU32(item) \o w

\* A batch has its count, its item size and then its items, each where it is read.
LEMMA BatchHead ==
  ASSUME NEW n \in 0 .. Word - 1, NEW item \in 0 .. Word - 1, NEW w \in Seq(Byte)
  PROVE  /\ Batch(n, item, w) \in Seq(Byte)
         /\ Len(Batch(n, item, w)) = 8 + Len(w)
         /\ DecodeU32(Batch(n, item, w), 0) = n
         /\ DecodeU32(Batch(n, item, w), 4) = item
         /\ \A i \in 1 .. Len(w) : Batch(n, item, w)[8 + i] = w[i]
PROOF
  <1> DEFINE s == EncodeU32(n)
             t == EncodeU32(item)
             h == s \o t
             b == Batch(n, item, w)
  <1>1. n \in Nat /\ item \in Nat
    BY Powers
  <1>2. s \in Seq(Byte) /\ t \in Seq(Byte)
    BY <1>1, U32Bytes
  <1>3. Len(s) = 4 /\ Len(t) = 4
    BY <1>1, U32Bytes
  <1>4. b = h \o w
    BY DEF Batch
  <1> HIDE DEF s, t, b
  <1>5. /\ h \in Seq(Byte)
        /\ Len(h) = Len(s) + Len(t)
        /\ \A i \in 1 .. Len(s) : h[i] = s[i]
        /\ \A i \in 1 .. Len(t) : h[Len(s) + i] = t[i]
    BY <1>2
  <1>6. h \in Seq(Byte)
    BY <1>5
  <1> HIDE DEF h
  <1>7. /\ b \in Seq(Byte)
        /\ Len(b) = Len(h) + Len(w)
        /\ \A i \in 1 .. Len(h) : b[i] = h[i]
        /\ \A i \in 1 .. Len(w) : b[Len(h) + i] = w[i]
    BY <1>4, <1>6, Parts
  <1>8. /\ Len(h) = 8
        /\ \A i \in 1 .. 4 : h[i] = s[i]
        /\ \A i \in 1 .. 4 : h[4 + i] = t[i]
    BY <1>3, <1>5
  <1>9. /\ Len(b) = 8 + Len(w)
        /\ \A i \in 1 .. 8 : b[i] = h[i]
        /\ \A i \in 1 .. Len(w) : b[8 + i] = w[i]
    BY <1>7, <1>8
  <1>10. \A i \in 1 .. 4 : b[0 + i] = s[i]
    <2>1. \A i \in 1 .. 4 : b[i] = s[i]
      <3>1. \A i \in 1 .. 4 : i \in 1 .. 8
        OBVIOUS
      <3> QED
        BY <1>8, <1>9, <3>1, Zenon
    <2>2. \A i \in 1 .. 4 : 0 + i = i
      OBVIOUS
    <2> QED
      BY <2>1, <2>2, Zenon
  <1>11. \A i \in 1 .. 4 : b[4 + i] = t[i]
    <2>1. \A i \in 1 .. 4 : 4 + i \in 1 .. 8
      OBVIOUS
    <2> QED
      BY <1>8, <1>9, <2>1, Zenon
  <1>12. DecodeU32(b, 0) = n
    BY <1>10, DecodeAt DEF s
  <1>13. DecodeU32(b, 4) = item
    BY <1>11, DecodeAt DEF t
  <1> QED
    BY <1>7, <1>9, <1>12, <1>13 DEF b

\* decode_u32_batch undoes the encoder of id lists, for any number of ids that a
\* std::uint32_t can count.
THEOREM BatchRoundTrip ==
  ASSUME NEW ids \in Seq(0 .. Word - 1), Len(ids) < Word
  PROVE  /\ EncodeBatch(ids) \in Seq(Byte)
         /\ IsBatch(EncodeBatch(ids))
         /\ BatchIds(EncodeBatch(ids)) = ids
PROOF
  <1> DEFINE n == Len(ids)
             w == EncodeWordsOf(ids)
             b == EncodeBatch(ids)
  <1>1. /\ n \in 0 .. Word - 1
        /\ n \in Nat
        /\ 4 \in 0 .. Word - 1
        /\ \A j \in 1 .. n : ids[j] \in 0 .. Word - 1
    BY LenProperties, Powers
  <1>2. w \in Seq(Byte)
    BY WordsLayout
  <1>3. /\ Len(w) = 4 * n
        /\ \A j \in 1 .. n : \A i \in 1 .. 4 :
              w[4 * (j - 1) + i] = EncodeU32(ids[j])[i]
    BY WordsLayout
  <1>4. b = Batch(n, 4, w)
    BY DEF EncodeBatch, Batch
  <1> HIDE DEF n, w, b
  <1>5. /\ b \in Seq(Byte)
        /\ Len(b) = 8 + Len(w)
        /\ DecodeU32(b, 0) = n
        /\ DecodeU32(b, 4) = 4
        /\ \A i \in 1 .. Len(w) : b[8 + i] = w[i]
    <2>1. /\ Batch(n, 4, w) \in Seq(Byte)
          /\ Len(Batch(n, 4, w)) = 8 + Len(w)
          /\ DecodeU32(Batch(n, 4, w), 0) = n
          /\ DecodeU32(Batch(n, 4, w), 4) = 4
          /\ \A i \in 1 .. Len(w) : Batch(n, 4, w)[8 + i] = w[i]
      BY <1>1, <1>2, BatchHead
    <2> QED
      BY <1>4, <2>1, Zenon
  <1>6. IsBatch(b)
    BY <1>1, <1>3, <1>5 DEF IsBatch
  <1>7. \A j \in 1 .. n : DecodeU32(b, 8 + 4 * (j - 1)) = ids[j]
    <2> TAKE j \in 1 .. n
    <2> DEFINE o == 8 + 4 * (j - 1)
    <2>1. o \in Nat
      BY <1>1
    <2>2. \A i \in 1 .. 4 : b[o + i] = EncodeU32(ids[j])[i]
      <3> TAKE i \in 1 .. 4
      <3>1. 4 * (j - 1) + i \in 1 .. Len(w) /\ 8 + (4 * (j - 1) + i) = o + i
        BY <1>1, <1>3
      <3>2. b[8 + (4 * (j - 1) + i)] = w[4 * (j - 1) + i]
        BY <1>5, <3>1, Zenon
      <3>3. w[4 * (j - 1) + i] = EncodeU32(ids[j])[i]
        BY <1>3, Zenon
      <3> QED
        BY <3>1, <3>2, <3>3, Zenon
    <2> HIDE DEF o
    <2>3. DecodeU32(b, o) = ids[j]
      BY <1>1, <2>1, <2>2, DecodeAt, Zenon
    <2> QED
      BY <2>3 DEF o
  <1>8. BatchIds(b) = ids
    <2>1. ids = [j \in 1 .. n |-> ids[j]]
      BY LenProperties DEF n
    <2>2. BatchIds(b) = [j \in 1 .. n |-> DecodeU32(b, 8 + 4 * (j - 1))]
      BY <1>5 DEF BatchIds, DecodeWords
    <2> QED
      BY <1>7, <2>1, <2>2, Zenon
  <1> QED
    BY <1>5, <1>6, <1>8 DEF b

\* The numbers of a run.
LEMMA WordsRoundTrip ==
  ASSUME NEW ws \in Seq(0 .. Word - 1)
  PROVE  DecodeWords(EncodeWordsOf(ws), 0, Len(ws)) = ws
PROOF
  <1> DEFINE n == Len(ws)
             b == EncodeWordsOf(ws)
  <1>1. n \in Nat /\ \A j \in 1 .. n : ws[j] \in 0 .. Word - 1
    BY LenProperties
  <1>2. \A j \in 1 .. n : \A i \in 1 .. 4 :
           b[4 * (j - 1) + i] = EncodeU32(ws[j])[i]
    BY WordsLayout
  <1>3. ws = [j \in 1 .. n |-> ws[j]]
    BY LenProperties
  <1> HIDE DEF n, b
  <1>4. \A j \in 1 .. n : DecodeU32(b, 0 + 4 * (j - 1)) = ws[j]
    <2> TAKE j \in 1 .. n
    <2> DEFINE o == 0 + 4 * (j - 1)
    <2>1. o \in Nat /\ o = 4 * (j - 1)
      BY <1>1
    <2> HIDE DEF o
    <2>2. \A i \in 1 .. 4 : b[o + i] = EncodeU32(ws[j])[i]
      BY <1>2, <2>1, Zenon
    <2>3. DecodeU32(b, o) = ws[j]
      BY <1>1, <2>1, <2>2, DecodeAt, Zenon
    <2> QED
      BY <2>3 DEF o
  <1> QED
    BY <1>3, <1>4, Zenon DEF DecodeWords, b, n

\* Where the fields of a record lie.
LEMMA RecordLayout ==
  ASSUME NEW k \in LeKeyRecord
  PROVE  /\ EncodeRecord(k) \in Seq(Byte)
         /\ Len(EncodeRecord(k)) = 32
         /\ \A i \in 1 .. 4 : EncodeRecord(k)[i] = EncodeU32(k.key_id)[i]
         /\ \A i \in 1 .. 16 : EncodeRecord(k)[4 + i] = k.key[i]
         /\ \A i \in 1 .. 4 : EncodeRecord(k)[20 + i] = EncodeU32(k.expire_time)[i]
         /\ \A i \in 1 .. 8 :
               EncodeRecord(k)[24 + i] = EncodeU64(k.attribute_data)[i]
PROOF
  <1> DEFINE a == EncodeU32(k.key_id)
             b == k.key
             c == EncodeU32(k.expire_time)
             d == EncodeU64(k.attribute_data)
  <1>1. k.key_id \in Nat /\ k.expire_time \in Nat
    BY Powers DEF LeKeyRecord
  <1>2. a \in Seq(Byte) /\ b \in Seq(Byte) /\ c \in Seq(Byte) /\ d \in Seq(Byte)
    BY <1>1, U32Bytes, U64Bytes, FunctionsAreSequences DEF LeKeyRecord
  <1>3. Len(a) = 4 /\ Len(c) = 4
    BY <1>1, U32Bytes
  <1>4. Len(b) = 16
    BY FunctionsAreSequences DEF LeKeyRecord
  <1>5. Len(d) = 8
    BY U64Bytes DEF LeKeyRecord
  <1> HIDE DEF a, b, c, d
  <1> DEFINE ab == a \o b
             abc == ab \o c
             r == abc \o d
  <1>6. /\ ab \in Seq(Byte)
        /\ Len(ab) = Len(a) + Len(b)
        /\ \A i \in 1 .. Len(a) : ab[i] = a[i]
        /\ \A i \in 1 .. Len(b) : ab[Len(a) + i] = b[i]
    BY <1>2
  <1>7. ab \in Seq(Byte)
    BY <1>6
  <1> HIDE DEF ab
  <1>8. /\ abc \in Seq(Byte)
        /\ Len(abc) = Len(ab) + Len(c)
        /\ \A i \in 1 .. Len(ab) : abc[i] = ab[i]
        /\ \A i \in 1 .. Len(c) : abc[Len(ab) + i] = c[i]
    BY <1>2, <1>7
  <1>9. abc \in Seq(Byte)
    BY <1>8
  <1> HIDE DEF abc
  <1>10. /\ r \in Seq(Byte)
         /\ Len(r) = Len(abc) + Len(d)
         /\ \A i \in 1 .. Len(abc) : r[i] = abc[i]
         /\ \A i \in 1 .. Len(d) : r[Len(abc) + i] = d[i]
    BY <1>2, <1>9
  <1>11. r = EncodeRecord(k)
    BY DEF EncodeRecord, a, b, c, d, ab, abc
  <1> HIDE DEF r
  <1>12. /\ Len(ab) = 20
         /\ \A i \in 1 .. 4 : ab[i] = a[i]
         /\ \A i \in 1 .. 16 : ab[4 + i] = b[i]
    BY <1>3, <1>4, <1>6
  <1>13. /\ Len(abc) = 24
         /\ \A i \in 1 .. 20 : abc[i] = ab[i]
         /\ \A i \in 1 .. 4 : abc[20 + i] = c[i]
    BY <1>3, <1>8, <1>12
  <1>14. /\ Len(r) = 32
         /\ \A i \in 1 .. 24 : r[i] = abc[i]
         /\ \A i \in 1 .. 8 : r[24 + i] = d[i]
    BY <1>5, <1>10, <1>13
  <1>15. \A i \in 1 .. 4 : r[i] = a[i]
    BY <1>12, <1>13, <1>14
  <1>16. \A i \in 1 .. 16 : r[4 + i] = b[i]
    BY <1>12, <1>13, <1>14
  <1>17. \A i \in 1 .. 4 : r[20 + i] = c[i]
    BY <1>13, <1>14
  <1> QED
    BY <1>10, <1>11, <1>14, <1>15, <1>16, <1>17 DEF a, b, c, d

\* decode_record undoes append_record, wherever the record lies.
LEMMA RecordAt ==
  ASSUME NEW k \in LeKeyRecord, NEW b, NEW o \in Nat,
         \A i \in 1 .. 32 : b[o + i] = EncodeRecord(k)[i]
  PROVE  DecodeRecord(b, o) = k
PROOF
  <1> DEFINE r == EncodeRecord(k)
  <1>1. /\ \A i \in 1 .. 4 : r[i] = EncodeU32(k.key_id)[i]
        /\ \A i \in 1 .. 16 : r[4 + i] = k.key[i]
        /\ \A i \in 1 .. 4 : r[20 + i] = EncodeU32(k.expire_time)[i]
        /\ \A i \in 1 .. 8 : r[24 + i] = EncodeU64(k.attribute_data)[i]
    BY RecordLayout
  <1>2. \A i \in 1 .. 32 : b[o + i] = r[i]
    OBVIOUS
  <1> HIDE DEF r
  <1>3. /\ k.key_id \in 0 .. Word - 1
        /\ k.key \in [1 .. 16 -> Byte]
        /\ k.expire_time \in 0 .. Word - 1
        /\ k.attribute_data \in 0 .. Word * Word - 1
        /\ k = [key_id |-> k.key_id, key |-> k.key, expire_time |-> k.expire_time,
                attribute_data |-> k.attribute_data]
    BY DEF LeKeyRecord
  <1>4. \A m \in {0, 4, 20, 24}, i \in 1 .. 16 :
           m + i <= 32 => b[(o + m) + i] = r[m + i]
    <2> TAKE m \in {0, 4, 20, 24}, i \in 1 .. 16
    <2>1. m + i <= 32 => m + i \in 1 .. 32
      OBVIOUS
    <2>2. (o + m) + i = o + (m + i)
      OBVIOUS
    <2> QED
      BY <1>2, <2>1, <2>2, Zenon
  <1>5. DecodeU32(b, o) = k.key_id
    <2>1. \A i \in 1 .. 4 : b[o + i] = EncodeU32(k.key_id)[i]
      BY <1>1, <1>2
    <2> QED
      BY <1>3, <2>1, DecodeAt
  <1>6. Slice(b, o + 4, 16) = k.key
    <2>1. \A i \in 1 .. 16 : b[(o + 4) + i] = k.key[i]
      BY <1>1, <1>4
    <2>2. k.key = [i \in 1 .. 16 |-> k.key[i]]
      BY <1>3
    <2> QED
      BY <2>1, <2>2, Zenon DEF Slice
  <1>7. DecodeU32(b, o + 20) = k.expire_time
    <2>1. \A i \in 1 .. 4 : b[(o + 20) + i] = EncodeU32(k.expire_time)[i]
      BY <1>1, <1>4
    <2>2. o + 20 \in Nat
      OBVIOUS
    <2> QED
      BY <1>3, <2>1, <2>2, DecodeAt, Zenon
  <1>8. DecodeU64(b, o + 24) = k.attribute_data
    <2>1. \A i \in 1 .. 8 : b[(o + 24) + i] = EncodeU64(k.attribute_data)[i]
      BY <1>1, <1>4
    <2>2. o + 24 \in Nat
      OBVIOUS
    <2> QED
      BY <1>3, <2>1, <2>2, DecodeLongAt, Zenon
  <1> QED
    BY <1>3, <1>5, <1>6, <1>7, <1>8, Zenon DEF DecodeRecord

\* decode_load_request undoes encode_load_request, for any number of records
\* that a std::uint32_t can count.
THEOREM KeysRoundTrip ==
  ASSUME NEW ks \in Seq(LeKeyRecord), Len(ks) < Word
  PROVE  /\ EncodeKeys(ks) \in Seq(Byte)
         /\ Len(EncodeKeys(ks)) = 8 + 32 * Len(ks)
         /\ IsKeys(EncodeKeys(ks))
         /\ KeysOf(EncodeKeys(ks)) = ks
PROOF
  <1> DEFINE n == Len(ks)
             w == [i \in 1 .. 32 * n |->
                      EncodeRecord(ks[(i - 1) \div 32 + 1])[((i - 1) % 32) + 1]]
             b == EncodeKeys(ks)
  <1>1. /\ n \in 0 .. Word - 1
        /\ n \in Nat
        /\ 32 \in 0 .. Word - 1
        /\ \A j \in 1 .. n : ks[j] \in LeKeyRecord
    BY LenProperties, Powers
  <1>2. \A j \in 1 .. n, i \in 1 .. 32 : EncodeRecord(ks[j])[i] \in Byte
    <2> TAKE j \in 1 .. n, i \in 1 .. 32
    <2>1. EncodeRecord(ks[j]) \in Seq(Byte) /\ Len(EncodeRecord(ks[j])) = 32
      BY <1>1, RecordLayout
    <2> QED
      BY <2>1, ElementOfSeq
  <1>3. b = Batch(n, 32, w)
    BY DEF EncodeKeys, Batch
  <1>4. ks = [j \in 1 .. n |-> ks[j]]
    BY LenProperties
  <1> HIDE DEF n, b
  <1>5. \A k \in 1 .. 32 * n :
           /\ (k - 1) \div 32 + 1 \in 1 .. n
           /\ ((k - 1) % 32) + 1 \in 1 .. 32
    BY <1>1
  <1>6. w \in [1 .. 32 * n -> Byte]
    <2>1. \A k \in 1 .. 32 * n :
             EncodeRecord(ks[(k - 1) \div 32 + 1])[((k - 1) % 32) + 1] \in Byte
      BY <1>2, <1>5, Zenon
    <2> QED
      BY <2>1, Zenon
  <1>7. \A j \in 1 .. n : \A i \in 1 .. 32 :
           w[32 * (j - 1) + i] = EncodeRecord(ks[j])[i]
    <2> TAKE j \in 1 .. n
    <2> TAKE i \in 1 .. 32
    <2> DEFINE k == 32 * (j - 1) + i
    <2>1. /\ k \in 1 .. 32 * n
          /\ (k - 1) \div 32 + 1 = j
          /\ ((k - 1) % 32) + 1 = i
      BY <1>1
    <2> HIDE DEF k
    <2>2. w[k] = EncodeRecord(ks[j])[i]
      BY <2>1, Zenon
    <2> QED
      BY <2>2 DEF k
  <1> HIDE DEF w
  <1>8. w \in Seq(Byte) /\ Len(w) = 32 * n
    BY <1>1, <1>6, FunctionsAreSequences
  <1>9. /\ b \in Seq(Byte)
        /\ Len(b) = 8 + Len(w)
        /\ DecodeU32(b, 0) = n
        /\ DecodeU32(b, 4) = 32
        /\ \A i \in 1 .. Len(w) : b[8 + i] = w[i]
    <2>1. /\ Batch(n, 32, w) \in Seq(Byte)
          /\ Len(Batch(n, 32, w)) = 8 + Len(w)
          /\ DecodeU32(Batch(n, 32, w), 0) = n
          /\ DecodeU32(Batch(n, 32, w), 4) = 32
          /\ \A i \in 1 .. Len(w) : Batch(n, 32, w)[8 + i] = w[i]
      BY <1>1, <1>8, BatchHead
    <2> QED
      BY <1>3, <2>1, Zenon
  <1>10. IsKeys(b)
    BY <1>1, <1>8, <1>9 DEF IsKeys
  <1>11. \A j \in 1 .. n : DecodeRecord(b, 8 + 32 * (j - 1)) = ks[j]
    <2> TAKE j \in 1 .. n
    <2> DEFINE o == 8 + 32 * (j - 1)
    <2>1. o \in Nat
      BY <1>1
    <2>2. \A i \in 1 .. 32 : b[o + i] = EncodeRecord(ks[j])[i]
      <3> TAKE i \in 1 .. 32
      <3>1. 32 * (j - 1) + i \in 1 .. Len(w) /\ 8 + (32 * (j - 1) + i) = o + i
        BY <1>1, <1>8
      <3>2. b[8 + (32 * (j - 1) + i)] = w[32 * (j - 1) + i]
        BY <1>9, <3>1, Zenon
      <3>3. w[32 * (j - 1) + i] = EncodeRecord(ks[j])[i]
        BY <1>7, Zenon
      <3> QED
        BY <3>1, <3>2, <3>3, Zenon
    <2> HIDE DEF o
    <2>3. DecodeRecord(b, o) = ks[j]
      BY <1>1, <2>1, <2>2, RecordAt, Zenon
    <2> QED
      BY <2>3 DEF o
  <1>12. KeysOf(b) = ks
    <2>1. KeysOf(b) = [j \in 1 .. n |-> DecodeRecord(b, 8 + 32 * (j - 1))]
      BY <1>9 DEF KeysOf
    <2> QED
      BY <1>4, <1>11, <2>1, Zenon
  <1> QED
    BY <1>8, <1>9, <1>10, <1>12 DEF b, n

-----------------------------------------------------------------------------
(***************************************************************************)
(* What the decoders accept, the encoders write: no two byte strings are   *)
(* read as the same packet.                                                *)
(***************************************************************************)

\* A number taken apart again.
LEMMA LastDigit ==
  ASSUME NEW a \in Nat, a > 0, NEW q \in Nat, NEW d \in 0 .. a - 1,
         NEW n, n = q * a + d
  PROVE  /\ n \in Nat
         /\ n \div a = q
         /\ n % a = d
PROOF
  <1> DEFINE p == n \div a
             m == n % a
  <1>1. n \in Nat
    OBVIOUS
  <1>2. p \in Nat /\ m \in 0 .. a - 1 /\ n = p * a + m
    BY <1>1, DivMod
  <1>3. n = q * a + d
    OBVIOUS
  <1> HIDE DEF p, m
  <1>4. ~(p < q)
    <2>1. p < q => p * a + a <= q * a
      <3>1. p < q => (p + 1) * a <= q * a
        BY <1>2
      <3> QED
        BY <1>2, <3>1
    <2> QED
      BY <1>2, <1>3, <2>1
  <1>5. ~(q < p)
    <2>1. q < p => q * a + a <= p * a
      <3>1. q < p => (q + 1) * a <= p * a
        BY <1>2
      <3> QED
        BY <1>2, <3>1
    <2> QED
      BY <1>2, <1>3, <2>1
  <1>6. p = q
    BY <1>2, <1>4, <1>5
  <1>7. m = d
    BY <1>2, <1>3, <1>6
  <1> QED
    BY <1>1, <1>6, <1>7 DEF p, m

\* The digits of a number written in base Base are the ones division finds.
LEMMA DigitsOf ==
  ASSUME NEW w \in Byte, NEW x \in Byte, NEW y \in Byte, NEW z \in Byte,
         NEW v, v = w * Base3 + x * Base2 + y * Base + z
  PROVE  /\ v \in Nat
         /\ v % Base = z
         /\ (v \div Base) % Base = y
         /\ (v \div Base2) % Base = x
         /\ (v \div Base3) % Base = w
PROOF
  <1> DEFINE q1 == (w * Base + x) * Base + y
             q2 == w * Base + x
  <1>1. Base \in Nat /\ Base >= 4 /\ {w, x, y, z} \subseteq Nat
        /\ {w, x, y, z} \subseteq 0 .. Base - 1
    BY BaseIsLarge DEF Byte
  <1> HIDE DEF q2
  <1>2. q2 \in Nat /\ q2 \div Base = w /\ q2 % Base = x
    <2>1. q2 = w * Base + x /\ Base \in Nat /\ Base > 0 /\ w \in Nat
          /\ x \in 0 .. Base - 1
      BY <1>1 DEF q2
    <2> QED
      BY <2>1, LastDigit, Zenon
  <1>3. q1 = q2 * Base + y
    BY DEF q2
  <1> HIDE DEF q1
  <1>4. q1 \in Nat /\ q1 \div Base = q2 /\ q1 % Base = y
    <2>1. Base \in Nat /\ Base > 0 /\ y \in 0 .. Base - 1
      BY <1>1
    <2> QED
      BY <1>2, <1>3, <2>1, LastDigit, Zenon
  <1>5. v = q1 * Base + z
    <2> DEFINE B == Base
    <2>1. B \in Nat /\ w \in Nat /\ x \in Nat /\ y \in Nat /\ z \in Nat
      BY <1>1
    <2>2. v = w * (B * B * B) + x * (B * B) + y * B + z
      BY DEF Base3, Base2
    <2>3. q1 = (w * B + x) * B + y
      BY DEF q1
    <2> HIDE DEF B
    <2>4. v = q1 * B + z
      BY <2>1, <2>2, <2>3
    <2> QED
      BY <2>4 DEF B
  <1>6. v \in Nat /\ v \div Base = q1 /\ v % Base = z
    <2>1. Base \in Nat /\ Base > 0 /\ z \in 0 .. Base - 1
      BY <1>1
    <2> QED
      BY <1>4, <1>5, <2>1, LastDigit, Zenon
  <1>7. v \div Base2 = q2
    <2>1. Base \in Nat /\ Base > 0
      BY <1>1
    <2>2. (v \div Base) \div Base = v \div (Base * Base)
      BY <1>6, <2>1, DivDiv
    <2> QED
      BY <1>4, <1>6, <2>2 DEF Base2
  <1>8. v \div Base3 = w
    <2>1. (v \div Base2) \div Base = v \div (Base2 * Base)
      BY <1>1, <1>6, Powers, DivDiv
    <2> QED
      BY <1>2, <1>7, <2>1 DEF Base3
  <1>9. w % Base = w
    BY <1>1
  <1> QED
    BY <1>2, <1>4, <1>6, <1>7, <1>8, <1>9

\* append_be_u32 writes the four bytes decode_be_u32 has read.
LEMMA EncodeDecoded ==
  ASSUME NEW b, NEW o \in Nat, \A i \in 1 .. 4 : b[o + i] \in Byte,
         NEW v, v = DecodeU32(b, o)
  PROVE  /\ v \in 0 .. Word - 1
         /\ \A i \in 1 .. 4 : EncodeU32(v)[i] = b[o + i]
PROOF
  <1>1. /\ b[o + 1] \in Byte /\ b[o + 2] \in Byte
        /\ b[o + 3] \in Byte /\ b[o + 4] \in Byte
    OBVIOUS
  <1>2. /\ v % Base = b[o + 4]
        /\ (v \div Base) % Base = b[o + 3]
        /\ (v \div Base2) % Base = b[o + 2]
        /\ (v \div Base3) % Base = b[o + 1]
    <2> DEFINE w == b[o + 1]
               x == b[o + 2]
               y == b[o + 3]
               z == b[o + 4]
    <2>1. /\ w \in Byte /\ x \in Byte /\ y \in Byte /\ z \in Byte
          /\ v = w * Base3 + x * Base2 + y * Base + z
      BY <1>1 DEF DecodeU32
    <2> HIDE DEF w, x, y, z
    <2>2. /\ v % Base = z
          /\ (v \div Base) % Base = y
          /\ (v \div Base2) % Base = x
          /\ (v \div Base3) % Base = w
      BY <2>1, DigitsOf
    <2> QED
      BY <2>2 DEF w, x, y, z
  <1>3. v \in 0 .. Word - 1
    BY DecodedIsWord
  <1>4. EncodeU32(v) = << b[o + 1], b[o + 2], b[o + 3], b[o + 4] >>
    BY <1>2, Zenon DEF EncodeU32
  <1>5. \A i \in 1 .. 4 : EncodeU32(v)[i] = b[o + i]
    BY <1>4
  <1> QED
    BY <1>3, <1>5

\* The same for eight bytes.
LEMMA EncodeDecodedLong ==
  ASSUME NEW b, NEW o \in Nat, \A i \in 1 .. 8 : b[o + i] \in Byte,
         NEW v, v = DecodeU64(b, o)
  PROVE  /\ v \in 0 .. Word * Word - 1
         /\ \A i \in 1 .. 8 : EncodeU64(v)[i] = b[o + i]
PROOF
  <1> DEFINE h == DecodeU32(b, o)
             l == DecodeU32(b, o + 4)
             s == EncodeU32(h)
             t == EncodeU32(l)
  <1>1. \A i \in 1 .. 4 : b[o + i] \in Byte /\ b[(o + 4) + i] \in Byte
    <2> TAKE i \in 1 .. 4
    <2>1. i \in 1 .. 8 /\ 4 + i \in 1 .. 8 /\ (o + 4) + i = o + (4 + i)
      OBVIOUS
    <2> QED
      BY <2>1, Zenon
  <1>2. h \in 0 .. Word - 1 /\ \A i \in 1 .. 4 : s[i] = b[o + i]
    BY <1>1, EncodeDecoded
  <1>3. l \in 0 .. Word - 1 /\ \A i \in 1 .. 4 : t[i] = b[(o + 4) + i]
    <2>1. o + 4 \in Nat
      OBVIOUS
    <2> QED
      BY <1>1, <2>1, EncodeDecoded, Zenon
  <1>4. v = h * Word + l
    BY DEF DecodeU64
  <1>5. s \in Seq(Byte) /\ t \in Seq(Byte)
    BY <1>2, <1>3, U32Bytes, Powers
  <1>6. Len(s) = 4 /\ Len(t) = 4
    BY <1>2, <1>3, U32Bytes, Powers
  <1> HIDE DEF h, l
  <1>7. v \div Word = h /\ v % Word = l /\ v \in 0 .. Word * Word - 1
    <2> DEFINE W == Word
    <2>1. W \in Nat /\ W > 0 /\ h \in 0 .. W - 1 /\ l \in 0 .. W - 1
          /\ v = h * W + l
      BY <1>2, <1>3, <1>4, Powers
    <2> HIDE DEF W
    <2>2. h \in Nat /\ l \in Nat
      BY <2>1
    <2>3. v \in Nat /\ v \div W = h /\ v % W = l
      BY <2>1, <2>2, LastDigit
    <2>4. h * W <= (W - 1) * W
      BY <2>1, <2>2
    <2>5. (W - 1) * W = W * W - W
      BY <2>1
    <2>6. h * W \in Nat /\ W * W \in Nat
      BY <2>1, <2>2
    <2>7. v <= W * W - 1
      BY <2>1, <2>2, <2>4, <2>5, <2>6
    <2> QED
      BY <2>3, <2>6, <2>7 DEF W
  <1>8. EncodeU64(v) = s \o t
    BY <1>7, Zenon DEF EncodeU64, s, t
  <1> HIDE DEF s, t
  <1>9. /\ \A i \in 1 .. 4 : EncodeU64(v)[i] = s[i]
        /\ \A i \in 1 .. 4 : EncodeU64(v)[4 + i] = t[i]
    <2> DEFINE e == EncodeU64(v)
    <2>1. e = s \o t
      BY <1>8
    <2> HIDE DEF e
    <2>2. /\ \A i \in 1 .. Len(s) : e[i] = s[i]
          /\ \A i \in 1 .. Len(t) : e[Len(s) + i] = t[i]
      BY <1>5, <2>1, Parts
    <2> QED
      BY <1>6, <2>2 DEF e
  <1>10. ASSUME NEW i \in 1 .. 8 PROVE EncodeU64(v)[i] = b[o + i]
    <2>1. CASE i <= 4
      BY <1>2, <1>9, <2>1
    <2>2. CASE i > 4
      <3>1. PICK j \in 1 .. 4 : i = 4 + j
        <4>1. i - 4 \in 1 .. 4 /\ i = 4 + (i - 4)
          BY <2>2
        <4> QED
          BY <4>1
      <3>2. (o + 4) + j = o + i
        BY <3>1
      <3> QED
        BY <1>3, <1>9, <3>1, <3>2, Zenon
    <2> QED
      BY <2>1, <2>2
  <1> QED
    BY <1>7, <1>10

\* Two byte strings of one length that agree everywhere are one.
LEMMA SameBytes ==
  ASSUME NEW b \in Seq(Byte), NEW c \in Seq(Byte), Len(b) = Len(c),
         \A i \in 1 .. Len(b) : b[i] = c[i]
  PROVE  b = c
PROOF
  <1>1. /\ b = [i \in 1 .. Len(b) |-> b[i]]
        /\ c = [i \in 1 .. Len(c) |-> c[i]]
    BY LenProperties
  <1> QED
    BY <1>1, Zenon

\* Any part of a byte string.
LEMMA SliceIsBytes ==
  ASSUME NEW b \in Seq(Byte), NEW from \in Nat, NEW n \in Nat, from + n <= Len(b)
  PROVE  /\ Slice(b, from, n) \in Seq(Byte)
         /\ Len(Slice(b, from, n)) = n
         /\ \A i \in 1 .. n : Slice(b, from, n)[i] = b[from + i]
PROOF
  <1>1. Len(b) \in Nat
    BY LenProperties
  <1>2. \A i \in 1 .. n : from + i \in 1 .. Len(b)
    BY <1>1
  <1>3. Slice(b, from, n) \in [1 .. n -> Byte]
    BY <1>2, ElementOfSeq DEF Slice
  <1>4. \A i \in 1 .. n : Slice(b, from, n)[i] = b[from + i]
    BY DEF Slice
  <1> QED
    BY <1>3, <1>4, FunctionsAreSequences

\* Klv::encode writes the frame Klv::decode has taken apart.
THEOREM KlvIsCanonical ==
  ASSUME NEW b \in Seq(Byte), IsKlv(b)
  PROVE  /\ KlvUl(b) \in Label
         /\ KlvValue(b) \in Seq(Byte)
         /\ Len(KlvValue(b)) = KlvLength(b)
         /\ KlvLength(b) \in 0 .. Base3 - 1
         /\ b = Klv(KlvUl(b), KlvValue(b))
PROOF
  <1> DEFINE n == Len(b) - 20
             ul == KlvUl(b)
             value == KlvValue(b)
             c == Klv(ul, value)
  <1>1. /\ Len(b) >= 20 /\ Len(b) \in Nat /\ b[17] = LongForm
        /\ Len(b) = 20 + KlvLength(b)
    BY LenProperties DEF IsKlv, HeaderSize
  <1>2. /\ b[18] \in Byte /\ b[19] \in Byte /\ b[20] \in Byte
        /\ \A i \in 1 .. 16 : b[i] \in Byte
    <2>1. \A i \in 1 .. 20 : b[i] \in Byte
      BY <1>1, ElementOfSeq
    <2> QED
      BY <2>1
  <1>3. n \in Nat /\ Len(b) = 20 + n
    BY <1>1
  <1>4. ul \in Label
    <2>1. \A i \in 1 .. 16 : 0 + i = i
      OBVIOUS
    <2>2. \A i \in 1 .. 16 : b[0 + i] \in Byte
      BY <1>2, <2>1, Zenon
    <2> QED
      BY <2>2, Zenon DEF KlvUl, Slice, Label
  <1>5. \A i \in 1 .. 16 : ul[i] = b[i]
    BY DEF KlvUl, Slice
  <1>6. /\ value \in Seq(Byte)
        /\ Len(value) = n
        /\ \A i \in 1 .. n : value[i] = b[20 + i]
    <2>1. value = Slice(b, 20, n)
      BY DEF KlvValue, HeaderSize
    <2> HIDE DEF n
    <2>2. 20 \in Nat /\ 20 + n <= Len(b)
      BY <1>1, <1>3
    <2> QED
      BY <1>3, <2>1, <2>2, SliceIsBytes
  <1> HIDE DEF n, ul, value
  <1>7. /\ c \in Seq(Byte)
        /\ Len(c) = HeaderSize + Len(value)
        /\ \A i \in 1 .. 16 : c[i] = ul[i]
        /\ \A i \in 1 .. 4 : c[16 + i] = LengthField(Len(value))[i]
        /\ \A i \in 1 .. Len(value) : c[HeaderSize + i] = value[i]
    <2>1. value \in Seq(Byte)
      BY <1>6
    <2> QED
      BY <1>4, <2>1, KlvLayout
  <1>8. KlvLength(b) = n
    <2> HIDE DEF n
    <2>1. KlvLength(b) \in Int
      <3> DEFINE x == b[18]
                 y == b[19]
                 z == b[20]
      <3>1. x \in Nat /\ y \in Nat /\ z \in Nat
        BY <1>2, BaseIsLarge DEF Byte
      <3>2. KlvLength(b) = x * Base2 + y * Base + z
        BY DEF KlvLength
      <3> HIDE DEF x, y, z
      <3> QED
        BY <3>1, <3>2, Powers, BaseIsLarge
    <2> QED
      BY <1>1, <1>3, <2>1
  <1>9. /\ n % Base = b[20]
        /\ (n \div Base) % Base = b[19]
        /\ (n \div Base2) % Base = b[18]
        /\ n \in 0 .. Base3 - 1
    <2> DEFINE x == b[18]
               y == b[19]
               z == b[20]
    <2>1. n = x * Base2 + y * Base + z
      BY <1>8 DEF KlvLength
    <2>2. x \in Byte /\ y \in Byte /\ z \in Byte /\ 0 \in Byte
      BY <1>2, BaseIsLarge DEF Byte
    <2> HIDE DEF x, y, z
    <2>3. x \in Nat /\ y \in Nat /\ z \in Nat
      BY <2>2, BaseIsLarge DEF Byte
    <2>4. n = 0 * Base3 + x * Base2 + y * Base + z
      <3> DEFINE p == x * Base2
                 q == y * Base
      <3>1. p \in Nat /\ q \in Nat
        BY <2>3, Powers, BaseIsLarge
      <3>2. n = p + q + z
        BY <2>1
      <3> HIDE DEF p, q
      <3>3. n = 0 * Base3 + p + q + z
        BY <2>3, <3>1, <3>2, Powers
      <3> QED
        BY <3>3 DEF p, q
    <2>5. /\ n % Base = z
          /\ (n \div Base) % Base = y
          /\ (n \div Base2) % Base = x
      BY <2>2, <2>4, DigitsOf
    <2>6. n < Base3
      <3> DEFINE B == Base
      <3>1. B \in Nat /\ B >= 4 /\ x \in 0 .. B - 1 /\ y \in 0 .. B - 1 /\ z \in 0 .. B - 1
        BY <2>2, BaseIsLarge DEF Byte
      <3>2. n = x * (B * B) + y * B + z
        BY <2>1 DEF Base2
      <3>3. Base3 = B * B * B
        BY DEF Base3, Base2
      <3> HIDE DEF B
      <3>4. x * (B * B) <= (B - 1) * (B * B) /\ y * B <= (B - 1) * B
        BY <3>1
      <3>5. (B - 1) * (B * B) + (B - 1) * B + (B - 1) = B * B * B - 1
        BY <3>1
      <3>6. x * (B * B) \in Int /\ y * B \in Int /\ B * B * B \in Int
            /\ (B - 1) * (B * B) \in Int /\ (B - 1) * B \in Int
        BY <3>1
      <3> QED
        BY <3>1, <3>2, <3>3, <3>4, <3>5, <3>6
    <2> QED
      BY <1>3, <2>5, <2>6, Powers DEF x, y, z
  <1>10. \A i \in 1 .. 4 : LengthField(n)[i] = b[16 + i]
    <2>1. LengthField(n) = << b[17], b[18], b[19], b[20] >>
      BY <1>1, <1>9, Zenon DEF LengthField
    <2> QED
      BY <2>1
  <1>11. Len(c) = Len(b)
    BY <1>3, <1>6, <1>7 DEF HeaderSize
  <1>12. ASSUME NEW i \in 1 .. Len(b) PROVE b[i] = c[i]
    <2>1. CASE i <= 16
      <3>1. i \in 1 .. 16
        BY <1>1, <2>1
      <3> QED
        BY <1>5, <1>7, <3>1, Zenon
    <2>2. CASE i > 16 /\ i <= 20
      <3>1. PICK j \in 1 .. 4 : i = 16 + j
        <4>1. i - 16 \in 1 .. 4 /\ i = 16 + (i - 16)
          BY <2>2
        <4> QED
          BY <4>1
      <3> QED
        BY <1>6, <1>7, <1>10, <3>1, Zenon
    <2>3. CASE i > 20
      <3>1. PICK j \in 1 .. n : i = 20 + j
        <4>1. i - 20 \in 1 .. n /\ i = 20 + (i - 20)
          BY <1>3, <2>3
        <4> QED
          BY <4>1
      <3> QED
        BY <1>6, <1>7, <3>1, Zenon DEF HeaderSize
    <2> QED
      BY <2>1, <2>2, <2>3
  <1>13. b = c
    <2> HIDE DEF c
    <2>1. c \in Seq(Byte)
      BY <1>7
    <2> QED
      BY <1>11, <1>12, <2>1, SameBytes
  <1> QED
    BY <1>4, <1>6, <1>8, <1>9, <1>13 DEF ul, value

\* encode_request writes the request decode_request has read.
THEOREM RequestIsCanonical ==
  ASSUME NEW b \in Seq(Byte), IsRequest(b)
  PROVE  /\ RequestOf(b).cmd \in Commands
         /\ RequestOf(b).rid \in 0 .. Word - 1
         /\ RequestOf(b).payload \in Seq(Byte)
         /\ Len(RequestOf(b).payload) = Len(b) - 24
         /\ KlvLength(b) = 4 + Len(RequestOf(b).payload)
         /\ b = EncodeRequest(RequestOf(b))
PROOF
  <1> DEFINE r == RequestOf(b)
             u == DescribeUl(KlvUl(b))
             v == KlvValue(b)
             id == EncodeU32(r.rid)
             p == r.payload
             w == id \o p
  <1>1. /\ IsKlv(b) /\ u \in UlMap /\ ~u.resp /\ KlvLength(b) >= 4
        /\ Ul[u] = KlvUl(b)
    BY DEF IsRequest, IsUl, DescribeUl
  <1>2. u.cmd \in Commands /\ u = [cmd |-> u.cmd, resp |-> FALSE]
    BY <1>1 DEF UlMap
  <1>3. /\ v \in Seq(Byte)
        /\ Len(v) = KlvLength(b)
        /\ KlvLength(b) \in 0 .. Base3 - 1
        /\ b = Klv(KlvUl(b), v)
    BY <1>1, KlvIsCanonical, Zenon
  <1>4. /\ Len(b) \in Nat /\ Len(b) = 20 + KlvLength(b)
        /\ KlvLength(b) \in Nat /\ Len(b) >= 24
    BY <1>1, <1>3, Powers, LenProperties DEF IsKlv, HeaderSize
  <1>5. r = [cmd |-> u.cmd, rid |-> DecodeU32(b, 20),
             payload |-> Slice(b, 24, Len(b) - 24)]
    <2>1. 20 + 4 = 24 /\ Len(b) - 20 - 4 = Len(b) - 24
      BY <1>4
    <2> QED
      BY <2>1 DEF RequestOf, HeaderSize
  <1> HIDE DEF u, r
  <1>6. /\ r.rid \in 0 .. Word - 1
        /\ \A i \in 1 .. 4 : id[i] = b[20 + i]
    <2>1. \A i \in 1 .. 4 : b[20 + i] \in Byte
      <3> TAKE i \in 1 .. 4
      <3>1. 20 + i \in 1 .. Len(b)
        BY <1>4
      <3> QED
        BY <3>1, ElementOfSeq
    <2>2. r.rid = DecodeU32(b, 20)
      BY <1>5
    <2> DEFINE rid == r.rid
    <2> HIDE DEF rid
    <2>3. /\ rid \in 0 .. Word - 1
          /\ \A i \in 1 .. 4 : EncodeU32(rid)[i] = b[20 + i]
      <3>1. rid = DecodeU32(b, 20) /\ 20 \in Nat
        BY <2>2 DEF rid
      <3> QED
        BY <2>1, <3>1, EncodeDecoded
    <2> QED
      BY <2>3 DEF rid
  <1>7. /\ p \in Seq(Byte)
        /\ Len(p) = Len(b) - 24
        /\ \A i \in 1 .. Len(b) - 24 : p[i] = b[24 + i]
    <2>1. p = Slice(b, 24, Len(b) - 24)
      BY <1>5
    <2>2. PICK m \in Nat : m = Len(b) - 24 /\ 24 + m <= Len(b)
      BY <1>4
    <2>3. /\ Slice(b, 24, m) \in Seq(Byte)
          /\ Len(Slice(b, 24, m)) = m
          /\ \A i \in 1 .. m : Slice(b, 24, m)[i] = b[24 + i]
      BY <2>2, SliceIsBytes
    <2> QED
      BY <2>1, <2>2, <2>3, Zenon
  <1>8. id \in Seq(Byte) /\ Len(id) = 4
    BY <1>6, U32Bytes, Powers
  <1> HIDE DEF id, p
  <1>9. /\ w \in Seq(Byte)
        /\ Len(w) = Len(id) + Len(p)
        /\ \A i \in 1 .. Len(id) : w[i] = id[i]
        /\ \A i \in 1 .. Len(p) : w[Len(id) + i] = p[i]
    <2>1. id \in Seq(Byte) /\ p \in Seq(Byte)
      BY <1>7, <1>8
    <2> QED
      BY <2>1, Parts
  <1> HIDE DEF w
  <1>10. w = v
    <2>1. Len(v) = Len(b) - 20 /\ Len(w) = Len(v)
      BY <1>3, <1>4, <1>7, <1>8, <1>9
    <2>2. v = Slice(b, 20, Len(b) - 20)
      BY DEF KlvValue, HeaderSize
    <2>3. ASSUME NEW i \in 1 .. Len(w) PROVE w[i] = v[i]
      <3>0. i \in Nat /\ i >= 1 /\ i <= Len(b) - 20
        BY <1>4, <2>1
      <3>1. v[i] = b[20 + i]
        BY <1>4, <2>2, <3>0 DEF Slice
      <3>2. CASE i <= 4
        <4>1. i \in 1 .. 4
          BY <3>0, <3>2
        <4> QED
          BY <1>6, <1>8, <1>9, <3>1, <4>1, Zenon
      <3>3. CASE i > 4
        <4>1. PICK j \in 1 .. Len(b) - 24 : i = 4 + j
          <5>1. i - 4 \in 1 .. Len(b) - 24 /\ i = 4 + (i - 4)
            BY <1>4, <3>0, <3>3
          <5> QED
            BY <5>1
        <4>2. w[4 + j] = p[j]
          BY <1>7, <1>8, <1>9, <4>1, Zenon
        <4>3. p[j] = b[24 + j]
          BY <1>7, <4>1, Zenon
        <4>4. 20 + (4 + j) = 24 + j
          BY <4>1
        <4> QED
          BY <3>1, <4>1, <4>2, <4>3, <4>4, Zenon
      <3> QED
        BY <3>0, <3>2, <3>3
    <2> HIDE DEF v
    <2>4. w \in Seq(Byte) /\ v \in Seq(Byte)
      BY <1>3, <1>9
    <2> QED
      BY <2>1, <2>3, <2>4, SameBytes
  <1>11. r.cmd = u.cmd
    BY <1>5
  <1>12. EncodeRequest(r) = Klv(Ul[u], w)
    BY <1>2, <1>11, Zenon DEF EncodeRequest, w, id, p
  <1>13. b = EncodeRequest(r)
    BY <1>1, <1>3, <1>10, <1>12, Zenon
  <1>14. KlvLength(b) = 4 + Len(p)
    BY <1>4, <1>7
  <1> QED
    BY <1>2, <1>6, <1>7, <1>11, <1>13, <1>14 DEF r, p

\* A run of append_be_u32 calls writes the numbers read from it.
LEMMA WordsAreCanonical ==
  ASSUME NEW p \in Seq(Byte), NEW n \in Nat, Len(p) = 4 * n
  PROVE  /\ DecodeWords(p, 0, n) \in Seq(0 .. Word - 1)
         /\ EncodeWordsOf(DecodeWords(p, 0, n)) = p
PROOF
  <1> DEFINE ws == DecodeWords(p, 0, n)
             e == EncodeWordsOf(ws)
  <1>1. \A i \in 1 .. 4 * n : p[i] \in Byte
    BY ElementOfSeq
  <1>2. ASSUME NEW j \in 1 .. n
        PROVE  /\ ws[j] \in 0 .. Word - 1
               /\ \A i \in 1 .. 4 : EncodeU32(ws[j])[i] = p[4 * (j - 1) + i]
    <2> DEFINE o == 0 + 4 * (j - 1)
    <2>1. o \in Nat /\ o = 4 * (j - 1)
      OBVIOUS
    <2>2. ws[j] = DecodeU32(p, o)
      BY DEF DecodeWords
    <2>3. \A i \in 1 .. 4 : o + i \in 1 .. 4 * n
      BY <2>1
    <2> HIDE DEF o, ws
    <2>4. \A i \in 1 .. 4 : p[o + i] \in Byte
      BY <1>1, <2>3, Zenon
    <2>5. /\ ws[j] \in 0 .. Word - 1
          /\ \A i \in 1 .. 4 : EncodeU32(ws[j])[i] = p[o + i]
      BY <2>1, <2>2, <2>4, EncodeDecoded, Zenon
    <2> QED
      BY <2>1, <2>5, Zenon
  <1>3. ws \in [1 .. n -> 0 .. Word - 1]
    BY <1>2 DEF DecodeWords
  <1>4. ws \in Seq(0 .. Word - 1) /\ Len(ws) = n
    BY <1>3, FunctionsAreSequences
  <1> HIDE DEF ws
  <1>5. /\ e \in Seq(Byte)
        /\ Len(e) = 4 * n
        /\ \A j \in 1 .. n : \A i \in 1 .. 4 :
              e[4 * (j - 1) + i] = EncodeU32(ws[j])[i]
    BY <1>4, WordsLayout
  <1> HIDE DEF e
  <1>6. ASSUME NEW k \in 1 .. Len(e) PROVE e[k] = p[k]
    <2> DEFINE j == (k - 1) \div 4 + 1
               i == ((k - 1) % 4) + 1
    <2>1. j \in 1 .. n /\ i \in 1 .. 4 /\ 4 * (j - 1) + i = k
      <3>1. k \in 1 .. 4 * n
        BY <1>5
      <3> QED
        BY <3>1
    <2> HIDE DEF i, j
    <2> QED
      BY <1>2, <1>5, <2>1, Zenon
  <1>7. e = p
    BY <1>5, <1>6, SameBytes
  <1> QED
    BY <1>4, <1>7 DEF ws, e

\* The same for the 32 bytes of a record.
LEMMA RecordIsCanonical ==
  ASSUME NEW b, NEW o \in Nat, \A i \in 1 .. 32 : b[o + i] \in Byte,
         NEW k, k = DecodeRecord(b, o)
  PROVE  /\ k \in LeKeyRecord
         /\ \A i \in 1 .. 32 : EncodeRecord(k)[i] = b[o + i]
PROOF
  <1>1. /\ k = [key_id |-> k.key_id, key |-> k.key, expire_time |-> k.expire_time,
                attribute_data |-> k.attribute_data]
        /\ k.key_id = DecodeU32(b, o)
        /\ k.key = Slice(b, o + 4, 16)
        /\ k.expire_time = DecodeU32(b, o + 20)
        /\ k.attribute_data = DecodeU64(b, o + 24)
    BY DEF DecodeRecord
  <1>2. ASSUME NEW m \in {0, 4, 20, 24}, NEW i \in 1 .. 16, m + i <= 32
        PROVE  b[(o + m) + i] = b[o + (m + i)] /\ b[(o + m) + i] \in Byte
    <2>1. m + i \in 1 .. 32 /\ (o + m) + i = o + (m + i)
      BY <1>2
    <2> QED
      BY <2>1, Zenon
  <1>3. /\ k.key_id \in 0 .. Word - 1
        /\ \A i \in 1 .. 4 : EncodeU32(k.key_id)[i] = b[o + i]
    <2>1. \A i \in 1 .. 4 : b[o + i] \in Byte
      OBVIOUS
    <2> QED
      BY <1>1, <2>1, EncodeDecoded, Zenon
  <1>4. /\ k.key \in [1 .. 16 -> Byte]
        /\ \A i \in 1 .. 16 : k.key[i] = b[o + (4 + i)]
    <2>1. \A i \in 1 .. 16 : b[(o + 4) + i] \in Byte /\ b[(o + 4) + i] = b[o + (4 + i)]
      BY <1>2
    <2>2. k.key = [i \in 1 .. 16 |-> b[(o + 4) + i]]
      BY <1>1, Zenon DEF Slice
    <2> QED
      BY <2>1, <2>2, Zenon
  <1>5. /\ k.expire_time \in 0 .. Word - 1
        /\ \A i \in 1 .. 4 : EncodeU32(k.expire_time)[i] = b[o + (20 + i)]
    <2>1. \A i \in 1 .. 4 : b[(o + 20) + i] \in Byte /\ b[(o + 20) + i] = b[o + (20 + i)]
      BY <1>2
    <2>2. PICK q \in Nat : q = o + 20
      OBVIOUS
    <2>3. /\ k.expire_time \in 0 .. Word - 1
          /\ \A i \in 1 .. 4 : EncodeU32(k.expire_time)[i] = b[q + i]
      BY <1>1, <2>1, <2>2, EncodeDecoded, Zenon
    <2> QED
      BY <2>1, <2>2, <2>3, Zenon
  <1>6. /\ k.attribute_data \in 0 .. Word * Word - 1
        /\ \A i \in 1 .. 8 : EncodeU64(k.attribute_data)[i] = b[o + (24 + i)]
    <2>1. \A i \in 1 .. 8 : b[(o + 24) + i] \in Byte /\ b[(o + 24) + i] = b[o + (24 + i)]
      BY <1>2
    <2>2. PICK q \in Nat : q = o + 24
      OBVIOUS
    <2>3. /\ k.attribute_data \in 0 .. Word * Word - 1
          /\ \A i \in 1 .. 8 : EncodeU64(k.attribute_data)[i] = b[q + i]
      BY <1>1, <2>1, <2>2, EncodeDecodedLong, Zenon
    <2> QED
      BY <2>1, <2>2, <2>3, Zenon
  <1>7. k \in LeKeyRecord
    BY <1>1, <1>3, <1>4, <1>5, <1>6, Zenon DEF LeKeyRecord
  <1> DEFINE r == EncodeRecord(k)
  <1>8. /\ \A i \in 1 .. 4 : r[i] = EncodeU32(k.key_id)[i]
        /\ \A i \in 1 .. 16 : r[4 + i] = k.key[i]
        /\ \A i \in 1 .. 4 : r[20 + i] = EncodeU32(k.expire_time)[i]
        /\ \A i \in 1 .. 8 : r[24 + i] = EncodeU64(k.attribute_data)[i]
    BY <1>7, RecordLayout
  <1> HIDE DEF r
  <1>9. ASSUME NEW i \in 1 .. 32 PROVE r[i] = b[o + i]
    <2>1. CASE i <= 4
      <3>1. i \in 1 .. 4
        BY <2>1
      <3> QED
        BY <1>3, <1>8, <3>1, Zenon
    <2>2. CASE i > 4 /\ i <= 20
      <3>1. PICK j \in 1 .. 16 : i = 4 + j
        <4>1. i - 4 \in 1 .. 16 /\ i = 4 + (i - 4)
          BY <2>2
        <4> QED
          BY <4>1
      <3> QED
        BY <1>4, <1>8, <3>1, Zenon
    <2>3. CASE i > 20 /\ i <= 24
      <3>1. PICK j \in 1 .. 4 : i = 20 + j
        <4>1. i - 20 \in 1 .. 4 /\ i = 20 + (i - 20)
          BY <2>3
        <4> QED
          BY <4>1
      <3> QED
        BY <1>5, <1>8, <3>1, Zenon
    <2>4. CASE i > 24
      <3>1. PICK j \in 1 .. 8 : i = 24 + j
        <4>1. i - 24 \in 1 .. 8 /\ i = 24 + (i - 24)
          BY <2>4
        <4> QED
          BY <4>1
      <3> QED
        BY <1>6, <1>8, <3>1, Zenon
    <2> QED
      BY <2>1, <2>2, <2>3, <2>4
  <1> QED
    BY <1>7, <1>9 DEF r

\* encode_load_request writes the batch decode_load_request has read.
THEOREM KeysAreCanonical ==
  ASSUME NEW p \in Seq(Byte), IsKeys(p)
  PROVE  /\ KeysOf(p) \in Seq(LeKeyRecord)
         /\ EncodeKeys(KeysOf(p)) = p
PROOF
  <1> DEFINE n == DecodeU32(p, 0)
             ks == KeysOf(p)
             w == [i \in 1 .. 32 * n |->
                      EncodeRecord(ks[(i - 1) \div 32 + 1])[((i - 1) % 32) + 1]]
             h == EncodeU32(n) \o EncodeU32(32)
             e == h \o w
  <1>1. /\ Len(p) \in Nat /\ Len(p) >= 8 /\ Len(p) = 8 + n * 32
        /\ DecodeU32(p, 4) = 32
    BY LenProperties DEF IsKeys
  <1>2. \A i \in 1 .. Len(p) : p[i] \in Byte
    BY ElementOfSeq
  <1>3. /\ n \in 0 .. Word - 1
        /\ \A i \in 1 .. 4 : EncodeU32(n)[i] = p[i]
    <2>1. \A i \in 1 .. 4 : i \in 1 .. Len(p) /\ 0 + i = i
      BY <1>1
    <2>2. \A i \in 1 .. 4 : p[0 + i] \in Byte
      BY <1>2, <2>1, Zenon
    <2>3. /\ n \in 0 .. Word - 1
          /\ \A i \in 1 .. 4 : EncodeU32(n)[i] = p[0 + i]
      BY <2>2, EncodeDecoded
    <2> QED
      BY <2>1, <2>3, Zenon
  <1>4. \A i \in 1 .. 4 : EncodeU32(32)[i] = p[4 + i]
    <2>1. \A i \in 1 .. 4 : 4 + i \in 1 .. Len(p)
      BY <1>1
    <2>2. \A i \in 1 .. 4 : p[4 + i] \in Byte
      BY <1>2, <2>1, Zenon
    <2>3. \A i \in 1 .. 4 : EncodeU32(DecodeU32(p, 4))[i] = p[4 + i]
      BY <2>2, EncodeDecoded
    <2> QED
      BY <1>1, <2>3, Zenon
  <1>5. n \in Nat
    BY <1>3, Powers
  <1>6. ks = [j \in 1 .. n |-> DecodeRecord(p, 8 + 32 * (j - 1))]
    BY DEF KeysOf
  <1>7. EncodeKeys(ks) = EncodeU32(Len(ks)) \o EncodeU32(32)
          \o [i \in 1 .. 32 * Len(ks) |->
                 EncodeRecord(ks[(i - 1) \div 32 + 1])[((i - 1) % 32) + 1]]
    BY DEF EncodeKeys
  <1> HIDE DEF n, ks
  <1>8. ASSUME NEW j \in 1 .. n
        PROVE  /\ ks[j] \in LeKeyRecord
               /\ \A i \in 1 .. 32 :
                     EncodeRecord(ks[j])[i] = p[8 + (32 * (j - 1) + i)]
    <2>1. PICK o \in Nat : o = 8 + 32 * (j - 1)
      BY <1>5
    <2>2. \A i \in 1 .. 32 : o + i \in 1 .. Len(p)
                              /\ o + i = 8 + (32 * (j - 1) + i)
      BY <1>1, <1>5, <2>1
    <2>3. \A i \in 1 .. 32 : p[o + i] \in Byte
      BY <1>2, <2>2, Zenon
    <2>4. ks[j] = DecodeRecord(p, o)
      BY <1>6, <2>1
    <2>5. /\ ks[j] \in LeKeyRecord
          /\ \A i \in 1 .. 32 : EncodeRecord(ks[j])[i] = p[o + i]
      BY <2>3, <2>4, RecordIsCanonical, Zenon
    <2> QED
      BY <2>2, <2>5, Zenon
  <1>9. ks \in Seq(LeKeyRecord) /\ Len(ks) = n
    <2>1. ks \in [1 .. n -> LeKeyRecord]
      BY <1>6, <1>8
    <2> QED
      BY <1>5, <2>1, FunctionsAreSequences
  <1>10. EncodeKeys(ks) = e
    BY <1>7, <1>9
  <1>11. \A k \in 1 .. 32 * n : w[k] = p[8 + k]
    <2> TAKE k \in 1 .. 32 * n
    <2> DEFINE j == (k - 1) \div 32 + 1
               i == ((k - 1) % 32) + 1
    <2>1. j \in 1 .. n /\ i \in 1 .. 32 /\ 32 * (j - 1) + i = k
      BY <1>5
    <2>2. w[k] = EncodeRecord(ks[j])[i]
      OBVIOUS
    <2> HIDE DEF i, j, w
    <2> QED
      BY <1>8, <2>1, <2>2, Zenon
  <1>12. w \in Seq(Byte) /\ Len(w) = 32 * n
    <2>1. \A k \in 1 .. 32 * n : 8 + k \in 1 .. Len(p)
      BY <1>1, <1>5
    <2>2. \A k \in 1 .. 32 * n : w[k] \in Byte
      BY <1>2, <1>11, <2>1, Zenon
    <2>3. w = [k \in 1 .. 32 * n |-> w[k]]
      OBVIOUS
    <2> HIDE DEF w
    <2>4. w \in [1 .. 32 * n -> Byte] /\ 32 * n \in Nat
      BY <1>5, <2>2, <2>3
    <2> QED
      BY <2>4, FunctionsAreSequences
  <1> HIDE DEF w
  <1>13. /\ h \in Seq(Byte) /\ Len(h) = 8
         /\ \A i \in 1 .. 4 : h[i] = EncodeU32(n)[i] /\ h[4 + i] = EncodeU32(32)[i]
    <2> DEFINE s == EncodeU32(n)
               t == EncodeU32(32)
    <2>1. s \in Seq(Byte) /\ t \in Seq(Byte) /\ Len(s) = 4 /\ Len(t) = 4
      BY <1>5, U32Bytes
    <2>2. h = s \o t
      OBVIOUS
    <2> HIDE DEF s, t, h
    <2>3. /\ h \in Seq(Byte)
          /\ Len(h) = Len(s) + Len(t)
          /\ \A i \in 1 .. Len(s) : h[i] = s[i]
          /\ \A i \in 1 .. Len(t) : h[Len(s) + i] = t[i]
      <3>1. s \in Seq(Byte) /\ t \in Seq(Byte)
        BY <2>1
      <3> QED
        BY <2>2, <3>1, Parts
    <2>4. Len(h) = 8
      BY <2>1, <2>3
    <2> QED
      BY <2>1, <2>3, <2>4, Zenon DEF s, t
  <1> HIDE DEF h
  <1>14. /\ e \in Seq(Byte)
         /\ Len(e) = 8 + 32 * n
         /\ \A i \in 1 .. 8 : e[i] = h[i]
         /\ \A i \in 1 .. 32 * n : e[8 + i] = w[i]
    <2> HIDE DEF e
    <2>1. e = h \o w
      BY DEF e
    <2>2. /\ e \in Seq(Byte)
          /\ Len(e) = Len(h) + Len(w)
          /\ \A i \in 1 .. Len(h) : e[i] = h[i]
          /\ \A i \in 1 .. Len(w) : e[Len(h) + i] = w[i]
      <3>1. h \in Seq(Byte) /\ w \in Seq(Byte)
        BY <1>12, <1>13
      <3> QED
        BY <2>1, <3>1, Parts
    <2> QED
      BY <1>12, <1>13, <2>2, Zenon
  <1> HIDE DEF e
  <1>15. ASSUME NEW i \in 1 .. Len(e) PROVE e[i] = p[i]
    <2>1. CASE i <= 4
      <3>1. i \in 1 .. 8 /\ i \in 1 .. 4
        BY <2>1
      <3> QED
        BY <1>3, <1>13, <1>14, <3>1, Zenon
    <2>2. CASE i > 4 /\ i <= 8
      <3>1. PICK j \in 1 .. 4 : i = 4 + j /\ i \in 1 .. 8
        <4>1. i - 4 \in 1 .. 4 /\ i = 4 + (i - 4) /\ i \in 1 .. 8
          BY <2>2
        <4> QED
          BY <4>1
      <3> QED
        BY <1>4, <1>13, <1>14, <3>1, Zenon
    <2>3. CASE i > 8
      <3>1. PICK j \in 1 .. 32 * n : i = 8 + j
        <4>1. i - 8 \in 1 .. 32 * n /\ i = 8 + (i - 8)
          BY <1>5, <1>14, <2>3
        <4> QED
          BY <4>1
      <3> QED
        BY <1>11, <1>14, <3>1, Zenon
    <2> QED
      BY <2>1, <2>2, <2>3
  <1>16. e = p
    <2>1. Len(e) = Len(p)
      BY <1>1, <1>5, <1>14
    <2> QED
      BY <1>14, <1>15, <2>1, SameBytes
  <1> QED
    BY <1>9, <1>10, <1>16 DEF ks
=============================================================================
