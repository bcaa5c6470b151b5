-------------------------- MODULE AsmExchangeProofs --------------------------
(***************************************************************************)
(* Safety of one exchange, for bytes of any number of values, any command  *)
(* lines, any bytes of other peers and any cut of either message.          *)
(***************************************************************************)
EXTENDS AsmExchange, AsmCodecProofs

-----------------------------------------------------------------------------
(***************************************************************************)
(* What the initiator writes.                                              *)
(***************************************************************************)

\* Whatever number is typed, the cast of main gives 32 bits and stoul gives 64.
LEMMA NarrowIsWord ==
  ASSUME NEW a, a.n \in Int
  PROVE  Narrow(a) \in 0 .. Word - 1 /\ Stoul(a) \in 0 .. Word * Word - 1
PROOF
  <1> DEFINE W == Word
             n == a.n
  <1>1. W \in Nat /\ W >= 256 /\ n \in Int
    BY Powers
  <1> HIDE DEF W, n
  <1>2. W * W \in Nat /\ W * W > 0
    BY <1>1
  <1>3. n % (W * W) \in 0 .. W * W - 1
    BY <1>1, <1>2
  <1>4. (n % (W * W)) % W \in 0 .. W - 1
    BY <1>1, <1>3
  <1> QED
    BY <1>3, <1>4 DEF Narrow, Stoul, W, n

HexCharacters == {Blank, Minus, Letter} \cup 0 .. Digit - 1

\* Two characters that stoul takes in base 16 are a byte.
LEMMA PairIsByte ==
  ASSUME NEW c \in HexCharacters,
         NEW d \in HexCharacters,
         PairParses(c, d)
  PROVE  PairValue(c, d) \in Byte
PROOF
  <1> USE DEF HexCharacters
  <1>1. Digit \in Nat /\ Digit >= 2 /\ Base = Digit * Digit /\ Base >= 2 * Digit
    BY DigitAssumption DEF Base
  <1>2. IsDigit(c) <=> c \in 0 .. Digit - 1
    BY <1>1 DEF IsDigit, Blank, Minus, Letter
  <1>3. IsDigit(d) <=> d \in 0 .. Digit - 1
    BY <1>1 DEF IsDigit, Blank, Minus, Letter
  <1>4. CASE IsDigit(c) /\ IsDigit(d)
    <2>1. PairValue(c, d) = c * Digit + d
      BY <1>4, <1>2, <1>3 DEF PairValue, IsDigit, Blank, Minus, Letter
    <2>2. c * Digit <= (Digit - 1) * Digit /\ c * Digit \in Nat
      BY <1>1, <1>2, <1>4
    <2> QED
      BY <1>1, <1>3, <1>4, <2>1, <2>2 DEF Byte
  <1>5. CASE IsDigit(c) /\ ~IsDigit(d)
    <2>1. PairValue(c, d) = c
      BY <1>5, <1>2, <1>3 DEF PairValue, IsDigit, Blank, Minus, Letter
    <2> QED
      BY <1>1, <1>2, <1>5, <2>1 DEF Byte
  <1>6. CASE ~IsDigit(c) /\ c = Blank
    <2>1. PairValue(c, d) = d /\ IsDigit(d)
      BY <1>6, <1>2, <1>3 DEF PairValue, PairParses, IsDigit, Blank, Minus
    <2> QED
      BY <1>1, <1>3, <2>1 DEF Byte
  <1>7. CASE ~IsDigit(c) /\ c # Blank
    <2>1. PairValue(c, d) = (-d) % Base /\ IsDigit(d)
      BY <1>7, <1>2, <1>3 DEF PairValue, PairParses, IsDigit, Blank, Minus
    <2>2. -d \in Int
      BY <1>3, <1>1, <2>1
    <2> QED
      BY <1>1, <2>1, <2>2, BaseIsLarge DEF Byte
  <1> QED
    BY <1>4, <1>5, <1>6, <1>7

\* A key that parse_hex_16 takes is 16 bytes.
LEMMA KeyIsBytes ==
  ASSUME NEW hex \in Seq(HexCharacters),
         HexParses(hex)
  PROVE  KeyOf(hex) \in [1 .. 16 -> Byte]
PROOF
  <1>1. Len(hex) = 32
    BY DEF HexParses
  <1>2. \A i \in 1 .. 16 : PairValue(hex[2 * i - 1], hex[2 * i]) \in Byte
    <2> TAKE i \in 1 .. 16
    <2>1. PairParses(hex[2 * i - 1], hex[2 * i])
      BY DEF HexParses
    <2>2. 2 * i - 1 \in 1 .. Len(hex) /\ 2 * i \in 1 .. Len(hex)
      BY <1>1
    <2>3. /\ hex[2 * i - 1] \in HexCharacters
          /\ hex[2 * i] \in HexCharacters
      BY <2>2, ElementOfSeq
    <2> QED
      BY <2>1, <2>3, PairIsByte
  <1> QED
    BY <1>2 DEF KeyOf

\* encode_load_request of one record
LEMMA OneKeyRoundTrip ==
  ASSUME NEW k \in LeKeyRecord
  PROVE  /\ EncodeKeys(<<k>>) \in Seq(Byte)
         /\ Len(EncodeKeys(<<k>>)) = 40
         /\ IsKeys(EncodeKeys(<<k>>))
         /\ KeysOf(EncodeKeys(<<k>>)) = <<k>>
PROOF
  <1> DEFINE ks == <<k>>
  <1>1. ks \in Seq(LeKeyRecord)
    OBVIOUS
  <1>2. Len(ks) = 1 /\ Len(ks) < Word
    BY Powers
  <1> HIDE DEF ks
  <1>3. /\ EncodeKeys(ks) \in Seq(Byte)
        /\ Len(EncodeKeys(ks)) = 8 + 32 * Len(ks)
        /\ IsKeys(EncodeKeys(ks))
        /\ KeysOf(EncodeKeys(ks)) = ks
    BY <1>1, <1>2, KeysRoundTrip
  <1>4. 8 + 32 * Len(ks) = 40
    BY <1>2
  <1> QED
    BY <1>3, <1>4, Zenon DEF ks

\* Each number of a line is an integer.
LEMMA NumbersAreNumbers ==
  ASSUME NEW l \in Lines, NEW i \in 1 .. Len(l.numbers)
  PROVE  l.numbers[i].n \in Int
PROOF
  <1> DEFINE s == l.numbers
             N == [text : BOOLEAN, n : Int]
  <1>1. s \in Seq(N)
    BY InputsAssumption
  <1> HIDE DEF s, N
  <1>2. s[i] \in N
    BY <1>1, ElementOfSeq DEF s
  <1> QED
    BY <1>2 DEF s, N

\* The record main makes of its arguments is one the codec can encode.
LEMMA RecordTypedIsRecord ==
  ASSUME NEW l \in Lines, LineIsTaken(l), l.command = "le_key_load"
  PROVE  RecordTyped(l) \in LeKeyRecord
PROOF
  <1>1. Len(l.numbers) = 3 /\ HexParses(l.hex)
    BY DEF LineIsTaken, NumbersOf
  <1>2. \A i \in 1 .. 3 : l.numbers[i].n \in Int
    BY <1>1, NumbersAreNumbers
  <1>3. /\ Narrow(l.numbers[1]) \in 0 .. Word - 1
        /\ Narrow(l.numbers[2]) \in 0 .. Word - 1
        /\ Stoul(l.numbers[3]) \in 0 .. Word * Word - 1
    BY <1>2, NarrowIsWord
  <1>4. KeyOf(l.hex) \in [1 .. 16 -> Byte]
    BY <1>1, InputsAssumption, KeyIsBytes DEF HexCharacters
  <1> QED
    BY <1>3, <1>4 DEF RecordTyped, LeKeyRecord

WordsTyped(l) == [i \in DOMAIN l.numbers |-> Narrow(l.numbers[i])]

\* The numbers that go into a payload have 32 bits.
LEMMA WordsTypedAreWords ==
  ASSUME NEW l \in Lines
  PROVE  WordsTyped(l) \in Seq(0 .. Word - 1) /\ Len(WordsTyped(l)) = Len(l.numbers)
PROOF
  <1> DEFINE n == Len(l.numbers)
  <1>1. n \in Nat /\ DOMAIN l.numbers = 1 .. n
    BY InputsAssumption, LenProperties
  <1>2. \A i \in 1 .. n : l.numbers[i].n \in Int
    BY NumbersAreNumbers
  <1> HIDE DEF n
  <1>3. WordsTyped(l) \in [1 .. n -> 0 .. Word - 1]
    BY <1>1, <1>2, NarrowIsWord DEF WordsTyped
  <1> QED
    BY <1>1, <1>3, FunctionsAreSequences DEF n

\* What main makes of a line is a request the codec can encode.
LEMMA RequestTypedIsRequest ==
  ASSUME NEW l \in Lines, LineIsTaken(l)
  PROVE  LET r == RequestTyped(l)
         IN  /\ r = [cmd |-> l.command, rid |-> 1, payload |-> r.payload]
             /\ l.command \in Commands
             /\ 1 \in 0 .. Word - 1
             /\ r.payload \in Seq(Byte)
             /\ Len(r.payload) = IF l.command = "le_key_load" THEN 40
                                 ELSE 4 * NumbersOf(l.command)
             /\ 4 + Len(r.payload) < Base3
PROOF
  <1>1. l.command \in Commands /\ Len(l.numbers) = NumbersOf(l.command)
    BY DEF LineIsTaken
  <1>2. NumbersOf(l.command) \in 0 .. 3
    BY <1>1 DEF NumbersOf
  <1> DEFINE r == RequestTyped(l)
  <1>3. r = [cmd |-> l.command, rid |-> 1, payload |-> r.payload]
    BY DEF RequestTyped
  <1>4. 1 \in 0 .. Word - 1
    BY Powers
  <1>5. CASE l.command = "le_key_load"
    <2>1. r.payload = EncodeKeys(<<RecordTyped(l)>>)
      BY <1>5 DEF RequestTyped
    <2>2. r.payload \in Seq(Byte) /\ Len(r.payload) = 40
      BY <1>5, <2>1, RecordTypedIsRecord, OneKeyRoundTrip
    <2>3. 4 + Len(r.payload) < Base3
      BY <2>2, Powers
    <2> QED
      BY <1>1, <1>3, <1>4, <1>5, <2>2, <2>3, Zenon
  <1>6. CASE l.command # "le_key_load"
    <2>1. r.payload = EncodeWordsOf(WordsTyped(l))
      BY <1>6 DEF RequestTyped, WordsTyped
    <2>2. WordsTyped(l) \in Seq(0 .. Word - 1)
      BY WordsTypedAreWords
    <2>3. r.payload \in Seq(Byte)
      BY <2>1, <2>2, WordsLayout, Zenon
    <2>4. Len(r.payload) = 4 * Len(WordsTyped(l))
      BY <2>1, <2>2, WordsLayout, Zenon
    <2>5. Len(r.payload) = 4 * NumbersOf(l.command)
      BY <1>1, <2>4, WordsTypedAreWords
    <2>6. 4 + Len(r.payload) < Base3
      BY <1>2, <2>5, Powers
    <2> QED
      BY <1>1, <1>3, <1>4, <1>6, <2>3, <2>5, <2>6, Zenon
  <1> QED
    BY <1>5, <1>6

-----------------------------------------------------------------------------
(***************************************************************************)
(* What the responder answers.                                             *)
(***************************************************************************)

\* An answer as encode_response takes it, which the initiator shows as it is
\* when it can read it.
Faithful(a) ==
    /\ a = [cmd |-> a.cmd, rid |-> a.rid, code |-> a.code, says |-> a.says]
    /\ a.cmd \in Commands \cup {"bad_request"}
    /\ a.rid \in IF a.cmd = "bad_request" THEN {NoId} ELSE 0 .. Word - 1
    /\ a.code \in {"successful", "failed", "invalid", "busy"}
    /\ Body(a) \in Seq(Byte)
    /\ Readable(StandardResponse(a)) => Shown(StandardResponse(a)) = a

\* A refusal, whose payload is a copy of what was read, survives the round trip.
LEMMA RefusalIsFaithful ==
  ASSUME NEW b \in Seq(Byte)
  PROVE  Faithful(Refusal(b))
PROOF
  <1> DEFINE a == Refusal(b)
  <1>1. a = [cmd |-> "bad_request", rid |-> NoId, code |-> "invalid", says |-> b]
    BY DEF Refusal
  <1> HIDE DEF a
  <1>2. a.cmd = "bad_request" /\ a.rid = NoId /\ a.code = "invalid" /\ a.says = b
    BY <1>1
  <1>3. Body(a) = b
    BY <1>2 DEF Body
  <1>4. StandardResponse(a) = [cmd |-> "bad_request", rid |-> NoId, payload |-> b,
                               code |-> "invalid"]
    BY <1>2, <1>3 DEF StandardResponse
  <1>5. Shown(StandardResponse(a)) = a
    BY <1>1, <1>4 DEF Shown, Flags
  <1> QED
    BY <1>1, <1>2, <1>3, <1>5 DEF Faithful, a

\* The stated length of a packet is a number.
LEMMA KlvLengthIsNumber ==
  ASSUME NEW b \in Seq(Byte), Len(b) >= 20
  PROVE  KlvLength(b) \in Nat
PROOF
  <1>1. {18, 19, 20} \subseteq 1 .. Len(b)
    BY LenProperties
  <1>2. b[18] \in Byte /\ b[19] \in Byte /\ b[20] \in Byte
    BY <1>1, ElementOfSeq
  <1> DEFINE x == b[18]
             y == b[19]
             z == b[20]
  <1>3. x \in Nat /\ y \in Nat /\ z \in Nat
    BY <1>2, BaseIsLarge DEF Byte
  <1> HIDE DEF x, y, z
  <1>4. x * Base2 + y * Base + z \in Nat
    BY <1>3, BaseIsLarge, Powers
  <1> QED
    BY <1>4 DEF KlvLength, x, y, z

\* A request as the handlers get it
LEMMA RequestFields ==
  ASSUME NEW b \in Seq(Byte), IsRequest(b)
  PROVE  /\ RequestOf(b).cmd \in Commands
         /\ RequestOf(b).rid \in 0 .. Word - 1
PROOF
  <1>1. DescribeUl(KlvUl(b)) \in UlMap /\ ~DescribeUl(KlvUl(b)).resp
    BY DEF IsRequest, IsUl, DescribeUl
  <1>2. DescribeUl(KlvUl(b)).cmd \in Commands
    BY <1>1 DEF UlMap
  <1>3. Len(b) >= 24 /\ Len(b) \in Nat
    BY LenProperties, KlvLengthIsNumber DEF IsRequest, IsKlv, HeaderSize
  <1>4. \A i \in 1 .. 4 : b[20 + i] \in Byte
    <2> TAKE i \in 1 .. 4
    <2>1. 20 + i \in 1 .. Len(b)
      BY <1>3
    <2> QED
      BY <2>1, ElementOfSeq
  <1>5. DecodeU32(b, HeaderSize) \in 0 .. Word - 1
    BY <1>4, DecodedIsWord DEF HeaderSize
  <1> QED
    BY <1>2, <1>5 DEF RequestOf

\* An invalid response without payload, which the initiator can read for the
\* commands whose payload it does not decode.
LEMMA InvalidIsFaithful ==
  ASSUME NEW r, r.cmd \in Commands, r.rid \in 0 .. Word - 1
  PROVE  Faithful(Says(r, "invalid", << >>))
PROOF
  <1> DEFINE a == Says(r, "invalid", << >>)
  <1>1. a = [cmd |-> r.cmd, rid |-> r.rid, code |-> "invalid", says |-> << >>]
    BY DEF Says
  <1> HIDE DEF a
  <1>2. /\ a.cmd = r.cmd /\ a.rid = r.rid /\ a.code = "invalid" /\ a.says = << >>
        /\ a.cmd # "bad_request"
    BY <1>1 DEF Commands
  <1>3. Body(a) = << >>
    BY <1>2 DEF Body
  <1> DEFINE p == StandardResponse(a)
  <1>4. p = [cmd |-> r.cmd, rid |-> r.rid, payload |-> << >>, code |-> "invalid"]
    BY <1>2, <1>3 DEF StandardResponse
  <1> HIDE DEF p
  <1>5. p.cmd = r.cmd /\ p.rid = r.rid /\ p.payload = << >> /\ p.code = "invalid"
    BY <1>4
  <1>6. Readable(p) =>
           p.cmd \notin {"get_time", "query_spb", "get_event_list",
                         "le_key_query_all"} \cup Flags
    BY <1>5 DEF Readable, Flags, IsBatch
  <1>7. Readable(p) => Shown(p) = a
    BY <1>1, <1>5, <1>6 DEF Shown
  <1>8. Body(a) \in Seq(Byte)
    BY <1>3
  <1>9. a = [cmd |-> a.cmd, rid |-> a.rid, code |-> a.code, says |-> a.says]
    BY <1>1, <1>2, Zenon
  <1>10. Faithful(a)
    BY <1>2, <1>7, <1>8, <1>9 DEF Faithful, p
  <1> QED
    BY <1>10 DEF a

\* An answer is faithful when the text of its payload is.
LEMMA SaysIsFaithful ==
  ASSUME NEW r, r.cmd \in Commands, r.rid \in 0 .. Word - 1,
         NEW code \in {"successful", "failed"}, NEW says, NEW body \in Seq(Byte),
         NEW a, a = Says(r, code, says), Body(a) = body,
         NEW p, p = [cmd |-> r.cmd, rid |-> r.rid, payload |-> body, code |-> code],
         Shown(p).says = says
  PROVE  Faithful(a)
PROOF
  <1>1. a = [cmd |-> r.cmd, rid |-> r.rid, code |-> code, says |-> says]
    BY DEF Says
  <1>2. /\ a.cmd = r.cmd /\ a.rid = r.rid /\ a.code = code /\ a.says = says
        /\ a.cmd # "bad_request"
    BY <1>1 DEF Commands
  <1>3. StandardResponse(a) = p
    BY <1>2 DEF StandardResponse
  <1>4. Shown(p) = a
    <2>1. p.cmd = r.cmd /\ p.rid = r.rid /\ p.code = code
      OBVIOUS
    <2> QED
      BY <1>1, <2>1, Zenon DEF Shown
  <1>5. a = [cmd |-> a.cmd, rid |-> a.rid, code |-> a.code, says |-> a.says]
    BY <1>1, <1>2, Zenon
  <1> QED
    BY <1>2, <1>3, <1>4, <1>5 DEF Faithful

\* Every answer of a handler survives the round trip.
LEMMA AnswersAreFaithful ==
  ASSUME NEW r, r.cmd \in Commands, r.rid \in 0 .. Word - 1,
         NEW a \in HandlerAnswers(r)
  PROVE  Faithful(a)
PROOF
  <1> DEFINE Packet(body, code) ==
               [cmd |-> r.cmd, rid |-> r.rid, payload |-> body, code |-> code]
  <1>1. CASE r.cmd = "get_time"
    <2>1. PICK t \in Times : a = Says(r, "successful", <<t>>)
      BY <1>1 DEF HandlerAnswers
    <2>2. /\ EncodeU64(t) \in Seq(Byte)
          /\ DecodeU64(EncodeU64(t), 0) = t
      BY LookupsAssumption, U64RoundTrip, U64Bytes
    <2>3. Body(a) = EncodeU64(t)
      BY <1>1, <2>1 DEF Body, Says
    <2> DEFINE p == Packet(EncodeU64(t), "successful")
    <2>4. Shown(p).says = <<t>>
      <3>1. p.cmd = "get_time" /\ DecodeU64(p.payload, 0) = t
        BY <1>1, <2>2
      <3> HIDE DEF p
      <3> QED
        BY <3>1 DEF Shown, Flags
    <2> QED
      BY <2>1, <2>2, <2>3, <2>4, SaysIsFaithful
  <1>2. CASE r.cmd \in {"get_event_list", "le_key_query_all"}
    <2>1. CASE a = Says(r, "invalid", << >>)
      BY <2>1, InvalidIsFaithful
    <2>2. CASE a # Says(r, "invalid", << >>)
      <3>1. PICK ids \in IdLists : a = Says(r, "successful", ids)
        BY <1>2, <2>2 DEF HandlerAnswers
      <3>2. /\ EncodeBatch(ids) \in Seq(Byte)
            /\ BatchIds(EncodeBatch(ids)) = ids
        BY LookupsAssumption, BatchRoundTrip
      <3>3. Body(a) = EncodeBatch(ids)
        BY <1>2, <3>1 DEF Body, Says
      <3> DEFINE p == Packet(EncodeBatch(ids), "successful")
      <3>4. Shown(p).says = ids
        <4>1. p.cmd \in {"get_event_list", "le_key_query_all"} /\ BatchIds(p.payload) = ids
          BY <1>2, <3>2
        <4> HIDE DEF p
        <4> QED
          BY <4>1 DEF Shown, Flags
      <3> QED
        BY <3>1, <3>2, <3>3, <3>4, SaysIsFaithful
    <2> QED
      BY <2>1, <2>2
  <1>3. CASE r.cmd = "get_event_id"
    <2>1. CASE a = Says(r, "invalid", << >>)
      BY <2>1, InvalidIsFaithful
    <2>2. CASE a # Says(r, "invalid", << >>)
      <3>1. PICK x \in Records : a = Says(r, "successful", x)
        BY <1>3, <2>2 DEF HandlerAnswers
      <3>2. x \in Seq(Byte)
        BY LookupsAssumption
      <3>3. Body(a) = x
        BY <1>3, <3>1 DEF Body, Says
      <3>4. Shown(Packet(x, "successful")).says = x
        BY <1>3 DEF Shown, Flags
      <3> QED
        BY <3>1, <3>2, <3>3, <3>4, SaysIsFaithful
    <2> QED
      BY <2>1, <2>2
  <1>4. CASE r.cmd = "query_spb"
    <2>1. PICK st \in Statuses : a = Says(r, "successful", <<1, st>>)
      BY <1>4 DEF HandlerAnswers
    <2>2. <<1, st>> \in Seq(Byte)
      BY LookupsAssumption, BaseIsLarge DEF Byte
    <2>3. Body(a) = <<1, st>>
      BY <1>4, <2>1 DEF Body, Says
    <2>4. Shown(Packet(<<1, st>>, "successful")).says = <<1, st>>
      BY <1>4 DEF Shown, Flags
    <2> QED
      BY <2>1, <2>2, <2>3, <2>4, SaysIsFaithful
  <1>5. CASE r.cmd \in Flags
    <2>1. PICK f \in {0, 1}, code \in {"successful", "failed"} : a = Says(r, code, <<f>>)
      BY <1>5 DEF HandlerAnswers, Flags
    <2>2. <<f>> \in Seq(Byte)
      BY BaseIsLarge DEF Byte
    <2>3. Body(a) = <<f>>
      BY <1>5, <2>1 DEF Body, Says, Flags
    <2>4. Shown(Packet(<<f>>, code)).says = <<f>>
      BY <1>5 DEF Shown, Flags
    <2> QED
      BY <2>1, <2>2, <2>3, <2>4, SaysIsFaithful
  <1>6. CASE r.cmd = "le_key_purge_all"
    <2>1. a = Says(r, "successful", << >>)
      BY <1>6 DEF HandlerAnswers
    <2>2. Body(a) = << >>
      BY <1>6, <2>1 DEF Body, Says
    <2>3. Shown(Packet(<< >>, "successful")).says = << >>
      BY <1>6 DEF Shown, Flags
    <2>4. << >> \in Seq(Byte)
      OBVIOUS
    <2> DEFINE none == << >>
    <2>5. none \in Seq(Byte) /\ Body(a) = none /\ a = Says(r, "successful", none)
          /\ Shown(Packet(none, "successful")).says = none
      BY <2>1, <2>2, <2>3, <2>4
    <2> HIDE DEF none
    <2> QED
      BY <2>5, SaysIsFaithful
  <1> QED
    BY <1>1, <1>2, <1>3, <1>4, <1>5, <1>6 DEF Commands, Flags

-----------------------------------------------------------------------------
(***************************************************************************)
(* What the initiator shows is what the responder answered.                *)
(***************************************************************************)

\* The bytes that carry an answer, and the part of them that has been read.
BytesInv ==
    /\ pc = "sent" => sent \in Seq(Byte)
    /\ pc = "read" => received \in Seq(Byte)

\* What has been written is the encoding of the answer.
AnswerInv ==
    pc \in {"answered", "got", "shown"} =>
        /\ Faithful(answer)
        /\ Encodes(answer)
        /\ replied = EncodeResponse(StandardResponse(answer))

\* The initiator has read a first part of it.
GotInv == pc = "got" => \E n \in 0 .. Len(replied) : got = Slice(replied, 0, n)

\* It shows an answer only after it has read the whole of it.
ShownInv == shown # None => pc = "shown" /\ got = replied /\ shown = answer

\* The inductive invariant behind AnswersArrive.
IInv == BytesInv /\ AnswerInv /\ GotInv /\ ShownInv

\* A first part is a slice that starts at 0.
LEMMA FirstPartIsSlice ==
  ASSUME NEW b \in Seq(Byte), NEW p \in FirstPart(b)
  PROVE  /\ \E n \in 0 .. Len(b) : p = Slice(b, 0, n)
         /\ p \in Seq(Byte)
PROOF
  <1>1. Len(b) \in Nat
    BY LenProperties
  <1>2. PICK n \in 1 .. IF Len(b) < ReadBuffer THEN Len(b) ELSE ReadBuffer :
             p = Slice(b, 0, n)
    BY DEF FirstPart
  <1>3. n \in 0 .. Len(b) /\ n \in Nat
    BY <1>1, <1>2 DEF ReadBuffer
  <1>4. \A i \in 1 .. n : 0 + i \in 1 .. Len(b)
    BY <1>1, <1>3
  <1>5. p \in [1 .. n -> Byte]
    BY <1>2, <1>4, ElementOfSeq DEF Slice
  <1> QED
    BY <1>2, <1>3, <1>5, FunctionsAreSequences

\* A faithful answer survives both codecs.
LEMMA FaithfulRoundTrip ==
  ASSUME NEW a, Faithful(a), Encodes(a),
         NEW b, b = EncodeResponse(StandardResponse(a))
  PROVE  /\ b \in Seq(Byte)
         /\ IsResponse(b)
         /\ ResponseOf(b) = StandardResponse(a)
PROOF
  <1>1. /\ a.cmd \in Commands \cup {"bad_request"}
        /\ a.rid \in IF a.cmd = "bad_request" THEN {NoId} ELSE 0 .. Word - 1
        /\ Body(a) \in Seq(Byte)
        /\ a.code \in {"successful", "failed", "invalid", "busy"}
    BY Zenon DEF Faithful
  <1>2. (IF a.cmd = "bad_request" THEN 0 ELSE 4) + Len(Body(a)) + 1 < Base3
    BY Zenon DEF Encodes
  <1>3. b = EncodeResponse([cmd |-> a.cmd, rid |-> a.rid,
                            payload |-> Body(a), code |-> a.code])
    BY Zenon DEF StandardResponse
  <1> DEFINE cmd == a.cmd
             rid == a.rid
             payload == Body(a)
             code == a.code
  <1>4. /\ cmd \in Commands \cup {"bad_request"}
        /\ rid \in IF cmd = "bad_request" THEN {NoId} ELSE 0 .. Word - 1
        /\ payload \in Seq(Byte)
        /\ code \in {"successful", "failed", "invalid", "busy"}
        /\ (IF cmd = "bad_request" THEN 0 ELSE 4) + Len(payload) + 1 < Base3
        /\ b = EncodeResponse([cmd |-> cmd, rid |-> rid,
                               payload |-> payload, code |-> code])
    BY <1>1, <1>2, <1>3, Zenon
  <1> HIDE DEF cmd, rid, payload, code
  <1>5. /\ b \in Seq(Byte)
        /\ IsResponse(b)
        /\ ResponseOf(b) = [cmd |-> cmd, rid |-> rid,
                            payload |-> payload, code |-> code]
    BY <1>4, ResponseRoundTrip, Zenon
  <1> QED
    BY <1>5, Zenon DEF StandardResponse, cmd, rid, payload, code

\* Typing a line keeps the invariant.
LEMMA TypeInv ==
  ASSUME IInv, NEW l \in Lines, Type(l)
  PROVE  IInv'
PROOF
  <1>1. pc = "typing" /\ UNCHANGED <<received, handled, answer, replied, got, shown>>
    BY DEF Type
  <1>2. CASE LineIsTaken(l)
    <2>1. sent' = EncodeRequest(RequestTyped(l)) /\ pc' = "sent"
      BY <1>2 DEF Type
    <2>2. sent' \in Seq(Byte)
      BY <1>2, <2>1, RequestTypedIsRequest, RequestRoundTrip, Zenon
    <2> QED
      BY <1>1, <2>1, <2>2 DEF IInv, BytesInv, AnswerInv, GotInv, ShownInv
  <1>3. CASE ~LineIsTaken(l)
    BY <1>1, <1>3 DEF Type, IInv, BytesInv, AnswerInv, GotInv, ShownInv
  <1> QED
    BY <1>2, <1>3

\* Encoding and writing an answer keeps it, also when Klv::encode throws.
LEMMA ReplyInv ==
  ASSUME IInv, pc = "read", NEW a, Faithful(a), Reply(a), UNCHANGED <<got, shown>>
  PROVE  IInv'
PROOF
  <1> DEFINE r == IF Encodes(a) THEN a ELSE Refusal(received)
  <1>1. shown = None
    BY DEF IInv, ShownInv
  <1>2. Faithful(r)
    BY RefusalIsFaithful DEF IInv, BytesInv
  <1>3. CASE Encodes(r)
    <2>1. /\ answer' = r
          /\ replied' = EncodeResponse(StandardResponse(r))
          /\ pc' = "answered"
      BY <1>3, Zenon DEF Reply
    <2> HIDE DEF r
    <2>2. BytesInv' /\ GotInv' /\ ShownInv'
      BY <1>1, <2>1 DEF BytesInv, GotInv, ShownInv
    <2>3. AnswerInv'
      BY <1>2, <1>3, <2>1, Zenon DEF AnswerInv
    <2> QED
      BY <2>2, <2>3 DEF IInv
  <1>4. CASE ~Encodes(r)
    <2>1. pc' = "ended"
      BY <1>4, Zenon DEF Reply
    <2> QED
      BY <1>1, <2>1 DEF IInv, BytesInv, AnswerInv, GotInv, ShownInv
  <1> QED
    BY <1>3, <1>4

\* A response shown is the whole of the response written, since no part of a
\* frame is a frame.
LEMMA ShowsInv ==
  ASSUME IInv, ClientShows
  PROVE  IInv'
PROOF
  <1>1. /\ pc = "got" /\ pc' = "shown"
        /\ IsResponse(got) /\ Readable(ResponseOf(got))
        /\ shown' = Shown(ResponseOf(got))
        /\ UNCHANGED <<answer, replied, got>>
    BY DEF ClientShows
  <1>2. /\ Faithful(answer)
        /\ Encodes(answer)
        /\ replied = EncodeResponse(StandardResponse(answer))
    BY <1>1 DEF IInv, AnswerInv
  <1>3. /\ replied \in Seq(Byte)
        /\ IsResponse(replied)
        /\ ResponseOf(replied) = StandardResponse(answer)
    BY <1>2, FaithfulRoundTrip, Zenon
  <1>4. PICK n \in 0 .. Len(replied) : got = Slice(replied, 0, n)
    BY <1>1 DEF IInv, GotInv
  <1>5. IsKlv(replied) /\ IsKlv(got)
    BY <1>1, <1>3 DEF IsResponse
  <1>6. got = replied
    BY <1>3, <1>4, <1>5, NoPartIsAFrame, Zenon
  <1>7. shown' = answer
    BY <1>1, <1>2, <1>3, <1>6, Zenon DEF Faithful
  <1> QED
    BY <1>1, <1>2, <1>6, <1>7 DEF IInv, BytesInv, AnswerInv, GotInv, ShownInv

\* Every step keeps it.
LEMMA StepInv ==
  ASSUME IInv, [Next]_vars
  PROVE  IInv'
PROOF
  <1> USE DEF IInv
  <1>1. CASE \E l \in Lines : Type(l)
    BY <1>1, TypeInv
  <1>2. CASE \E b \in OddFrames : OtherPeerSends(b)
    BY <1>2, InputsAssumption
       DEF OtherPeerSends, BytesInv, AnswerInv, GotInv, ShownInv
  <1>3. CASE ServerReads
    <2>1. pc = "sent" /\ received' \in FirstPart(sent) /\ pc' = "read"
      BY <1>3 DEF ServerReads
    <2>2. received' \in Seq(Byte)
      BY <2>1, FirstPartIsSlice DEF BytesInv
    <2> QED
      BY <1>3, <2>2 DEF ServerReads, BytesInv, AnswerInv, GotInv, ShownInv
  <1>4. CASE ServerAnswers
    <2>1. pc = "read" /\ received \in Seq(Byte) /\ IsRequest(received)
      BY <1>4 DEF ServerAnswers, Dispatched, BytesInv
    <2>2. UNCHANGED <<got, shown>>
      BY <1>4 DEF ServerAnswers
    <2>3. CASE \E a \in HandlerAnswers(RequestOf(received)) : Reply(a)
      BY <2>1, <2>2, <2>3, RequestFields, AnswersAreFaithful, ReplyInv
    <2>4. CASE Reply(Refusal(received))
      BY <2>1, <2>2, <2>4, RefusalIsFaithful, ReplyInv
    <2> QED
      BY <1>4, <2>3, <2>4 DEF ServerAnswers
  <1>5. CASE ServerRefusesPayload
    <2>1. pc = "read" /\ received \in Seq(Byte) /\ IsRequest(received)
      BY <1>5 DEF ServerRefusesPayload, Dispatched, BytesInv
    <2>2. /\ Reply(Says(RequestOf(received), "invalid", << >>))
          /\ UNCHANGED <<got, shown>>
      BY <1>5 DEF ServerRefusesPayload
    <2> QED
      BY <2>1, <2>2, RequestFields, InvalidIsFaithful, ReplyInv
  <1>6. CASE ServerRefuses
    <2>1. pc = "read" /\ received \in Seq(Byte)
      BY <1>6 DEF ServerRefuses, BytesInv
    <2>2. Reply(Refusal(received)) /\ UNCHANGED <<got, shown>>
      BY <1>6 DEF ServerRefuses
    <2> QED
      BY <2>1, <2>2, RefusalIsFaithful, ReplyInv
  <1>7. CASE ClientReads
    <2>1. /\ pc = "answered" /\ got' \in FirstPart(replied) /\ pc' = "got"
          /\ UNCHANGED <<answer, replied, shown>>
      BY <1>7 DEF ClientReads
    <2>2. /\ Faithful(answer)
          /\ Encodes(answer)
          /\ replied = EncodeResponse(StandardResponse(answer))
      BY <2>1 DEF AnswerInv
    <2>3. replied \in Seq(Byte)
      BY <2>2, FaithfulRoundTrip
    <2>4. \E n \in 0 .. Len(replied) : got' = Slice(replied, 0, n)
      BY <2>1, <2>3, FirstPartIsSlice
    <2> QED
      BY <2>1, <2>2, <2>4 DEF BytesInv, AnswerInv, GotInv, ShownInv
  <1>8. CASE ClientShows
    BY <1>8, ShowsInv
  <1>9. CASE ClientThrows
    BY <1>9 DEF ClientThrows, BytesInv, AnswerInv, GotInv, ShownInv
  <1>10. CASE UNCHANGED vars
    BY <1>10 DEF vars, BytesInv, AnswerInv, GotInv, ShownInv
  <1> QED
    BY <1>1, <1>2, <1>3, <1>4, <1>5, <1>6, <1>7, <1>8, <1>9, <1>10 DEF Next

\* So it holds throughout.
LEMMA Invariant == Spec => []IInv
PROOF
  <1>1. Init => IInv
    BY DEF Init, IInv, BytesInv, AnswerInv, GotInv, ShownInv
  <1> QED
    BY <1>1, StepInv, PTL DEF Spec

\* What asm_initiator shows is what the responder answered, and all of it,
\* wherever the two reads cut the messages.
THEOREM AnswersArrive == Spec => []ShownIsAnswered
PROOF
  <1>1. IInv => ShownIsAnswered
    BY DEF IInv, ShownInv, ShownIsAnswered
  <1> QED
    BY <1>1, Invariant, PTL

-----------------------------------------------------------------------------
(***************************************************************************)
(* What the responder handles is what the initiator was told to ask.       *)
(***************************************************************************)

\* What a handler makes of the request of a command line.
MeaningOfLine(l) ==
    [cmd |-> l.command, rid |-> 1,
     numbers |-> IF l.command = "le_key_load" THEN << >> ELSE WordsTyped(l),
     keys |-> IF l.command = "le_key_load" THEN <<RecordTyped(l)>> ELSE << >>]

\* The request made of a line decodes in its handler, to what the line means.
LEMMA LineIsUnderstood ==
  ASSUME NEW l \in Lines, LineIsTaken(l), NEW r, r = RequestTyped(l)
  PROVE  /\ PayloadReads(r)
         /\ PayloadIsEmpty(r)
         /\ Meaning(r) = MeaningOfLine(l)
PROOF
  <1>1. r.cmd = l.command /\ r.rid = 1
    BY DEF RequestTyped
  <1>2. l.command \in Commands /\ Len(l.numbers) = NumbersOf(l.command)
    BY DEF LineIsTaken
  <1>3. Len(r.payload) = IF l.command = "le_key_load" THEN 40
                         ELSE 4 * NumbersOf(l.command)
    BY RequestTypedIsRequest
  <1>4. CASE l.command = "le_key_load"
    <2>1. r.payload = EncodeKeys(<<RecordTyped(l)>>)
      BY <1>4 DEF RequestTyped
    <2>2. IsKeys(r.payload) /\ KeysOf(r.payload) = <<RecordTyped(l)>>
      BY <1>4, <2>1, RecordTypedIsRecord, OneKeyRoundTrip
    <2>3. PayloadReads(r) /\ PayloadIsEmpty(r)
      BY <1>1, <1>4, <2>2 DEF PayloadReads, PayloadIsEmpty, WithIds
    <2>4. Meaning(r) = [cmd |-> r.cmd, rid |-> r.rid, numbers |-> << >>,
                        keys |-> KeysOf(r.payload)]
      BY <1>1, <1>4 DEF Meaning, WithIds
    <2> QED
      BY <1>1, <1>4, <2>2, <2>3, <2>4 DEF MeaningOfLine
  <1>5. CASE l.command # "le_key_load"
    <2>1. r.payload = EncodeWordsOf(WordsTyped(l))
      BY <1>5 DEF RequestTyped, WordsTyped
    <2>2. WordsTyped(l) \in Seq(0 .. Word - 1)
      BY WordsTypedAreWords
    <2>3. DecodeWords(r.payload, 0, Len(WordsTyped(l))) = WordsTyped(l)
      BY <2>1, <2>2, WordsRoundTrip
    <2>4. Len(WordsTyped(l)) = NumbersOf(l.command)
      BY <1>2, WordsTypedAreWords
    <2>5. DecodeWords(r.payload, 0, NumbersOf(l.command)) = WordsTyped(l)
      BY <2>3, <2>4
    <2>6. PayloadReads(r) /\ PayloadIsEmpty(r)
      BY <1>1, <1>3, <1>5
         DEF PayloadReads, PayloadIsEmpty, WithIds, NumbersOf
    <2>7. NumbersOf(l.command) = 0 => WordsTyped(l) = << >>
      BY <2>2, <2>4, EmptySeq
    <2>8. Meaning(r).numbers = WordsTyped(l)
      <3>1. CASE l.command = "get_event_list"
        BY <1>1, <2>5, <3>1 DEF Meaning, NumbersOf, WithIds
      <3>2. CASE l.command \in WithIds
        BY <1>1, <2>5, <3>2 DEF Meaning, NumbersOf, WithIds
      <3>3. CASE l.command \notin WithIds \cup {"get_event_list"}
        BY <1>1, <1>5, <2>7, <3>3 DEF Meaning, NumbersOf, WithIds
      <3> QED
        BY <3>1, <3>2, <3>3
    <2>9. Meaning(r) = [cmd |-> r.cmd, rid |-> r.rid,
                        numbers |-> Meaning(r).numbers, keys |-> << >>]
      BY <1>1, <1>5 DEF Meaning
    <2> QED
      BY <1>1, <1>5, <2>6, <2>8, <2>9 DEF MeaningOfLine
  <1> QED
    BY <1>4, <1>5

\* A line that is taken means something.
LEMMA MeaningIsSomething ==
  ASSUME NEW l \in Lines, LineIsTaken(l)
  PROVE  MeaningOfLine(l) # None
PROOF
  <1>1. l.command \in Commands /\ 1 \in 0 .. Word - 1
    BY Powers DEF LineIsTaken
  <1> DEFINE n == IF l.command = "le_key_load" THEN << >> ELSE WordsTyped(l)
             k == IF l.command = "le_key_load" THEN <<RecordTyped(l)>> ELSE << >>
  <1>2. n \in Seq(0 .. Word - 1)
    <2>1. WordsTyped(l) \in Seq(0 .. Word - 1) /\ << >> \in Seq(0 .. Word - 1)
      BY WordsTypedAreWords, EmptySeq
    <2> QED
      BY <2>1, Zenon
  <1>3. k \in Seq(LeKeyRecord)
    BY RecordTypedIsRecord
  <1>4. MeaningOfLine(l) = [cmd |-> l.command, rid |-> 1, numbers |-> n, keys |-> k]
    BY DEF MeaningOfLine
  <1> HIDE DEF n, k
  <1> QED
    BY <1>1, <1>2, <1>3, <1>4, NoneAssumption

\* In range, what main makes of the line is what the line says.
LEMMA InRangeIsTyped ==
  ASSUME NEW l \in Lines, LineIsTaken(l), InRange(l)
  PROVE  MeaningOfLine(l) = MeaningTyped(l)
PROOF
  <1>1. DOMAIN l.numbers = 1 .. Len(l.numbers)
    BY InputsAssumption, LenProperties
  <1>2. \A i \in DOMAIN l.numbers :
           /\ Narrow(l.numbers[i]) = l.numbers[i].n
           /\ Stoul(l.numbers[i]) = l.numbers[i].n
    <2> TAKE i \in DOMAIN l.numbers
    <2> DEFINE n == l.numbers[i].n
               W == Word
    <2>1. n \in 0 .. W - 1 /\ W \in Nat /\ W >= 256
      BY Powers DEF InRange
    <2> HIDE DEF n, W
    <2>2. W * W > n /\ W * W \in Nat
      BY <2>1
    <2>3. n % (W * W) = n /\ n % W = n
      BY <2>1, <2>2
    <2> QED
      BY <2>3 DEF Narrow, Stoul, n, W
  <1>3. CASE l.command = "le_key_load"
    <2>1. Len(l.numbers) = 3 /\ HexParses(l.hex)
      BY <1>3 DEF LineIsTaken, NumbersOf
    <2>2. /\ Narrow(l.numbers[1]) = l.numbers[1].n
          /\ Narrow(l.numbers[2]) = l.numbers[2].n
          /\ Stoul(l.numbers[3]) = l.numbers[3].n
      BY <1>1, <1>2, <2>1
    <2>3. KeyOf(l.hex) = [i \in 1 .. 16 |-> l.hex[2 * i - 1] * Digit + l.hex[2 * i]]
      <3>1. DOMAIN l.hex = 1 .. 32
        BY <2>1, InputsAssumption, LenProperties DEF HexParses
      <3>2. \A i \in 1 .. 16 : 2 * i - 1 \in 1 .. 32 /\ 2 * i \in 1 .. 32
        OBVIOUS
      <3>3. \A i \in 1 .. 16 : IsDigit(l.hex[2 * i - 1]) /\ IsDigit(l.hex[2 * i])
        BY <3>1, <3>2, Zenon DEF InRange
      <3>4. \A i \in 1 .. 16 : PairValue(l.hex[2 * i - 1], l.hex[2 * i])
                                 = l.hex[2 * i - 1] * Digit + l.hex[2 * i]
        <4> TAKE i \in 1 .. 16
        <4> DEFINE c == l.hex[2 * i - 1]
                   d == l.hex[2 * i]
        <4>1. IsDigit(c) /\ IsDigit(d)
          BY <3>3
        <4>2. c \in HexCharacters /\ d \in HexCharacters
          <5>1. Len(l.hex) = 32 /\ l.hex \in Seq(HexCharacters)
            BY <2>1, InputsAssumption DEF HexParses, HexCharacters
          <5> QED
            BY <3>2, <5>1, ElementOfSeq
        <4> HIDE DEF c, d
        <4>3. PairValue(c, d) = c * Digit + d
          BY <4>1, <4>2, DigitAssumption
             DEF PairValue, IsDigit, HexCharacters, Blank, Minus, Letter
        <4> QED
          BY <4>3 DEF c, d
      <3> QED
        BY <3>4, Zenon DEF KeyOf
    <2>4. RecordTyped(l) =
            [key_id |-> l.numbers[1].n, expire_time |-> l.numbers[2].n,
             attribute_data |-> l.numbers[3].n,
             key |-> [i \in 1 .. 16 |-> l.hex[2 * i - 1] * Digit + l.hex[2 * i]]]
      BY <2>2, <2>3 DEF RecordTyped
    <2> QED
      BY <1>3, <2>4, Zenon DEF MeaningOfLine, MeaningTyped
  <1>4. CASE l.command # "le_key_load"
    <2>1. WordsTyped(l) = [i \in DOMAIN l.numbers |-> l.numbers[i].n]
      BY <1>2, Zenon DEF WordsTyped
    <2> QED
      BY <1>4, <2>1, Zenon DEF MeaningOfLine, MeaningTyped
  <1> QED
    BY <1>3, <1>4

Acts == Dispatched /\ PayloadIsEmpty(RequestOf(received))

\* The request of a line, on its way to the handler.
LineInv ==
    /\ pc = "typing" => line = None
    /\ (line # None /\ (pc \in {"sent", "read", "answered"} \/ handled # None)) =>
           /\ line \in Lines
           /\ LineIsTaken(line)
           /\ sent = EncodeRequest(RequestTyped(line))

\* The responder has read a first part of what was sent.
PartInv ==
    (line # None /\ (pc \in {"read", "answered"} \/ handled # None)) =>
        \E n \in 0 .. Len(sent) : received = Slice(sent, 0, n)

\* A handler has acted if, and only if, what was read makes it act.
HandledInv ==
    /\ pc = "answered" /\ Acts => handled = Meaning(RequestOf(received))
    /\ handled # None =>
           /\ pc \in {"answered", "got", "shown", "ended"}
           /\ Acts
           /\ handled = Meaning(RequestOf(received))

\* The inductive invariant behind WholeIsHandled.
WholeInv == LineInv /\ PartInv /\ HandledInv

\* The bytes of a typed line decode to the request they were made from.
LEMMA SentIsRequest ==
  ASSUME NEW l \in Lines, LineIsTaken(l), NEW b, b = EncodeRequest(RequestTyped(l))
  PROVE  /\ b \in Seq(Byte)
         /\ IsRequest(b)
         /\ RequestOf(b) = RequestTyped(l)
PROOF
  <1> DEFINE r == RequestTyped(l)
  <1>1. /\ r = [cmd |-> l.command, rid |-> 1, payload |-> r.payload]
        /\ l.command \in Commands
        /\ 1 \in 0 .. Word - 1
        /\ r.payload \in Seq(Byte)
        /\ 4 + Len(r.payload) < Base3
    BY RequestTypedIsRequest, Zenon
  <1>2. b = EncodeRequest([cmd |-> l.command, rid |-> 1, payload |-> r.payload])
    BY <1>1, Zenon
  <1>3. /\ b \in Seq(Byte)
        /\ IsRequest(b)
        /\ RequestOf(b) = [cmd |-> l.command, rid |-> 1, payload |-> r.payload]
    BY <1>1, <1>2, RequestRoundTrip, Zenon
  <1> QED
    BY <1>1, <1>3, Zenon

\* Every step keeps it.
LEMMA WholeStep ==
  ASSUME WholeInv, IInv, [Next]_vars
  PROVE  WholeInv'
PROOF
  <1> USE DEF WholeInv
  <1>1. CASE \E l \in Lines : Type(l)
    <2>1. PICK l \in Lines : Type(l)
      BY <1>1
    <2>2. handled = None /\ handled' = None
      BY <2>1 DEF Type, HandledInv
    <2>3. line' = l /\ pc' \in {"sent", "ended"}
      BY <2>1 DEF Type
    <2>4. pc' = "sent" => LineIsTaken(l) /\ sent' = EncodeRequest(RequestTyped(l))
      BY <2>1 DEF Type
    <2> QED
      BY <2>2, <2>3, <2>4 DEF LineInv, PartInv, HandledInv
  <1>2. CASE \E b \in OddFrames : OtherPeerSends(b)
    BY <1>2 DEF OtherPeerSends, LineInv, PartInv, HandledInv
  <1>3. CASE ServerReads
    <2>1. /\ pc = "sent" /\ received' \in FirstPart(sent) /\ pc' = "read"
          /\ UNCHANGED <<line, sent, handled>>
      BY <1>3 DEF ServerReads
    <2>2. handled = None
      BY <2>1 DEF HandledInv
    <2>3. \E n \in 0 .. Len(sent) : received' = Slice(sent, 0, n)
      BY <2>1, FirstPartIsSlice DEF IInv, BytesInv
    <2> QED
      BY <2>1, <2>2, <2>3 DEF LineInv, PartInv, HandledInv
  <1>4. CASE ServerAnswers
    <2>1. /\ pc = "read" /\ Acts
          /\ handled' = Meaning(RequestOf(received))
          /\ UNCHANGED <<line, sent, received>>
      BY <1>4 DEF ServerAnswers, Acts
    <2>2. pc' \in {"answered", "ended"}
      BY <1>4 DEF ServerAnswers, Reply
    <2>3. Acts' = Acts
      BY <2>1 DEF Acts, Dispatched
    <2> QED
      BY <2>1, <2>2, <2>3 DEF LineInv, PartInv, HandledInv
  <1>5. CASE ServerRefusesPayload \/ ServerRefuses
    <2>1. /\ pc = "read" /\ ~Acts
          /\ UNCHANGED <<line, sent, received, handled>>
      BY <1>5 DEF ServerRefusesPayload, ServerRefuses, Acts
    <2>2. pc' \in {"answered", "ended"}
      BY <1>5 DEF ServerRefusesPayload, ServerRefuses, Reply
    <2>3. Acts' = Acts
      BY <2>1 DEF Acts, Dispatched
    <2> QED
      BY <2>1, <2>2, <2>3 DEF LineInv, PartInv, HandledInv
  <1>6. CASE ClientReads \/ ClientShows \/ ClientThrows
    <2>1. /\ pc' \in {"got", "shown", "ended"} /\ pc # "typing"
          /\ UNCHANGED <<line, sent, received, handled>>
      BY <1>6 DEF ClientReads, ClientShows, ClientThrows
    <2>2. Acts' = Acts
      BY <2>1 DEF Acts, Dispatched
    <2> QED
      BY <2>1, <2>2 DEF LineInv, PartInv, HandledInv
  <1>7. CASE UNCHANGED vars
    <2>1. Acts' = Acts
      BY <1>7 DEF vars, Acts, Dispatched
    <2> QED
      BY <1>7, <2>1 DEF vars, LineInv, PartInv, HandledInv
  <1> QED
    BY <1>1, <1>2, <1>3, <1>4, <1>5, <1>6, <1>7 DEF Next

\* So it holds throughout.
LEMMA WholeInvariant == Spec => []WholeInv
PROOF
  <1>1. Init => WholeInv
    BY DEF Init, WholeInv, LineInv, PartInv, HandledInv
  <1> QED
    BY <1>1, Invariant, WholeStep, PTL DEF Spec

\* What reaches a handler of an initiator's request is all of the request.
LEMMA HandledIsWhole ==
  ASSUME WholeInv, line # None, handled # None
  PROVE  /\ line \in Lines /\ LineIsTaken(line)
         /\ received = sent
         /\ handled = MeaningOfLine(line)
PROOF
  <1>1. /\ line \in Lines
        /\ LineIsTaken(line)
        /\ sent = EncodeRequest(RequestTyped(line))
    BY DEF WholeInv, LineInv
  <1>2. /\ sent \in Seq(Byte)
        /\ IsRequest(sent)
        /\ RequestOf(sent) = RequestTyped(line)
    BY <1>1, SentIsRequest
  <1>3. PICK n \in 0 .. Len(sent) : received = Slice(sent, 0, n)
    BY DEF WholeInv, PartInv
  <1>4. IsRequest(received) /\ handled = Meaning(RequestOf(received))
    BY DEF WholeInv, HandledInv, Acts, Dispatched
  <1>5. IsKlv(sent) /\ IsKlv(received)
    BY <1>2, <1>4 DEF IsRequest
  <1>6. received = sent
    BY <1>2, <1>3, <1>5, NoPartIsAFrame, Zenon
  <1>7. handled = MeaningOfLine(line)
    BY <1>1, <1>2, <1>4, <1>6, LineIsUnderstood
  <1> QED
    BY <1>1, <1>6, <1>7

\* The responder handles the request of an initiator exactly when its one read
\* has brought all of it, for all command lines and all sizes of a byte.
THEOREM WholeIsHandled == Spec => []HandledIffWhole
PROOF
  <1>1. WholeInv => HandledIffWhole
    <2> SUFFICES ASSUME WholeInv, line # None, pc = "answered"
                 PROVE  handled # None <=> received = sent
      BY DEF HandledIffWhole
    <2>1. handled # None => received = sent
      BY HandledIsWhole
    <2>2. ASSUME received = sent PROVE handled # None
      <3>1. /\ line \in Lines
            /\ LineIsTaken(line)
            /\ sent = EncodeRequest(RequestTyped(line))
        BY DEF WholeInv, LineInv
      <3>2. IsRequest(received) /\ RequestOf(received) = RequestTyped(line)
        BY <2>2, <3>1, SentIsRequest
      <3>3. /\ PayloadReads(RequestTyped(line))
            /\ PayloadIsEmpty(RequestTyped(line))
            /\ Meaning(RequestTyped(line)) = MeaningOfLine(line)
        BY <3>1, LineIsUnderstood
      <3>4. RequestTyped(line).rid = 1
        BY DEF RequestTyped
      <3>5. Acts
        BY <3>2, <3>3, <3>4 DEF Acts, Dispatched
      <3>6. handled = MeaningOfLine(line)
        BY <3>2, <3>3, <3>5 DEF WholeInv, HandledInv
      <3> QED
        BY <3>1, <3>6, MeaningIsSomething
    <2> QED
      BY <2>1, <2>2
  <1> QED
    BY <1>1, WholeInvariant, PTL

\* What the handler is asked is what the operator typed.
THEOREM TypedIsAsked == Spec => []TypedIsHandled
PROOF
  <1>1. WholeInv => TypedIsHandled
    BY HandledIsWhole, InRangeIsTyped DEF TypedIsHandled
  <1> QED
    BY <1>1, WholeInvariant, PTL

-----------------------------------------------------------------------------
(***************************************************************************)
(* Types, and the bytes behind what a handler does.                        *)
(***************************************************************************)

\* What an answer and its bytes are after a step of the responder.
LEMMA AnswerTypes ==
  ASSUME IInv, pc \in {"answered", "got", "shown"}
  PROVE  answer.cmd \in Commands \cup {"bad_request"} /\ replied \in Seq(Byte)
PROOF
  <1>1. /\ Faithful(answer)
        /\ Encodes(answer)
        /\ replied = EncodeResponse(StandardResponse(answer))
    BY DEF IInv, AnswerInv
  <1>2. replied \in Seq(Byte)
    BY <1>1, FaithfulRoundTrip, Zenon
  <1> QED
    BY <1>1, <1>2, Zenon DEF Faithful

\* An answer that is written keeps the types.
LEMMA ReplyTypes ==
  ASSUME TypeOK, IInv', NEW a, Reply(a), UNCHANGED <<line, sent, received, got, shown>>,
         handled' # None => handled'.cmd \in Commands /\ handled'.rid \in 1 .. Word - 1
  PROVE  TypeOK'
PROOF
  <1>1. CASE pc' = "answered"
    <2>1. answer'.cmd \in Commands \cup {"bad_request"} /\ replied' \in Seq(Byte)
      <3>1. pc' \in {"answered", "got", "shown"}
        BY <1>1
      <3>2. /\ Faithful(answer')
            /\ Encodes(answer')
            /\ replied' = EncodeResponse(StandardResponse(answer'))
        BY <3>1 DEF IInv, AnswerInv
      <3>3. replied' \in Seq(Byte)
        BY <3>2, FaithfulRoundTrip, Zenon
      <3> QED
        BY <3>2, <3>3, Zenon DEF Faithful
    <2> QED
      BY <1>1, <2>1 DEF TypeOK
  <1>2. CASE pc' # "answered"
    <2>1. pc' = "ended" /\ UNCHANGED <<answer, replied>>
      BY <1>2, Zenon DEF Reply
    <2> QED
      BY <2>1 DEF TypeOK
  <1> QED
    BY <1>1, <1>2

\* Every step keeps the types.
LEMMA TypeStep ==
  ASSUME TypeOK, IInv, IInv', [Next]_vars
  PROVE  TypeOK'
PROOF
  <1>1. CASE \E l \in Lines : Type(l)
    <2>1. PICK l \in Lines : Type(l)
      BY <1>1
    <2>2. sent' \in Seq(Byte) /\ pc' \in {"sent", "ended"}
      <3>1. CASE LineIsTaken(l)
        BY <2>1, <3>1, SentIsRequest DEF Type
      <3>2. CASE ~LineIsTaken(l)
        BY <2>1, <3>2 DEF Type, TypeOK
      <3> QED
        BY <3>1, <3>2
    <2> QED
      BY <2>1, <2>2 DEF Type, TypeOK
  <1>2. CASE \E b \in OddFrames : OtherPeerSends(b)
    BY <1>2, InputsAssumption DEF OtherPeerSends, TypeOK
  <1>3. CASE ServerReads
    <2>1. received' \in Seq(Byte)
      BY <1>3, FirstPartIsSlice DEF ServerReads, TypeOK
    <2> QED
      BY <1>3, <2>1 DEF ServerReads, TypeOK
  <1>4. CASE ServerAnswers
    <2>1. /\ Dispatched /\ handled' = Meaning(RequestOf(received))
          /\ UNCHANGED <<line, sent, received, got, shown>>
          /\ \E a : Reply(a)
      BY <1>4 DEF ServerAnswers
    <2>2. /\ RequestOf(received).cmd \in Commands
          /\ RequestOf(received).rid \in 1 .. Word - 1
      <3>1. IsRequest(received) /\ RequestOf(received).rid # 0 /\ received \in Seq(Byte)
        BY <2>1 DEF Dispatched, TypeOK
      <3>2. RequestOf(received).rid \in 0 .. Word - 1
        BY <3>1, RequestFields
      <3> QED
        BY <3>1, <3>2, RequestFields, Powers
    <2>3. handled'.cmd \in Commands /\ handled'.rid \in 1 .. Word - 1
      BY <2>1, <2>2 DEF Meaning
    <2> QED
      BY <2>1, <2>3, ReplyTypes
  <1>5. CASE ServerRefusesPayload \/ ServerRefuses
    <2>1. /\ UNCHANGED <<line, sent, received, handled, got, shown>>
          /\ \E a : Reply(a)
      BY <1>5 DEF ServerRefusesPayload, ServerRefuses
    <2>2. handled' # None => handled'.cmd \in Commands /\ handled'.rid \in 1 .. Word - 1
      BY <2>1 DEF TypeOK
    <2> QED
      BY <2>1, <2>2, ReplyTypes
  <1>6. CASE ClientReads
    <2>1. got' \in Seq(Byte)
      BY <1>6, FirstPartIsSlice DEF ClientReads, TypeOK
    <2> QED
      BY <1>6, <2>1 DEF ClientReads, TypeOK
  <1>7. CASE ClientShows
    <2>1. pc = "got" /\ pc' = "shown" /\ answer' = answer
          /\ UNCHANGED <<line, sent, received, handled, replied, got>>
      BY <1>7 DEF ClientShows
    <2>2. answer.cmd \in Commands \cup {"bad_request"}
      BY <2>1, AnswerTypes
    <2>3. shown' # None => shown' = answer'
      BY DEF IInv, ShownInv
    <2> QED
      BY <2>1, <2>2, <2>3 DEF TypeOK
  <1>8. CASE ClientThrows
    BY <1>8 DEF ClientThrows, TypeOK
  <1>9. CASE UNCHANGED vars
    BY <1>9 DEF vars, TypeOK
  <1> QED
    BY <1>1, <1>2, <1>3, <1>4, <1>5, <1>6, <1>7, <1>8, <1>9 DEF Next

\* Messages are bytes at every step, and a handler is asked for a command of the
\* protocol under an id that is not 0.
THEOREM TypeCorrect == Spec => []TypeOK
PROOF
  <1>1. Init => TypeOK
    BY DEF Init, TypeOK
  <1>2. TypeOK /\ IInv /\ IInv' /\ [Next]_vars => TypeOK'
    BY TypeStep
  <1> QED
    BY <1>1, <1>2, Invariant, PTL DEF Spec

\* The payload a handler has read is the one the encoders write for what it read.
LEMMA PayloadIsCanonical ==
  ASSUME NEW b \in Seq(Byte), IsRequest(b), NEW r, r = RequestOf(b),
         PayloadReads(r), PayloadIsEmpty(r), r.cmd # "get_time",
         NEW h, h = Meaning(r)
  PROVE  r.payload = IF h.cmd = "le_key_load" THEN EncodeKeys(h.keys)
                     ELSE EncodeWordsOf(h.numbers)
PROOF
  <1> DEFINE p == r.payload
  <1>1. r.cmd \in Commands /\ p \in Seq(Byte)
    BY RequestIsCanonical
  <1>2. h.cmd = r.cmd
    BY DEF Meaning
  <1>3. CASE r.cmd = "le_key_load"
    <2>1. h.keys = KeysOf(p)
      BY <1>3 DEF Meaning
    <2>2. IsKeys(p)
      BY <1>3 DEF PayloadReads, WithIds
    <2>3. EncodeKeys(KeysOf(p)) = p
      BY <1>1, <2>2, KeysAreCanonical
    <2> QED
      BY <1>2, <1>3, <2>1, <2>3
  <1>4. CASE r.cmd # "le_key_load"
    <2>1. \E n \in Nat : Len(p) = 4 * n /\ h.numbers = DecodeWords(p, 0, n)
      <3>1. CASE r.cmd = "get_event_list"
        <4>1. Len(p) = 8 /\ h.numbers = DecodeWords(p, 0, 2)
          BY <3>1 DEF PayloadReads, Meaning, WithIds
        <4> QED
          BY <4>1
      <3>2. CASE r.cmd \in WithIds
        <4>1. Len(p) = 4 /\ h.numbers = DecodeWords(p, 0, 1)
          BY <3>2 DEF PayloadReads, Meaning, WithIds
        <4> QED
          BY <4>1
      <3>3. CASE r.cmd \in {"query_spb", "le_key_query_all", "le_key_purge_all"}
        <4>1. Len(p) = 0 /\ h.numbers = << >>
          BY <3>3 DEF PayloadIsEmpty, Meaning, WithIds
        <4>2. DecodeWords(p, 0, 0) = << >>
          BY DEF DecodeWords
        <4>3. Len(p) = 4 * 0 /\ 0 \in Nat
          BY <4>1
        <4> QED
          BY <4>1, <4>2, <4>3, Zenon
      <3> QED
        BY <1>1, <1>4, <3>1, <3>2, <3>3 DEF Commands, WithIds
    <2>2. PICK n \in Nat : Len(p) = 4 * n /\ h.numbers = DecodeWords(p, 0, n)
      BY <2>1
    <2>3. EncodeWordsOf(h.numbers) = p
      BY <1>1, <2>2, WordsAreCanonical, Zenon
    <2> QED
      BY <1>2, <1>4, <2>3
  <1> QED
    BY <1>3, <1>4

\* Whoever wrote them, the bytes a handler acts on are the only ones that ask for
\* what it does.
THEOREM HandledBytesAreCanonical == Spec => []HandledIsCanonical
PROOF
  <1>1. TypeOK /\ WholeInv => HandledIsCanonical
    <2> SUFFICES ASSUME TypeOK, WholeInv, handled # None, handled.cmd # "get_time"
                 PROVE  received = EncodeRequest(
                          [cmd |-> handled.cmd, rid |-> handled.rid,
                           payload |-> IF handled.cmd = "le_key_load"
                                       THEN EncodeKeys(handled.keys)
                                       ELSE EncodeWordsOf(handled.numbers)])
      BY DEF HandledIsCanonical
    <2> DEFINE r == RequestOf(received)
    <2>1. /\ IsRequest(received) /\ PayloadReads(r) /\ PayloadIsEmpty(r)
          /\ handled = Meaning(r)
          /\ received \in Seq(Byte)
      BY DEF WholeInv, HandledInv, Acts, Dispatched, TypeOK
    <2>2. handled.cmd = r.cmd /\ handled.rid = r.rid
      BY <2>1 DEF Meaning
    <2>3. received = EncodeRequest(r)
      BY <2>1, RequestIsCanonical
    <2>4. r.payload = IF handled.cmd = "le_key_load" THEN EncodeKeys(handled.keys)
                      ELSE EncodeWordsOf(handled.numbers)
      BY <2>1, <2>2, PayloadIsCanonical
    <2>5. r = [cmd |-> r.cmd, rid |-> r.rid, payload |-> r.payload]
      BY DEF RequestOf
    <2> HIDE DEF r
    <2> QED
      BY <2>2, <2>3, <2>4, <2>5, Zenon
  <1> QED
    BY <1>1, TypeCorrect, WholeInvariant, PTL

-----------------------------------------------------------------------------
(***************************************************************************)
(* What is shown belongs to what was typed.                                *)
(***************************************************************************)

\* An answer belongs to the request of the line, or is a refusal of what has
\* been read of it.
AskedInv ==
    /\ pc \in {"got", "shown"} => line # None
    /\ (line # None /\ pc \in {"answered", "got", "shown"}) =>
           \/ answer.cmd = line.command /\ answer.rid = 1
           \/ /\ answer = Refusal(received)
              /\ \E n \in 0 .. Len(sent) : received = Slice(sent, 0, n)

\* Every answer of a handler has the command and the id of the request.
LEMMA AnswersKeepTheHeader ==
  ASSUME NEW r, r.cmd \in Commands, NEW a \in HandlerAnswers(r)
  PROVE  a.cmd = r.cmd /\ a.rid = r.rid
PROOF
  <1>1. \E code, says : a = Says(r, code, says)
    <2>1. CASE r.cmd = "get_time"
      BY <2>1 DEF HandlerAnswers
    <2>2. CASE r.cmd = "get_event_list"
      BY <2>2 DEF HandlerAnswers
    <2>3. CASE r.cmd = "get_event_id"
      BY <2>3 DEF HandlerAnswers
    <2>4. CASE r.cmd = "query_spb"
      BY <2>4 DEF HandlerAnswers
    <2>5. CASE r.cmd = "le_key_load"
      BY <2>5 DEF HandlerAnswers
    <2>6. CASE r.cmd \in {"le_key_query_id", "le_key_purge_id"}
      BY <2>6 DEF HandlerAnswers
    <2>7. CASE r.cmd = "le_key_query_all"
      BY <2>7 DEF HandlerAnswers
    <2>8. CASE r.cmd = "le_key_purge_all"
      BY <2>8 DEF HandlerAnswers
    <2> QED
      BY <2>1, <2>2, <2>3, <2>4, <2>5, <2>6, <2>7, <2>8 DEF Commands
  <1> QED
    BY <1>1 DEF Says

\* A request of a line that the responder can decode is all of that request.
LEMMA DecodedIsTyped ==
  ASSUME WholeInv, pc = "read", line # None, IsRequest(received)
  PROVE  RequestOf(received).cmd = line.command /\ RequestOf(received).rid = 1
PROOF
  <1>1. /\ line \in Lines
        /\ LineIsTaken(line)
        /\ sent = EncodeRequest(RequestTyped(line))
    BY DEF WholeInv, LineInv
  <1>2. /\ sent \in Seq(Byte)
        /\ IsRequest(sent)
        /\ RequestOf(sent) = RequestTyped(line)
    BY <1>1, SentIsRequest
  <1>3. PICK n \in 0 .. Len(sent) : received = Slice(sent, 0, n)
    BY DEF WholeInv, PartInv
  <1>4. received = sent
    BY <1>2, <1>3, NoPartIsAFrame, Zenon DEF IsRequest
  <1> QED
    BY <1>2, <1>4 DEF RequestTyped

\* An answer with the header of its request, or a refusal, belongs to the request.
LEMMA ReplyAsked ==
  ASSUME WholeInv, AskedInv, pc = "read", NEW a, Reply(a),
         UNCHANGED <<line, sent, received>>,
         \/ a = Refusal(received)
         \/ /\ IsRequest(received)
            /\ a.cmd = RequestOf(received).cmd /\ a.rid = RequestOf(received).rid
  PROVE  AskedInv'
PROOF
  <1>1. CASE pc' = "answered" /\ line # None
    <2>1. answer' = IF Encodes(a) THEN a ELSE Refusal(received)
      BY <1>1, Zenon DEF Reply
    <2>2. \E n \in 0 .. Len(sent) : received = Slice(sent, 0, n)
      BY <1>1 DEF WholeInv, PartInv
    <2>3. CASE answer' = Refusal(received)
      BY <1>1, <2>2, <2>3 DEF AskedInv, Refusal
    <2>4. CASE answer' # Refusal(received)
      <3>1. answer' = a /\ a # Refusal(received)
        BY <2>1, <2>4
      <3>2. a.cmd = line.command /\ a.rid = 1
        BY <1>1, <3>1, DecodedIsTyped
      <3> QED
        BY <1>1, <3>1, <3>2 DEF AskedInv
    <2> QED
      BY <2>3, <2>4
  <1>2. CASE pc' # "answered" \/ line = None
    <2>1. pc' \in {"answered", "ended"}
      BY DEF Reply
    <2> QED
      BY <1>2, <2>1 DEF AskedInv
  <1> QED
    BY <1>1, <1>2

\* Every step keeps the answer with its request.
LEMMA AskedStep ==
  ASSUME TypeOK, WholeInv, AskedInv, [Next]_vars
  PROVE  AskedInv'
PROOF
  <1>1. CASE \E l \in Lines : Type(l)
    BY <1>1 DEF Type, AskedInv
  <1>2. CASE \E b \in OddFrames : OtherPeerSends(b)
    BY <1>2 DEF OtherPeerSends, AskedInv
  <1>3. CASE ServerReads
    BY <1>3 DEF ServerReads, AskedInv
  <1>4. CASE ServerAnswers
    <2>1. /\ pc = "read" /\ IsRequest(received)
          /\ UNCHANGED <<line, sent, received>>
      BY <1>4 DEF ServerAnswers, Dispatched
    <2>2. RequestOf(received).cmd \in Commands
      BY <2>1, RequestFields DEF TypeOK
    <2>3. CASE \E a \in HandlerAnswers(RequestOf(received)) : Reply(a)
      BY <2>1, <2>2, <2>3, AnswersKeepTheHeader, ReplyAsked
    <2>4. CASE Reply(Refusal(received))
      BY <2>1, <2>4, ReplyAsked
    <2> QED
      BY <1>4, <2>3, <2>4 DEF ServerAnswers
  <1>5. CASE ServerRefusesPayload
    <2>1. /\ pc = "read" /\ IsRequest(received)
          /\ Reply(Says(RequestOf(received), "invalid", << >>))
          /\ UNCHANGED <<line, sent, received>>
      BY <1>5 DEF ServerRefusesPayload, Dispatched
    <2>2. PICK a : a = Says(RequestOf(received), "invalid", << >>)
      OBVIOUS
    <2>3. a.cmd = RequestOf(received).cmd /\ a.rid = RequestOf(received).rid
      BY <2>2 DEF Says
    <2> QED
      BY <2>1, <2>2, <2>3, ReplyAsked
  <1>6. CASE ServerRefuses
    <2>1. /\ pc = "read" /\ Reply(Refusal(received))
          /\ UNCHANGED <<line, sent, received>>
      BY <1>6 DEF ServerRefuses
    <2> QED
      BY <2>1, ReplyAsked
  <1>7. CASE ClientReads
    BY <1>7 DEF ClientReads, AskedInv
  <1>8. CASE ClientShows
    BY <1>8 DEF ClientShows, AskedInv
  <1>9. CASE ClientThrows
    BY <1>9 DEF ClientThrows, AskedInv
  <1>10. CASE UNCHANGED vars
    BY <1>10 DEF vars, AskedInv
  <1> QED
    BY <1>1, <1>2, <1>3, <1>4, <1>5, <1>6, <1>7, <1>8, <1>9, <1>10 DEF Next

\* What is shown answers the command typed, or is a copy of what the responder
\* has read of the request.
THEOREM AskedIsShown == Spec => []ShownIsAsked
PROOF
  <1>1. Init => AskedInv
    BY DEF Init, AskedInv
  <1>2. TypeOK /\ WholeInv /\ AskedInv /\ [Next]_vars => AskedInv'
    BY AskedStep
  <1>3. TypeOK /\ IInv /\ AskedInv => ShownIsAsked
    <2> SUFFICES ASSUME TypeOK, IInv, AskedInv, shown # None,
                        ~(shown.cmd = line.command /\ shown.rid = 1)
                 PROVE  /\ shown.cmd = "bad_request" /\ shown.rid = NoId
                        /\ shown.says = SubSeq(sent, 1, Len(shown.says))
      BY DEF ShownIsAsked
    <2>1. pc = "shown" /\ shown = answer
      BY DEF IInv, ShownInv
    <2>2. PICK n \in 0 .. Len(sent) :
             answer = Refusal(received) /\ received = Slice(sent, 0, n)
      BY <2>1 DEF AskedInv
    <2>3. shown.cmd = "bad_request" /\ shown.rid = NoId /\ shown.says = received
      BY <2>1, <2>2 DEF Refusal
    <2>4. sent \in Seq(Byte) /\ Len(sent) \in Nat
      BY LenProperties DEF TypeOK
    <2>5. n \in Nat /\ n <= Len(sent)
      BY <2>4
    <2>6. SubSeq(sent, 1, n) = [i \in 1 .. n |-> sent[i]]
      BY <2>4, <2>5
    <2>7. received = [i \in 1 .. n |-> sent[i]]
      BY <2>2, <2>5 DEF Slice
    <2>8. Len(received) = n
      BY <2>5, <2>7
    <2> QED
      BY <2>3, <2>6, <2>7, <2>8
  <1> QED
    BY <1>1, <1>2, <1>3, TypeCorrect, Invariant, WholeInvariant, PTL DEF Spec

-----------------------------------------------------------------------------
(***************************************************************************)
(* The fields of AsmMessages.                                              *)
(***************************************************************************)

\* Four bytes of a payload are the same four bytes of its frame.
LEMMA PayloadWord ==
  ASSUME NEW b, NEW n \in Nat, NEW p, p = Slice(b, 24, n),
         NEW o \in Nat, o + 4 <= n, NEW q, q = 24 + o
  PROVE  DecodeU32(p, o) = DecodeU32(b, q)
PROOF
  <1>1. /\ p[o + 1] = b[24 + (o + 1)] /\ p[o + 2] = b[24 + (o + 2)]
        /\ p[o + 3] = b[24 + (o + 3)] /\ p[o + 4] = b[24 + (o + 4)]
    BY DEF Slice
  <1>2. /\ 24 + (o + 1) = q + 1 /\ 24 + (o + 2) = q + 2
        /\ 24 + (o + 3) = q + 3 /\ 24 + (o + 4) = q + 4
    OBVIOUS
  <1> QED
    BY <1>1, <1>2, Zenon DEF DecodeU32

\* By fields and by bytes, the same frames are packets and requests.
LEMMA FieldsOfFrame ==
  ASSUME NEW b \in Seq(Byte), NEW f, f = Fields(b)
  PROVE  /\ f.size = Len(b)
         /\ KlvDecodes(f) <=> IsKlv(b)
         /\ RequestDecodes(f) <=> IsRequest(b)
         /\ IsKlv(b) => f.length = KlvLength(b)
         /\ IsRequest(b) => f.ul = DescribeUl(KlvUl(b))
PROOF
  <1>1. Len(b) \in Nat
    BY LenProperties
  <1> DEFINE has == Len(b) >= HeaderSize + 0
  <1>2. /\ f.size = Len(b)
        /\ f.ul = IF has /\ IsUl(KlvUl(b)) THEN DescribeUl(KlvUl(b))
                  ELSE [cmd |-> "other", resp |-> FALSE]
        /\ f.ber = (has /\ b[17] = LongForm)
        /\ f.length = IF has THEN KlvLength(b) ELSE 0
    BY Zenon DEF Fields
  <1>3. has <=> Len(b) >= HeaderSize
    BY <1>1 DEF HeaderSize
  <1> HIDE DEF has
  <1>4. KlvDecodes(f) <=> IsKlv(b)
    <2>1. f.ber <=> (has /\ b[17] = LongForm)
      BY <1>2
    <2>2. CASE has
      <3>1. f.length = KlvLength(b) /\ Len(b) >= HeaderSize
        BY <1>2, <1>3, <2>2
      <3> QED
        BY <1>2, <2>1, <2>2, <3>1, Zenon DEF KlvDecodes, IsKlv
    <2>3. CASE ~has
      BY <1>3, <2>1, <2>3, Zenon DEF KlvDecodes, IsKlv
    <2> QED
      BY <2>2, <2>3
  <1>5. IsKlv(b) => has /\ f.length = KlvLength(b)
    BY <1>2, <1>3 DEF IsKlv
  <1>6. ASSUME IsKlv(b) PROVE f.ul \in UlMap <=> IsUl(KlvUl(b))
    <2>1. CASE IsUl(KlvUl(b))
      BY <1>2, <1>5, <1>6, <2>1 DEF IsUl, DescribeUl
    <2>2. CASE ~IsUl(KlvUl(b))
      <3>1. f.ul = [cmd |-> "other", resp |-> FALSE]
        BY <1>2, <2>2
      <3> QED
        BY <2>2, <3>1 DEF UlMap, Commands
    <2> QED
      BY <2>1, <2>2
  <1>7. IsKlv(b) /\ IsUl(KlvUl(b)) => f.ul = DescribeUl(KlvUl(b))
    BY <1>2, <1>5
  <1>8. RequestDecodes(f) <=> IsRequest(b)
    BY <1>4, <1>5, <1>6, <1>7 DEF RequestDecodes, IsRequest
  <1> QED
    BY <1>2, <1>4, <1>5, <1>7, <1>8 DEF IsRequest

\* By fields and by bytes, the same payloads decode in the handlers.
LEMMA FieldsOfRequest ==
  ASSUME NEW b \in Seq(Byte), IsRequest(b), NEW f, f = Fields(b),
         NEW r, r = RequestOf(b)
  PROVE  PayloadDecodes(f) <=> PayloadReads(r)
PROOF
  <1> DEFINE p == r.payload
             n == Len(p)
  <1>1. /\ r.cmd \in Commands
        /\ p \in Seq(Byte)
        /\ n = Len(b) - 24
        /\ KlvLength(b) = 4 + n
    BY RequestIsCanonical
  <1>2. Len(b) \in Nat /\ n \in Nat
    BY <1>1, LenProperties
  <1>3. f.ul.cmd = r.cmd /\ f.length = 4 + n
    BY <1>1, FieldsOfFrame DEF IsRequest, RequestOf
  <1>4. PayloadSize(f) = n
    BY <1>2, <1>3 DEF PayloadSize
  <1>5. p = Slice(b, 24, n)
    <2>1. HeaderSize + 4 = 24 /\ Len(b) - HeaderSize - 4 = n
      BY <1>1, <1>2 DEF HeaderSize
    <2> QED
      BY <2>1 DEF RequestOf
  <1>6. n >= 8 => f.count = DecodeU32(p, 0) /\ f.item = DecodeU32(p, 4)
    <2> SUFFICES ASSUME n >= 8
                 PROVE  f.count = DecodeU32(p, 0) /\ f.item = DecodeU32(p, 4)
      OBVIOUS
    <2>1. Len(b) >= HeaderSize + 12 /\ HeaderSize + 4 = 24 /\ HeaderSize + 8 = 28
      BY <1>1, <1>2 DEF HeaderSize
    <2>2. /\ f.count = IF Len(b) >= HeaderSize + 12
                       THEN DecodeU32(b, HeaderSize + 4) ELSE 0
          /\ f.item = IF Len(b) >= HeaderSize + 12
                      THEN DecodeU32(b, HeaderSize + 8) ELSE 0
      BY Zenon DEF Fields
    <2>3. f.count = DecodeU32(b, 24) /\ f.item = DecodeU32(b, 28)
      BY <2>1, <2>2
    <2> HIDE DEF p, n
    <2>4. DecodeU32(p, 0) = DecodeU32(b, 24)
      BY <1>2, <1>5, PayloadWord
    <2>5. DecodeU32(p, 4) = DecodeU32(b, 28)
      BY <1>2, <1>5, PayloadWord
    <2> QED
      BY <2>3, <2>4, <2>5
  <1>7. LoadDecodes(f) <=> IsKeys(p)
    <2>1. n >= 8 => DecodeU32(p, 0) \in 0 .. Word - 1
      <3> SUFFICES ASSUME n >= 8 PROVE DecodeU32(p, 0) \in 0 .. Word - 1
        OBVIOUS
      <3>1. \A i \in 1 .. 4 : 0 + i \in 1 .. Len(p)
        BY <1>2
      <3>2. \A i \in 1 .. 4 : p[0 + i] \in Byte
        BY <1>1, <3>1, ElementOfSeq
      <3> QED
        BY <3>2, DecodedIsWord
    <2> DEFINE c == DecodeU32(p, 0)
    <2>2. n >= 8 => c \in Nat
      BY <2>1, Powers
    <2> HIDE DEF c, p
    <2>3. IsKeys(p) <=> n >= 8 /\ DecodeU32(p, 4) = 32 /\ n = 8 + c * 32
      BY DEF IsKeys, c
    <2>4. LoadDecodes(f) <=> n >= 8 /\ f.item = 32 /\ n = 8 + 32 * f.count
      BY <1>4, Zenon DEF LoadDecodes
    <2> HIDE DEF n
    <2>5. n >= 8 => f.count = c /\ f.item = DecodeU32(p, 4)
      BY <1>6 DEF c
    <2> QED
      BY <2>2, <2>3, <2>4, <2>5
  <1> HIDE DEF p, n
  <1>8. PayloadReads(r) <=> CASE r.cmd = "get_event_list" -> n = 8
                              [] r.cmd \in WithIds -> n = 4
                              [] r.cmd = "le_key_load" -> IsKeys(p)
                              [] OTHER -> TRUE
    BY DEF PayloadReads, p, n
  <1>9. PayloadDecodes(f) <=> CASE r.cmd = "le_key_load" -> LoadDecodes(f)
                                [] r.cmd = "get_event_list" -> n = 8
                                [] r.cmd \in WithIds -> n = 4
                                [] OTHER -> TRUE
    BY <1>3, <1>4 DEF PayloadDecodes, WithIds
  <1> QED
    BY <1>7, <1>8, <1>9 DEF WithIds

\* The batch of an answer is a batch of encode_u32_batch, or there is none.
Framed(a) ==
    a.cmd \in {"get_event_list", "le_key_query_all"} =>
        Len(Body(a)) = 0 \/ IsBatch(Body(a))

\* Every answer of a handler is empty or a batch where a list is expected.
LEMMA AnswersAreFramed ==
  ASSUME NEW r, r.cmd \in Commands, NEW a \in HandlerAnswers(r)
  PROVE  Framed(a)
PROOF
  <1>1. a.cmd = r.cmd
    BY AnswersKeepTheHeader
  <1>2. CASE r.cmd \in {"get_event_list", "le_key_query_all"}
    <2>1. CASE a = Says(r, "invalid", << >>)
      <3>1. a.cmd = r.cmd /\ a.code = "invalid"
        BY <2>1 DEF Says
      <3>2. a.cmd # "bad_request"
        BY <1>2, <3>1
      <3>3. Body(a) = << >>
        BY <3>1, <3>2 DEF Body
      <3> QED
        BY <3>3 DEF Framed
    <2>2. CASE a # Says(r, "invalid", << >>)
      <3>1. PICK ids \in IdLists : a = Says(r, "successful", ids)
        BY <1>2, <2>2 DEF HandlerAnswers
      <3>2. IsBatch(EncodeBatch(ids))
        BY LookupsAssumption, BatchRoundTrip
      <3>3. Body(a) = EncodeBatch(ids)
        BY <1>2, <3>1 DEF Body, Says
      <3> QED
        BY <3>2, <3>3 DEF Framed
    <2> QED
      BY <2>1, <2>2
  <1>3. CASE r.cmd \notin {"get_event_list", "le_key_query_all"}
    BY <1>1, <1>3 DEF Framed
  <1> QED
    BY <1>2, <1>3

\* The size of an answer, and whether the initiator can read it.
LEMMA FieldsOfResponse ==
  ASSUME NEW a, Faithful(a), Encodes(a), Framed(a),
         NEW r, r = StandardResponse(a),
         NEW b, b = EncodeResponse(r),
         NEW m, m = [r EXCEPT !.payload = [size |-> Len(r.payload)]]
  PROVE  /\ Len(b) = ResponseSize(m)
         /\ Len(b) <= ReadBuffer =>
               (InitiatorDecodes(m) <=> Readable(ResponseOf(b)))
PROOF
  <1>1. b \in Seq(Byte) /\ IsResponse(b) /\ ResponseOf(b) = r
    BY FaithfulRoundTrip, Zenon
  <1>2. /\ r = [cmd |-> a.cmd, rid |-> a.rid, payload |-> Body(a), code |-> a.code]
        /\ a.cmd \in Commands \cup {"bad_request"}
        /\ Body(a) \in Seq(Byte)
    BY DEF StandardResponse, Faithful
  <1> DEFINE p == r.payload
             n == Len(p)
             id == IF r.cmd = "bad_request" THEN 0 ELSE 4
  <1>3. r.cmd = a.cmd /\ p = Body(a) /\ n \in Nat
    BY <1>2, LenProperties
  <1>4. m.cmd = r.cmd /\ m.payload.size = n
    BY <1>2
  <1>5. n = Len(b) - 20 - id - 1 /\ Len(b) \in Nat
    <2>1. r.cmd = DescribeUl(KlvUl(b)).cmd
      BY <1>1 DEF ResponseOf
    <2>2. p = Slice(b, 20 + id, Len(b) - 20 - id - 1)
      BY <1>1, <2>1 DEF ResponseOf, HeaderSize
    <2>3. /\ Len(b) \in Nat /\ Len(b) >= 20
          /\ Len(b) = 20 + KlvLength(b)
          /\ KlvLength(b) >= 1 + id
      BY <1>1, <2>1, LenProperties DEF IsResponse, IsKlv, HeaderSize
    <2>4. KlvLength(b) \in Nat
      BY <1>1, <2>3, KlvLengthIsNumber
    <2> HIDE DEF p
    <2>5. id \in {0, 4}
      OBVIOUS
    <2> HIDE DEF id
    <2>6. PICK k \in Nat : k = Len(b) - 20 - id - 1
      BY <2>3, <2>4, <2>5
    <2>7. p = [i \in 1 .. k |-> b[20 + id + i]]
      BY <2>2, <2>6 DEF Slice
    <2>8. Len(p) = k
      BY <2>7
    <2> QED
      BY <2>3, <2>6, <2>8
  <1> HIDE DEF n, p
  <1>6. Len(b) = ResponseSize(m)
    BY <1>3, <1>4, <1>5 DEF ResponseSize, HeaderSize
  <1>7. ASSUME Len(b) <= ReadBuffer
        PROVE  InitiatorDecodes(m) <=> Readable(r)
    <2>1. ResponseSize(m) <= ReadBuffer
      BY <1>6, <1>7
    <2>2. p = r.payload /\ n = Len(p)
      BY DEF p, n
    <2>3. CASE r.cmd = "get_time"
      BY <1>4, <2>1, <2>2, <2>3 DEF InitiatorDecodes, Readable, Flags
    <2>4. CASE r.cmd = "query_spb"
      BY <1>4, <2>1, <2>2, <2>4 DEF InitiatorDecodes, Readable, Flags
    <2>5. CASE r.cmd \in {"get_event_list", "le_key_query_all"}
      <3>1. n = 0 \/ IsBatch(p)
        BY <1>3, <2>5 DEF Framed, n
      <3>2. IsBatch(p) => n >= 8
        BY <2>2 DEF IsBatch
      <3>3. InitiatorDecodes(m) <=> n >= 8
        BY <1>4, <2>1, <2>5 DEF InitiatorDecodes
      <3>4. Readable(r) <=> IsBatch(p)
        BY <2>2, <2>5 DEF Readable, Flags
      <3> QED
        BY <3>1, <3>2, <3>3, <3>4
    <2>6. CASE r.cmd \in Flags
      BY <1>4, <2>1, <2>2, <2>6 DEF InitiatorDecodes, Readable, Flags
    <2>7. CASE r.cmd \in {"get_event_id", "le_key_purge_all", "bad_request"}
      BY <1>4, <2>1, <2>2, <2>7 DEF InitiatorDecodes, Readable, Flags
    <2> QED
      BY <1>2, <1>3, <2>3, <2>4, <2>5, <2>6, <2>7 DEF Commands, Flags
  <1> QED
    BY <1>1, <1>6, <1>7

\* So is the answer that was written.
FramedInv == pc = "answered" => Framed(answer)

\* Every step keeps that.
LEMMA FramedStep ==
  ASSUME TypeOK, FramedInv, [Next]_vars
  PROVE  FramedInv'
PROOF
  <1>1. ASSUME NEW a, Reply(a), Framed(a) PROVE FramedInv'
    <2>1. CASE pc' = "answered"
      <3>1. answer' = IF Encodes(a) THEN a ELSE Refusal(received)
        BY <1>1, <2>1, Zenon DEF Reply
      <3>2. Framed(Refusal(received))
        BY DEF Framed, Refusal
      <3>3. Framed(answer')
        BY <1>1, <3>1, <3>2
      <3> QED
        BY <3>3 DEF FramedInv, Framed, Body
    <2>2. CASE pc' # "answered"
      BY <2>2 DEF FramedInv
    <2> QED
      BY <2>1, <2>2
  <1>2. Framed(Refusal(received))
    BY DEF Framed, Refusal
  <1>3. CASE \E l \in Lines : Type(l)
    BY <1>3 DEF Type, FramedInv
  <1>4. CASE \E b \in OddFrames : OtherPeerSends(b)
    BY <1>4 DEF OtherPeerSends, FramedInv
  <1>5. CASE ServerReads
    BY <1>5 DEF ServerReads, FramedInv
  <1>6. CASE ServerAnswers
    <2>1. RequestOf(received).cmd \in Commands
      BY <1>6, RequestFields DEF ServerAnswers, Dispatched, TypeOK
    <2>2. PICK a : Reply(a) /\ (a = Refusal(received)
                                 \/ a \in HandlerAnswers(RequestOf(received)))
      BY <1>6 DEF ServerAnswers
    <2> QED
      BY <1>1, <1>2, <2>1, <2>2, AnswersAreFramed
  <1>7. CASE ServerRefusesPayload
    <2>1. PICK a : Reply(a) /\ a = Says(RequestOf(received), "invalid", << >>)
      BY <1>7 DEF ServerRefusesPayload
    <2>2. a.code = "invalid" /\ a.says = << >>
      BY <2>1 DEF Says
    <2>3. Framed(a)
      <3>1. a.cmd \in {"get_event_list", "le_key_query_all"} => Body(a) = << >>
        BY <2>2 DEF Body
      <3> QED
        BY <3>1 DEF Framed
    <2> QED
      BY <1>1, <2>1, <2>3
  <1>8. CASE ServerRefuses
    BY <1>1, <1>2, <1>8 DEF ServerRefuses
  <1>9. CASE ClientReads
    BY <1>9 DEF ClientReads, FramedInv
  <1>10. CASE ClientShows
    BY <1>10 DEF ClientShows, FramedInv
  <1>11. CASE ClientThrows
    BY <1>11 DEF ClientThrows, FramedInv
  <1>12. CASE UNCHANGED vars
    BY <1>12 DEF vars, FramedInv, Framed, Body
  <1> QED
    BY <1>3, <1>4, <1>5, <1>6, <1>7, <1>8, <1>9, <1>10, <1>11, <1>12 DEF Next

\* The decoders take the bytes of a message exactly when AsmMessages says so of
\* its fields: the frames AsmService works on are these bytes.
THEOREM FieldsAreBytes == Spec => []FieldsAgree
PROOF
  <1>1. Init => FramedInv
    BY DEF Init, FramedInv
  <1>2. TypeOK /\ FramedInv /\ [Next]_vars => FramedInv'
    BY FramedStep
  <1>3. TypeOK /\ IInv /\ FramedInv => FieldsAgree
    <2> SUFFICES ASSUME TypeOK, IInv, FramedInv PROVE FieldsAgree
      OBVIOUS
    <2>1. ASSUME NEW f, f = Fields(received)
          PROVE  /\ KlvDecodes(f) <=> IsKlv(received)
                 /\ RequestDecodes(f) <=> IsRequest(received)
                 /\ IsRequest(received) =>
                       (PayloadDecodes(f) <=> PayloadReads(RequestOf(received)))
      <3>1. received \in Seq(Byte)
        BY DEF TypeOK
      <3> QED
        BY <2>1, <3>1, FieldsOfFrame, FieldsOfRequest
    <2>2. ASSUME pc = "answered", NEW r, r = StandardResponse(answer),
                 NEW m, m = [r EXCEPT !.payload = [size |-> Len(r.payload)]]
          PROVE  /\ Len(replied) = ResponseSize(m)
                 /\ Len(replied) <= ReadBuffer =>
                       (InitiatorDecodes(m) <=> Readable(ResponseOf(replied)))
      <3>1. Faithful(answer) /\ Encodes(answer) /\ Framed(answer)
            /\ replied = EncodeResponse(r)
        BY <2>2 DEF IInv, AnswerInv, FramedInv
      <3> QED
        BY <2>2, <3>1, FieldsOfResponse, Zenon
    <2> QED
      BY <2>1, <2>2, Zenon DEF FieldsAgree
  <1> QED
    BY <1>1, <1>2, <1>3, TypeCorrect, Invariant, PTL DEF Spec
=============================================================================
