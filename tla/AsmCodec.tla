------------------------------ MODULE AsmCodec ------------------------------
(***************************************************************************)
(* Requests and responses byte by byte: the integers and the packets of    *)
(* src/asm/codec.cpp, the frame of src/klv/klv.cpp and the payload codecs  *)
(* of le_key.cpp, event_log.cpp and query_spb.cpp.                         *)
(*                                                                         *)
(* A decoder of the code returns or throws. Here it is a predicate, TRUE   *)
(* when it returns (IsKlv, IsRequest, IsBatch...), and an operator for     *)
(* what it then returns. Byte strings are sequences; offsets count from 0, *)
(* as in the code.                                                         *)
(*                                                                         *)
(* Sizes are the real ones. What a byte holds is a parameter, two digits   *)
(* of a base: 16 in the code, less where TLC must count up to Word * Word. *)
(***************************************************************************)
EXTENDS AsmMessages

CONSTANTS
    Digit,          \* the values of a hexadecimal digit
    LongForm,       \* 0x83, the first byte of a length field
    Ul              \* kUlMap: the label of each command and direction

Base == Digit * Digit           \* the values of a byte
Base2 == Base * Base
Base3 == Base2 * Base           \* the lengths a length field can state
Word == Base3 * Base            \* the values of std::uint32_t
Byte == 0 .. Base - 1
Label == [1 .. 16 -> Byte]

ASSUME DigitAssumption == Digit \in Nat /\ Digit >= 2
ASSUME LongFormAssumption == LongForm \in Byte
ASSUME UlAssumption ==
    /\ Ul \in [UlMap -> Label]
    /\ \A u, v \in UlMap : Ul[u] = Ul[v] => u = v

\* bytes.subspan(from, n)
Slice(b, from, n) == [i \in 1 .. n |-> b[from + i]]

-----------------------------------------------------------------------------
(***************************************************************************)
(* Integers, the highest byte first.                                       *)
(***************************************************************************)

\* append_be_u32
EncodeU32(v) ==
    << (v \div Base3) % Base, (v \div Base2) % Base, (v \div Base) % Base,
       v % Base >>

\* decode_be_u32, where four bytes are left
DecodeU32(b, o) ==
    b[o + 1] * Base3 + b[o + 2] * Base2 + b[o + 3] * Base + b[o + 4]

\* append_be_u64 and decode_be_u64
EncodeU64(v) == EncodeU32(v \div Word) \o EncodeU32(v % Word)
DecodeU64(b, o) == DecodeU32(b, o) * Word + DecodeU32(b, o + 4)

\* A run of append_be_u32 calls, and the numbers it wrote.
EncodeWordsOf(ws) ==
    [i \in 1 .. 4 * Len(ws) |->
        EncodeU32(ws[(i - 1) \div 4 + 1])[((i - 1) % 4) + 1]]
DecodeWords(b, o, n) == [i \in 1 .. n |-> DecodeU32(b, o + 4 * (i - 1))]

-----------------------------------------------------------------------------
(***************************************************************************)
(* The KLV frame.                                                          *)
(***************************************************************************)

\* Klv::encode_ber_length and Klv::encode; they throw from Base3 bytes on.
Klv(ul, value) ==
    ul \o << LongForm, (Len(value) \div Base2) % Base,
             (Len(value) \div Base) % Base, Len(value) % Base >> \o value

\* Klv::decode_ber_length
KlvLength(b) == b[18] * Base2 + b[19] * Base + b[20]

\* Mutant of IsKlv: the first byte of the length field is not looked at.
IsKlvOfAnyForm(b) ==
    /\ Len(b) >= HeaderSize
    /\ Len(b) = HeaderSize + KlvLength(b)

\* Klv::decode returns.
IsKlv(b) ==
    /\ Len(b) >= HeaderSize
    /\ b[17] = LongForm
    /\ Len(b) = HeaderSize + KlvLength(b)

KlvUl(b) == Slice(b, 0, 16)
KlvValue(b) == Slice(b, HeaderSize, Len(b) - HeaderSize)

\* Codec::describe_ul returns, and what it returns.
IsUl(ul) == \E u \in UlMap : Ul[u] = ul
DescribeUl(ul) == CHOOSE u \in UlMap : Ul[u] = ul

-----------------------------------------------------------------------------
(***************************************************************************)
(* StandardRequest: [cmd, rid, payload].                                   *)
(***************************************************************************)

\* Klv::encode(Codec::encode_request(request))
EncodeRequest(r) ==
    Klv(Ul[[cmd |-> r.cmd, resp |-> FALSE]], EncodeU32(r.rid) \o r.payload)

\* Mutant of IsRequest: a request that is an id alone is refused.
IsRequestWithPayload(b) ==
    /\ IsKlv(b)
    /\ IsUl(KlvUl(b))
    /\ ~DescribeUl(KlvUl(b)).resp
    /\ KlvLength(b) > 4

\* Klv::decode and Codec::decode_request return, and what they return.
IsRequest(b) ==
    /\ IsKlv(b)
    /\ IsUl(KlvUl(b))
    /\ ~DescribeUl(KlvUl(b)).resp
    /\ KlvLength(b) >= 4

RequestOf(b) ==
    [cmd |-> DescribeUl(KlvUl(b)).cmd,
     rid |-> DecodeU32(b, HeaderSize),
     payload |-> Slice(b, HeaderSize + 4, Len(b) - HeaderSize - 4)]

-----------------------------------------------------------------------------
(***************************************************************************)
(* StandardResponse: [cmd, rid, payload, code]. BadRequest has no id.      *)
(***************************************************************************)
Codes == << "successful", "failed", "invalid", "busy" >>
NoId == -1

CodeByte(code) == (CHOOSE i \in DOMAIN Codes : Codes[i] = code) - 1

\* Mutant of EncodeResponse: BadRequest gets the id 0.
EncodeResponseWithId(r) ==
    Klv(Ul[[cmd |-> r.cmd, resp |-> TRUE]],
        EncodeU32(IF r.rid = NoId THEN 0 ELSE r.rid)
            \o r.payload \o << CodeByte(r.code) >>)

\* Klv::encode(Codec::encode_response(response))
EncodeResponse(r) ==
    Klv(Ul[[cmd |-> r.cmd, resp |-> TRUE]],
        (IF r.cmd = "bad_request" THEN << >> ELSE EncodeU32(r.rid))
            \o r.payload \o << CodeByte(r.code) >>)

\* Klv::decode and Codec::decode_response return, and what they return.
IsResponse(b) ==
    /\ IsKlv(b)
    /\ IsUl(KlvUl(b))
    /\ DescribeUl(KlvUl(b)).resp
    /\ KlvLength(b) >= 1
    /\ b[Len(b)] \in 0 .. Len(Codes) - 1
    /\ DescribeUl(KlvUl(b)).cmd # "bad_request" => KlvLength(b) >= 5

\* Mutant of ResponseOf: the response code stays at the end of the payload.
ResponseWithCode(b) ==
    LET cmd == DescribeUl(KlvUl(b)).cmd
        id == IF cmd = "bad_request" THEN 0 ELSE 4
    IN  [cmd |-> cmd,
         rid |-> IF id = 0 THEN NoId ELSE DecodeU32(b, HeaderSize),
         payload |-> Slice(b, HeaderSize + id, Len(b) - HeaderSize - id),
         code |-> Codes[b[Len(b)] + 1]]

ResponseOf(b) ==
    LET cmd == DescribeUl(KlvUl(b)).cmd
        id == IF cmd = "bad_request" THEN 0 ELSE 4
    IN  [cmd |-> cmd,
         rid |-> IF id = 0 THEN NoId ELSE DecodeU32(b, HeaderSize),
         payload |-> Slice(b, HeaderSize + id, Len(b) - HeaderSize - id - 1),
         code |-> Codes[b[Len(b)] + 1]]

-----------------------------------------------------------------------------
(***************************************************************************)
(* Payloads: batches of numbers and of key records.                        *)
(***************************************************************************)

\* encode_u32_batch, of event ids and of key ids
EncodeBatch(ids) == EncodeU32(Len(ids)) \o EncodeU32(4) \o EncodeWordsOf(ids)

\* decode_u32_batch returns, and what it returns.
IsBatch(p) ==
    /\ Len(p) >= 8
    /\ DecodeU32(p, 4) = 4
    /\ Len(p) = 8 + DecodeU32(p, 0) * 4
BatchIds(p) == DecodeWords(p, 8, DecodeU32(p, 0))

LeKeyRecord == [key_id : 0 .. Word - 1, key : [1 .. 16 -> Byte],
                expire_time : 0 .. Word - 1, attribute_data : 0 .. Word * Word - 1]

\* append_record: 32 bytes
EncodeRecord(k) ==
    EncodeU32(k.key_id) \o k.key \o EncodeU32(k.expire_time)
        \o EncodeU64(k.attribute_data)

\* Mutant of DecodeRecord: the key is read where expire_time ends.
DecodeRecordShifted(b, o) ==
    [key_id |-> DecodeU32(b, o), key |-> Slice(b, o + 8, 16),
     expire_time |-> DecodeU32(b, o + 4), attribute_data |-> DecodeU64(b, o + 24)]

\* decode_record
DecodeRecord(b, o) ==
    [key_id |-> DecodeU32(b, o), key |-> Slice(b, o + 4, 16),
     expire_time |-> DecodeU32(b, o + 20), attribute_data |-> DecodeU64(b, o + 24)]

\* encode_load_request
EncodeKeys(ks) ==
    EncodeU32(Len(ks)) \o EncodeU32(32)
        \o [i \in 1 .. 32 * Len(ks) |->
               EncodeRecord(ks[(i - 1) \div 32 + 1])[((i - 1) % 32) + 1]]

\* decode_load_request returns, and what it returns.
IsKeys(p) ==
    /\ Len(p) >= 8
    /\ DecodeU32(p, 4) = 32
    /\ Len(p) = 8 + DecodeU32(p, 0) * 32
KeysOf(p) == [i \in 1 .. DecodeU32(p, 0) |-> DecodeRecord(p, 8 + 32 * (i - 1))]
=============================================================================
