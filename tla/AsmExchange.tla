----------------------------- MODULE AsmExchange -----------------------------
(***************************************************************************)
(* One exchange, byte by byte: what the operator types is built into a     *)
(* request by the initiator (asm_initiator.cpp), written, read in one      *)
(* piece by the responder (tls_server.cpp:130-153), handled, answered,     *)
(* read in one piece by the initiator (tls_client.cpp:81-89) and shown.    *)
(* Between the two ends, one SSL_read gives any first part of what was     *)
(* written, as TLS records and the read buffer cut it.                     *)
(*                                                                         *)
(* What the handlers do to the keys is the subject of AsmService; here an  *)
(* answer is any the handler of the command can give. Another peer with a  *)
(* certificate may send any of OddFrames.                                  *)
(***************************************************************************)
EXTENDS AsmCodec

CONSTANTS
    Lines,          \* command lines: [command, numbers, hex]
    OddFrames,      \* what peers other than the initiator write
    Times, IdLists, Records, Statuses,  \* what the handlers look up
    None

VARIABLES
    pc,             \* how far the exchange has come
    line,           \* the command line, None for another peer
    sent,           \* the bytes written to the responder
    received,       \* the bytes it read
    handled,        \* what its handler was asked, None when it refused
    answer,         \* what the responder says: [cmd, rid, code, says]
    replied,        \* the bytes it wrote
    got,            \* the bytes the initiator read
    shown           \* what the initiator shows of them

vars == <<pc, line, sent, received, handled, answer, replied, got, shown>>

\* ByteBuffer of read_one_message, filled by one SSL_read
FirstPart(b) ==
    {Slice(b, 0, n) : n \in 1 .. IF Len(b) < ReadBuffer THEN Len(b) ELSE ReadBuffer}

-----------------------------------------------------------------------------
(***************************************************************************)
(* The initiator builds a request. A number on the command line is         *)
(* [text, n]: text when stoul finds no number. A hexadecimal text is a     *)
(* sequence of digits and of the characters below.                         *)
(***************************************************************************)
Blank == -1             \* white space or a plus sign, which stoul skips
Minus == -2
Letter == -3            \* anything else, the x of a 0x included

ASSUME InputsAssumption ==
    /\ \A l \in Lines :
          /\ l.numbers \in Seq([text : BOOLEAN, n : Int])
          /\ l.hex \in Seq({Blank, Minus, Letter} \cup 0 .. Digit - 1)
    /\ \A b \in OddFrames : b \in Seq(Byte)

ASSUME NoneAssumption ==
    None \notin [cmd : Commands, rid : 0 .. Word - 1,
                 numbers : Seq(0 .. Word - 1), keys : Seq(LeKeyRecord)]

\* What the handlers look up has the types of the code.
ASSUME LookupsAssumption ==
    /\ Times \subseteq 0 .. Word * Word - 1
    /\ \A ids \in IdLists : ids \in Seq(0 .. Word - 1) /\ Len(ids) < Word
    /\ \A x \in Records : x \in Seq(Byte)
    /\ Statuses \subseteq Byte

IsDigit(c) == c >= 0

\* parse_key_hex: stoul takes the pair, which it reads up to the first
\* character that is no digit; a minus sign negates.
PairParses(c, d) == IsDigit(c) \/ (c \in {Blank, Minus} /\ IsDigit(d))

\* Mutant of PairValue: a negated digit is not cut to a byte.
PairValueSigned(c, d) ==
    CASE IsDigit(c) /\ IsDigit(d) -> c * Digit + d
      [] IsDigit(c) /\ ~IsDigit(d) -> c
      [] c = Blank -> d
      [] OTHER -> -d

PairValue(c, d) ==
    CASE IsDigit(c) /\ IsDigit(d) -> c * Digit + d
      [] IsDigit(c) /\ ~IsDigit(d) -> c
      [] c = Blank -> d
      [] OTHER -> (-d) % Base

HexParses(hex) ==
    /\ Len(hex) = 32
    /\ \A i \in 1 .. 16 : PairParses(hex[2 * i - 1], hex[2 * i])
KeyOf(hex) == [i \in 1 .. 16 |-> PairValue(hex[2 * i - 1], hex[2 * i])]

\* std::stoul and std::stoull of a 64-bit build; a minus sign negates.
Stoul(a) == a.n % (Word * Word)
StoulReturns(a) == ~a.text /\ a.n < Word * Word /\ -a.n < Word * Word

\* command_argc, without the key: main returns 1 on another number of arguments.
NumbersOf(cmd) ==
    CASE cmd \in {"get_event_id", "le_key_query_id", "le_key_purge_id"} -> 1
      [] cmd = "get_event_list" -> 2
      [] cmd = "le_key_load" -> 3
      [] OTHER -> 0

\* main gets as far as TlsClient::send_request.
LineIsTaken(l) ==
    /\ l.command \in Commands
    /\ Len(l.numbers) = NumbersOf(l.command)
    /\ \A i \in DOMAIN l.numbers : StoulReturns(l.numbers[i])
    /\ IF l.command = "le_key_load" THEN HexParses(l.hex) ELSE Len(l.hex) = 0

\* main: ids and times are cast to 32 bits.
Narrow(a) == Stoul(a) % Word

RecordTyped(l) ==
    [key_id |-> Narrow(l.numbers[1]), key |-> KeyOf(l.hex),
     expire_time |-> Narrow(l.numbers[2]), attribute_data |-> Stoul(l.numbers[3])]

RequestTyped(l) ==
    [cmd |-> l.command, rid |-> 1,
     payload |-> IF l.command = "le_key_load" THEN EncodeKeys(<<RecordTyped(l)>>)
                 ELSE EncodeWordsOf([i \in DOMAIN l.numbers |-> Narrow(l.numbers[i])])]

-----------------------------------------------------------------------------
(***************************************************************************)
(* The responder: what a handler is asked and what it can answer.          *)
(***************************************************************************)
WithIds == {"get_event_id", "le_key_query_id", "le_key_purge_id"}

\* Mutant of PayloadReads: bytes after the number of an id are ignored.
PayloadReadsLong(r) ==
    CASE r.cmd = "get_event_list" -> Len(r.payload) = 8
      [] r.cmd \in WithIds -> Len(r.payload) >= 4
      [] r.cmd = "le_key_load" -> IsKeys(r.payload)
      [] OTHER -> TRUE

\* The decode_*_request a handler starts with returns.
PayloadReads(r) ==
    CASE r.cmd = "get_event_list" -> Len(r.payload) = 8
      [] r.cmd \in WithIds -> Len(r.payload) = 4
      [] r.cmd = "le_key_load" -> IsKeys(r.payload)
      [] OTHER -> TRUE

\* The empty() checks of the handlers without a payload codec.
PayloadIsEmpty(r) ==
    r.cmd \in {"query_spb", "le_key_query_all", "le_key_purge_all"} =>
        Len(r.payload) = 0

\* What a handler reads of a request.
Meaning(r) ==
    [cmd |-> r.cmd, rid |-> r.rid,
     numbers |-> CASE r.cmd = "get_event_list" -> DecodeWords(r.payload, 0, 2)
                   [] r.cmd \in WithIds -> DecodeWords(r.payload, 0, 1)
                   [] OTHER -> << >>,
     keys |-> IF r.cmd = "le_key_load" THEN KeysOf(r.payload) ELSE << >>]

Says(r, code, says) == [cmd |-> r.cmd, rid |-> r.rid, code |-> code, says |-> says]

\* AsmService::bad_request
Refusal(b) ==
    [cmd |-> "bad_request", rid |-> NoId, code |-> "invalid", says |-> b]

\* The last return of each handler, and the early ones with another code.
HandlerAnswers(r) ==
    CASE r.cmd = "get_time" -> {Says(r, "successful", <<t>>) : t \in Times}
      [] r.cmd = "get_event_list" ->
            IF DecodeU32(r.payload, 0) > DecodeU32(r.payload, 4)
            THEN {Says(r, "invalid", << >>)}
            ELSE {Says(r, "successful", ids) : ids \in IdLists}
      [] r.cmd = "get_event_id" ->
            {Says(r, "invalid", << >>)} \cup {Says(r, "successful", x) : x \in Records}
      [] r.cmd = "query_spb" -> {Says(r, "successful", <<1, s>>) : s \in Statuses}
      [] r.cmd = "le_key_load" ->
            {Says(r, "successful", <<0>>), Says(r, "failed", <<1>>)}
      [] r.cmd \in {"le_key_query_id", "le_key_purge_id"} ->
            {Says(r, "successful", <<f>>) : f \in {0, 1}}
      [] r.cmd = "le_key_query_all" -> {Says(r, "successful", ids) : ids \in IdLists}
      [] OTHER -> {Says(r, "successful", << >>)}

\* The payload of an answer: none when it is invalid, flags and the status as
\* bytes, the copy of a BadRequest as it is.
Body(a) ==
    CASE a.cmd # "bad_request" /\ a.code = "invalid" -> << >>
      [] a.cmd = "get_time" /\ a.code # "invalid" -> EncodeU64(a.says[1])
      [] a.cmd \in {"get_event_list", "le_key_query_all"} /\ a.code # "invalid" ->
            EncodeBatch(a.says)
      [] OTHER -> a.says

StandardResponse(a) ==
    [cmd |-> a.cmd, rid |-> a.rid, payload |-> Body(a), code |-> a.code]

\* Klv::encode takes it: the length field has room for the length.
Encodes(a) ==
    (IF a.cmd = "bad_request" THEN 0 ELSE 4) + Len(Body(a)) + 1 < Base3

-----------------------------------------------------------------------------
(***************************************************************************)
(* The initiator shows a response.                                         *)
(***************************************************************************)
Flags == {"le_key_load", "le_key_query_id", "le_key_purge_id"}

\* The decode_response of the command named by the response returns.
Readable(r) ==
    CASE r.cmd = "get_time" -> Len(r.payload) >= 8
      [] r.cmd = "query_spb" -> Len(r.payload) = 2
      [] r.cmd \in {"get_event_list", "le_key_query_all"} -> IsBatch(r.payload)
      [] r.cmd \in Flags -> Len(r.payload) = 1
      [] OTHER -> TRUE

\* main's second switch
Shown(r) ==
    [cmd |-> r.cmd, rid |-> r.rid, code |-> r.code,
     says |-> CASE r.cmd = "get_time" -> <<DecodeU64(r.payload, 0)>>
                [] r.cmd \in {"get_event_list", "le_key_query_all"} ->
                       BatchIds(r.payload)
                [] r.cmd \in Flags -> <<IF r.payload[1] # 0 THEN 1 ELSE 0>>
                [] r.cmd = "le_key_purge_all" -> << >>
                [] OTHER -> r.payload]

-----------------------------------------------------------------------------
Init == /\ pc = "typing"
        /\ line = None /\ sent = << >>
        /\ received = << >> /\ handled = None
        /\ answer = None /\ replied = << >>
        /\ got = << >> /\ shown = None

\* main up to send_request, and its Klv::encode and write_all.
Type(l) ==
    /\ pc = "typing"
    /\ line' = l
    /\ IF LineIsTaken(l)
       THEN /\ sent' = EncodeRequest(RequestTyped(l))
            /\ pc' = "sent"
       ELSE /\ pc' = "ended"
            /\ UNCHANGED sent
    /\ UNCHANGED <<received, handled, answer, replied, got, shown>>

OtherPeerSends(b) ==
    /\ pc = "typing"
    /\ sent' = b
    /\ pc' = "sent"
    /\ UNCHANGED <<line, received, handled, answer, replied, got, shown>>

\* read_one_message of the responder
ServerReads ==
    /\ pc = "sent"
    /\ received' \in FirstPart(sent)
    /\ pc' = "read"
    /\ UNCHANGED <<line, sent, handled, answer, replied, got, shown>>

\* The request reaches the handler of its command, which reads its payload.
Dispatched ==
    /\ IsRequest(received)
    /\ RequestOf(received).rid # 0
    /\ PayloadReads(RequestOf(received))

\* The answer is encoded; when Klv::encode throws, the catch block encodes a
\* BadRequest instead, and what that throws ends the session.
Reply(a) ==
    LET r == IF Encodes(a) THEN a ELSE Refusal(received)
    IN  IF Encodes(r)
        THEN /\ answer' = r
             /\ replied' = EncodeResponse(StandardResponse(r))
             /\ pc' = "answered"
        ELSE /\ pc' = "ended"
             /\ UNCHANGED <<answer, replied>>

\* A handler runs; persist of a store in a file may throw.
ServerAnswers ==
    /\ pc = "read"
    /\ Dispatched
    /\ PayloadIsEmpty(RequestOf(received))
    /\ handled' = Meaning(RequestOf(received))
    /\ \/ \E a \in HandlerAnswers(RequestOf(received)) : Reply(a)
       \/ /\ handled'.cmd \in {"le_key_load", "le_key_purge_id", "le_key_purge_all"}
          /\ Reply(Refusal(received))
    /\ UNCHANGED <<line, sent, received, got, shown>>

\* A handler without a payload codec refuses the payload under its own label.
ServerRefusesPayload ==
    /\ pc = "read"
    /\ Dispatched
    /\ ~PayloadIsEmpty(RequestOf(received))
    /\ Reply(Says(RequestOf(received), "invalid", << >>))
    /\ UNCHANGED <<line, sent, received, handled, got, shown>>

\* handle_decode_failure and the request id 0
ServerRefuses ==
    /\ pc = "read"
    /\ ~Dispatched
    /\ Reply(Refusal(received))
    /\ UNCHANGED <<line, sent, received, handled, got, shown>>

\* read_one_message of the initiator
ClientReads ==
    /\ pc = "answered"
    /\ line # None
    /\ got' \in FirstPart(replied)
    /\ pc' = "got"
    /\ UNCHANGED <<line, sent, received, handled, answer, replied, shown>>

ClientShows ==
    /\ pc = "got"
    /\ IsResponse(got)
    /\ Readable(ResponseOf(got))
    /\ shown' = Shown(ResponseOf(got))
    /\ pc' = "shown"
    /\ UNCHANGED <<line, sent, received, handled, answer, replied, got>>

\* An exception of a decoder, which main does not catch.
ClientThrows ==
    /\ pc = "got"
    /\ ~(IsResponse(got) /\ Readable(ResponseOf(got)))
    /\ pc' = "ended"
    /\ UNCHANGED <<line, sent, received, handled, answer, replied, got, shown>>

Next == \/ \E l \in Lines : Type(l)
        \/ \E b \in OddFrames : OtherPeerSends(b)
        \/ ServerReads
        \/ ServerAnswers \/ ServerRefusesPayload \/ ServerRefuses
        \/ ClientReads \/ ClientShows \/ ClientThrows

Spec == Init /\ [][Next]_vars

-----------------------------------------------------------------------------
TypeOK ==
    /\ pc \in {"typing", "sent", "read", "answered", "got", "shown", "ended"}
    /\ line \in Lines \cup {None}
    /\ \A b \in {sent, received, replied, got} : b \in Seq(Byte)
    /\ handled # None =>
           /\ handled.cmd \in Commands
           /\ handled.rid \in 1 .. Word - 1
    /\ \A a \in {answer, shown} \ {None} :
           a.cmd \in Commands \cup {"bad_request"}

\* What the command line means, where its numbers fit and its key is written in
\* hexadecimal digits.
InRange(l) ==
    /\ \A i \in DOMAIN l.numbers :
          ~l.numbers[i].text /\ l.numbers[i].n \in 0 .. Word - 1
    /\ \A i \in DOMAIN l.hex : IsDigit(l.hex[i])

MeaningTyped(l) ==
    LET n(i) == l.numbers[i].n
        load == l.command = "le_key_load"
    IN  [cmd |-> l.command, rid |-> 1,
         numbers |-> IF load THEN << >> ELSE [i \in DOMAIN l.numbers |-> n(i)],
         keys |-> IF load
                  THEN <<[key_id |-> n(1), expire_time |-> n(2), attribute_data |-> n(3),
                          key |-> [i \in 1 .. 16 |-> l.hex[2 * i - 1] * Digit + l.hex[2 * i]]]>>
                  ELSE << >>]

\* The request of an initiator is handled exactly when the responder has read
\* all of it (read_one_message, tls_server.cpp:50, and the length check of
\* Klv::decode): a first part is never taken for another request, and nothing
\* the initiator can build is refused.
HandledIffWhole ==
    (line # None /\ pc = "answered") => (handled # None <=> received = sent)

\* What the handler is asked is what the operator typed, through main's
\* parsing, both encoders and both decoders; for every line in range.
TypedIsHandled ==
    (line # None /\ handled # None /\ InRange(line)) =>
        handled = MeaningTyped(line)

\* Whoever wrote the bytes: those a handler acts on are the only ones that ask
\* for what it does, so a flipped byte is refused or asks for another thing.
\* GetTime alone ignores what follows its id (service.cpp:69).
HandledIsCanonical ==
    (handled # None /\ handled.cmd # "get_time") =>
        received = EncodeRequest(
            [cmd |-> handled.cmd, rid |-> handled.rid,
             payload |-> IF handled.cmd = "le_key_load" THEN EncodeKeys(handled.keys)
                         ELSE EncodeWordsOf(handled.numbers)])

\* A response the initiator has read in part (tls_client.cpp:47) is never shown
\* as an answer, and one it shows says what the responder answered.
ShownIsAnswered ==
    shown # None => got = replied /\ shown = answer

\* What is shown belongs to what was typed: the same command under the id 1, or
\* a BadRequest with a copy of the bytes that arrived of the request.
ShownIsAsked ==
    shown # None =>
        \/ shown.cmd = line.command /\ shown.rid = 1
        \/ /\ shown.cmd = "bad_request" /\ shown.rid = NoId
           /\ shown.says = SubSeq(sent, 1, Len(shown.says))

-----------------------------------------------------------------------------
(***************************************************************************)
(* The frames of AsmMessages, on which AsmService works, are these bytes   *)
(* seen as fields.                                                         *)
(***************************************************************************)
Fields(b) ==
    LET has(n) == Len(b) >= HeaderSize + n
        U32(o, n) == IF has(n) THEN DecodeU32(b, HeaderSize + o) ELSE 0
    IN  [ul |-> IF has(0) /\ IsUl(KlvUl(b)) THEN DescribeUl(KlvUl(b))
                ELSE [cmd |-> "other", resp |-> FALSE],
         ber |-> has(0) /\ b[17] = LongForm,
         length |-> IF has(0) THEN KlvLength(b) ELSE 0,
         size |-> Len(b), rid |-> U32(0, 4),
         count |-> U32(4, 12), item |-> U32(8, 12)]

\* Requests decode byte by byte exactly when AsmMessages says so, and responses
\* take as many bytes and are readable for the initiator when it says so.
FieldsAgree ==
    /\ pc = "read" =>
          LET f == Fields(received)
          IN  /\ KlvDecodes(f) <=> IsKlv(received)
              /\ RequestDecodes(f) <=> IsRequest(received)
              /\ IsRequest(received) =>
                    (PayloadDecodes(f) <=> PayloadReads(RequestOf(received)))
    /\ pc = "answered" =>
          LET r == StandardResponse(answer)
              m == [r EXCEPT !.payload = [size |-> Len(r.payload)]]
          IN  /\ Len(replied) = ResponseSize(m)
              /\ Len(replied) <= ReadBuffer =>
                    (InitiatorDecodes(m) <=> Readable(ResponseOf(replied)))
=============================================================================
