----------------------------- MODULE AsmMessages -----------------------------
(***************************************************************************)
(* ASM requests and responses as the responder and the initiator see them: *)
(* the KLV frame (src/klv/klv.cpp), the universal labels and the request   *)
(* id (src/asm/codec.cpp) and the payloads of each command (le_key.cpp,    *)
(* event_log.cpp, query_spb.cpp).                                          *)
(*                                                                         *)
(* Bytes are not modelled one by one. A request frame is the fields a      *)
(* decoder reads, with the real sizes in bytes, since every check of the   *)
(* decoders but the label, the length header and the id is about sizes:    *)
(*    ul      the universal label: [cmd, resp], or one outside the map     *)
(*    ber     the length field starts with 0x83                            *)
(*    length  the length it states                                         *)
(*    size    the bytes of the whole frame                                 *)
(*    rid     the request id, if there is room for it                      *)
(*    count, item   the head of a batch payload, if there is room for it   *)
(*    words   the 32-bit numbers of a payload without a batch              *)
(*    keys    the records of a LEKeyLoad batch                             *)
(***************************************************************************)
EXTENDS Integers, Sequences, FiniteSets

Commands == {"get_time", "get_event_list", "get_event_id", "query_spb",
             "le_key_load", "le_key_query_id", "le_key_query_all",
             "le_key_purge_id", "le_key_purge_all"}

\* kUlMap: two labels for each command, and BadRequest as a response only.
UlMap == [cmd : Commands, resp : BOOLEAN]
           \cup {[cmd |-> "bad_request", resp |-> TRUE]}

HeaderSize == 20        \* 16 bytes of label and 4 of length
ReadBuffer == 4096      \* the buffer of read_one_message

\* read_one_message: one SSL_read returns at most one TLS record, of which
\* `record` bytes belong to this frame, and at most the buffer.
ReadOneMessage(f, record) ==
    [f EXCEPT !.size = CHOOSE n \in {f.size, record, ReadBuffer} :
                          \A m \in {f.size, record, ReadBuffer} : n <= m]

-----------------------------------------------------------------------------
(***************************************************************************)
(* Decoding a request.                                                     *)
(***************************************************************************)

\* Klv::decode and decode_ber_length return; otherwise they throw.
KlvDecodes(f) ==
    /\ f.size >= HeaderSize
    /\ f.ber
    /\ f.size = HeaderSize + f.length

\* Codec::decode_request returns: a known label, of a request, with an id.
RequestDecodes(f) ==
    /\ KlvDecodes(f)
    /\ f.ul \in UlMap
    /\ ~f.ul.resp
    /\ f.length >= 4

PayloadSize(f) == f.length - 4

\* Mutant of LoadDecodes: a batch without records is refused.
NonEmptyLoadDecodes(f) ==
    /\ PayloadSize(f) > 8
    /\ f.item = 32
    /\ PayloadSize(f) = 8 + 32 * f.count

\* decode_load_request: the batch head is read before the size is compared.
LoadDecodes(f) ==
    /\ PayloadSize(f) >= 8
    /\ f.item = 32
    /\ PayloadSize(f) = 8 + 32 * f.count

\* The payload decoders that throw on another size. The handlers of GetTime,
\* QuerySPB, LEKeyQueryAll and LEKeyPurgeAll decode no payload.
PayloadDecodes(f) ==
    CASE f.ul.cmd = "le_key_load" -> LoadDecodes(f)
      [] f.ul.cmd = "get_event_list" -> PayloadSize(f) = 8
      [] f.ul.cmd \in {"get_event_id", "le_key_query_id", "le_key_purge_id"} ->
             PayloadSize(f) = 4
      [] OTHER -> TRUE

-----------------------------------------------------------------------------
(***************************************************************************)
(* Encoding a request: Klv::encode(Codec::encode_request(...)) around the  *)
(* payload encoders. The stated length always is the length of the value.  *)
(***************************************************************************)
Frame(cmd, rid, size, count, item, words, keys) ==
    [ul |-> [cmd |-> cmd, resp |-> FALSE], ber |-> TRUE,
     length |-> 4 + size, size |-> HeaderSize + 4 + size, rid |-> rid,
     count |-> count, item |-> item, words |-> words, keys |-> keys]

EncodeWords(cmd, rid, words) ==
    Frame(cmd, rid, 4 * Len(words), 0, 0, words, << >>)

EncodeLoad(rid, keys) ==
    Frame("le_key_load", rid, 8 + 32 * Len(keys), Len(keys), 32, << >>, keys)

-----------------------------------------------------------------------------
(***************************************************************************)
(* Responses: [cmd, rid, payload, code]. A payload is its size and what it *)
(* says. BadRequest has no request id and carries the frame it refuses.    *)
(***************************************************************************)

\* Mutant of IdBatch: the ids without the count and the item length.
BareIds(ids) == [size |-> 4 * Len(ids), ids |-> ids]

NoPayload    == [size |-> 0]
TimePayload  == [size |-> 8]
FlagByte(b)  == [size |-> 1, flag |-> b]
IdBatch(ids) == [size |-> 8 + 4 * Len(ids), ids |-> ids]
SpbStatus(s) == [size |-> 2, status |-> s]
LogRecord(e) == [size |-> e.bytes, event |-> e.id, shown |-> e.shown]
Copy(f)      == [size |-> f.size, copy |-> f]

Response(f, payload, code) ==
    [cmd |-> f.ul.cmd, rid |-> f.rid, payload |-> payload, code |-> code]

BadRequest(f) ==
    [cmd |-> "bad_request", rid |-> 0, payload |-> Copy(f), code |-> "invalid"]

\* Codec::encode_response and Klv::encode: id, payload and response code.
ResponseSize(r) ==
    HeaderSize + (IF r.cmd = "bad_request" THEN 0 ELSE 4) + r.payload.size + 1

\* What the initiator needs to show a response: one read of the whole frame,
\* and a payload its decoder for the command takes, whatever the code says.
InitiatorDecodes(r) ==
    /\ ResponseSize(r) <= ReadBuffer
    /\ CASE r.cmd = "get_time" -> r.payload.size >= 8
         [] r.cmd = "query_spb" -> r.payload.size = 2
         [] r.cmd \in {"get_event_list", "le_key_query_all"} ->
                r.payload.size >= 8
         [] r.cmd \in {"le_key_load", "le_key_query_id", "le_key_purge_id"} ->
                r.payload.size = 1
         [] OTHER -> TRUE
=============================================================================
