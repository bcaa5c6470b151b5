---------------------------- MODULE MCAsmExchange ----------------------------
(* Constants for the run of AsmExchange: bytes of two digits of base 3. *)
EXTENDS AsmExchange, TLC

\* 16 bytes of which two tell the labels apart, as bytes 12 and 13 do in the code.
Group(cmd) ==
    CASE cmd = "bad_request" -> <<1, 0>>
      [] cmd = "get_time" -> <<2, 0>>
      [] cmd = "get_event_list" -> <<2, 2>>
      [] cmd = "get_event_id" -> <<2, 4>>
      [] cmd = "query_spb" -> <<2, 6>>
      [] cmd = "le_key_load" -> <<3, 0>>
      [] cmd = "le_key_query_id" -> <<3, 2>>
      [] cmd = "le_key_query_all" -> <<3, 4>>
      [] cmd = "le_key_purge_id" -> <<3, 6>>
      [] cmd = "le_key_purge_all" -> <<4, 0>>

MCUl ==
    [u \in UlMap |->
        <<6, 0, 2, 4, 2, 5, 1, 1, 2, 7, 1, Group(u.cmd)[1],
          Group(u.cmd)[2] + (IF u.resp THEN 1 ELSE 0), 0, 0, 0>>]

-----------------------------------------------------------------------------
Num(n) == [text |-> FALSE, n |-> n]
Text == [text |-> TRUE, n |-> 0]
NoHex == << >>
Hex(c, d) == [i \in 1 .. 32 |-> IF i = 7 THEN c ELSE IF i = 8 THEN d ELSE i % Digit]

Command(cmd, numbers, hex) == [command |-> cmd, numbers |-> numbers, hex |-> hex]

\* Numbers at and beyond the limits of 32 and of 64 bits, a negative one, and text.
Ids == {Num(n) : n \in {0, 5, Word - 1, Word, Word + 5, Word * Word, -1}} \cup {Text}

MCLines ==
    {Command(cmd, << >>, NoHex) :
        cmd \in {"get_time", "query_spb", "le_key_query_all", "le_key_purge_all",
                 "le_key_query_id", "unsupported"}}
    \cup {Command(cmd, <<n>>, NoHex) : n \in Ids,
             cmd \in {"get_event_id", "le_key_query_id", "le_key_purge_id"}}
    \cup {Command("get_event_list", <<Num(a), Num(b)>>, NoHex) :
             a \in {2, Word - 1}, b \in {2, Word + 2}}
    \cup {Command("le_key_load", <<Num(5), Num(Word - 1), Num(n)>>, Hex(0, 2)) :
             n \in {7, Word + 7, Word * Word - 1, Word * Word}}
    \cup {Command("le_key_load", <<Num(Word + 5), Num(6), Num(7)>>, Hex(c, d)) :
             c, d \in {2, Blank, Minus, Letter}}
    \cup {Command("le_key_load", <<Num(5), Num(6), Num(7)>>, SubSeq(Hex(1, 1), 1, 31))}

-----------------------------------------------------------------------------
Request(cmd, rid, payload) == [cmd |-> cmd, rid |-> rid, payload |-> payload]

Key(id) == [key_id |-> id, key |-> [i \in 1 .. 16 |-> i % Base],
            expire_time |-> Word - id, attribute_data |-> Word * id + 8]

\* Requests other peers may build: any id, batches of no and of two records,
\* payloads of another size.
OtherRequests ==
    {Request(cmd, rid, p) : rid \in {0, Word - 1},
        p \in {<< >>, <<0, 0, 0, 1>>, <<0, 0, 0, 1, 0>>, <<0, 0, 0, 1, 0, 0, 0, 1>>},
        cmd \in {"get_time", "get_event_list", "query_spb", "le_key_query_all",
                 "le_key_purge_id"}}
    \cup {Request("le_key_load", Word - 1, EncodeKeys(ks)) :
             ks \in {<< >>, <<Key(1), Key(2)>>}}
    \* refused, and too long for a BadRequest to carry
    \cup {Request("get_time", 0, [i \in 1 .. Base3 - 9 |-> 1])}

\* One byte changed, one appended, or an answer instead of a request.
Changed(b) == {[b EXCEPT ![i] = (@ + 1) % Base] : i \in DOMAIN b}

MCOddFrames ==
    LET written == {EncodeRequest(r) : r \in OtherRequests}
        load == EncodeRequest(Request("le_key_load", 1, EncodeKeys(<<Key(3)>>)))
        purge == EncodeRequest(Request("le_key_purge_id", 1, <<0, 0, 0, 1>>))
        list == EncodeRequest(Request("get_event_list", 1, <<0, 0, 0, 1, 0, 0, 0, 1>>))
    IN  written \cup Changed(load) \cup Changed(purge) \cup Changed(list)
           \cup {b \o <<0>> : b \in {load, purge, list}}
           \cup {EncodeResponse([cmd |-> "get_time", rid |-> 1, payload |-> EncodeU64(5),
                                 code |-> "successful"])}

MCTimes == {0, Word * 5 + 7}
MCIdLists == {<< >>, <<5>>, <<Word - 1, 0, 3>>}
\* The last record is longer than a length field can say.
MCRecords == {<<6, 0>>, [i \in 1 .. Base3 |-> 1]}
MCStatuses == {0, 1, 2}
=============================================================================
