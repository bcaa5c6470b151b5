---------------------------- MODULE MCAsmService ----------------------------
(* Constants for the runs of AsmService: what clients send. *)
EXTENDS AsmService, TLC

Key(id) == [id |-> id, val |-> 0]
KeysOf(ids) == [i \in DOMAIN ids |-> Key(ids[i])]

Line(id, time) == [blank |-> FALSE, matches |-> TRUE, id |-> id,
                   severity |-> "info", time |-> time, bytes |-> 200]

\* Files with Word = 8: an unambiguous one with two events at the same time, of
\* which one renders to more than a read takes; one that gives the id 1 twice,
\* once as 9, and has a time beyond the word; an empty one; and files the
\* responder does not start with.
MCLogs == {<<Line(1, 1), [Line(2, 2) EXCEPT !.blank = TRUE],
             [Line(3, 2) EXCEPT !.bytes = 5000], Line(2, 3)>>,
           <<Line(1, 1), Line(9, 3), Line(2, 10)>>,
           << >>,
           <<Line(1, 1), [Line(2, 2) EXCEPT !.severity = "fatal"]>>,
           <<Line(1, -1)>>,
           <<[Line(1, 1) EXCEPT !.matches = FALSE]>>}

\* The loops of the log keep what SelectSeq does.
ASSUME \A lines \in MCLogs :
    LET read == SelectSeq(lines, LAMBDA l : ~l.blank)
    IN  EventsOf(lines) = [i \in DOMAIN read |-> ParsedLine(read[i])]

\* What the encoders of the initiator build.
EncodedRequests ==
    {EncodeWords(cmd, rid, << >>) : rid \in {0, 7},
        cmd \in {"get_time", "query_spb", "le_key_query_all", "le_key_purge_all"}}
    \cup {EncodeWords("get_event_list", 7, w) : w \in {<<1, 2>>, <<2, 2>>, <<3, 2>>}}
    \cup {EncodeWords("get_event_id", 7, <<id>>) : id \in 1 .. 4}
    \cup {EncodeWords(cmd, rid, <<id>>) : id \in 0 .. 3, rid \in {0, 7},
             cmd \in {"le_key_query_id", "le_key_purge_id"}}
    \cup {EncodeLoad(rid, KeysOf(ids)) : rid \in {0, 7},
             ids \in {<< >>, <<0>>, <<1>>, <<2, 0>>, <<1, 1>>, <<0, 1, 0>>,
                      <<3, 2, 1, 0>>}}

\* Frames no encoder of the initiator builds.
OddRequests ==
    LET time == EncodeWords("get_time", 7, << >>)
        load == EncodeLoad(7, KeysOf(<<1, 2>>))
        purge == EncodeWords("le_key_purge_id", 7, <<1>>)
    IN  {[time EXCEPT !.ul.resp = TRUE],
         [time EXCEPT !.ul.cmd = "other"],
         [time EXCEPT !.ul = [cmd |-> "bad_request", resp |-> TRUE]],
         [time EXCEPT !.ber = FALSE],
         [time EXCEPT !.length = 3, !.size = 23],
         [time EXCEPT !.size = 16],
         [time EXCEPT !.size = 20],
         [load EXCEPT !.count = 1],
         [load EXCEPT !.item = 31],
         [load EXCEPT !.length = 8, !.size = 28],
         [purge EXCEPT !.size = 27],
         [purge EXCEPT !.length = 12, !.size = 32]}

\* A payload where none belongs.
WithPayload ==
    {EncodeWords(cmd, 7, <<1>>) :
        cmd \in {"get_time", "query_spb", "le_key_query_all", "le_key_purge_all"}}

\* A batch of 128 records: 4128 bytes, more than the read buffer.
LargeLoad == EncodeLoad(7, [i \in 1 .. 128 |-> Key(i)])

\* Whole frames, a frame cut by its first TLS record, and one cut by the buffer.
MCRequests ==
    {[frame |-> f, record |-> 16384] :
        f \in EncodedRequests \cup OddRequests \cup WithPayload \cup {LargeLoad}}
    \cup {[frame |-> EncodeLoad(7, KeysOf(<<1, 2>>)), record |-> 64]}
=============================================================================
