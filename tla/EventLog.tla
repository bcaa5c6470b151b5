------------------------------ MODULE EventLog ------------------------------
(***************************************************************************)
(* The event log of the responder, src/asm/event_log.cpp: what             *)
(* JsonlEventLogProvider makes of the lines of its file, once, when the    *)
(* responder starts, and the two lookups both providers share.             *)
(*                                                                         *)
(* A line is what parse_jsonl_line reads of it:                            *)
(*    blank     the line is empty                                          *)
(*    matches   the regular expression matches and stoul accepts the id    *)
(*    id        the number written, of any size                            *)
(*    severity  the word written                                           *)
(*    time      the seconds since 1970 that get_time and timegm make of    *)
(*              the timestamp, negative where they fail or it is earlier   *)
(*    bytes     the size of the XML record rendered from the line          *)
(***************************************************************************)
EXTENDS Selection, Integers

CONSTANT Word           \* 2^32: the values of std::uint32_t

ASSUME WordAssumption == Word \in Nat \ {0}

Severities == {"info", "warning", "error"}

\* parse_jsonl_line, severity_from_string and parse_utc_timestamp return.
LineParses(line) ==
    /\ line.matches
    /\ line.severity \in Severities
    /\ line.time >= 0

\* The constructor throws on the first line that does not parse.
LogOpens(lines) ==
    \A i \in DOMAIN lines : lines[i].blank \/ LineParses(lines[i])

\* parse_jsonl_line: id and time are cast to 32 bits, while the text of the
\* timestamp, which the XML record shows, stays as it is.
ParsedLine(line) ==
    [id |-> line.id % Word, time |-> line.time % Word, shown |-> line.time,
     bytes |-> line.bytes]

\* The constructor: blank lines are skipped, the others keep their order.
EventsOf(lines) ==
    LET read == Selected(lines, {i \in DOMAIN lines : ~lines[i].blank})
    IN  [i \in DOMAIN read |-> ParsedLine(read[i])]

\* Mutant of EventIds: the end of the window is not looked at.
EventIdsFrom(events, start, stop) ==
    LET found == Selected(events, {i \in DOMAIN events : events[i].time >= start})
    IN  [i \in DOMAIN found |-> found[i].id]

\* list_event_ids: the events of the window, both ends included, in log order.
EventIds(events, start, stop) ==
    LET found == Selected(events, {i \in DOMAIN events : events[i].time \in start .. stop})
    IN  [i \in DOMAIN found |-> found[i].id]

\* get_event_xml: the first event with the id is rendered.
FirstEvent(events, id) ==
    events[CHOOSE i \in DOMAIN events :
              events[i].id = id /\ \A j \in 1 .. i - 1 : events[j].id # id]

\* The file means one thing by each id and each time: no two lines share an id
\* in 32 bits and no timestamp is beyond 32 bits, which is in the year 2106.
Faithful(events) ==
    /\ \A i, j \in DOMAIN events : events[i].id = events[j].id => i = j
    /\ \A i \in DOMAIN events : events[i].shown = events[i].time
=============================================================================
