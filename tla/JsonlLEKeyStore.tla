--------------------------- MODULE JsonlLEKeyStore ---------------------------
(***************************************************************************)
(* JsonlLeKeyStore, src/asm/le_key.cpp:164-257: the LE keys in memory and  *)
(* the JSONL file that every change rewrites. The responder calls the      *)
(* store from one thread, one call at a time; what interleaves with a call *)
(* is the operating system (an open that fails, a write that is cut short) *)
(* and the death of the process between two steps.                         *)
(*                                                                         *)
(* A line of the file is a record, or Bad: a line parse_jsonl_line throws  *)
(* on. Blank lines, which the constructor skips and persist never writes,  *)
(* are left out.                                                           *)
(***************************************************************************)
EXTENDS LEKeyOps

CONSTANTS IdSpace,      \* 2^32: the values of std::uint32_t
          Vals,         \* the key, expiry and attribute of a record
          Capacity,     \* kCapacity
          Batches,      \* the batches of LEKeyLoad requests
          Seeds,        \* the files a first start may find
          Faults,       \* what can go wrong: "open", "short", "crash"
          NoFile, Bad, None

ASSUME SpaceAssumption == IdSpace \in Nat \ {0} /\ Capacity \in Nat

VARIABLES keys,         \* keys_
          file,         \* the contents of path_, or NoFile
          pc,           \* where the store is
          batch, next,  \* the argument of load_keys and the loop's position
          reply         \* what the last call returned, None since the start

vars == <<keys, file, pc, batch, next, reply>>

KeyIds == 0 .. IdSpace - 1
Records == [id : KeyIds, val : Vals]
Lines == [id : Nat, val : Vals] \cup {Bad}

Kinds == {"overflow", "ok", "threw", "noKeyId", "present", "missing", "list"}
Answer(kind) == [is |-> kind, ids |-> << >>]

\* The batch comes from 4-byte ids, so it needs no narrowing. The file may
\* hold numbers of any size.
ASSUME DataAssumption == /\ Batches \subseteq Seq(Records)
                         /\ Seeds \subseteq Seq(Lines) \cup {NoFile}
                         /\ NoFile \notin Seq(Lines)
                         /\ Bad \notin [id : Nat, val : Vals]
                         /\ None \notin [is : Kinds, ids : Seq(Nat)]

\* The constructor throws on the first line that does not parse.
Parses(lines) == \A i \in DOMAIN lines : lines[i] # Bad

\* Mutant of Parsed: the id is kept as stoul returns it.
ParsedWide(lines) ==
    [i \in DOMAIN lines |-> [id |-> lines[i].id, val |-> lines[i].val]]

\* parse_jsonl_line: static_cast<std::uint32_t>(std::stoul(...)).
Parsed(lines) ==
    [i \in DOMAIN lines |-> [id |-> lines[i].id % IdSpace,
                             val |-> lines[i].val]]

Init == /\ file \in Seeds
        /\ keys = << >>
        /\ pc = "down"
        /\ batch = << >>
        /\ next = 1
        /\ reply = None

(***************************************************************************)
(* The constructor. When it throws (a bad line, a file it cannot create or *)
(* open) the responder exits: the store stays down and nothing changes.    *)
(***************************************************************************)
Create ==
    /\ pc = "down"
    /\ file = NoFile
    /\ file' = << >>
    /\ keys' = << >>
    /\ pc' = "idle"
    /\ UNCHANGED <<batch, next, reply>>

Open ==
    /\ pc = "down"
    /\ file # NoFile
    /\ Parses(file)
    /\ keys' = Parsed(file)
    /\ pc' = "idle"
    /\ UNCHANGED <<file, batch, next, reply>>

(***************************************************************************)
(* load_keys: all or nothing, then one turn of the loop for each record.   *)
(***************************************************************************)
LoadRefused(b) ==
    /\ pc = "idle"
    /\ WouldOverflow(b, keys, Capacity)
    /\ reply' = Answer("overflow")
    /\ UNCHANGED <<keys, file, pc, batch, next>>

LoadAccepted(b) ==
    /\ pc = "idle"
    /\ ~WouldOverflow(b, keys, Capacity)
    /\ batch' = b
    /\ next' = 1
    /\ pc' = "load"
    /\ reply' = None
    /\ UNCHANGED <<keys, file>>

\* Mutant of LoadRecord: a key that is stored already is left as it is.
LoadNewRecord ==
    /\ pc = "load"
    /\ next <= Len(batch)
    /\ keys' = IF ContainsKey(keys, batch[next].id) THEN keys
               ELSE Upsert(keys, batch[next])
    /\ next' = next + 1
    /\ UNCHANGED <<file, pc, batch, reply>>

LoadRecord ==
    /\ pc = "load"
    /\ next <= Len(batch)
    /\ keys' = Upsert(keys, batch[next])
    /\ next' = next + 1
    /\ UNCHANGED <<file, pc, batch, reply>>

LoadEnd ==
    /\ pc = "load"
    /\ next > Len(batch)
    /\ pc' = "persist"
    /\ batch' = << >>
    /\ next' = 1
    /\ UNCHANGED <<keys, file, reply>>

(***************************************************************************)
(* purge_key saves only if it removed something; purge_all always saves.   *)
(***************************************************************************)
\* Mutant of PurgeKey: no persist.
PurgeKeyInMemory(id) ==
    /\ pc = "idle"
    /\ ContainsKey(keys, id)
    /\ keys' = Erase(keys, id)
    /\ reply' = Answer("ok")
    /\ UNCHANGED <<file, pc, batch, next>>

PurgeKey(id) ==
    /\ pc = "idle"
    /\ ContainsKey(keys, id)
    /\ keys' = Erase(keys, id)
    /\ pc' = "persist"
    /\ reply' = None
    /\ UNCHANGED <<file, batch, next>>

PurgeMissing(id) ==
    /\ pc = "idle"
    /\ ~ContainsKey(keys, id)
    /\ reply' = Answer("noKeyId")
    /\ UNCHANGED <<keys, file, pc, batch, next>>

\* Mutant of PurgeAll: no persist, as in the store without a file.
PurgeAllInMemory ==
    /\ pc = "idle"
    /\ keys' = << >>
    /\ reply' = Answer("ok")
    /\ UNCHANGED <<file, pc, batch, next>>

PurgeAll ==
    /\ pc = "idle"
    /\ keys' = << >>
    /\ pc' = "persist"
    /\ reply' = None
    /\ UNCHANGED <<file, batch, next>>

(***************************************************************************)
(* The queries.                                                            *)
(***************************************************************************)
QueryId(id) ==
    /\ pc = "idle"
    /\ reply' = Answer(IF ContainsKey(keys, id) THEN "present" ELSE "missing")
    /\ UNCHANGED <<keys, file, pc, batch, next>>

QueryAll ==
    /\ pc = "idle"
    /\ reply' = [is |-> "list", ids |-> ListKeyIds(keys)]
    /\ UNCHANGED <<keys, file, pc, batch, next>>

(***************************************************************************)
(* persist. The ofstream truncates the file when it opens it and holds the *)
(* lines in its buffer until its destructor writes them behind what the    *)
(* open has left. An open that fails throws, after keys_ has changed; a    *)
(* write that fails is never looked at, and the call returns as if it had  *)
(* succeeded.                                                              *)
(***************************************************************************)
\* Mutant of PersistOpen: std::ios::app for std::ios::trunc.
PersistOpenAppends ==
    /\ pc = "persist"
    /\ pc' = "write"
    /\ UNCHANGED <<keys, file, batch, next, reply>>

PersistOpen ==
    /\ pc = "persist"
    /\ file' = << >>
    /\ pc' = "write"
    /\ UNCHANGED <<keys, batch, next, reply>>

PersistThrows ==
    /\ "open" \in Faults
    /\ pc = "persist"
    /\ pc' = "idle"
    /\ reply' = Answer("threw")
    /\ UNCHANGED <<keys, file, batch, next>>

PersistWrite ==
    /\ pc = "write"
    /\ file' = file \o keys
    /\ pc' = "idle"
    /\ reply' = Answer("ok")
    /\ UNCHANGED <<keys, batch, next>>

\* Some of the lines reach the disk, and perhaps the beginning of another.
PersistShort ==
    /\ "short" \in Faults
    /\ pc = "write"
    /\ \E n \in 0 .. Len(keys) - 1, torn \in {<< >>, <<Bad>>} :
            file' = file \o SubSeq(keys, 1, n) \o torn
    /\ pc' = "idle"
    /\ reply' = Answer("ok")
    /\ UNCHANGED <<keys, batch, next>>

(***************************************************************************)
(* The process ends: between two calls when the operator stops it, at any  *)
(* step when it is killed. The file stays as it is.                        *)
(***************************************************************************)
ProcessEnds ==
    /\ keys' = << >>
    /\ pc' = "down"
    /\ batch' = << >>
    /\ next' = 1
    /\ reply' = None
    /\ UNCHANGED file

Stop == pc = "idle" /\ ProcessEnds

Crash == "crash" \in Faults /\ pc \notin {"idle", "down"} /\ ProcessEnds

Next ==
    \/ Create
    \/ Open
    \/ \E b \in Batches : LoadRefused(b) \/ LoadAccepted(b)
    \/ LoadRecord
    \/ LoadEnd
    \/ \E id \in KeyIds : PurgeKey(id) \/ PurgeMissing(id) \/ QueryId(id)
    \/ PurgeAll
    \/ QueryAll
    \/ PersistOpen
    \/ PersistThrows
    \/ PersistWrite
    \/ PersistShort
    \/ Stop
    \/ Crash

Spec == Init /\ [][Next]_vars

-----------------------------------------------------------------------------
Pcs == {"down", "idle", "load", "persist", "write"}

\* Every id in memory fits 32 bits whatever numbers the file holds, and the
\* loop of load_keys stays inside its batch.
TypeOK ==
    /\ keys \in Seq(Records)
    /\ file \in Seq(Lines) \cup {NoFile}
    /\ pc \in Pcs
    /\ batch \in Batches \cup {<< >>}
    /\ next \in 1 .. Len(batch) + 1
    /\ reply \in [is : Kinds, ids : Seq(KeyIds)] \cup {None}

\* A file that satisfies what the buffer itself would have written.
Sound(lines) ==
    /\ Parses(lines)
    /\ UniqueIds(Parsed(lines))
    /\ Len(lines) <= Capacity

SoundSeeds == \A s \in Seeds : s # NoFile => Sound(s)

\* The buffer never holds more than kCapacity keys, not even in the middle of
\* the loop that stores a batch would_overflow has let through.
WithinCapacity == Len(keys) <= Capacity

\* No key id is stored twice: find_if must see every id the loop has appended,
\* from the file, from earlier batches and from the same batch.
OneKeyPerId == UniqueIds(keys)

\* When load_keys, purge_key or purge_all returns normally, the file holds
\* exactly the keys in memory (test_service.cpp:321-338 reopens the store and
\* expects the key that a successful load_keys stored).
SuccessIsSaved == reply = Answer("ok") => file = keys

\* Even a write that is cut short leaves, in front of the torn line, the first
\* of the keys in memory in their order: a restart that succeeds loses keys, but
\* never brings back one that was purged or the old value of one replaced.
SuccessSavesNoOther ==
    reply = Answer("ok") =>
        \A i \in DOMAIN file : file[i] # Bad => i <= Len(keys) /\ file[i] = keys[i]

\* Whatever fails to open, is cut short or dies, and in whatever order, the
\* damage is one torn line at the end: a file the constructor does not accept,
\* or would make an unsound buffer of, is sound once that line is taken out.
OnlyTheLastLineIsTorn ==
    file # NoFile /\ ~Sound(file) =>
        /\ file[Len(file)] = Bad
        /\ Sound(SubSeq(file, 1, Len(file) - 1))

-----------------------------------------------------------------------------
(***************************************************************************)
(* The store implements the durable buffer. A load takes effect as a whole *)
(* when would_overflow lets it through: in the loop, the abstract map is   *)
(* already the final one. When the process is down, the map is the one the *)
(* next start will read.                                                   *)
(***************************************************************************)
SavedMap == IF file = NoFile THEN AsMap(<< >>) ELSE AsMap(Parsed(file))

Buffer == INSTANCE LEKeyBuffer WITH
    buf     <- IF pc = "down" THEN SavedMap
               ELSE Merge(AsMap(keys), SubSeq(batch, next, Len(batch))),
    saved   <- SavedMap,
    pending <- pc \in {"load", "persist", "write"}

\* Every behaviour of the store is one the durable buffer allows.
ImplementsBuffer == Buffer!Spec
=============================================================================
