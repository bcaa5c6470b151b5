# A TLA+ development of the ISO 26430-6 ASM prototype

The repository implements the Auditorium Security Messages of ISO 26430-6: an
*initiator* (a screen management system) asks a *responder* (a link encryptor)
over TLS for its time, its event log and its status, and loads, lists and purges
the link encryption (LE) keys it holds. This directory holds TLA+ models of that
code, the TLC runs that check them and the proofs about them. Paths below are
relative to the repository.

## 1. Inventory

| Component | State | Operations | Interacts with |
|---|---|---|---|
| LE key store in memory, `src/asm/le_key.cpp:119-162` | `keys_`, a vector of at most 16 records | `load_keys`, `contains_key`, `list_key_ids`, `purge_key`, `purge_all` | called by the service |
| LE key store in a JSONL file, `le_key.cpp:164-257` | `keys_` and the file at `path_` | the same, the constructor, `persist` | the service; the file system |
| ASM service, `src/asm/service.cpp` | shared pointers to the stores | `handle_request` (nine handlers), `handle_decode_failure` | called by the server; calls the stores |
| KLV, labels, payload codecs, `src/klv/klv.cpp`, `src/asm/codec.cpp`, the codecs of `le_key.cpp`, `event_log.cpp`, `query_spb.cpp` | none | encode and decode | server, client, handlers |
| Event log, `src/asm/event_log.cpp` | the events, read once from a JSONL file | the constructor, `list_event_ids`, `get_event_xml` | the service |
| QuerySPB provider, `src/asm/query_spb.cpp` | a constant | `query` | the service |
| TLS server, `src/transport/tls_server.cpp` | the listening socket, one session at a time | `run`, `serve_client` | the service, the stop flag, the observer |
| TLS client and initiator, `src/transport/tls_client.cpp`, `src/apps/asm_initiator.cpp` | one connection | parse the command line, `send_request`, decode and show | the server |
| Responder, `src/apps/asm_responder.cpp` | the stop flag | the signal handler, `main` | the server, the stores |
| TLS profile, certificates, contexts, `src/security`, `src/transport/tls_context.cpp` | none of their own; the files, read again for each connection | make a context, check a peer certificate | server and client |
| Sockets, `src/transport/socket.cpp` | a file descriptor, out of a table all threads share | move, close, accept, connect | server and client |
| OpenSSL initialisation, `src/security/openssl_init.cpp` | none | one library call under a `once_flag` | every program |

What is hard here. The responder has one thread, so handlers never interleave
with each other; what interleaves with them is the operating system (an open or
a write that fails), the death of the process, the clients, which may leave at
any step, and the signal that stops the loop. A request travels through several
layers that refuse it in different ways (an exception, a response of its own
label, `BadRequest`), and each refusal must leave the keys alone. The file is
rewritten as a whole after each change, in two steps, by code that ignores
write errors. On both sides one `SSL_read` is taken for one message, so either
message may be cut anywhere, and what is left must not pass for another. The
certificates are read again for each connection, while they may be replaced.
`PROJECT.json` lists each hazard at its line.

What makes the components correct:

- the stores: a load is all or nothing and within 16 keys; one record per id; a
  call that succeeds has saved what memory holds, unless the write was cut short;
  whatever fails, the damage to the file is one torn line at its end;
- the service: answers agree with each other and with what was stored; a
  refusal changes nothing; a well-formed request is served under its own label;
- the codecs and the initiator: decoding undoes encoding; no part of a frame is a
  frame; what is typed is what is handled, and what is answered is what is shown;
- the event log: an event that is listed can be fetched, for files that mean one
  thing in 32 bits;
- profile, contexts and sockets: who is admitted, to whom keys are sent, that
  two fit parties are answered whatever else happens, and that every path out of
  a connection gives back its descriptor;
- the server: what a client or the observer is told is true through failures
  and restarts, up to what a failing write, a death in the middle of a write or a
  failing open can lose or leave behind; connections end; a stop is obeyed and not
  followed by a queue of further sessions.

## 2. Modules

| Module | What it is |
|---|---|
| `Selection` | the elements of a vector at some positions, in order: what `std::erase_if` leaves and what a loop with `push_back` collects |
| `LEKeyOps` | the operations on the vector of records, as pure operators |
| `LEKeyBuffer` | the abstract durable buffer: a bounded map and its saved copy |
| `JsonlLEKeyStore` | the detailed store; `ImplementsBuffer` is the refinement |
| `AsmMessages` | which frames decode; what responses contain and their sizes |
| `EventLog` | from the lines of the log's file to what the two lookups return |
| `AsmService` | one responder answering any sequence of frames |
| `AsmCodec` | integers, packets and payloads byte by byte |
| `AsmExchange` | one exchange from the command line to the answer shown |
| `TlsServer` | the process: clients, sessions, failures, stop, death, restart |
| `Sockets` | the `Socket` class over the descriptor table: the abstract owner of descriptors |
| `TlsProfile` | what makes a context, and what makes two of them agree |
| `TlsSession` | server and clients with certificates and descriptors, other programs that are silent or leave, and what ends the process |
| `MCJsonlLEKeyStore`, `MCAsmService`, `MCAsmExchange`, `MCTlsSession` | constants for TLC |
| `LEKeyOpsProofs`, `JsonlLEKeyStoreProofs`, `AsmServiceProofs`, `TlsServerProofs`, `SocketsProofs`, `TlsSessionProofs`, `AsmCodecProofs`, `AsmExchangeProofs` | theorems |

`AsmService` is built on `AsmMessages`, `EventLog` and `LEKeyOps`, and these last
two on `Selection`;
`JsonlLEKeyStore` on `LEKeyOps`; `AsmCodec` on `AsmMessages`, and `AsmExchange` on
`AsmCodec`; `TlsSession` on `TlsProfile` and, through `INSTANCE`, `Sockets`.

Two modules look at the server, each at one half of `serve_client`. `TlsServer`
has the keys, the answers and the death of the process, with a handshake that
may succeed or fail; it uses for its buffer what `LEKeyBuffer` promises (all or
nothing, saved before success, a throw that leaves the change in memory), with
sets of ids for maps, and `JsonlLEKeyStore` is shown to keep that promise.
`TlsSession` decides the handshake from the certificates of both sides and
follows the descriptors, with an answer that is only an answer. Likewise
`AsmService` has the meaning of many frames and `AsmExchange` the bytes of one
exchange; the invariant `FieldsAgree` of `AsmExchange` says that `AsmMessages`,
the view by fields and sizes on which `AsmService` works, accepts exactly the
bytes `AsmCodec` accepts.

Definitions marked *Mutant* are faulty variants of the definition that follows;
nothing uses them in the specifications. Each one puts in a plausible error
(a dropped guard, a missing `persist`) that one of the properties catches.

### `JsonlLEKeyStore`

`keys` is `keys_`, `file` the contents of `path_`. `pc` splits a call where
something can come between: in the loop of `load_keys` (`"load"`), before the
file is opened (`"persist"`) and between the truncation and the write
(`"write"`). The lines are written in one piece because a `std::ofstream` holds
them in its buffer until its destructor runs; `PersistShort` is the write that
ends early, after some lines and perhaps part of another. Both write behind what
`PersistOpen` has left of the file. `OnlyTheLastLineIsTorn` says what any
sequence of failures can make of it. Ids of the file are narrowed modulo 2^32 as
the cast does. `reply` is what the last call returned.

In the refinement of `LEKeyBuffer`, a load takes effect where `would_overflow`
lets it through: inside the loop the abstract map already is `Merge` of the
vector and the rest of the batch. `Refuse` has the exact condition of
`would_overflow`, in terms of the map. When the process is down, the abstract map
is the one the file holds. The abstract buffer may lose everything in the middle
of a save, as the code does between the truncation and the write.

### `AsmMessages`, `AsmService`

A frame is the fields the decoders read, with real sizes, because sizes decide
nearly every check. `ReadOneMessage` is the single `SSL_read` of 4096 bytes:
a larger frame, or one split over TLS records, is cut. Each action of
`AsmService` is one path through `handle_request`; `DecodeFailure` is the catch
of `serve_client`. `known` is a history variable: the ids a client infers from
the answers alone. The store behind it is the one in memory, so that
`RefusalChangesNothing` is about that one: with the JSONL store a persist that
throws is answered with `BadRequest` after the keys have changed, see the run
`server_persist_throws`. `OverflowIsForetold` gives the exact condition under
which a load is refused, and `AnswersAreReadable` the exact condition under which
the initiator can take an answer apart.

Three assumptions say what the constants are. `FrameAssumption`: the fields of a
frame are what its bytes hold, so that the payload of a request that decodes has
the numbers its size says. `CapacityAssumption`: a capacity is a number.
`LogsAssumption`: a log is a sequence of lines. None of them limits what a peer
or a file may hold.

### `EventLog`

A line is what the regular expression and `get_time` read of it; the module
models what `parse_jsonl_line` makes of that: the checks that throw, and the
casts of the id and the time to 32 bits, while the text shown keeps the whole
timestamp. `AsmService` starts on one of `Logs` or, when the constructor throws,
does not start at all, as `main` of the responder does. Time is counted in the
model's unit; the order of two times is all the code looks at.

### `AsmCodec`, `AsmExchange`

A decoder is split into a predicate, which is true when the code returns, and an
operator for what it returns. Sizes and offsets are the real ones; the number of
values of a byte is the square of `Digit`, 16 in the code. The lookup of
`kUlMap` is the constant `Ul`, an injective map, as the table in `codec.cpp` is.

`AsmExchange` is one action per stage: `Type` is `main` of the initiator up to
the write, `ServerReads` and `ClientReads` are the two `read_one_message`, each of
which yields any first part of what was written, and the four server actions are
the paths through `serve_client` and `handle_request`. `Reply` holds the second
`Klv::encode`, which can throw again. Numbers go through `stoul`, which accepts
signs, wraps negative numbers and stops at the first other character; then
through the casts of `main`. Another peer writes any of `OddFrames`.

### `Sockets`, `TlsProfile`, `TlsSession`

A `Socket` has `fd_` and a lifetime. `close` is two steps, since another thread
can be given the number between `::close` and `fd_ = -1`; the kernel gives out
the lowest free number. The two moves are actions of `Sockets` and part of what
is proved about it; `tls_server.cpp` and `tls_client.cpp` build their sockets in
place and never move one, so `TlsSession` has no step that does.

`TlsProfile` follows `TlsProfile::apply` in the order of its checks, and
`validate_certificate_profile`. `HandshakeSucceeds` is what OpenSSL does for the
verification modes `apply` sets: versions, suites, and the two verifications.

In `TlsSession` a configuration is what the paths of a `TlsConfig` hold at the
time. `files` changes through `ReplaceFiles`; `ctx` is the context of the session
in progress, made by `MakeContext` for each connection as `serve_client` does.
Server and clients are threads of one process, as in `tests/test_tls.cpp`, and
so share the descriptors. `own` is false for a party that is not this
repository's code: such a client makes no checks, such a server only shows a
certificate. Such a client may be silent or leave (`Depart`) before or after its
request; the server then fails in the handshake, the read or both writes, or is
killed by the SIGPIPE nobody handles (`BreakPipe`). An initiator whose server has
closed meets the same in `SendFails` and `SendBreaksPipe`. Errors of `accept`, for
whatever reason, and of `select` leave `run` and end the process (`AcceptFails`,
`SelectFails`). With the default of `allow_tls10` both sides of a handshake return
or throw together; the TLS 1.3 order, in which a client returns first, needs a
configuration that no application of the repository sets.

### `TlsServer`

`pc` is the position of the server thread in `run` and `serve_client`. A client
is a process of its own (`Connect`, `Hello`, `Send`) and may vanish at any
moment; the kernel's queue of connections is `backlog`. Every blocking call has
an action for each way it returns. `Close` ends the connection, which a waiting
client notices. The file is a set of ids and a flag for a torn line, which keeps
`Restart` from happening; `PersistShort` is the write that ends early, and
`HandlePurgeMissing` the purge that finds nothing in memory and does not look at
the file. The end of the process by an error of `accept` or `select` or by SIGPIPE
is one of the deaths of `Crash`.

Three history variables say what a client may rely on. `last` is whose call last
decided whether an id is stored. `lost` has the ids that a write cut short, or a
death between truncation and write, has left out of the file, until a write puts
them back; `kept` those a persist that threw has left in the file although memory
had given them up, until a write takes them out. `AnsweredIsSaved` says that a
key whose load was answered with success is in the file or lost, and one whose
purge was is not in the file or kept: there is no third way. `DifferencesHaveAFault`
says the same of the difference between memory and file.

## 3. Runs

| Run | Configuration | What it shows |
|---|---|---|
| `store` | capacity 2, ids 0..3 of which batches use 0..2, two values, 46 batches of up to three records, five starting files; opens that fail, deaths | success means saved; refinement of `LEKeyBuffer` |
| `store_faults` | the same and short writes | types, capacity, one record per id, no foreign record after a success, at most one torn line, the last |
| `service` | capacity 3, six event logs, 63 frames: whole, cut, odd and oversized | the answers agree, overflows are exact, refusals change nothing, intact requests are served, which answers can be decoded, listed events can be fetched |
| `server` | two clients, two ids, capacity 1, failing opens and short writes, one death at any step | types, the truth of answers and traces, connections end, a stop is obeyed |
| `exchange` | every command, 55 lines and 171 frames of other peers, every cut of every message, bytes of 9 values | what is typed is handled and what is answered is shown; nothing else is |
| `sessions` | two clients, six server and nine client configurations, one change of files, three descriptors, peers that leave, system calls that fail | who is admitted and answered; no descriptor is lost or closed twice; what can keep a connection from ending |

Six further runs each check one statement of the documents or tests and end in
the counterexample that shows how the code differs; `PROJECT.json` quotes the
statements under `findings`: `store_large_file` (capacity is not checked on
start), `store_short_write` (write errors are ignored), `service_illegal_size`
(not every illegal payload length gives `BadRequest`),
`service_empty_event_list` (a refused list has no batch),
`service_large_load` (128 keys do not fit the read), `server_persist_throws`
(a legal request answered with `BadRequest`).

Bounds. A capacity of 2 with three ids and batches of three reaches every
relation between a batch and the vector: fitting exactly, one too many,
replacing, appending, repeating an id. The id space of 4 with an id of 5 in a
file shows the narrowing. In `service`, capacity 3 lets a batch of three that
repeats an id in and keeps a batch of four out; 128 keys is the smallest batch
that overflows the read. In `server`, capacity 1 with two ids makes the second
load fail, and a purge make room; two clients give every order of two calls with
a failure, a death and a restart between them. The logs of `service` use a word
of 8 values: one is unambiguous, with two events at one time and a blank line;
one repeats an id modulo the word and has a time beyond it; one is empty; three
do not open. One record has 5000 bytes, more than the initiator reads. A list of
more than the 1015 events that fit the read is out of TLC's reach; that half of
`AnswersAreReadable` is left to its theorem.

`exchange` has `Digit` 3 where the code has 16, so that a byte has 9 values and a
32-bit number 6561: TLC's integers then hold the 64-bit numbers, and numbers at
and beyond both limits, negative ones and text are among the lines. A length field
states up to 728 bytes instead of 2^24 - 1, which a record and a refused request
of the run exceed: both throws of `Klv::encode` happen. Keys are typed with
every pair of a digit, a blank, a minus and a letter. `OddFrames` changes each
byte of three requests, adds one, and lies about sizes. The read buffer of 4096
bytes cannot be reached at this size; the cuts stand for it.

In `sessions` the first client is of any of nine kinds and the second one has
nothing wrong: a fault of the first must not harm the second, which is the
question. Three descriptors are one fewer than a listener, a session and two
clients need, so both `accept` and `make_tcp_socket` run out. One replacement
suffices to have a session on either side of it and one across it.

The theorems have none of these bounds.

Deadlock is checked in `store` and `service`. In `store_faults` a torn line
stops the responder for good, and in `server` everybody is done at the end;
there it is switched off. So it is in `exchange`, which is one exchange, and in
`sessions`, where the server stops or terminates and the clients finish.

Fairness. `WF_vars(Server)`: the thread of the server runs when it is not
blocked. `WF_vars(Hello(c))` and `WF_vars(Send(c))`: after `connect`, the code of
`send_request` waits for nothing but the server, so a client that has not been
interrupted goes on. No client need connect, vanish or be interrupted, and
nothing need stop or restart the responder. So `ConnectionsEnd` and
`StopIsObeyed` of `TlsServer` are about the initiators of the repository.

`TlsSession` has the other programs as well, and of those nothing is assumed: they
need not speak and need not leave. `WF_vars(~Blocked /\ Server)` is the server's
thread when it does not wait for one of them in `SSL_accept` or `SSL_read`, which
have no timeout, and `WF_vars(Own(c) /\ Client(c))` the thread of an initiator.
Nothing need stop the server, break it or replace its files. `ConnectionsEnd` of
`TlsSession` says that an initiator's connection ends, unless the process dies or
the server is `Blocked` from some time on: a silent peer does hold it for ever.
`AsmExchange`, `AsmService` and the stores state no fairness.

## 4. Proofs

All theorems hold for every value of the constants that satisfies the named
assumptions.

- `LEKeyOpsProofs`: lemmas about the vector. `SelectedProperties` says that what
  is selected at some positions keeps the order and has as many elements as
  positions, from which `EraseProperties` says what `std::erase_if` leaves. That
  the positions can be counted off in order at all (`IncreasingExists`) is an
  induction on a finite set, done by the least counterexample, since the prover
  cannot use the library's induction theorems. `UpsertRoom` is the core of the
  capacity argument: storing the next record of a batch never needs more room
  than `would_overflow` has counted for the rest. `UpsertMap`, `EraseMap` and
  `MergeFirst` say what the operations do to the map from ids to keys.
- `JsonlLEKeyStoreProofs`: `TypeCorrect`; `CapacityHolds`, `KeysAreUnique`,
  `DamageIsOneLine` from files a store has written (`SoundSeeds`), `SuccessHolds`
  without short writes, `PrefixHolds` and `DamageIsOneLine` with every fault. The
  invariant `WithinCapacity` alone is not inductive, since the loop adds records
  without looking at the capacity; `LoopInv` adds that what is stored and what
  the rest of the batch still needs fit together. `OpenInv` says that persist
  writes into an empty file, `CallInv` relates file, memory and the reply.

  `BufferIsImplemented` is the refinement: `Spec` implies the specification of
  `LEKeyBuffer` under the mapping. Each action is shown to be one step of the
  buffer or a stutter: `LoadAccepted` and a purge change the map, the steps of
  the loop leave it alone (`MergeFirst`), `PersistOpen` empties the saved copy,
  `PersistWrite` saves the map and answers, and the end of the process brings
  the saved copy back. Its hypotheses are those under which the run `store`
  checks it: sound files, opens that fail and deaths, but no write cut short.
  With short writes the code does not implement the buffer, which is the finding
  of `store_short_write`.
- `AsmServiceProofs`: `TypeCorrect`, `AnswersForetold`, `OverflowsAreForetold`,
  `PurgesAnswerTruly`,
  `RefusalsChangeNothing`, `IntactAreServed`, `ListedEventsAreServed` and
  `AnswersReadable`, for any capacity, requests and logs. `AnswersAgree` speaks
  only of the last answer and is not inductive; behind it is `StoreInv`, that
  between two requests the ids in the vector are exactly those the answers so
  far imply. In the loop of `load_keys` that fails, and `LoopInv` says by how
  much: the vector holds what was known and the first part of the batch, with
  room for the rest. `AnswerInv` lists the answers there are to a request, and
  `ListedInv` says where the ids listed last came from. `AnswersReadable` has one
  hypothesis, that a list of all the keys fits the 4071 bytes of payload the
  initiator's one read can take: 16 keys take 72. The log is not limited, and
  neither is the theorem to small ones.
- `TlsServerProofs`: `TypeCorrect`, `AnswersAreSaved`, `DifferencesHaveFaults`,
  `SuccessTracesAreTrue`, `StopBoundsConnections`, for any number of clients and
  deaths. What a client was told is a matter of the past, so the invariant
  follows an id from the handler that changes it, through `persist`, to the
  write of the answer (`DecidedInv`); `BufferInv` keeps account of what is lost
  and kept, of memory as well as of the file, since a restart makes one of the
  other; `QueueInv`, `ClientInv` and `SessionInv`
  say that nobody else's answer can change meanwhile. One lemma per action, one
  step per conjunct.

- `SocketsProofs`: `DescriptorsAreOwned` and `NothingLeaks`, with moves, for any
  threads. Ownership and the absence of leaks need each other: an object's number is
  open and its own, an open number has an object, and an object between its two
  steps of `close` has none, whatever `fd_` still says.
- `TlsSessionProofs`: each action is a step of `Sockets` or leaves the
  descriptors alone, so that the invariant of the class, taken over with
  `INSTANCE`, gives `DescriptorsAreOwned` and `NothingLeaks` for the program.
  Then `TypeCorrect`, `ServedHaveCertificates`, `KeysGoToTheVerified` and
  `TheFitAreAnswered`. None of the properties is inductive: `PhaseInv` says that
  the checks of a session come before its steps, `MetInv` ties a connection to
  the context it met, `ClientInv` adds what the client had verified by then,
  `OutcomeInv` how each end learns of the other's decision. `FitIsAgreement`
  shows that what the code checks in turn, on two sides, comes to the one
  predicate `Fit`.
- `AsmCodecProofs`: decoding undoes encoding, for numbers of 32 and 64 bits,
  frames, requests, responses, batches of ids and of keys of any length, and any
  `Digit` of at least 2 (16 is the code's); `NoPartIsAFrame` says that no proper
  first part of a frame passes the length check of `Klv::decode`. The converses,
  `KlvIsCanonical`, `RequestIsCanonical` and `KeysAreCanonical`: bytes that
  decode are, byte for byte, the encoding of what they decode to, so that no two
  messages mean the same (`DigitsOf`: the digits of a number written in a base
  are its only ones).
- `AsmExchangeProofs`: `TypeCorrect`, `AnswersArrive`, `WholeIsHandled`,
  `TypedIsAsked`, `AskedIsShown`, `HandledBytesAreCanonical` and
  `FieldsAreBytes`, for any lines, lookups and cuts. `AnswerInv` says that what
  was written is the encoding of an answer its command can give, `PartInv` and
  `GotInv` that what was read is a first part of what was written; by
  `NoPartIsAFrame` it decodes only when it is the whole, and by the round trips
  it then means what was said. `AskedInv` carries the command and the request id
  from the line typed to the answer. `FieldsAreBytes` proves `FieldsAgree`: the
  view by fields and sizes, on which `AsmService` and its theorems rest, accepts
  the frames the bytes accept, requests and answers (`FramedInv`).

Every safety invariant, action property and refinement of a passing run is
stated by one of these theorems. Only model-checked are the liveness properties,
`StopIsObeyed` of `TlsServer` and
`ConnectionsEnd` of `TlsServer` and of `TlsSession`, since liveness under
fairness is beyond the prover used here; and the six counterexamples.

## 5. Not modelled

- Text: the XML of an event record is its size, or bytes nobody looks into; the
  layout of the initiator's output, names and thumbprints of certificates, traces
  of the observer beyond label and code.
- The regular expression of the JSONL files and `get_time`: a line matches or
  does not, with the numbers it gives.
- OpenSSL itself and its initialisation: a call returns, fails or blocks as
  `tls_server.cpp` expects, a handshake is decided by the modes `apply` sets. The
  handshake of TLS 1.3, see above.
- Port and address options of a socket: a start that fails for them is the
  `BootFails` of `TlsSession`.
- `LEKeyOps` leaves the key bytes, expiry and attribute to one value `val`: no
  operation looks at them, and nothing removes keys that expire. `AsmCodec` has
  them in full.
- A peer of `TlsServer` that is silent or not the repository's own: those are in
  `TlsSession`, without the keys.
- A key file with repeated ids: `Seeds` of the runs has none, and the store makes
  none (`OneKeyPerId`).

## 6. Plan

1. The converse laws on the side of the answers: bytes that the initiator decodes
   are the encoding of what it shows, for batches of ids and for records.
2. One abstract buffer of ids for both sides: the handlers and `persist` of
   `TlsServer` built from its actions, and `LEKeyBuffer`, seen without values and
   replies, shown to implement it. Today the two are compared by reading them.
3. The severity and the text of events, and the names in certificates, if a
   property is found that needs them.
