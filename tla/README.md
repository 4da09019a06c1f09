# Formal model of the Robotick engine

Robotick is a C++ runtime for robots and simulations: a *model* of workloads is
loaded by an *engine* into one block of memory, ticked at a fixed rate, watched
and influenced over HTTP, and connected to the engines of other processes over
TCP. This directory holds TLA+ modules of the parts of that runtime whose
correctness depends on the order of events, the TLC configurations that check
them on small instances, and theorems about them checked by TLAPS.

Paths below are relative to the repository; `framework/` stands for
`cpp/src/robotick/framework/` or `cpp/include/robotick/framework/`.

## 1. Inventory

| Component | Source | State it keeps | Operations | Hard behaviour |
|---|---|---|---|---|
| Message framing | `framework/data/InProgressMessage.*`, `MessageHeader.h` | stage, header and payload byte counts, chunk buffer | `begin_send`, `begin_receive`, `tick`, `vacate` | partial send/recv at any byte; breaks in the middle of a message |
| Remote engine connection | `framework/data/RemoteEngineConnection.*` | connection state, socket, the two in-progress messages, reconnect timer, pacing countdown, bound fields | `tick` (Sender / Receiver), `disconnect` | two engines and a network interleave; refused, reset, half-open connections; half-duplex READY/FIELDS tokens |
| Discovery and the set of connections | `framework/data/RemoteEngineDiscoverer.*`, `RemoteEngineConnections.*` | UDP sockets, broadcast timers, dynamic receivers | `initialize_*`, `tick`, `setup`, `stop` | lost and duplicated datagrams, restarts on other ports |
| Engine lifecycle and tick loop | `framework/Engine.cpp` | workload instances, connections, running flag | `load`, `run`, destructor | order of callbacks across instances, stop while serving |
| Workload memory | `framework/data/WorkloadsBuffer.*`, `Blackboard.cpp`, `Engine.cpp` | one buffer, offsets, sequence | layout, bind, frame window | alignment arithmetic done twice; concurrent readers |
| Telemetry server | `framework/data/TelemetryServer.cpp` | writable fields, staged writes, session | layout / raw GET, input POST, `apply_pending_input_writes` | web threads against the tick thread |
| Telemetry layout document | `framework/data/TelemetryServer.cpp`, `framework/utils/WorkloadFieldsIterator.cpp` | none: built from the engine | layout GET | types that are the same by name and differ by instance |
| Web server | `framework/services/*/WebServer_*.cpp` | response state, running flag, handler | `set_*`, `finish`, `start`, `stop` | order of response calls; a server that stops while it answers |
| Local data connections | `framework/data/DataConnection.cpp` | resolved source/destination pairs | `create`, `do_data_copy`, `apply_struct_field_values` | overlapping destinations, copy order, fields that are not bound yet |
| Model and registry | `framework/model/Model.cpp`, `framework/registry/` | seeds, type tables | `finalize`, `from_string`, `to_string` | values at the ends of their types, two passes over the configuration |
| Tick statistics | `framework/WorkloadInstanceInfo.h` | 64-sample windows, overrun count | `record_tick_sample` | wrap-around |

The components interact as follows. `Engine::run()` is one thread: every tick it
opens the telemetry window, ticks the remote connections (which tick the
discoverers, the dynamic receivers and the senders, in that order), copies the
local data connections, applies the staged HTTP input writes, ticks the root
workload, closes the window and sleeps. The web server calls the telemetry
handlers on threads of its own; they share with the tick thread the workload
buffer (without a lock), the frame sequence (an atomic) and the staged writes
(under `pending_input_writes_mutex`). Two engines share nothing but UDP
datagrams and TCP streams. All sockets are non-blocking, so a connection only
makes progress inside a `tick()`.

What makes each component correct:

- *framing*: whole messages, in order, at most once, over any fragmentation;
  nothing of a broken connection survives into the next one;
- *remote connection*: the kind of message a reader expects is the kind it
  gets (nobody looks at the type byte); the READY/FIELDS exchange never runs
  dry and never floods; both ends meet again after failures;
- *discovery*: whoever needs a peer finds one in the end, and late datagrams
  never damage a connection that works;
- *frame sequence*: what a reader can conclude from the numbers it is given;
- *input writes*: an accepted value reaches the field its sender meant, in the
  order of acceptance, before some later tick;
- *engine lifecycle*: callbacks in their order, once each, for every instance;
- *workload memory*: both layout passes agree, and everything lies inside the
  buffer, aligned, without overlap;
- *local connections*: what a tick reads is what its sources hold, unless a
  connection copied later wrote it;
- *configuration*: what the model says is what workloads find when they load,
  although it is applied twice, and values survive being printed and read;
- *layout document*: with it and the raw bytes, a client finds every field;
- *web server*: a reply is the one its handler asked for, in whichever order it
  made the calls, and no handler outlives what it looks at.

The hazards that follow from this, each at its line and with the property that
would catch it, are listed in `PROJECT.json` under `hazards`.

## 2. Plan

Order of work, most important behaviour first. *Done* is what this directory
holds; the rest is planned.

| Module | What it composes or promises | State |
|---|---|---|
| `InProgressMessage` | operators: one framed message and one `tick()` of it | done |
| `MessageFifo` | abstract: a queue of whole messages | done |
| `MessageLink` | two `InProgressMessage` slots and a byte stream; implements `MessageFifo` | done, proved |
| `RemoteEngineConnection` | Sender and Receiver over `InProgressMessage` and a TCP model | done, safety proved |
| `TelemetryFrame` | the sequence window against HTTP readers | done, proved |
| `InputLog` | abstract: accepted writes form a log, each tick sees a prefix | done |
| `TelemetryInputs` | the POST handler and the tick thread; implements `InputLog` | done, proved |
| `Discovery` | discoverers, dynamic receivers, connections reduced to their state | done, proved |
| `WebResponse` | operators: the response calls of both platforms | done |
| `WebServer` | requests, handlers and `start()`/`stop()` over `WebResponse` | done, proved |
| `Layout` | operators: alignment and sizes of workloads and blackboards up to `SIZE_MAX` | done |
| `TypeValues` | operators: text to values and back | done |
| `DataConnections` | operators: paths, connections, bytes, configuration; over `TypeValues` | done |
| `Engine` | `load()`, `run()` and the destructor over `Layout` and `DataConnections` | done, proved |
| `TelemetryLayout` | the layout document of a loaded `Engine` and its client | done, model-checked |
| torn fields | `MessageLink` whose payload bytes carry the tick they were read in: `FIELDS` are read from live memory over several ticks | planned |
| `RemotePacing` | the exchange rate of two engines with tick rates, against the rates the white paper states | planned |

Candidates for checks against the documents: `ticks_until_next_send` is
rounded down in `RemoteEngineConnection.cpp:259`, the white paper rounds it up;
the 1 MiB limit of `InProgressMessage.cpp:220` is known to the receiving side
only; a dynamic receiver is added for every `DISCOVER_PEER` that is read, while
section 8 of the white paper on remote connections excludes allocation in ticks
after the handshake; `stop_fn` callbacks write under an even sequence while
telemetry still answers (`Engine.cpp:492`).

## 3. The modules and the code

Each module names the source file in its header and each action the function.
Definitions whose comment starts with *slip* are variants with a plausible
programming mistake: they are never part of a specification, and the property
they are paired with under `mutants` in `PROJECT.json` must find them.

### Messages: `InProgressMessage`, `MessageLink`, `MessageFifo`

A message is a record of the members of the class: `stage`, the header bytes
done, the payload bytes done and those waiting in `chunk_buffer`; its header is
reduced to a tag and the payload length. `AfterSend(m, h, p)` and
`AfterReceive(m, q, h, p)` are one call of `tick()` in which the kernel took or
gave `h` header and `p` payload bytes; `CanSend` and `CanReceive` say which
counts are possible: a payload byte never moves before the header is complete,
a chunk is refilled only when it is empty, and a `send()` that takes less than
it was offered ends the call. A byte on the wire is a record that says which
byte of which message it is.

`MessageLink` puts two slots and a bounded stream together; the stream can
break at any byte and lose any suffix, whereupon both ends vacate. It
implements `MessageFifo`, the queue of whole messages that a broken connection
empties.

### `RemoteEngineConnection`

The Sender and the Receiver of one data connection. `tick()` is cut where it
calls a `tick_*` function, because the other engine runs between two system
calls; `pc` says which call is next. Every action models one of these calls
with all that follows up to the next system call: dispatch on `state`, the
advance of the message, what its completion changes, the re-arming of the
countdown. `disconnect()` is three actions (drain in, drain out, close and
reset) after which the interrupted `tick()` goes on where it was, on a closed
socket, as in the code. TCP is modelled by the bytes of each direction, the
usable ends and the listen backlog of one, and fails by refusal, reset, the
death of either process and, with `PowerLosses`, a host that vanishes. A
connection identity is used again after both ends are closed, so two are
enough: the Sender has one socket and the Receiver one.

Abstracted: field contents, paths and the binder (any mismatch ends the
process); the order of calls across several connections of one engine; the
port, which the Sender is assumed to know (that is `Discovery`).

### `TelemetryFrame`

`Engine::run()` with only its memory writes: `BeginFrame` and `EndFrame` are
`mark_frame_write_begin()` and `mark_frame_write_end()`, `Write` any write of
the tick, `StopWrite` one of a `stop_fn`. The raw handler loads the sequence
for its header (`Request`) and streams the live buffer (`CopyCell`). A cell's
value is the frame that wrote it last. The sequence counts modulo `SeqSpan`,
which is 2^32 in the code. Stores are assumed to be seen in program order, and
the workloads to write only while their tick lasts:
`docs/design/tdd_composition_workloads.md:46-48` lets the children of a
`SyncedGroup` overrun it, and of those `RepeatedSeqIsStable` says nothing.

### `TelemetryInputs`, `InputLog`

`Stage` is what `handle_set_workload_input_field_data()` does under
`pending_input_writes_mutex`; `Post` the whole handler with its answers;
`BeginApply`, `ApplyOne`, `EndApply` are `apply_pending_input_writes()`, one
action per slot, with the mutex held throughout. A value is the number of the
write that brought it. `Target` says which slot a request with a handle, a
path or both is about. `Restart` makes a new session, whose handles may stand
for other fields, while clients go on with the layout they fetched. A valid
handle together with a path that is unknown or not writable is accepted, and
the handle decides (`TelemetryServer.cpp:542-558`): such a request names no
other writable field, so `WritesReachTheFieldMeant` does not count it as
misdirected.

The refinement maps what the last tick of the workloads saw (`shown`) and how
much of the log was applied before it (`seen`) to the variables of `InputLog`.

### `Discovery`

Senders and one engine with the model they want. `SenderDiscovers` and
`ReadReply` are the two forms of a discoverer's `tick()`, without and with a
datagram; `AnswerRequest` is the Receiver's, with the whole callback of
`RemoteEngineConnections::setup()`: a new dynamic receiver, its first ticks,
the answer with its port. Connections are reduced to state, port and the
condition of the TCP link. Datagrams are sets: they stay until they are read,
so they can be arbitrarily late and overtake each other; each is read at most
once (`requests` of one Sender are equal, so a duplicate is not told from a
second request). A dynamic receiver that nobody can reach any more is forgotten
by the model to keep it finite; the code keeps it.

Not modelled: `stop()` and another `run()` afterwards.

### `WebResponse`, `WebServer`

A response is what the class keeps (`state`, status, type), what it has handed
to the library - `wire`, the lines on a desktop's connection, `pending`, what
`esp_http_server` sends with the first chunk - and `asked`, what the handler
asked for, which only the properties read. One operator is one method on one
platform; `HeadersRefused` and `BodyRefused` are the two `ensure_*` functions.
The library's own behaviour (the ESP32's default status and type, chunks) is
external. `esp_http_server` keeps pointers: to the status line, which is a
local of `write_status_and_cors()` (`WebServer_esp32.cpp:25-27`), and to the
keys of headers, locals of `add_header()` (`:81-86`). When the first chunk is
sent those frames are gone, so each text is either what it was or `stale`
(`Found`, over any choice in `Overwritten`). Two things are assumed of what is
found there: it is read as one line, and the library's table has room for the
headers (it is as long as its configuration says, and refuses the rest).
`WebServer` is the life around it: `Start` and `Started` are the two halves of
`start()`, between which the desktop already takes requests but has no handler;
`BeginStop` and `Stopped` the halves of `stop()`, the second of which waits, as
both libraries do, for the requests in service. A handler is any sequence of
response calls. The branch of the telemetry handlers that answers 503 without
an engine is not an action: `EngineOutlivesRequests` says that it is never
reached.

### `Layout`, `TypeValues`, `DataConnections`

Three modules of operators. `Layout` is the arithmetic of `Engine.cpp:70-119`
and of `compute_and_apply_layout()`, with every check against `SIZE_MAX`.
`TypeValues` is `from_string()` and `to_string()`: a text is its word and the
number it begins with, a stored value its bits; what `sscanf` may store for a
number that does not fit is a set. What registration guarantees of a type whose
values have a text is `ValuesOK`. `DataConnections` resolves paths the way
`resolve_nested_member()` and `resolve_field_ptr()` do, through structs and
through blackboards, whose fields belong to the instance at an address and
whose offsets are `Unbound` until the engine binds them, and says what a
connection copies and what a configuration entry stores. Lookups take the least
index that has the name, as the code's loops do; the way along a path, the
number in some bytes and the powers of two are recursive functions, so that the
modules can be reasoned about.

### `Engine`

One engine and one of `Models`. `pc` names the loop that comes next, its round
and the round of the loop inside it (`entry`: the configuration entries of one
workload); each action is one round, or what stands between two loops.
`SetEngine`, `Apply` and `PreLoad` are the three parts of a round of
`Engine.cpp:224-245`: `set_engine_fn`, one entry after another, `pre_load_fn`.
`layout` holds where every round of the size pass ended (`ends`), the cursor of the
layout pass, the capacity and the used size; `inst` the offsets; `boards` the
fields of the initialised blackboards by their address; `memory` the bytes.
Callbacks are recorded in `calls`. What workloads do in them is theirs: those
of the models initialise blackboards in their constructor or in `pre_load_fn`,
the root gives every connection a handler in `set_children_fn`, and a tick may
write any one output. `Acquired` are the connections the engine copies and
`Left` those of them that are not copied yet in this tick. Sums over the fields
of a blackboard (`FieldEnds`) and over all blackboards (`StorageEnds`) are
recursive functions, one value for each round of the code's loop.
`RegistryAssumption` says what registration guarantees of C++ types: fields and
sections are of registered types and have a size, an alignment and an offset;
a field lies inside its struct, a section inside its workload and apart from the
other sections, and a value has as many bits as its bytes. The names of an
enumeration differ and are not numerals: nothing checks this, but it holds of
every enumeration that is registered. `ModelAssumption` says that models are
made of sequences. `fatal` is the process ending (`ROBOTICK_FATAL_EXIT`,
assertions).

Abstracted: members' default values, the `Blackboard` headers and the
statistics' bytes are not in `memory`; connections that a group takes over are
copied by the group and left alone here; each bound blackboard has an array of
field descriptions of its own (`Blackboard.cpp:23-33` keeps the caller's array
and `:88` writes the offsets into it: two blackboards given one array would
overwrite each other's, and nothing in the repository does that); callbacks
change memory only by initialising blackboards; offsets are aligned, the address of
the buffer is not modelled; of the tick statistics only the window and its
index; numbers in texts are assumed to fit `long long`.

### `TelemetryLayout`

`Document` is `build_layout_json()` of a loaded engine, with `Emit` for
`emit_type_info()`: a type is put into the document unless its *name* is
there. A blackboard's name is the hash of its fields, taken to be unique.
`Follow` and `Found` are a client that looks a path up in the document;
`AllFields` is where the engine's own iterator finds every field.

## 4. The runs

`expect` is `pass` unless said otherwise. State counts are distinct states.

| Run | Instance | What it shows |
|---|---|---|
| `message_link` | header 2, chunk 2, payloads of 0, 1 and 3 bytes, buffer 6, 5 messages | every split of header, chunk and payload occurs, with empty payloads and payloads longer than a chunk. The inductive invariant `IInv`, `CompletedInOrder` and the refinement `ImplementsFifo` hold. |
| `connection` | header 2, chunk 2, handshake 1, fields 3, buffer 7, rates 2 : 1, two faults with power loss (233 k) | the buffer holds one message and part of the next, so sends are cut inside headers and payloads and both message slots are busy at once; rate 2 : 1 makes `ticks_until_next_send` reach 2; two faults allow a fault during the recovery from another. `TypeOK`, `FramesStayWhole`, `OnlyExpectedMessages`, `TokenNeverLost`, `AtMostTwoFieldsPerRequest`, `DisconnectLeavesNothing`. |
| `connection_live` | header 1, chunk 1, fields 2, buffer 4, one fault, rates 1 : 2 (25 k) | `ReconnectsAfterFaults` and `FieldsKeepArriving` under fairness. |
| `connection_power_loss` | the same with power loss; **violation** | finding 1 below. |
| `telemetry_frame` | two cells, one client, span 4, five frames (242 k) | the sequence wraps twice; a response can mix three frames. `TypeOK`, `ParityTellsWriting`, `RepeatedSeqIsStable`. |
| `telemetry_inputs` | two slots, three paths, two layouts that swap handles, one client, three writes, two sessions (49 k) | one slot overwritten while the other waits, writes accepted before, between and after the rounds of the apply loop, client numbers that lie above the server's. `IInv`, `WritesReachTheFieldMeant`, `ServerSeqsIncrease`, the refinement `ImplementsLog`, and `AcceptedIsShown` under fairness. |
| `discovery` | one Sender, two ports, two receivers, three faults (47 k) | requests and replies of every age, ports that go stale. `TypeOK`, `NoSocketLeaks`, `OnlyFaultsSeparate`, and `PairsAgain` under fairness. Two Senders and two faults (548 k states), and three ports and three receivers (333 k), give the same results. |
| `web_response` | both platforms, one client, two requests, two starts, two headers (25 k) | every order of status, type, headers, body and early finish, with an empty and a full body, every choice of overwritten texts, and a stop at any moment. `TypeOK`, `EngineOutlivesRequests`, `DesktopBodiesArrive`, `Esp32EmptyRepliesComplete`, `NoHeaderInContent`. |
| `web_replies` | the same, desktop only; **violation** | finding 2. |
| `engine` | forty-three models, bytes of 2 bits, `max_align_t` 4, `SIZE_MAX` 120, window 2, three ticks in two runs (31 k) | models that load and models refused at each of the places where `load()` can end: unknown types and names, bad connections and rates, sizes one byte below and above what fits, blackboards initialised early, late, twice and never bound, struct types with blackboards that occur twice, in sections and as members, numbers below, at and beyond the ends of their types. The ten properties below. |
| `engine_blackboards` | the same; **violation** | finding 3. |
| `engine_layout_json` | one model, of two workloads of one type; **violation** | finding 4. |

Of `engine`: `LayoutOK` (both passes agree; aligned, apart, inside the buffer),
`BoardFieldsApart` (the same of blackboard fields), `ConfigSticks` (workloads
find in `load_fn`, and until the first tick, what the model configures),
`ValuesReadBack` (what is printed reads back as the same value; both only of
fields inside the used space, because finding 3 puts some outside it),
`CallbacksInOrder`, `EveryInstanceDestroyed`, `CopiesReachTick`,
`StatsWindow`, and `LayoutTellsAddressesOfDistinctTypes` (what holds of the
layout document in spite of finding 4). An address needs few bits to be wrong:
sizes 1 to 12, alignments 1 to 8 and a limit of 120 reach every gap, every
overflow and both sides of every comparison. With a window of two, three ticks
fill it, wrap it and write behind the wrap; two runs carry it over a stop. Two
bits to a byte make every value type small enough to reach both its ends.

`CHECK_DEADLOCK FALSE` stands where a behaviour really ends or the bound ends
it: `MessageLink` after `MaxMessages` messages, `TelemetryFrame` and
`TelemetryInputs` after `run()` has returned; in `Discovery` once every
Sender is paired, no datagram is left and the faults are used up: the ticks of
paired ends change nothing that the model keeps; in `WebServer` when the bounds
are used up or a refused call ended the process; in `Engine` when the process
ended or the engine is destroyed.
`RemoteEngineConnection` is checked for deadlock.

One client or one Sender is enough where clients only read
(`TelemetryFrame`), where one client's writes are told from another's by
nothing but what it fetched (`TelemetryInputs`; a client can hold an old and a
new layout in turn), and where the question is whether a Sender can be locked
out by its own past (`discovery`); requests in `WebServer` share nothing but
the server.

### Fairness

- `connection_live`: weak fairness of `SenderStep` and of `ReceiverStep`. Each
  engine's loop calls `tick()` again and again whatever happened; a step of
  the respective side is always enabled, so this says that neither engine
  stops for ever. Nothing is assumed of resets, restarts or the other side.
- `telemetry_inputs`: weak fairness of `EngineStep`: the loop of `run()` goes
  on; it waits for the mutex only while a handler copies one value.
- `discovery`: weak fairness of every engine's ticks, and strong fairness
  of three things the network and the timers owe: a reply that is available
  again and again is read (`recvfrom` is called in every tick of the
  discoverer), a Sender that may connect again and again does (the reconnect
  timer is 10 ms), and a request that is sent for ever is answered and the
  answer arrives (not every datagram is lost). Faults are bounded, so the
  property is about what follows the last of them.

### Findings

1. A comment in `RemoteEngineConnection.cpp:217-218` promises a clean restart
   after network failures. A Receiver whose peer vanished without FIN or RST
   waits in `recv()` for ever: it has nothing unacknowledged, no keepalive and
   no timeout, its listening socket is closed, and the restarted Sender is
   refused. The run assumes that the kernel reports bytes that nobody
   acknowledges.
2. A comment in `WebServer_desktop.cpp:259-261` offers `finish()` to handlers
   that bail early. On the desktop any header call puts the status line on the
   wire; `finish()` then writes it once more into the head that is still open
   (`:152-158`), as the reply of `/api/telemetry/health` does. Replies with a
   body are right on the desktop (`DesktopBodiesArrive`).
3. `DataConnection.cpp:244` and `TelemetryServer.cpp:740` assert that a field
   lies in the used part of the buffer. A blackboard's size is computed from
   offset zero (`Blackboard.cpp:103-110`) and its fields are laid out from the
   real cursor, whose first gap nobody reserves: the last field can end behind
   the used part, and connecting it or asking for the layout ends the process.
   `BoardFieldsApart` holds nevertheless.
4. `docs/design/tdd_reflective_telemetry.md:10` says that the layout
   describes every field of every workload. `emit_type_info()` emits a struct
   type once, with the blackboard type of the first instance. In the run
   two workloads have the same type, and the second one's blackboard is described
   with the first one's offsets. Nothing in the code needs two workloads for it:
   two sections of one workload that share a struct type, or a section and a
   member, are described as wrongly, and `engine` has such models among those
   that `LayoutTellsAddressesOfDistinctTypes` leaves out.

On the ESP32 a reply can differ from the one asked for in three ways. The model
follows the code in each, and the properties of `web_response` claim none of them:

- a body that follows any other call goes out with the library's own status and
  type, which `set_body()` replaces in state `Start` only, although the comment at
  `WebServer_esp32.cpp:95` says that the first body is preceded by them (`:96-99`);
- the library reads the status line, and the keys of headers, through pointers
  into frames that have returned (`:25-27`, `:81-86`), so their texts are undefined,
  although the comment at `:130` speaks of correct headers;
- `finish()` ends a reply without a body with an empty chunk (`:137`), which ends
  the transfer, and then with the terminator (`:141`): a second last chunk stands
  where the client expects the next reply.

With `Platforms` reduced to the ESP32, `RepliesAsAsked` fails for the first two.
What holds all the same is `Esp32EmptyRepliesComplete`: a reply without a body has
one head, in which the status line comes first and is the only one, the type is the
one asked for and there are as many headers as were added; no byte of content
follows.

What the comments `WorkloadsBuffer.h:116` and `Engine.cpp:480` suggest of the
frame sequence, that an even header labels a stable frame, is not claimed: a
response carries the value loaded before its body was streamed.
`RepeatedSeqIsStable` is what holds: two equal even headers of consecutive
requests, with the loop running, bracket one frame.

## 5. What is proved

The proofs hold for every value of the constants that satisfies the named
assumption of the module (sizes and bounds are natural numbers, `SeqSpan` is
even and positive, and so on); TLC evaluates the assumptions in every run.

**`MessageLinkProofs`** – `FramingInvariant` (`Spec => []IInv`),
`CompletionOrder`, `LinkImplementsFifo`. `CompletedInOrder` is not inductive:
whether the receiver's next byte is the right one depends on all bytes in
between. `IInv` therefore says of the stream that it consists of whole
messages cut only at its ends (`RunsOK`, `JoinsOK`), that its first byte is the
one the receiver waits for (`HeadOK`) and, while the connection is up, that its
end meets what the sender writes next (`StreamEndOK`). The lemmas
`StreamExtended`, `StreamConsumed` and `StreamCut` show that this survives
appending, removing and losing bytes; `QueueProperties` is the arithmetic of
the refinement mapping.

**`TelemetryFrameProofs`** – `FrameInvariant`, `TypesHold`, `ParityTheorem`,
`RepeatedSeqTheorem` (for writes of workloads that end with their tick). The
inductive invariant ties the sequence to the number of frames (`seq = Ticket %
SeqSpan`); parity then follows because the span is even (`ModParity`), and
equal values mean equal frames as long as fewer than half a span of frames lie
between (`ModEqual`).

**`TelemetryInputsProofs`** – `InputsInvariant`, `MeaningTheorem` (of requests
that name writable fields only), `SeqTheorem`, `InputsImplementLog`. `SlotOK`
is the heart: a slot the apply loop has passed has everything accepted in
memory, any other one has what was accepted before the last apply, and the
newest later write waits in it.

**`RemoteEngineConnectionProofs`** – `TypesHold`, `NothingIsLeft`
(`DisconnectLeavesNothing`), `NeverMoreThanTwo` (`AtMostTwoFieldsPerRequest`),
`FramingHolds` (`FramesStayWhole`), `OnlyExpected` (`OnlyExpectedMessages`),
`TokenHolds` (`TokenNeverLost`), for any sizes of headers, chunks, messages and
buffers, any rates, any number of faults, with and without power losses.
`ConnectionAssumption` asks for two connection identities, because one may be
half open when the next begins; nothing else is asked of their number. None of
the six is inductive, and the invariants build on each other:

- `Grounded == Control /\ HeldOK`: what each slot can look like between two
  calls (`SendSlot`, `ReceiveSlot`), which calls a side can be at in which
  state (`CallOK`), and who holds which end of which connection, including the
  one in the listen backlog (`Held`). Types and `DisconnectLeavesNothing`
  follow.
- `Budget`: how many Fields messages are begun and still to be begun for the
  last request.
- `Framed`: of every connection and direction, also of those that are only
  half there: the bytes in flight are whole messages cut at most at both ends
  (`Run`), the first is the one the reader's slot waits for (`Expects`), and
  while the connection is live the last meets what the writer's slot sends
  next (`Joins`). A side that leaves a connection never leaves a live one
  (`LeavingOK`), which is why draining needs no framing.
- `Spoken`: the bytes towards the Sender are of requests; those towards the
  Receiver are of the Subscribe message as long as it waits for one, and of
  Fields messages behind it.

For `Framed` and `Spoken` the actions are first shown to be one of a few kinds
of steps (`SendCall`, `ReceiveCall`, `LetsGo`, `Opens`, `Accepts`, `Resets`);
most of them leave a connection `Quiet`. `TokenNeverLost` is inductive relative
to `Grounded`.

**`WebServerProofs`** – `WebTypes`, `EngineStays` (`EngineOutlivesRequests`),
`HeadersStayAhead` (`NoHeaderInContent`), `DesktopBodies`
(`DesktopBodiesArrive`), `Esp32EmptyReplies` (`Esp32EmptyRepliesComplete`), for
any number of clients, requests, headers and starts, and whatever the library
finds behind the pointers it has kept. `WebInv` has a part for
the life of the server (`Serving`: whoever is inside a handler found the server
running, and `stop()` waits) and one for each response (`Good`). `Written` says
where on the wire a response of each state ends: at most one end of the head,
nothing but body behind it. `Ordered` speaks only of replies whose handler
made its calls in the order of HTTP: for them it says at which places of the
wire the status, the headers and the type stand and, on the desktop, that they are
what the handler asked for; on the ESP32 it says so of the type and of the number
of headers, which no overwritten text changes (`FoundOK`). From this the client's
reading is computed (`BodyArrives`, `EmptyArrives`). On the desktop a reply without
a body is not among them (finding 2), on the ESP32 a reply with one is not.

**`DiscoveryProofs`** – `DiscoveryInvariant`, `TypesHold`, `NoLeakTheorem`,
`SeparationTheorem`. `NoSocketLeaks` is inductive given the types.
`PairSurvives` goes through all steps that are not faults: each needs an end in
a state that a paired end is not in, and the receivers that are forgotten or
reused are never paired.

**`EngineProofs`**, first half – `LayoutTheorem` (`Spec => []LayoutOK`) and
`BoardFieldsTheorem` (`Spec => []BoardFieldsApart`). `LayoutOK` compares
two passes that do not run at the same time, so it is not inductive.
`LayoutInv` says of the first that each recorded end is one step of the layout
arithmetic from the one before (`EndsOK`), of the second that its cursor stands
where the first one stood in the same round (`LayingOut`) and that every
instance was placed there (`InstOK`), and of what follows that blackboards only
take from the reserve (`LaidOut`). `AlignedUpOK` and `AfterOK` are the
arithmetic: rounding up reaches a multiple, and placing an object never moves
back. Workloads, models, alignments and `SizeMax` are arbitrary; blackboards'
fields are too, their total is only used where the code has compared it with
the reserve.

`BoardFieldsApart`, of blackboards with an array of fields each, rests on two
recursive functions, each one loop of the code. `Recursion` shows that a
function recursive over `0 .. n` exists and satisfies its equation, `Induct` is
induction over such an interval stated with sets, and `Chain` and `Climbs` say
that ends which never move back are ordered. Inside one blackboard each field
then ends before the next begins (`FieldsApart`), and the storage of one
blackboard ends before that of the next (`StorageEndsOK`, `LaterBoard`). A
blackboard that occurs twice among `AllBoards` takes the storage of its first
place, so nothing has to be assumed about that list; one that nobody
initialised has no fields and takes none. `BoardsInv` adds to the property that
the descriptions of the fields are those the workloads gave (`BoardsDescribed`)
and that rounds count from one.

The second half of `EngineProofs` is about what `load()`, `run()` and the
destructor do with the workloads.

- `CallbacksTheorem` (`CallbacksInOrder`) and `DestructionTheorem`
  (`EveryInstanceDestroyed`), from `CallsInv`. A log of calls is in order if no
  call has a higher rank than the phase (`Highest`) and the last two fit; that a
  callback comes once is said by counting: in the phase of `fn` the workloads
  behind the round have one call and the others none (`Counted`), later all
  have one (`LoadCounts`, `EndCounts`). It uses `LayoutInv` for the number of
  instances, which are the ones the destructor visits.
- `CopiesTheorem` (`CopiesReachTick`), from `CopyInv`: while the copies of a
  tick are under way, every destination holds what its source holds unless a
  connection between it and the one under way wrote to either (`CopiedUpTo`).
- `StatsTheorem` (`StatsWindow`). The property looks at the window as a whole;
  the inductive `StatsInv` says where each sample is: before the window is full
  it is the history itself, afterwards place `j` holds the sample of age
  `Age(j)`, counted round the window from the index. A recorded sample replaces
  the oldest one and ages all others by one (`RecordedOK`); read from the index
  on the ages are 1, 2, ... in order (`StatsInvImplies`, over the lemma `Turned`
  on a sequence read from its middle). The length of the window is any positive
  number.

**`EngineConfigProofs`** – `TypeTheorem` (`TypeOK`), `ConfigTheorem`
(`ConfigSticks`) and `ReadBackTheorem` (`ValuesReadBack`), for every model, all
types and paths, every width of bytes and values. The last two are about fields
within the used space (finding 3 puts fields outside it), in memory that callbacks
change only by initialising blackboards. The proof climbs from numbers
to the engine:

- *numbers and bytes*: the powers of two (`TwoToOK`, `TwoToSum`), remainders by
  a product (`ByFactors`), and from them that a number stored in as many bytes
  as it has is the number loaded (`StoredLoaded`), that storing changes nothing
  else (`StoredElsewhere`) and that only equal bytes matter (`SameLoaded`);
- *texts*: what `from_string()` stores, if it does, is what the text asks for
  (`ParsedMeans`), and what `to_string()` prints of it is read as that value and
  no other (`TextReadsBack`, with `NumbersReadBack` and `NamesReadBack`). The
  number of an unsigned enumeration is read modulo 2^64, so that -1 is its
  greatest value; `Means` says so, because the code does. How digits are spelled
  is not part of it: a text carries the number its digits make.
- *paths*: whatever a path through structs and blackboards leads to lies in
  the section it starts from, or in a bound field of a blackboard there
  (`NestedLocated`); hence what two sections or two workloads configure never
  shares a byte (`LocatedApart`). This needs `LayoutInv` and `BoardsInv`.
- *rounds*: the second pass applies the entries of `config` and then those of
  `inputs`, each in one round (`RoundApplies`, `RoundsApplyAll`).
- *the engine*: `TypeInv` collects what no other invariant says (the rounds,
  counters, connections, the used size, that bytes are bytes, and when offsets
  of blackboard fields are known). `ConfigSticks` speaks of the end of the pass
  and of entries that none overwrites, so it is not inductive. `ConfigInv` speaks
  of each round: an entry that is applied (`Done`), with no applied entry of its
  section over it (`Kept`), is in memory as it was read (`Holds`). A new entry is
  there because of `StoredLoaded`, an old one still is because of `LocatedApart`
  and `StoredElsewhere` (`NewEntry`, `OldEntry`, `ConfigApply`). TLC has checked
  both invariants on the instance of the run `engine`.

Only model-checked:

- liveness (`ReconnectsAfterFaults`, `FieldsKeepArriving`, `AcceptedIsShown`,
  `PairsAgain`), which is beyond the prover;
- `LayoutTellsAddressesOfDistinctTypes`, whose document is built by recursive
  operators. It asks that a struct type with blackboards has one place in the
  whole engine and that names differ; two sections of one workload, or a section
  and a member, are enough to make the document wrong.

## 6. What is not modelled

- The components with status `not_modelled` in `PROJECT.json`, each with its
  reason; those of section 2 that are planned, and for good: the platform
  services (network bring-up, thin wrappers of operating system calls),
  containers, strings and mathematics (values without behaviour over time).
- Headers that are refused for magic, version or length; a descriptor that
  `create_tcp_socket()` returns after closing it.
- The contents of fields: which tick the bytes of a `FIELDS` message were read
  in, and the order of bytes of two connections of the same Sender.
- `float`, `double` and `text/plain` values; registration of types and seeds by
  static initialisers; `Blackboard::get()`/`set()` and buffer mirrors, which only
  move bytes; nested blackboards, which the engine never binds.
- Requests that civetweb or `esp_http_server` answer themselves; what becomes of a
  header that finds the ESP32's table full; a kept pointer whose text has become
  several lines.
- Weak memory: stores are seen in program order.
- Time: intervals are counted in ticks, and `disconnect()`'s 500 ms may end at
  any iteration.
