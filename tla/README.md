# Verification of the AI traffic interceptor

TLA+ models of the eBPF agent in this repository, model-checked with TLC and
proved with TLAPS. Paths are relative to the repository root (`bpf/`, `src/`,
`testing/`, `deploy/`); `PROJECT.json` maps every definition to the lines it
models, with `src/` as the name of the repository root.

## 1. Inventory

| Component | State it keeps | Operations | What makes it correct |
|---|---|---|---|
| `tc_dns_observer` (`bpf/ai_interceptor.c`, `bpf/dns/helpers.h`) | a record of `dns_events` reserved during a run | one run per packet and CPU: early returns, reserve, copy, validate, submit or discard | every reservation is settled; what the reader gets is a DNS response that lies within its packet and fits the record |
| `cgroup_connect4` (`bpf/ai_interceptor.c`) | pointers to map elements and a reserved record during a run | one run per `connect()`: two lookups, event, rewrite | only AI destinations are rewritten, to the proxy; one event each |
| BPF maps (`bpf/maps.h`) | `ai_destinations` (LRU hash), `proxy_config` (array), two ring buffers | lookup, update with eviction, reserve, commit, consume | a lookup finds what was written last for the address or nothing; records come in order of reservation |
| DNS service (`src/internal/bpf/dns/service.go`) | `aiCNAMEs`, for one message | `ProcessDNSEvent`, `writeDestination` | addresses are filed iff they were resolved through an AI domain |
| readers (`src/internal/bpf/reader.go`) | the ring positions | `ReadDNSEvents`, `ReadRedirectEvents` | every record is handled once, and logged as it happened |
| utilities (`src/internal/bpf/utils.go`) | none | `ntohs`, `uint32ToIP`, `nullTermString`, `int8SliceToString` | conversions are inverse to those of the kernel side; a name survives its fixed-size field |
| manager and main (`manager.go`, `cmd/ai-interceptor/main.go`) | objects, TC filter, cgroup link, goroutines, context | `NewManager` with its error paths, `Close`, signal handling | a started agent is completely attached; nothing is left behind |
| config, logger, domains | none after the start | `Load`, `New` | values only |
| test proxy (`testing/proxy/main.go`) | per connection two sockets, a deadline, two goroutines, a channel | `handle`, `extractSNI`, `parseSNI`, `extractHTTPHost`, `parseHostHeader` | forwards bytes in order; a tunnel ends by its peers only; leaves no goroutine; parsers stay within their input and find the host |
| generated bindings, vendored headers, deployment | none | none | not modelled |

How they interact: the TC program produces into `dns_events`; `ReadDNSEvents`
consumes it and calls the DNS service synchronously; the service updates
`ai_destinations`; the connect hook looks addresses up there, in whatever thread
calls `connect()`, and produces into `redirect_events`; `ReadRedirectEvents`
consumes and logs. The manager creates all of it and takes it down. Nothing
orders these actors except the two ring buffers. The test proxy runs on another
machine; it meets the agent only through the connections the hook diverts to it.

What is hard: program runs on several CPUs that commit out of order; the pointer
into an LRU element that outlives the entry; full ring buffers; a response whose
records come in an unusual order; arithmetic on packet lengths; processes that
die with a TC filter attached to the host's interface; in the test proxy,
deadlines that race with dials, sockets closed under a copying goroutine, and
walks over lengths that the client supplies. The list, line by line,
is under `hazards` in `PROJECT.json`.

## 2. Modules

| Module | Models | Remarks |
|---|---|---|
| `BpfRing` | `BPF_MAP_TYPE_RINGBUF` | external, from its use; a sequence of busy, ready and discarded records |
| `AiDestinations` | the LRU hash `ai_destinations` | external; a fixed set of elements that are reused; an update may evict any of them, several at once, and also when it fails |
| `ByteOrder` | `utils.go` and `encoding/binary` | an address is a tuple of four bytes; `BigEndian` is a constant |
| `TcDnsObserver` | `tc_dns_observer` | `TcReserve`/`TcPass` up to the reservation, `TcSubmit`/`TcDiscard` after it |
| `DnsService` | `service.go` | one action per loop iteration |
| `Connect4` | `cgroup_connect4`, the loop of `ReadRedirectEvents` | `ConnectMiss`/`ConnectHit` (lookups), `Reserve`, `Submit`/`NoReport` (event and rewrite), `ReadRedirect` |
| `Interceptor` | the running agent | composes the three above over the shared state; adds `ReadDNSEvents` and histories |
| `Interception` | what the agent promises | abstract: learned addresses, connections passed or diverted at once, reports; `Interceptor` implements it (`KeepsPromise`) |
| `HostnameField` | `writeDestination`, `hostname[64]`, `nullTermString` | byte by byte; what `Hostname64` stands for elsewhere |
| `Agent` | `main`, `NewManager`, `Close`, goroutine start and end, restarts | one action per call that can fail |
| `AgentEvents` | `Agent` with the redirect events in flight | every step of `Agent` is one of its steps; the ring buffer ends with its process |
| `Proxy` | `handle` of the test proxy and its two goroutines | one action per call that can block or fail, and the peers |
| `HttpHost` | `extractHTTPHost`, `parseHostHeader` | on the characters of a request |
| `ParseSNI` | `extractSNI`, `parseSNI` | one action per field of the hello; records which slice each read is from |
| `ClientHello` | the encoding of a hello | the reference that `FindsName` compares with |
| `Peek` | the switch of `handle` on the first byte | composes the two parsers; one of them runs |
| `MC*` | instances for TLC | constants only |
| `*Proofs` | theorems | one per component; `PromiseProofs` continues `InterceptorProofs`, and the lemmas on `ByteOrder` stand at the head of `DnsServiceProofs` |

Abstractions, and why they are safe:

* A packet is the header bytes the program looks at plus an opaque message; the
  program reads nothing else. All arithmetic keeps its 16-bit width; the 32-bit
  subtraction is followed by a mask whose modulus divides 2^32.
* A DNS name is the sequence of its labels, since `isAIDomain` compares whole
  labels. Names in another case are other names, as they are to the code.
* The hostname field of a map element is `Hostname64[name]`, a constant function,
  where other things are at stake; `HostnameField` has the bytes. A name has
  printable bytes only, because package dns escapes all others, so that the cast
  to `int8` and back changes none.
* `dns.Msg.Unpack` of a cut-off message fails, or returns the records before the
  cut (the library accepts a message that ends between two records).
* Map element and pointer: a lookup returns an element, and the hook keeps the
  element, not the entry. Reading the hostname while the element is refilled
  yields the new bytes or a mixture (`Torn`), a choice over what the race can
  produce. The kernel may recycle an element of an LRU hash at once.
* The TTL and timestamp of an entry are written and never read, and left out.
  So is the command name, which is copied into the event and logged.
* In `Proxy`, the bytes of each direction are numbered, and a request says which of
  them hold its head and its host: handle treats all others alike. A peer sends,
  stalls, closes its side or resets the connection at any time; a reset may or may
  not discard what was sent before. A write is taken by the socket as a whole or
  fails; that it may fail after a part of it changes only where the delivered
  prefix ends. A TLS record is the `head` of its request, its SNI the result of
  `parseSNI`, which `ParseSNI` models; requests are those whose heads
  `parseHostHeader` reads right, the others are in `HttpHost`. One connection is
  modelled: handlers share nothing but the process. That is ended by a panic in any of
  them, which this one meets as `Panic`, at any time; which requests panic is in
  `HttpHost`.
* In `HttpHost`, `host:` is one character. Four bytes have a lower-case form of another
  length, and stand for all that do: one that is not UTF-8 and becomes three, a letter
  of two bytes that becomes one, and a letter of two bytes that becomes three. A letter
  cut in two by the end of the buffer is two bytes that are not UTF-8.
* In `ParseSNI`, the bytes before the session id are not stored, since the walk
  skips them; the offsets are those of the code. Reads beyond the data yield zero
  there, and what counts is that `InBounds` excludes them.
* In `Agent`, a TC filter belongs to the interface of the host and survives the
  process (`hostNetwork: true`); maps, programs and the cgroup link do not.

## 3. Runs

| Run | Shows |
|---|---|
| `tc` | `ReservationSettled`, `ReadableWellFormed`, `ShortPayloadWhole`, `RingDrains` for two CPUs and 23 kinds of packets |
| `tc_raw_payload` (violation) | responses of 1036 to 1536 bytes are cut to their length modulo 1024 |
| `dns` | `SoundWrites`, `CompleteInOrder` for all answers of up to three records, among them aliases of the root name with an empty entry in `AI_DOMAINS` |
| `dns_record_order` (violation) | a chain out of order is not followed |
| `interceptor` | `OnlyAIRedirected`, `MapComplete`, `LandsRight`, `Accounting`, `LogFaithful`, `LoggedHostResolves`; `KeepsPromise`: the composed agent implements `Interception` |
| `interceptor_live` | `CapturedIsProcessed`, and `ReportedIsLogged` with redirect records that are submitted in another order than reserved |
| `logged_host` (violation) | an event may carry the host of another address |
| `hostname_field` | `LoggedIsName`: names shorter than, as long as and longer than the field, written over each other |
| `proxy` | `InOrder`, `CutOnlyAtTheEnd`, `EndsByPeer`, `ClosingSideDelivered`, `PeekEnds`, `NoGoroutineLeft` |
| `peek` | `InBounds`, `FindsName`, `Terminates` for five hellos with any byte replaced and any length cut; `HostOfHead`, `CutHostIsPrefix`, `PanicNeedsGrowth` for all heads of three lines in all segmentations |
| `agent` | `RunningIsHooked`, `HookedIsSeeded`, `StaleOnlyIfAbrupt`, `RecoversUnlessStale`, `NeverMute` |
| `agent_keeps_running` (violation) | after a kill the agent never gets past `FilterAdd` again |

The violations are the `findings` of `PROJECT.json`, each with the sentence of
the documentation it contradicts.

Observations. Other things the code does that a reader of the documentation may
not expect; the models have them, and the properties are stated around them:

* With `redirect_events` full a connection is rewritten without an event
  (`NoReport`; `Accounting` speaks of the reported ones).
* `pid` of a log line is the id of the thread, the low half of
  `bpf_get_current_pid_tgid()`; the process id is in `tgid`, which is not logged.
* The connect hook does not ask for the type of the socket: `connect()` of a
  datagram socket to an AI address is rewritten like any other.
* Names are compared byte by byte, so that a response which repeats the mixed case
  of its question is not recognised.
* An empty entry of `AI_DOMAINS`, as a trailing comma makes one, stands for the root
  name. Its aliases are not recognised, because `aiCNAMEs[name] != ""` takes the
  empty origin for a missing one (`RootAlias`); `CompleteInOrder` is about the other
  responses.
* main does not wait for the readers and these do not empty their buffers: events
  that are pending when a process ends are not logged (`AgentStep`).
* The test proxy closes both sockets when the first direction ends: a client that
  closes its side after its request loses the rest of the answer.
  `ClosingSideDelivered` says what is not lost.
* TLS connections are continued to port 443 and HTTP ones, unless the Host header
  names a port, to 80, whatever port the application asked for.
* `parseHostHeader` finds an offset in the lower-case copy of the data and uses it in
  the data. `bytes.ToLower` changes lengths: a byte that is not UTF-8 becomes three,
  some letters grow (U+023A, from two bytes to three) and some shrink (U+212A, from three
  to one). Any of these before the Host header displaces the host that is read. If
  something grew (`PanicNeedsGrowth`), and too few bytes follow the header, because the
  data are cut off or the head is short, the slice starts beyond their end (`Panics`).
  Nothing recovers that panic, so that it ends the proxy and every other tunnel.
  `HostOfHead` and `CutHostIsPrefix` are about the requests in which nothing changes its
  length; in `Proxy` the end of the process is the action `Panic`.

Bounds. `tc`: `MaxPackets` 4 with a ring of 2 records and 2 CPUs, so that both
CPUs hold records, the ring is full, and a discarded record stands before a
ready one; the packet lengths are the values around every comparison and around
the modulus. `dns`: three records hold a two-hop chain and an address in every
order; two map elements force evictions. `MaxMessages` is 1 there, because
`aiCNAMEs` lives for one message and the properties are about what one message leads
to; `interceptor` handles several.
`interceptor`: `MaxPackets` 2, whose entries evict each other, two map elements for
three addresses (eviction and reuse while a thread holds the pointer), a redirect ring
of two records and `MaxConnects` 3, so that both threads have a record in it, the later
one is submitted first, and a third connection finds it full. Map elements are
interchangeable, so this run uses symmetry over them; `KeepsPromise` is checked here,
since `Interception` has no fairness and its refinement is a safety property.
`interceptor_live`, where symmetry would be unsound, has `MaxConnects` 2 and the same
ring, in which a submitted record waits behind a busy one. `agent`:
`MaxFaults` 3, a fault during the clean-up of another and one more on the
restart; `MaxEvents` 2, an event before the reader is open and one after.
`proxy`: requests of two to five bytes and `MaxAnswer` 2, with `httpReadBufSize`
2 and `httpMaxHeaderBuf` 4 in place of 4096 and 16384, so that a
request takes several reads, a Host header lies across the end of the buffer, and
bytes follow the head; handle compares the sizes with nothing else.
`hostname_field`: a field of 3 bytes and names of 0 to 4. `peek`: `MaxLines` 3,
reads of up to 6 characters and a buffer of 12, shorter than the longest head;
every byte of the walked part of a hello takes the values 0, 1, 2, 4, 7, 255, and
the message length every value from 0 to beyond the record.

Deadlock is not checked where the bounds on packets, messages and connects end a
behaviour, and in the models of one connection, one request and one hello, which
end; it is checked in `agent`, which never stops.

Fairness. An eBPF program run that started ends, because the verifier admits only
bounded programs and they are not stopped halfway: weak fairness on the second
half of each program. The Go scheduler runs a runnable goroutine: weak fairness
on the readers and the service. Packets, connects and signals are never assumed
to come. In `Agent`, main and the goroutines make progress and the DaemonSet
restarts a process that ended. `MaxFaults` makes faults finitely many, which is
what `RecoversUnlessStale` is about: it comes back once faults stop, unless a
filter was left. In `Proxy`, the handler and the copying goroutines are runnable
goroutines, the timer of a deadline fires, and a dial ends within its timeout: weak
fairness on each. Nothing makes a peer send, close or read, and a write waits for
the peer to make room, so that neither the peers nor `Forward` nor `CopyWrite` are
fair; `NoGoroutineLeft` holds because the two
deferred calls of Close (`CloseUpstream`, `CloseConn`) make a blocked write fail.

## 4. Proofs

All are checked by `tlapm` for every value of the constants, under the `ASSUME`s
of the modules, which TLC evaluates in the runs.

* `TcDnsObserverProofs`: type correctness, `ReservationSettled`,
  `ReadableWellFormed`, `ShortPayloadWhole`. Inductive invariant `TcIInv`: the
  types; a CPU that is in a run owns exactly one busy record and a CPU that is
  not owns none; a packet in progress passed all checks up to the reservation;
  a ready record is the event of a packet that passed them all. The last two are
  needed because the properties speak of ready records, whose checks were made
  in an earlier step of the run.
* `DnsServiceProofs`: type correctness, `SoundWrites`, `CompleteInOrder`.
  Inductive invariant `svcIInv` of the first two: besides these,
  every entry of `aiCNAMEs` is a name its origin leads to through the CNAME records of
  the message. `Leads` is a closure property over sets of names, so no induction over
  the chain is needed: one hop extends it. Completeness uses the same fact the other
  way round: when the first loop has passed all records, and they stand in order, the
  set of AI domains and of names in `aiCNAMEs` (`Found`) is closed under the records,
  so that every name an AI domain leads to is in it. `svcCInv` says that this set is
  closed under the records passed so far, that no origin is empty unless the root name
  has an alias, and that each A record to be written which the second loop has passed
  was written or failed.
  The module also proves that the conversions of `ByteOrder` are inverse to each other
  for both byte orders, and that map keys identify addresses.
* `InterceptorProofs`: `OnlyAIRedirected` and `LandsRight` for the composition.
  Inductive invariant `IInv`: the invariants of the two components, taken over
  from their proofs; the message at hand begins that of a delivered one; every
  entry of the map, and every call of the hook beyond its lookup, is for an
  address that a delivered message resolves through the AI domain whose name the
  element held at that time (`KnownAs`). The step from entry to connection uses that
  keys identify addresses.
* `PromiseProofs`: the rest of what is checked of the composition, up to the theorem
  that it implements `Interception`. `LearnInv` is about learning: what was written
  or failed for the message at hand is in the map or noted as lost, and with `svcCInv`
  so is all of a message once it is done (`MapComplete`). `ReportInv` is about
  reporting: a number stands for one call, under way or over; each run between
  reservation and submission has exactly one busy record; a ready record is the report
  of one outcome, and so is a log line; no two of them, in the ring or in the log, are
  of the same outcome, and no reported outcome has none. `TypeOK`, `Accounting`,
  `LogFaithful` and `LoggedHostResolves` follow. The refinement takes one lemma per
  kind of step: a miss is `Pass`, because `MapComplete` puts every address that is in
  place and not lost into the map; the end of a run that hit is `Divert`, because of
  `KnownAs`; a turn of the reader is `Report`, because of `ReportInv`; the DNS service
  and its reader `Learn`; all other steps are stutters. Numbers, ring sizes, map size,
  threads, packets and answer sections are arbitrary throughout.
* `AgentProofs`: type correctness, `RunningIsHooked`, `HookedIsSeeded`,
  `StaleOnlyIfAbrupt`. The inductive invariant relates the position of main to the
  state of each resource. `EventsSafe` carries them over to `AgentEvents`, the
  specification that the run `agent` checks. `AgentFilterFate` is an action property:
  a filter gets lost by a fault only, and from then on, through any number of restarts,
  it stays lost and no process runs. The first half is the safety behind
  `RecoversUnlessStale`, the second says that what `agent_keeps_running` finds has no
  way out.
* `PeekProofs`: what both parsers of the test proxy compute, for input of any length.
  For any record at all, type correctness and `InBounds`: the inductive invariant adds
  that from the session id on the hello lies within its record, and that `end` is
  within the hello once the loop is entered; without it the reads of one step could not
  be bounded by the checks of the steps before. `SNIAdvances` is what termination rests
  on: each step reaches a later part of the hello, or passes one more extension header
  within it. `HttpAdvances` is its counterpart for `extractHTTPHost`: a turn of the
  loop returns or makes the buffer longer, and the buffer stays below
  `httpMaxHeaderBuf` plus one read.

  `FindsName`, `HostOfHead`, `CutHostIsPrefix` and `PanicNeedsGrowth` are about sequences that are put
  together from a list of parts. The induction they need is induction over a *set*: a
  set of numbers has a least element (from `WellFoundedInduction`), so a set with 0
  and the successor of each of its members has all numbers (`Induction`). With it
  `FlattenSeq` is described by the place where each part begins (`Flat`,
  `FlattenAt`, `FlattenWhere`), and a search by the least place where something is
  found (`IndexIs`).
  For the hello, `TailLayout` and `ExtBytes` say where every field and extension lies
  in the bytes, and the invariant `Walk` says that the walk is at one of these places
  and has passed no name. For the request, the invariant `HttpInv` says that the answer
  is that of `parseHostHeader` for the bytes read; that the first `\r\nhost: ` of the
  buffer is the beginning of the first Host line (`FirstHost`), also when the buffer
  ends anywhere (`CutFinds`), follows from lines having neither CR nor LF; the value
  that is cut out of the buffer is that of the line, or a part of it, whose trimmed form
  is a prefix (`WholeValue`, `PartValue`, `TrimPrefix`). The first two assume that what
  comes before has lower-case forms of the same length, so that the copy and the data
  have their places in common. `HostPanic` assumes nothing of the bytes: where none
  grows, the forms of the first k bytes are together no longer than k, so that the
  blank which ends the needle comes no later in the copy than in the data (`LowerBlank`)
  and the slice begins within them (`NoPanic`).
  Assumptions: `HellosAssumption`, that a hello's lengths fit their fields and that at
  most one extension has a host name, since RFC 8446 forbids a type to come twice;
  `HttpAssumption`, that the characters are distinct, and that lines hold no CR or LF
  and are not empty, which is what makes them the lines of a head.
* `HostnameFieldProofs`: type correctness and `LoggedIsName`, for a field of any size
  and names of any length. The inductive invariant says that the field of the map
  and that of the event are the copies of the names they were last written for;
  that `nullTermString` undoes the copy is a lemma of its own, which uses that a
  name has no zero byte.
* `ProxyProofs`: type correctness, `InOrder`, `CutOnlyAtTheEnd`, `EndsByPeer` and
  `ClosingSideDelivered`, for requests, answers and buffers of any size. The inductive invariant splits what was read from each
  socket into what was delivered and what is held: the peeked bytes until `Forward`,
  the buffer of the goroutine afterwards; each part continues where the one before
  ends, and the peeked bytes are as many as were read, which `CutOnlyAtTheEnd` needs.
  For the last two it adds (`Tunnel`) that no deadline is armed while the copy
  runs, that `errc` is empty before it starts, and that a goroutine gives up, or a
  value is in `errc`, only after a peer reset its connection or ended it with all it
  sent delivered; that stays true because an ended side sends nothing more.
  Behind `NoGoroutineLeft` are `ProxyNeverStuck` and `ProxyWindsUp`: `errc` never holds
  more values than goroutines have ended, and exactly as many until handle takes one
  (`Channel`), so that a send always finds room or handle waiting, and handle never
  waits in vain; and once handle has returned both sockets are closed (`Sockets`), so
  that every read and write fails and each step of a goroutine, or the end of the process
  by a panic elsewhere, is one towards its end.

Every invariant that a passing run checks is proved, and so is the refinement
`KeepsPromise`. Only model-checked are the liveness properties (`RingDrains`,
`CapturedIsProcessed`, `ReportedIsLogged`, `RecoversUnlessStale`, `NeverMute`,
`PeekEnds`, `NoGoroutineLeft`, `Terminates`): reasoning with fairness and `ENABLED` is
out of reach of the prover. `SNIAdvances`, `HttpAdvances`, `ProxyNeverStuck`,
`ProxyWindsUp` and `AgentFilterFate` are the steps of those arguments that are not
about fairness. The violations are counterexamples, for which TLC's run is the proof.

## 5. Order of the work

The agent's core came first (the TC program, the DNS service, the connect hook, then
their composition and its abstract specification), then the life cycle, then the test
proxy. For each: the module, its run, mutants that its properties must refuse, and then
the proofs. What could be added is a second proof of the liveness results with a
prover that handles fairness, on top of the action properties above.

## 6. Not modelled

The generated bindings and vendored headers, which have no logic of their own (by
lines they are nearly all of the C code), the environment parsing and logging
libraries, the accept loop of the test proxy beyond its starting of handlers, the BPF verifier, and the kernel
beyond what `BpfRing`, `AiDestinations` and `Agent` state. The TTL of an entry is
stored and never read, so nothing expires, as the repository's README says. IPv6, DNS over HTTPS
and reassembly of DNS over TCP are not handled by the code either.
