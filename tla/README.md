# A TLA+ model of ip-sockets-cpp-lite

ip-sockets-cpp-lite is a header-only C++ library for UDP, RAW and TCP sockets
and for IP addresses and prefixes. This directory holds TLA+ modules of its
core, configurations that check them with TLC on small instances, and proofs
checked by TLAPS for every instance. The models follow the Linux branches of
the headers.

## Inventory

| part | state | operations | interacts with | what is hard |
|---|---|---|---|---|
| `udp_socket_t` (udp_socket.h:218-872), also the base of TCP | `state` (created, prepared, opened), `sock`, `address_local`, `address_remote`, socket type; the kernel's flags and SO_RCVTIMEO of the descriptor | constructor, move, `open` with `bind` or `_connect`, `recv`, `recvfrom`, `send`, `sendto`, `close`, destructor | the kernel; other threads, which may call `close` on the same object (479) | plain fields shared by threads; system calls that fail half-way through `open`; descriptor numbers that the kernel reuses; timeouts |
| `tcp_socket_t` (tcp_socket.h:21-246) | `parent`, `accept_clients` | `open`/`listen`, `accept`, `recv`, `close`, move, destructor | server and accepted clients point at each other; one thread per client | unsynchronised vector, dangling `parent`, order of destruction |
| `tcp_streambuf_t`, `tcp_stream_t` (tcp_socket.h:253-392) | put and get area, `last_read_error`, `last_write_error`, error bits | `overflow`, `underflow`, `sync`, `flush`, move, destructor | one connected socket, which another thread may close | errors and retries in the middle of a buffer, full buffers, short sends |
| `ip_prefix_t`, `ip_prefix_raw_t` (ip_address.h:969-1304) | `length`, `ip` | constructors, `from_str`, `set_bit`, `push_back_bit`, `<<`, `network`, `contains` | raw overlay of a buffer | partial bytes, length 0 and maximum |
| `ip4_t`, `ip6_t`, `addr4_t`, `addr6_t` (ip_address.h:100-960) | the address, the port; while a text is read, an automaton with accumulators and small arrays | `from_str`, `to_str`, constructors | the prefix parser calls `ip4_t::from_str` | `::` both ways, number ranges at the end of the string, accumulators that wrap, arrays with one place left |
| `mini_http_server_t` (examples/http_server.cpp:34-186) | `must_die`, `server_socket`, the list of tasks | worker thread, one task per connection, `stop`, destructor | `tcp_socket_t` from all of its threads | stopping while the worker is anywhere, silent clients, tasks that use the object |
| `resolve` (udp_socket.h:798-871) | none | one `getaddrinfo` | – | – |
| log and error mapping (udp_socket.h:610-705) | none | errno to `error_e`, messages | every call | – |
| Windows branches, byte order, sockaddr copies | WSA reference | – | – | – |
| the other examples | global server object, detached threads | – | everything above | two ends that wait for each other |

What makes them correct, in a sentence each: a socket object holds exactly the
descriptor its state says, never touches another one, and each call ends; a
server's list of accepted connections is what its destructor has to close; a
stream neither loses, repeats nor reorders a byte; a prefix is a canonical
network and its operations agree with the set of addresses it stands for; a text
is read as the address its comment describes or refused, and what is printed
reads back; the example server can be stopped at any time, and no task or
connection outlives it.

## Modules

| module | models | variables and the fields they stand for |
|---|---|---|
| `SocketLifecycle` | one socket object, its owner thread, and threads that call `close()` | `kind` = `type` and `socket_type`; `state`, `sock`, `address_local`, `address_remote`; the kernel (`holder`, `nonblock`, `rcvtimeo`); `pc`, `ret` per thread; locals of the owner's call (`timeout_ms`, `remaining`, `rv`, `err`, `op`, `file`) |
| `SocketLifecycleProofs` | theorems about it | |
| `TcpServer` | server and client objects, `accept()`, the shared list | `srv`, `cli` = objects with their fields; `holder` = kernel; `apc`, `spc`, `cpc`, `i` = threads in `accept`, server `close`, client `close` with its loop index; `out` = out-parameters of `accept` |
| `TcpServerProofs` | theorems about it | |
| `ByteStream` | what one direction of a stream promises | `entered`, `left` |
| `TcpStream` | the buffered stream, as two implementations of `ByteStream` | `out` = pbase..pptr, `in` = gptr..egptr, `good` = error bits, `opened` = the socket, `wire`, `inq` = the connection |
| `TcpStreamProofs` | theorems about it | |
| `IpPrefix` | prefix objects, masking, containment, raw overlay | `length`, `ip` as bytes of bits, most significant first |
| `IpPrefixProofs` | theorems about it | |
| `Texts` | digits, marks, splitting | |
| `TextsProofs` | lemmas about it: induction, remainders, what its folds and its recursive function compute | |
| `Ip4Text` | `ip4_t`, `addr4_t` and the IPv4 prefix as texts | `text`, `tail` = the characters read, `p` = the locals of `ip4_t::from_str` |
| `Ip6Text` | `ip6_t` and `addr6_t` as texts | `ip` = the object, `text`, `tail`, `p` likewise |
| `Ip4TextProofs`, `Ip6TextProofs` | theorems about them | |
| `HttpServer` | the example server, over the steps of `TcpServer` | `must_die`, `tasks` as in the code; `worker`, `task`, `stopper` = where the threads are, `closing` = where two of them are in `close()` of `server_socket`; `fd` = what `socket()` has returned; histories `abandoned`, `overlapped` |
| `HttpServerProofs` | theorem about it | |
| `MC*` | values of the constants for TLC | |

**SocketLifecycle.** Every read or write of `state` or `sock` that another
thread can see is a step of its own, in source order: `close()` is
`CloseCheck`, `CloseMark`, `CloseFd`, `CloseInval`; `open()` runs from
`CallOpen` over `SocketCreated`/`SocketFails`, the socket options, `Bind` or the
steps of `_connect` (`SetNonblock`, `Connect`, the loop `PollLoop`, `Poll`,
`PollReady`/`PollSignal`/`PollTimeout`, `PollCheck`, `SoError`, `RestoreCheck`,
`Restore`), to `Names`, `SetOpened` and, for a TCP server, `Listen`. A
non-blocking system call reads `sock` and takes effect at once; one that can
wait is entered in one step, which fixes the open file it works on, and returns
in another. A system call can fail wherever it can in the kernel. The kernel
hands any free descriptor to `socket()` or to the rest of the process
(`ForeignOpen`), so a stale number can name something else; `misused` remembers
a call that reached such a descriptor. Addresses are represented by where they
come from (own name, peer, sender or destination, packet header, none). The
I/O calls share their steps; `Refusal`, `SenderAddress` and `IoNames` say how they differ.

Some constants describe how the object is used: `CloseBeforeReopen` (a socket
that `open()` left in state prepared is closed before it is opened again),
`SerialClose` (no call begins while another thread is inside `close()`) and
`CloseWindow` (where the owner can be when another thread begins to close).
The passing runs say which use they rest on. A thread that closes after the
owner has passed the checks of an I/O call and before the system call reads
`sock` is left out of `CloseWindow` in the `lifecycle` run: the call may then
reach a reused number. Reading and writing the descriptor flags (324-325) is one
step (`SetNonblock`), since no one else changes them, and so are the two names an
I/O call stores (`IoNames`). `SoError` on a reused number reads an error and clears
it; it is not counted as misuse.

**TcpServer.** The steps of `accept()` and of the search in
`parent->accept_clients` are separate, because a thread each may be in them.
`ServerOutlives`, `MoveWithClients` and `SerialClose` again name the use.
`accept()` on a number that the kernel has handed to another listening socket
is not modelled: `AcceptConnection` needs the server's own descriptor. `ServerOpen`
is one step and succeeds: its failures, that of listen among them, are steps of
`SocketLifecycle` and `HttpServer`, and so is a `close()` that overlaps it.
`ClientScan` compares the index with the size and reads the entry (115-116) in one
step.

**TcpStream.** A byte is its serial number. `send()` takes everything or
nothing unless `PartialSends`; `recv()` returns any part of what has arrived, a
timeout, an error, or the end. Bytes still in the buffers when a stream is moved
are dropped by the code (279-290), so the runs only move an empty one
(`MoveWhenEmpty`).

**IpPrefix.** `W` (8 in the code) and `Bytes` (4 or 16) are constants; the
proofs leave them open. `from_str` is modelled by its outcomes here (host prefix,
masked prefix, reset), and with its text in `Ip4Text`. Lengths above `max_length` violate an
`assert` of the code and are not generated.

**Ip4Text, Ip6Text.** A character is the value of a digit or a mark. The bases
(10, 16), the values of a byte (256), the number of groups (8) and the largest
port are constants, so that a text of a few characters already passes every
limit of the code: an octet, a group and a port that are too large, and an
accumulator that wraps. One step reads one character, as one round of the loop
does; the look-ahead of the code (`0x`, `::`) is a state that the next character
decides. `Finish` is what the code does behind the loop, so that every state is
also the end of a text and the properties speak about every text up to the
bound. `addr_from_str` and `prefix_from_str` are folds over the whole text, which
hand a part of it to `from_str` as the code does. A text is not continued once
its address has failed. In `Ip6Text` the digits of a group come from `Numbers`.
Seven groups in front of a dotted part are not refused by the code
(ip_address.h:392 tests `index_dec` where `index_hex` is meant) and what follows is
undefined: the object may then be anything (`Undefined`).

**HttpServer.** `worker()`, `handle_client()` and `stop()` are threads over the
actions of `TcpServer`: the worker takes the steps of `accept()`,
a task the steps of a client's `close()`, twice because the destructor of its
parameter closes again, and `stop()` the server's `close()` and destructor. Both
threads work on `server_socket` with no lock: the worker opens it, and closes it
when a later call of that `open()` fails, while `stop()` closes it. So its `open()`
(`WorkerOpens`, `WorkerSocket`, `WorkerStores`, `WorkerChecks`, `WorkerOptions`,
`WorkerBinds`, `WorkerOpened`, `WorkerListens`, `WorkerCleansUp`) and its `close()`
(`CloseTest`, `CloseMark`, `CloseFd`, `CloseInval`, by either thread) take one step
for each access of `state` or `sock`. `WorkerSocket` and `WorkerStores` are apart
because the assignment of line 417 comes after the call has returned. A failed
setsockopt returns as the code does, prepared and with a descriptor, and the
worker opens again over it (http_server.cpp:81). What of this loses a descriptor
is remembered: `abandoned` are the descriptors a failed setsockopt has left,
`overlapped` says that the `close()` of `stop()` and an `open()` have met. The two
setsockopt are one step, since nothing is written between them.
Sends do not block, since headers and pages fit the buffer of the kernel. The
tasks close with nothing to serialise them, and `client_race` shows what the list
of the server suffers; once an entry is erased past the end (`ListBroken`)
nothing is defined and the properties claim nothing.

## Runs that pass

| run | instance | what it shows |
|---|---|---|
| `lifecycle` | 2 descriptors, all six kinds, timeouts 1000 and 2000 ms, connect timeout 1200 ms, 2 closing threads while the owner is blocked in an I/O call, one close at a time | `TypeOK`; `OneDescriptor`, `TouchesOnlyOwn`: no path through open, I/O, move, close, destruction leaks or confuses a descriptor; `OpenedIsArmed`: the connect phase leaves no O_NONBLOCK behind and the timeout is set |
| `returns` | all kinds but RAW, a thread that closes while the owner is in `open()` or blocked in a receive | `OpenReturns`, `ReceiveReturns`; `CloseAbortsConnect`, `CloseDetectedPromptly`: a close during the connect wait decides the open, after at most one more poll |
| `server` | 2 server places, 2 client places, 3 descriptors | `TypeOK`, `AcceptedListIsExact`, `NoFault`, `NoLeak` |
| `stream` | buffers of 2, 5 bytes each way | `TypeOK`, `FlushTrueMeansSent`, `EndOfStreamIsLast`, and `OutputIsByteStream`, `InputIsByteStream`: refinement of `ByteStream` |
| `prefix` | addresses of 3 bytes of 2 bits | `TypeOK`, `HostBitsZero`, `ContainsIsBitwise`, `PrefixesAreSets`, `ChildrenPartition`, `RawRoundTrip` |
| `ip4_text` | bytes of one bit, digits 0 and 1 and one hexadecimal one, ports up to 3, texts up to 8 characters | `TypeOK`: nothing is stored outside the arrays; `ParsesEveryForm`, `MalformedIsZero`: the automaton agrees with the comment on what each text means or that it means nothing; `RoundTrip`; `AddrIsAddressAndPort`, `PrefixIsNetwork` for the parts behind a colon or slash |
| `ip6_text` | 4 groups of 2 bytes of 2 bits, 3 numbers, texts up to 11 characters, addresses with port up to 7 and a bracket; all addresses over 3 group values and all mapped IPv4 addresses for `to_str` | the same for IPv6, `RoundTrip` with every choice of the options, and `MappedIsDotted` |
| `http_server` | 1 server, 2 connections at a time, 3 descriptors | `StopReturns`: wherever `stop()` falls, inside `open()` too; `EveryConnectionClosed`, `AcceptReturns`; `CleanAfterStop`: no task, client object or descriptor of a connection is left, and a listening one only after a failed setsockopt or, at most one, after a `close()` that overlapped `open()` |

Bounds. Two descriptors are the object's own and one that was reused, or two
that were leaked; 1200 ms is waited for as 500 + 500 + 200, two full chunks and
a rest. Whole seconds are used where the timeval is not the question, because
the code fills it wrongly otherwise (below). Three descriptors are a listening
one and two connections, so the list has a first and a last entry. Five bytes in
buffers of two are two full buffers and a rest. Three bytes of two bits have a
first, a middle and a last byte, each of which a length can cut.

With bytes of one bit a 32-bit number has four bits: eight characters hold four
octets with their dots and one character more, `0x` with a digit, a number that
wraps, an octet of 2, a port of 4 and a prefix length of 5. With four groups the
group in front of a mapped address is the first one; eleven characters hold
two groups and a dotted end and, with empty octets, one group too many. `::` can stand at the start, in the
middle and at the end, and every run of zero groups occurs in `to_str`. Two
connections are enough for one task to be erased while another runs and for two
that close at once.

Symmetry over descriptors, closing threads, server and client places is used for
invariants only: no definition tells them apart.

Fairness. A thread inside a call keeps running (`OpenStep`, `CloseStep`,
`AcceptProgress`, the I/O steps), and the timers of the kernel, SO_RCVTIMEO and
the timeout of `poll()`, expire: both are weak fairness on steps that stay
enabled. No call has to be made, no data and no connection has to arrive
(`IoCompletes`, `PeerSends` and `AcceptConnection` are not fair). In `HttpServer`
the worker, the thread in `stop()` and every task keep running, and the receive
timeout of an accepted connection, which Linux lets it inherit from the listening
socket, runs out; nobody has to connect, to send a request (`TaskReceives` is
not fair) or to call `stop()`.

Deadlock is checked except where the system really stops: a destroyed stream
whose peer has closed, a text at its bound, a server that is gone.

## Where code and comments disagree

Four of these have a run that checks the sentence of the comment and finds it
violated; PROJECT.json quotes the sentence with its line.

| run | what happens |
|---|---|
| `lost_close` | `state = opened` overwrites a `close()` from another thread |
| `lost_descriptor` | `close()` while another thread is inside `socket()` of `open()`: the descriptor is overwritten by INVALID_SOCKET and stays allocated |
| `client_race` | of two accepted clients that close at once, one passes over its own entry because the erase of the other has shifted the list |
| `partial_send` | bytes of a short send are sent again |

The others are visible in the modules without a run of their own:

* udp_socket.h:169, created means no descriptor: a failed setsockopt (444) leaves
  state prepared, and an `open()` without a `close()` overwrites the descriptor.
  With `CloseBeforeReopen = FALSE`, `OneDescriptor` fails. The worker of
  http_server.cpp:81 is such a caller: `CleanAfterStop` excepts what is in `abandoned`.
* udp_socket.h:479-480, `close()` is safe from another thread and repeatedly: two
  threads inside `close()` at once both pass the check of `state` and close the
  same number. With `SerialClose = FALSE` and two closing threads
  `TouchesOnlyOwn` fails.
* udp_socket.h:402-403, error_timeout and error_not_allowed: `Names` returns
  error_open_failed after every failed connect, `SetsockoptFails` whatever
  `log_and_return` makes of the errno.
* udp_socket.h:236, `address_remote` is the peer of a client: `IoNames` empties it
  when a `recvfrom()` fails.
* udp_socket.h:396, the receive timeout is in milliseconds: its part below a second
  goes to the microseconds of timeval (452), so that 500 ms become 500 us. With
  `Timeouts = {500}`, `OpenedIsArmed` fails.
* udp_socket.h:396, the receive timeout: `SetHdrincl` goes straight to opened, so
  a RAW socket has none; with RAW among the `Kinds`, `ReceiveReturns` fails.
* tcp_socket.h:122-123, the out-parameters of `accept()`: `Accept` leaves them
  unwritten when the server is not opened.
* examples/tcp_socket.cpp:27, closing the server closes the accepted connections:
  `ServerClose` leaves them to the destructor.
* tcp_socket.h:112, the server's destructor closes accepted connections: the client
  objects close the same numbers again. With `ServerOutlives = FALSE`, `NoFault`
  fails; with `MoveWithClients = TRUE`, `AcceptedListIsExact` does, since
  the clients keep pointing at the object that was moved from.
* ip_address.h:1003, host bits are masked: not by the raw constructor. With
  `RawCanonical = FALSE`, `HostBitsZero` fails.
* ip_address.h:111-112, success confirms that parsing succeeded: an IPv4 text whose
  last octet is out of range gives 0.0.0.0 with success set (`Finish`). `0x` with
  no digit in front of a dot counts as 0, and numbers are taken modulo 2^32.
* ip_address.h:333-350: an IPv6 text with fewer groups and no `::`, with `:::` or
  with a colon at its end is accepted, an empty octet of a dotted part is 0, and a
  letter in it counts with its value. `::` is said to stand for one or more zero
  numbers (332), but among as many groups as there are, as in `1:2:3:4:5:6:7::8`, it
  is accepted and stands for none; `Malformed` leaves such texts out. The properties say which texts they leave
  to the code (`Malformed`, `Unwrapped`).
* ip_address.h:574-575, an IPv4 address in IPv6 form is always printed as
  `::ffff:x.x.x.x`: only with `reduction`; `MappedIsDotted` is stated for it. With
  both options an address whose first six groups are zero is printed as
  `::x.x.x.x`, which `from_str` reads as `::ffff:x.x.x.x` (the condition in
  `RoundTrip`).
* A prefix length wraps modulo 2^32 before it is compared (1141), and what follows
  the digits of a length or a port is ignored. `addr6_t` takes a missing port
  for 0, `addr4_t` refuses it.
* examples/tcp_stream.cpp:226, the server echoes every line: it writes the answer
  without a flush and reads on (243), while its client waits for the answer. Both
  wait until a receive timeout, and at most one line comes back.
* examples/http_server.cpp:130-131: the tasks count requests in a plain integer
  and a `std::map` without a lock. The counters are left out of the model.

## Proofs

From the named assumptions of `SocketLifecycle` (`INVALID_SOCKET` is no
descriptor, the owner is not a closing thread, the constants have their types),
for any set of descriptors, closing threads, kinds and timeouts:

* `TypeCorrect`: `TypeOK` is inductive by itself. One step per action;
  `remaining` stays a natural number because the chunk is never larger.
* `CloseAbortsConnectHolds`, `CloseDetectedPromptlyHolds`: neither is inductive,
  since the answer is given many steps after the close. `ConnectInv` adds why:
  while an interrupted open is in the connect wait its state stays created (only
  the owner sets another state, and not there); once it left the wait, `err` is
  set and nothing clears it before `Names`; from there the return value is
  error_open_failed; and a poll begun after the mark is the only one.
* `OneDescriptorHolds`, `TouchesOnlyOwnHolds`, under `SerialUse`: the owner closes
  a socket whose `open()` failed half-way, and other threads, any number of them,
  close only a settled object (between calls, or in an I/O call that has entered
  the kernel), one at a time. The properties speak about the points between calls;
  `SerialInv` extends the agreement of `state`, `sock` and the kernel's table to
  every program point of the owner and of the one thread inside `close()`.
* `OpenedIsArmedHolds`, under `SerialUse` and for timeouts of whole seconds:
  `ArmedInv` adds that O_NONBLOCK is on `sock` alone and only inside `_connect`, so
  that a number the kernel hands out again starts without it, and that from the
  setsockopt on `sock` keeps the timeout of this `open()`.

From `ObjectAssumption` of `TcpServer` (servers and clients are different objects,
and none of them nor a descriptor is the null value), for any sets of them:

* `ServerTypeCorrect`: `TypeOK` is inductive by itself, whatever the callers do.
* `NoLeakHolds`, with no assumption on the use: `OwnInv` says which object still
  has something to close (a created one has none in `sock`, only living objects are
  opened or inside `close()`). Overlapping closes and dangling parents close numbers
  they should not, but never lose one.
* `NoFaultHolds`, `AcceptedListExact`, under `SerialUse` (`ServerOutlives`, no move
  with open clients, `SerialClose`): `AcceptedListIsExact` speaks about the times
  when no client is inside `close()`. `UseInv` carries it through the search loop:
  `ListedInv` says where the descriptor is while its client scans the list
  (not in front of the index), erases the entry (at the index) and closes (no
  longer listed); `EntriesInv` that every entry is a connection of that
  server and occurs once; `ParentInv` that the server outlives its clients and that
  closes do not overlap; `ClientHeldInv` and `ServerHeldInv` that who has still to
  close a descriptor owns it.

From the same and `ServerAssumption` of `HttpServer` (`server_socket` is a server), for
any number of connections:

* `CleanAfterStopHolds`, with no assumption on the use: what is left when the
  object is gone rests on the whole run before. `HttpInv`: the worker knows
  every task that is not erased, and leaves its inner loop only when it has waited
  for them (`KnownInv`); a living client object is in a task that has not ended,
  or `accept()` has just returned it (`OwnedInv`); the last close of a task is the
  destructor's (`DyingInv`); a descriptor of a connection is the one of an opened
  client object (`ConnectionInv`); `server_socket` is the only server (`AloneInv`).
  `SocketInv` is about `server_socket`: who can be inside its `close()`, and that an
  overlap and the end of the accept loop come only with `must_die` (`StopInv`); while
  there was no overlap, a descriptor of the socket that is not abandoned is about to
  be stored, or it is in `sock` with a state, or a thread inside `close()`, that will
  lead to its closesocket (`OverlapInv`); with or without one, there is at most one
  such descriptor, of the last `socket()`, and none before the next (`KeptInv`).

From the sizes being positive (`SizeAssumption` of `IpPrefix`):

* `MaskBit`: what `mask_ip` does to each bit, by cases on the byte it is in; the
  lemmas `DivMod`, `ByteOrder`, `BitInByte` carry the arithmetic.
* `HostBitsZeroHolds`, with canonical raw prefixes: `TypeOK` and `HostBitsZero`
  together are inductive.
* `PrefixTypeCorrect`: `TypeOK` alone, for raw prefixes of any content.
* `ContainsIsBitwiseHolds`: equality of masked addresses is agreement on the
  first bits, from `MaskBit` and `EqualBits`.
* `PrefixesAreSetsHolds`, `ChildrenPartitionHolds`, `RawRoundTripHolds`, from the same
  invariant: the properties quantify over other prefixes, over all addresses or over
  the bytes of an overlay, and each is reduced to single bits by `MaskBit`. Two
  canonical prefixes are told apart by an address that differs in one bit.

From the sizes of `TcpStream` having their types (`SizeAssumption`):

* `StreamTypeCorrect`: neither area ever holds more than `bufsize` bytes.
* `BytesConserved`, `FlushTrueMeansSentHolds`, `EndOfStreamIsLastHolds`,
  `OutputIsByteStreamHolds`, `InputIsByteStreamHolds`, with `~ PartialSends` and
  `MoveWhenEmpty`: the refinement mapping speaks of what was written and what is on
  the wire, and says nothing about the areas between; `StreamInv` adds that the
  areas hold exactly the difference (`written = wire \o out`,
  `arrived = (read \o in) \o inq`), and that nothing arrives after a reported end.
  The lemmas `AppendJoined`, `HeadJoined`, `Cut` and `Beginning` say how sequences
  are cut and joined; each step of the stream is then a step of `ByteStream`.

From the bases, widths and sizes of `Ip4Text` and `Ip6Text` having their types and
a byte having at least one value:

* `Ip4TypeCorrect`, `Ip6TypeCorrect`: for every text of any length the automata
  store only inside their arrays and their accumulators stay 32-bit numbers. The
  lemmas follow the branches of one character (`Cont`, `InNumber`, `Read`;
  `PushGroup`, `SingleColon`, `DoubleColon`, `Settled`, `Read`); the limit on the
  index in front of each store is what makes the step inductive.
* `FinishIsAddress`: what `ip4_t::from_str` stores in the end is four bytes, from
  any state of the automaton.
* `AutomatonIsFromStr`: the automaton that reads one character per step is `from_str`.
* `ParsesEveryFormHolds`, `MalformedIsZeroHolds`: what a text means is defined by
  splitting the whole of it at its dots, what the code does by one pass. `PieceInv`
  connects them at every character: the pieces in front of the last dot are numbers
  (or a bare `0x`) whose values are in the array, and the last piece is the number
  the automaton is in, with `accum` its value modulo 2^32, or it is malformed and
  the automaton has stopped (`Reading`, `Ended`, `Follows`). `AcceptsValid` and
  `RefusesOthers` compare the two at the end of a text; `NumberOfBytes` is the
  arithmetic of a lone number.
* `FromStrOfToStr`, `Ip4RoundTripHolds`: digits printed for a byte have its value
  (`DigitsValue`), and the automaton reads them back octet by octet (`OctetParsed`).
* `Ip4AddrHolds`, `Ip4PrefixHolds`: both classes scan the text again behind the
  mark. `MarkInv` keeps the marks in their place and `ip4_t::from_str` at an error
  behind one; `TailInv` says that the two loops have read the same leading digits
  (`Leads`), with `accum` their value modulo 2^32 and 2^64, and that the scan of
  `addr4_t` has found the colon, unless nothing stands in front of it or
  `ip4_t::from_str` refuses what does.

For `ip6_t` and `addr6_t`, from the same assumptions, at least four groups and samples
that are groups (`SampleAssumption`):

* `Ip6AddrHolds`: `TailInv` ties the two automata together. `p` is the parser of the
  whole text; the scan of `addr6_t` stands inside the brackets with the same
  characters, or has closed them, or is in the port with the leading digits of what
  follows the colon (`Found`, `Inside`, `Closed`, `PortScan`).
* `Ip6ObjectIsAddress`: expansion gives `Groups` 16-bit numbers from any state of the
  parser; this is what the two theorems on `to_str` need of the object.
* `MappedIsDottedHolds`: the loop of `to_str`, group by group. `MapInv` says what is
  known before each group: a text that begins with a colon begins with a zero group;
  then the run of zeros is open only if every group so far was 0; no dot is written
  before the loop breaks, and it breaks behind a zero group only for the addresses
  `is_ip4` names. A text equal to the mapped one begins with a colon and has dots.
* `Ip6RoundTripHolds`: what `to_str` has written so far, given to `from_str`, holds
  the groups printed so far. `Fits` relates the groups read, with the gap, to the
  groups of the address; `Ready` and `Written` say it behind a colon and behind a
  number; `BackInv` carries it through the loop with the run of zeros not begun, open
  or closed, and through the break behind the dotted part (`FinishQuad`).
* `Ip6MalformedHolds`, `Ip6ParsesHolds`: what a text means is defined by the first
  `::`, then by splitting at colons and dots; the code makes one pass with a colon
  held back. `Track` connects them at every character that is settled: the text is
  the items in front of the gap, `::` and the items behind it, with no two colons next
  to each other in either (`TextIs`); the numbers of all items but the last are in
  `result_hex`, those of the last item in `result_dec` and the accumulators, modulo
  2^32 (`Holding`, `LastRead`). `Tracked` adds the colon that is held back, and
  `EveryTextFollowed` says that every text not refused is tracked. A text accepted
  at its end then has only items in range and in place (`AcceptedIsFine`), which is
  the first theorem. For the second, the parser is at an error only because of the
  last character (`StopsAtError`), and no such text is valid (`ErrorInvalid`: the
  group is too large, or one too many, or a second gap, or no item goes on like
  that); the other valid texts are accepted (`ValidGives`), fit (`GroupsFit`) and are
  expanded where the reference puts its zeros (`ReadsPlain`, `ReadsGap`, `ReadsEnd`,
  for no gap, a gap and a gap at the end).

The proof of `Ip6MalformedHolds` corrected `Unwrapped`: the loop computes every
number between colons and dots in both bases, so a number wraps by its value to base
16 even where it stands in a dotted part. The excluded texts are the ones whose
numbers are larger than a `uint32_t`, which `from_str` takes modulo 2^32.

The library's induction theorems take an operator, which no installed prover can
instantiate. `TextsProofs` states induction for sets instead (`SetInduction`,
`RangeInduction`, from well-foundedness of the naturals), and a property is proved
by naming the set of numbers that have it. A fold of the community modules chooses
a function on sets of positions; `TableExists` builds that function by
`SetInduction`, `TableFolds` and `FoldSnoc` read off that a fold over one more
character is one more step, and `ParsedSteps`, `ValueSteps`, `SplitSteps`, `ScanSteps`,
`LengthSteps` say so for each fold of the model. `DigitsOfEquation` does the same
for the recursive function in `DigitsOf`.

Only model-checked: the liveness properties (`OpenReturns`, `ReceiveReturns`,
`StopReturns`, `EveryConnectionClosed`, `AcceptReturns`; fairness is outside the
prover's reach). Every invariant of the passing runs and both refinements have a
theorem.

## Not modelled

* Windows branches: they differ in system calls and error numbers only.
* Message text and log levels, byte order and sockaddr copies, comparison and
  hashing of addresses: functions of their arguments with no state.
* `resolve`: one `getaddrinfo` and a loop that takes its first matching entry.
* The text of IPv6 prefixes, which adds the code of `prefix_from_str` to the parser
  of `Ip6Text`; the capital X of `0X`; the default lengths (20, 21, 45, 53) at which a
  C string is cut; ports of more than 64 bits.
* SIGPIPE, which ends a process that sends to a closed connection.
* The content of HTTP requests and pages, and the examples other than
  http_server.cpp and the accept loop of tcp_socket.cpp.
* Data races are taken as interleavings of single reads and writes; a compiler
  that keeps a plain `state` in a register across a call it can see through is not
  modelled, except that `WorkerChecks` may compare what it has just stored or read
  `sock` again. In `HttpServer` the operations on the list of tasks are single steps;
  only the worker touches it.

## Plan

1. A composition of two streams for the echo example of tcp_stream.cpp, with the
   receive timeouts that end its mutual wait.
2. The text of IPv6 prefixes, with a theorem like `Ip4PrefixHolds`.
