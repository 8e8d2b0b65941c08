# A TLA+ model of socket_wrapper

socket_wrapper is a C++ library over bare sockets: streams that can be read,
written and stopped from several threads, a buffered stream, a stream that a
worker thread cuts into segments, two kinds of TCP listener, and UDP datagrams.
This directory holds TLA+ modules that model it, TLC configurations that check them on small
instances, and theorems that TLAPS proves for all values of the constants.
Line numbers refer to the files under `src/` and `include/socket_wrapper/`.

## 1. The system

| Component | State | Operations |
|---|---|---|
| `Stream` (`Stream.cpp`) | a descriptor, an eventfd that stops reads, a read and a write mutex | `read(buffer, max, min, timeout)`, `write`, `stopReads`, moves, destructor |
| `BufferedStream` | `stream_buffer`, `buffer_write_offset`, a recursive `buffer_lock` | `read(n)`, `read(buffer, max, min)`, `readUntilDelimiter`, `stopReads`; protected `readAvailableDataIntoBuffer`, `PopFromBuffer` |
| `ConditionalBufferedStream` | handlers (condition and eventfd), a list of segments per eventfd, `last_ex`, `termination_requested`, a worker thread | `createEventfdOnCondition`, `start`, `read`, `readBlocking(Str)`, `stopReads`, destructor |
| `ListenerBase` | listening socket, end eventfd, a thread, `stopped_accepting` | `startAccepting`, virtual `onIncomingStream`, `stopAccepting`, destructor |
| `Listener` | the same without a thread | `accept(timeout)`, `stopAccepting`, destructor |
| `StreamFactory` | none | creates TCP and pipe streams |
| `UdpDatagram` | a descriptor, an eventfd that stops reads, one receive buffer, `ip_version`; no mutex is ever locked | `read(timeout)`, `write`, `stopReads`, multicast membership, moves, destructor |
| `Utils` | none | lists the network interfaces in an order |
| `SocketException`, `BaseTypes` | none | exception types, names, address formatting |

How they interact.  `ConditionalBufferedStream` is a `BufferedStream`, which is a
`Stream`.  Its worker is the only thread that reads the socket; it talks to the
callers through the lists (under a mutex), the eventfds (outside it) and
`last_ex`.  `ListenerBase` calls back into a derived class from its thread, and
the callback may call `stopAccepting`.  Everything that waits does so in `poll`
on a socket and an eventfd that somebody else writes.

What is hard here: two-step hand-overs (queue a segment, then post its event;
consume an event, then pop the segment); a blocking system call after a poll
that somebody else's step has made stale; exceptions thrown while a lock is held
or inside a catch block; moves of an object that other threads use; descriptors
that a failure leaves open; a full buffer, which the code cannot tell from the end
of the stream; stopping and destroying while a thread is anywhere in its loop.
`PROJECT.json` lists these hazards at their lines.

What makes each part correct:

* `Stream::read`: no thread is left in a blocking `::read`, a call never writes
  past the caller's buffer and returns the stream's bytes, `stopReads` ends it.
* `Stream::write`: a retry continues where the last `::write` stopped, and the
  outcome says how much is on the wire.
* `BufferedStream`: bytes leave in order, none twice or lost (but for the
  delimiter that `readUntilDelimiter` drops); no lock is left behind; each call
  returns as many bytes as it was asked for.
* `ConditionalBufferedStream`: each segment is whole, is handed out once, in
  order and before the end of the stream, and is announced by one event.
* Ownership: a descriptor has one owner, is closed once, and a stop event belongs
  to one stream.
* `UdpDatagram::read`: it returns one whole datagram, and its timeout and
  `stopReads` are obeyed.
* Listeners: no callback or stream after `stopAccepting`, the socket is closed
  once and not under a thread that uses it, `stopAccepting` ends every wait.

## 2. The modules

| Module | Models |
|---|---|
| `Socket` | The connection as the layers above see it: bytes sent, in flight, lost by a reset; the peer; the stop event; and what one `Stream::read(buffer, max, 1)` can return or throw |
| `StreamBuffer` (extends `Socket`) | `stream_buffer`: `readAvailableDataIntoBuffer` and `PopFromBuffer` |
| `ConditionalBufferedStream` (extends `StreamBuffer`) | The worker, `processDataSendSignals` with its recursion, the eventfds, the readers, the owner and the destructor; the refinement mapping to `SegmentedStream` |
| `SegmentedStream` | Abstract: a stream cut into segments, queued and delivered in order, then an error |
| `MCConditionalBufferedStream` | Conditions for TLC, `EveryLineIsQueued` |
| `BufferedStream` (extends `StreamBuffer`) | The three reading calls by several threads, in any overlap, `buffer_lock`, `stopReads` |
| `ByteStream` | Abstract: bytes leave in the order sent; only the delimiter of a line may be dropped |
| `MCBufferedStream` | Who calls what, for TLC |
| `StreamRead` (extends `Socket`) | `Stream::read` step by step, several threads and the read mutex |
| `StreamWrite` | `Stream::write` by several threads, partial writes, retries |
| `ListeningSocket` | What both listeners share: descriptors, end event, construction, clients that come, come again and vanish |
| `ListenerBase`, `Listener` (extend it) | The two classes; where both have a definition of a name, that of `ListenerBase` carries the prefix `Base` |
| `StreamOwnership` | The descriptor table; creation by `StreamFactory`; move constructor, move assignment and destructor of `Stream`, step by step, by threads that also read and write |
| `MCStreamOwnership` | Symmetry for TLC |
| `UdpDatagram` | Construction, moves, destruction, `read`, `write` and `stopReads` of datagram sockets |
| `MCUdpDatagram` | Timeouts, symmetry and view for TLC |
| `Utils` | Listing the interfaces and sorting them with the code's comparison |
| `StreamBufferProofs` | Lemmas about the buffer, used by the next two |
| `ConditionalBufferedStreamProofs`, `BufferedStreamProofs`, `StreamReadProofs`, `StreamWriteProofs`, `ListenerProofs`, `StreamOwnershipProofs`, `UdpDatagramProofs` | The theorems about the module they are named after, see section 4; `ListenerProofs` also holds those about `ListenerBase`, which it extends too |

Conventions.  A definition has the name of the function it models where there is
one.  A function that holds one lock from start to end, or touches nothing
shared, is one action; a function that blocks or releases a lock is one action
per step, and `pc`, `rpc`, `worker`, `task`, `owner`, `stop` and `moving` say
where a thread is.
The outcome of a call is kept in `result` or `rresult`; exceptions are their type
names.  Variables marked "history" (`taken`, `delivered`, `errSeen`, `owner` in
`StreamRead`, `late`, `closes`, `overlap`, `given`, `overtaken`, `tries`,
`abandoned`, `raced`, `disturbed`, `overwritten`) exist for the properties and
influence nothing.
A definition named `X_Something` below a comment "Mutant" is `X` with a plausible
bug; no specification uses it, it shows that a property can fail.

Points of the translation worth knowing:

* Bytes are values from a small set `Byte`; a buffer is a sequence.  A `::read`
  may return any number of the bytes in flight up to what it is asked for: the
  fragmentation of the stream is arbitrary.
* `Stream::read` looks at the socket before the stop event, so data that is
  there is read first, also after `stopReads`.  A `::read` of 0 bytes is
  `SOCKET_CLOSED` whether the peer has closed or 0 bytes were asked for.
* A condition is an operator constant `Condition(c, data)` that answers an
  integer: 0 nothing yet, n > 0 a segment of n bytes, n < 0 discard -n bytes.
  The proofs assume only that it answers an integer; the theorems about one
  condition name what more they need.
* `processDataSendSignals` is a stack of activations (`frames`): each keeps the
  data it was passed and the handler its loop has reached.
* An eventfd is named by the position of its handler.  It counts posts
  (`EFD_SEMAPHORE`); posting to a closed one throws, which inside the catch
  block of the worker ends the process (`abort`).
* `Uses` says which calls the program makes, whether it passes timeouts to
  `readBlocking`, and whether signal handlers run in its threads; an interrupted `poll` or `::read` is then possible anywhere.
* `ConditionalBufferedStream::stopReads` is two steps, the flag and the event.
* In `BufferedStream`, `readUntilDelimiter` takes no lock and overlaps the other
  calls freely.  Each call keeps the offset with which it waits for the stream
  (`at`).  When the stream returns data to a call whose offset is out of date, or
  to `readUntilDelimiter` while another call uses the buffer, two threads change
  the buffer and its offset at once; what that leaves behind is undefined, so
  `Spoil` only records it (`spoilt`) and the object is not followed further.  The
  unlocked read of `buffer_write_offset` in `read(n)` is an atomic read.
* `given` is what callers of `BufferedStream` are handed, `taken` what has left
  the buffer; they differ by the delimiters that `readUntilDelimiter` drops.
* In `StreamOwnership` a read or a write is a holder of its mutex for as long as
  the kernel likes.  A destructor runs when no thread uses the object (the
  lifetime rule of C++).  Descriptors are numbers, the lowest free one is given
  out, and a closed one is given out again, so that a descriptor with two owners
  would show as a stream that owns a stranger's socket.
* In `UdpDatagram` a byte of the buffer is the number of the datagram it came
  from.  Sockets and events are numbered as they are made and not reused.  One
  thread owns the objects and moves them while others read, as the class
  permits ("moving is allowed"); datagrams may be lost and reach any socket.
  `read` loads the socket, then the event, polls, and loads the socket again for
  `recvmsg`; from there on it is in the kernel on that socket, whatever becomes
  of the object and also when the descriptor is closed, until a datagram comes or
  a signal interrupts it.
  An uninitialised `ip_version` is the value "any".
* In `Utils` an address is its family, whether it is localhost (`127.0.0.1/8`,
  `::1/128`) and its prefix length; the text of a netmask is its length.  Because
  the comparison is not an ordering, what `std::sort` does with it is that of
  libstdc++ for up to 16 entries.
* A client of a listener may come at any time, also again after it was served,
  and may vanish while it waits: the kernel may drop a connection between `poll`
  and `::accept`.  `::accept` may fail any number of times, with the client still
  waiting (no descriptors are left) or not.
* In `ListenerBase` a derived class may or may not call `stopAccepting` in its
  own destructor (`stopsFirst`, chosen initially); the callback may call it too.

## 3. The runs

Deadlock is not checked: when the peer is silent, all calls are done or the
object is gone, the system rightly stops.

| Run | Instance | What it shows |
|---|---|---|
| `cbs_lines` | newline condition, 2 readers in `readBlocking` without timeout, `stopReads` and destruction anywhere, 3 bytes, buffer of 2 | Lines are cut whole, delivered once, in order and before the error (`SegmentsComplete`, `ImplementsSegmentedStream`); each has one event (`EventsMatchSegments`, `NoSpuriousWakeup`); the worker gives up with `SOCKET_CLOSED` only when the peer is gone or the buffer is full (`ClosedIsEndOrFull`); blocked readers are woken by segments, and one of them by the error, and every line sent is queued (`SegmentWakesReader`, `ErrorWakesAReader`, `EveryLineIsQueued`); the worker stops once the peer does, and the destructor returns, whatever the worker is doing (`StopEndsWorker`, `DestructorReturns`); `TypeOK` includes the bound of the buffer |
| `cbs_any` | up to 2 handlers with the condition of the DiscardData test, 2 readers, 3 bytes, buffer of 2, all uses | With discarding, non-blocking `read`, timeouts, signals, `stopReads` and destruction anywhere: no byte is lost, no segment is left without an event and no error overtakes data (`BytesConserved`, `NoStrandedSegment`, `ErrorIsFinal`); with one handler only the destructor can end the process (`AbortOnlyInDestructor`) |
| `buf_threads` | 2 callers of `readUntilDelimiter`, one also of `read(buffer, max, min)`, the other of `read(n)` with and without timeouts, lengths 1 to 3, 3 bytes, buffer of 2 | `SpoiltByOverlap`: only a `readUntilDelimiter` at the time of another call spoils the buffer; `LengthAsAsked`, and `std::out_of_range` escapes only from a `read(n)` that another caller has overtaken between check and pop, or from a `read(buffer, max, min)` that `readUntilDelimiter` has; `ImplementsByteStream`, also under overlap and up to where the buffer is spoilt; `StopEndsCalls`, also of those that wait for the lock |
| `read_threads` | 2 threads, lengths 0 to 2, 3 bytes | `ReadNeverBlocks`: the mutex covers poll and `::read`; `BufferHoldsStream` with the bound of the caller's buffer; `ExceptionsAreDue`: bytes are dropped only by calls with a minimum above one; `StopAbortsReads` |
| `write_threads` | 2 writers, sizes 0, 1 and 3, 3 attempts | `WireHoldsPrefix`, `OutcomeMatchesWire` (what each outcome says of the wire; after `SOCKET_WRITE` any part of the message may be there, as the code does not say how much), `TornOnlyByRetry` (messages mix only around a retry) |
| `lsn_base` | 3 clients, failures of `::accept` without limit | `NoCallbackAfterStop` (nor does the thread use a closed socket), `CallbackHasObject`, `StopReturns` |
| `lsn_accept` | 3 clients, 2 threads in `accept`, 2 in `stopAccepting` | `NoStreamAfterStop`, `StopEndsAccept`, and `ClosedOnce`: the descriptor is closed twice only when two calls of `stopAccepting` overlap |
| `own_threads` | 3 objects, 2 threads, 4 descriptors | `SingleOwner`: no descriptor has two owners, is closed twice or belongs to somebody else; `NothingLost`: what is never closed was overwritten by a move assignment or left by a failed creation; `EventsNotShared` unless the source of a move is assigned to between the two halves of the move; `CycleNeedsAssignment`: only a move assignment can make threads wait for each other's mutexes in a circle |
| `udp_threads` | 2 objects, 2 readers without timeout or with one of 3 ms and the owner, 2 sockets, 2 datagrams of 1 byte, a buffer of 1 | `ResultIsOneDatagram` but for a thread into whose object another thread receives before the copy; `CaughtNeedsRival`: a thread waits in `recvmsg`, out of reach of the timeout and of `stopReads`, only if another thread took the datagram since its poll or its object was assigned to between the two loads of the descriptor; `TruncationNeedsMove`; `NoFalsePollError`: `SOCKET_POLL` means a failed poll (timeouts of 0, 1 and 2 ms are its exception, and are left to the proof) |

`own_threads` and `udp_threads` use symmetry, and the second a view that leaves
out the outcome of finished calls and what a call has no more use for; both
check safety only.  The type invariants were checked on such instances too and
are proved, as is `LockDiscipline` of `BufferedStream`, which no run repeats.

Three runs end in a violation, each a disagreement between the code and what a
comment says of it:

| Run | Disagreement |
|---|---|
| `cbs_two_segments` | With two conditions the outer activation of `processDataSendSignals` goes on with data that its recursive call has already popped, so a segment is queued that its condition does not accept |
| `cbs_stop` | The worker ends on `stopReads` without posting any event, so a `readBlocking` without a timeout waits for ever |
| `utils_localhost` | The comparison does not keep localhost behind the others when it is the left operand: of `fe80::/64` and `::1/128`, in this order, `getInterfaceWithMostSpecificNetmask` returns `::1` |

Why the bounds are enough.  The buffer is smaller than the stream (so it fills
up) and holds at least two segments (so the scan recurses) or one segment of two
fragments.  Two threads suffice for every race on one lock or event: each race
named in the hazards is between one thread and one other.  Lengths include one
that takes several turns and one beyond the buffer.  Three clients let one be
served, one be waiting and one come late, and as they come again there is no end
of them.  Three objects let a stream be moved
on while its source is assigned to from elsewhere; four descriptors are a pipe
with its events, so that creation also fails for want of one.  Of two datagrams
one is meant for a reader and the other gets in its way; they are too large for
an object made by the move constructor, which has no buffer.  Two conditions are used in
`cbs_any` and `cbs_two_segments`; that `BytesConserved`, `NoStrandedSegment` and
`ErrorIsFinal` hold for any number of them is proved.

Fairness.  `FairSpec` adds weak fairness of the steps of each thread of the
process: the worker, each thread inside a call, the accepting thread (whose
callback is taken to return) and the thread inside a destructor or
`stopAccepting`, and of the second half of `ConditionalBufferedStream::stopReads`.
That is what a preemptive scheduler gives.  No fairness is assumed of the peer, of
clients, of signals, of failures, or of which calls the program makes: none of
these has to happen.  `StreamRead` bounds the calls of a thread (`MaxCalls`): a
thread that called `read` for ever could win the mutex for ever, as `std::mutex`
is not fair.

Liveness properties name their exceptions; apart from `MaxCalls` none rests on a
bound of the model.

* The loops of the worker and of the accepting thread look at the socket before
  the event that ends them (`Stream.cpp:71` before `:82`, `Listener.cpp:89` before
  `:106`).  So `StopEndsWorker` supposes that the peer at some time ceases to send: what has come already does not keep the worker
  from ending, a peer that sends on and on may.  `StopReturns` supposes that
  at some time clients cease to come and `::accept` to fail; a steady flow of
  clients, or one client for whom no descriptor is left, keeps the thread in its
  loop and `stopAccepting` in `join`.  `DestructorReturns` needs no such
  condition with delimiters: once the eventfds are closed, a line that comes ends
  the process, and bytes without one fill the buffer.  (A condition that discards
  data which does not cease to come would keep the worker reading and the
  destructor in `join`; the property is checked, and stated, without discarding.)
* `StopReturns` and `StopEndsAccept` hold except for a thread that waits for ever
  in a blocking `::accept`: after `poll` the client may be gone (it vanished, or
  another thread has taken it), the socket is a blocking one, and neither the
  timeout nor the end event reaches `::accept`.  One thread is enough for this.  A
  `Listener` whose constructor got no end event, which it does not notice
  (`Listener.cpp:162`), also leaves threads without a timeout in `poll`.
* `DestructorReturns` and `StopEndsWorker` hold except when the process has ended,
  which with one condition happens only once the destructor has begun
  (`AbortOnlyInDestructor`).
* `ErrorWakesAReader` says of one reader of a condition that it is told of the end;
  one event is posted for each condition, and a second reader without a timeout
  stays blocked.

Further observations that no run is devoted to:

* A full buffer makes `::read` return 0, which `Stream.cpp:77` takes for the end
  of the stream: the worker ends for good with `SOCKET_CLOSED` while the peer is
  open (`ClosedIsEndOrFull` states exactly when).
* The destructor closes the eventfds before it stops the worker
  (`ConditionalBufferedStream.cpp:86`); a worker that posts in between throws in
  its catch block, which ends the process (`Notify`, `Post`).
* `readUntilDelimiter` returns the line without the delimiter, which it removes from
  the buffer all the same (`BufferedStream.cpp:24-25`), although
  `BufferedStream.h:40` says "including the delimiter".  `ImplementsByteStream`
  therefore permits exactly this byte to be dropped (`TakeLine` of `ByteStream`).
* `readUntilDelimiter` reads the stream before it searches the buffer, so it does
  not see a delimiter that is already buffered, and a buffer that is full on entry
  is not searched at all; used at the same time as another call it may read to
  the wrong place of the buffer (`Spoil`).
* `read(n)` of `BufferedStream` checks the length without the lock and pops in
  another critical section; the comment at `BufferedStream.cpp:34` ("ensure there
  is enough data") holds only for one caller (`LengthAsAsked` states when).
* Move assignment of `Stream` neither closes the descriptor it overwrites nor
  stops its readers, and an object assigned to itself waits for its own mutex;
  no code closes a stream's stop event.
* `UdpDatagram`: the move constructor leaves the new object without a buffer, so
  that every datagram with data is consumed and reported as
  `SOCKET_RECEIVE_BUFFER_TOO_SMALL`; a failed `poll` with a timeout is reported
  as a timeout.
* When a derived class does not stop the thread in its own destructor,
  `~ListenerBase` does it too late: `onIncomingStream` may be called when it is
  pure virtual again (`CallbackHasObject` is stated for the other case).
* No code closes `listener_end_fd`, and a listener's constructor that throws
  after `socket()` leaves both descriptors open (`ConstructThrows`).

## 4. The theorems

Each theorem holds for every value of the constants: any set of bytes, threads,
objects and clients, any buffer size and lengths, any bound.

| Module | Theorem | Statement |
|---|---|---|
| `ConditionalBufferedStreamProofs` | `TypeCorrect` | `Spec => []TypeOK`, with the bound of `stream_buffer` |
| | `BytesAreConserved` | `Spec => []BytesConserved` |
| | `ErrorsAreFinal` | `Spec => []ErrorIsFinal` |
| | `SegmentsAreAnnounced` | `Spec => []NoStrandedSegment` |
| | `EventsAreExact` | `Spec => []EventsMatchSegments` |
| | `WakeupsAreReal` | `Spec => []NoSpuriousWakeup` |
| | `ClosedHasACause` | `Spec => []ClosedIsEndOrFull` |
| | `AbortsAreDestructions` | `Spec => []AbortOnlyInDestructor`, if `KeepsToData` |
| | `SegmentsAreWhole` | `Spec => []SegmentsComplete`, if `MaxHandlers <= 1` and `SegmentsStand` |
| | `DelimitedSegments` | both, if `MaxHandlers <= 1` and `OnlyDelimiters` |
| | `SegmentedStreamIsImplemented` | `Spec => ImplementsSegmentedStream`, if `MaxHandlers = 1` and `OneDelimiter` |
| `BufferedStreamProofs` | `TypeCorrect` | `Spec => []TypeOK` |
| | `LockIsHeldRight` | `Spec => []LockDiscipline` |
| | `SpoilingTakesOverlap` | `Spec => []SpoiltByOverlap` |
| | `LengthsAreAsAsked` | `Spec => LengthAsAsked`, an action property |
| | `ByteStreamIsImplemented` | `Spec => ImplementsByteStream` |
| `StreamReadProofs` | `TypeCorrect` | `Spec => []TypeOK` |
| | `NoBlockedRead` | `Spec => []ReadNeverBlocks` |
| | `BuffersHoldTheStream` | `Spec => []BufferHoldsStream` |
| | `ExceptionsHaveACause` | `Spec => []ExceptionsAreDue` |
| `StreamWriteProofs` | `TypeCorrect` | `Spec => []TypeOK` |
| | `WireIsAPrefix` | `Spec => []WireHoldsPrefix` |
| | `OutcomesAreTrue` | `Spec => []OutcomeMatchesWire` |
| | `OneWriteIsWhole` | `Spec => []TornOnlyByRetry` |
| `ListenerProofs` | `BaseTypeCorrect` | `BaseSpec => []BaseTypeOK` |
| | `StopIsFinal` | `BaseSpec => []NoCallbackAfterStop` |
| | `CallbacksHaveAnObject` | `BaseSpec => []CallbackHasObject` |
| | `TypeCorrect` | `Spec => []TypeOK` |
| | `LateCallsYieldNothing` | `Spec => []NoStreamAfterStop` |
| | `SocketIsClosedOnce` | `Spec => []ClosedOnce` |
| `StreamOwnershipProofs` | `TypeCorrect` | `Spec => []TypeOK` |
| | `CyclesNeedAssignment` | `Spec => []CycleNeedsAssignment` |
| | `OwnersAreSingle` | `Spec => []SingleOwner` |
| | `NoSocketIsLost` | `Spec => []NothingLost` |
| | `EventsAreNotShared` | `Spec => []EventsNotShared` |
| `UdpDatagramProofs` | `TypeCorrect` | `Spec => []TypeOK` |
| | `SocketsHaveOneOwner` | between moves, no descriptor has two owners and none that is closed has one |
| | `ReadsReturnOneDatagram` | `Spec => []ResultIsOneDatagram` |
| | `OnlyRivalsCatch` | `Spec => []CaughtNeedsRival` |
| | `OnlyMovesTruncate` | `Spec => TruncationNeedsMove`, an action property |
| | `PollErrorsAreDue` | `Spec => NoFalsePollError`, an action property |

Assumptions.  The `ASSUME`s of the modules say that bounds are natural numbers,
lengths and sizes sets of them, that `Readers` and `Stoppers` are finite
(`ClosedOnce` and the count of events speak of their number), that `NoObject` is
not an object, that timeouts are integers and the IP versions those of the
enumeration, and that a condition answers an integer for any data that fits
into the buffer.  Nothing else is assumed of a condition: it may answer nonsense,
in which case the process ends.  The theorems about one condition have hypotheses
of their own:

* `KeepsToData`: the answer, without its sign, is at most the length of the data.
  The code checks this and throws `std::logic_error` otherwise.
* `SegmentsStand`: a segment cut off the data is one by itself.
* `OnlyDelimiters`: each condition is one that `getDelimiterCondition` makes;
  lemma `DelimitersQualify` shows that these have the two properties above.
* `OneDelimiter`: all conditions are made by one delimiter, for data of any
  length (the abstract stream is cut beyond the end of the buffer).

That `MaxHandlers` is 1 there is not a convenience: with two conditions the code
does otherwise, see the run `cbs_two_segments`.

### ConditionalBufferedStream

1. `StreamBufferProofs`: each operation of the buffer moves bytes from one part
   of `sent = taken \o buffer \o inflight \o lost` to the next and keeps the
   bound (`Cut`, `MoveToBuffer`, `MoveToTaken`, and one `...Preserves` lemma per
   operation).
2. `TypeInv` strengthens `TypeOK`: the data of each activation on the stack fits
   into the buffer, a worker that scans or posts has an activation, and one that
   posts has a registered handler and a segment within the data.  Without it
   `Top` would have no value and a condition might be asked about data outside
   its assumption.
3. `PhaseInv` adds where each actor may be: an exception is set exactly when the
   worker notifies or has notified, no eventfd is closed while the object is
   alive, no reader is inside a call once it is not, a reader that was woken
   waits on a registered eventfd, and whoever was told of the end left an empty
   list behind.  `ErrorIsFinal` follows, and `ClosedIsEndOrFull` is inductive
   beside it: after the exception nobody touches the buffer.
4. For the events, every step is classified per eventfd by what it does to the
   pair (events, segments): `Quiet`, `Queued`, `Announced`, `Fetched`, `Woken`,
   `Bypassed` (a `read` that takes a segment and leaves its event) or `Invented`
   (an interrupted `::read` that pops without an event).  Lemma `StepEvents`
   shows that every step is one of these, and each keeps the inequality of
   `NoStrandedSegment`.
5. `CountInv` adds the exact count and that a reader is told of the end only
   after the end was posted on its eventfd.  When neither `read` nor signals take part, the inequality is an
   equality, and a reader that holds an event finds a segment or the error.
6. `ScansTheBuffer` is the heart of what is true of one condition only: an
   activation whose loop is at a handler was passed exactly what the buffer holds,
   and while a segment is posted the rest of the data is.  It is inductive because
   an activation that goes on after its recursive call is past the first handler
   (`AdvanceTop`).  From it `PopFromBuffer` finds the bytes that the condition
   answered for, so that nothing throws (`ScanDoesNotThrow`) and what is queued
   is what was cut (`MatchWhole`).
7. For the refinement, what the stream holds behind `taken` begins with the
   buffer (`RestOfStream`), and bytes that come later do not move the first
   delimiter (`DelimiterStays`): `ScanMatch` is then `CutSegment`, a `read` is
   `Deliver`, `Fail` or nothing, and `ScanDiscard` does not happen.

### BufferedStream, Stream

* `BufferedStream`: the inductive invariant adds to the buffer's that the arguments
  of a call fit the place it is at, and three things about calls that overlap.
  `ScansAlone` and `OffsetIsCurrent`: as long as no `readUntilDelimiter` has
  overlapped another call, one that runs is alone, and the offset with which a
  call waits for the stream is that of the buffer; so nothing is spoilt
  (`SpoiltByOverlap`), the holder of `buffer_lock` being the only one that fills.
  `DataWaits`: a call about to pop finds its minimum, or it was overtaken, and a
  `read(buffer, max, min)` only by a `readUntilDelimiter`; `LengthAsAsked` is then
  a matter of one step.  For `ByteStream`, `taken` is always a prefix of `sent`
  and the buffer follows it, with or without overlap: a `Pop` is `Take`, and a
  `Scan` that finds the delimiter is `TakeLine`, for the line before the first
  delimiter of the buffer is the next line of the stream.
* `StreamRead`: a thread past `poll` holds the mutex (`MutexHeld`), a call in
  progress has less than its minimum (`InProgress`), and the queue holds the bytes
  that follow those received (`QueueFollows`), so that what a `::read` appends to
  a buffer are the bytes next in rank among those of its thread.
* `StreamWrite`: the count a call keeps is what it has on the wire
  (`TotalIsOnWire`), each byte there carries its rank among those of its writer
  (`RankedBytes`), and a call in progress has attempts left and bytes to send.
  A call with one attempt behind it has put its bytes on the wire in one step,
  next to each other.

### The listeners

* `ListenerBase`: `OwnerPhase` says how far `stopAccepting` has come and what the
  thread may then still do, `NothingBeforeLife` that the thread exists only with
  the object, `DerivedOutlivesThread` that a derived class that stops first is
  gone only after the thread.
* `Listener`: `CloseCount` relates the closes to the calls of `stopAccepting` that
  have closed and not yet set the flag, and to those still to close;
  `OneStopper` says that without an overlap there is at most one such call at a
  time, and none after the first has returned.

### StreamOwnership

Four layers, each inductive given those before it.

1. `LockInv`: every thread is at a place of the script of its operation
   (`Script`), with the mutexes still to lock in `want` and those it holds in
   `holder`, and a mutex has one holder.  `CycleNeedsAssignment` follows: a read or
   write that waits holds nothing, and a construction that waits holds at most
   the read mutex of its source and waits for the write mutex, whose holders do
   not wait.
2. `LifeInv`: an object being built is in the hands of one thread, and an object
   that a thread uses is alive.
3. `FdInv`: what an object owns is an open socket, two objects own one only
   between the two halves of a move (`SharedInAMove`), and every socket has an
   owner or is abandoned.  The two halves are both under the mutexes of the
   source, so that no third object gets a copy in between.
   `SingleOwner` and `NothingLost` follow.
4. `EventInv`: a live object has an event, and, unless a source was assigned to
   between the halves (`raced`), two owners of sockets with the same event are the
   two ends of a move that has not yet copied the event.  It needs that no third
   owner has the event about to be copied (`NoThirdOwner`), that no second thread
   is about to copy it (`NoRival`), and that its source has no new socket
   (`SourceIsEmpty`).  `EventsNotShared` follows.

### UdpDatagram

`IInv` says of the objects: a move is between an object that is there and one
that is there or being made (`Moves`); one that is there has an event, so that
only real events are posted (`LivingHaveEvents`); the socket of an object is
open, and shared only between the halves of a move (`Owned`); an object with an
`ip_version` has the buffer it was constructed with (`BufferMade`).  Of each
call it says that its object is there (`CallState`); unless it was disturbed
(`Undisturbed`):

* until it loads the descriptor for `recvmsg` the object has the socket that was
  loaded for `poll`, or none;
* before `recvmsg` a datagram is in that socket, if the object has one, and inside
  `recvmsg` one is in the socket the call is on;

and, unless another thread has received into the same object (`Intact`):

* before the copy the buffer holds the datagram that was taken.

What a step of anybody else has to leave alone for this is `Spares`.

`Owned` is needed for a `poll` that finds its descriptor closed and goes on to
`recvmsg` all the same: the closed descriptor is no longer the object's, so
`recvmsg` fails at once instead of waiting.  It is inductive although the steps
of a move interleave with everything because a second move, a construction or a
destruction begins only after the last step of the first.  The two action
properties follow from `IInv` and from lemma `OutcomeOfOwnStep`: only a thread's
own steps set its outcome.

`PhaseInv`, `CountInv`, `ScansTheBuffer`, `EventInv` and the `IInv` of
`BufferedStreamProofs` and `UdpDatagramProofs` were also checked as invariants
with TLC, on instances like those of the runs.

### Only model-checked

* All liveness (TLAPS has no fairness rules here): `SegmentWakesReader`,
  `ErrorWakesAReader`, `EveryLineIsQueued`, `StopEndsWorker`,
  `DestructorReturns`, `StopEndsCalls`, `StopAbortsReads`, `StopReturns`,
  `StopEndsAccept`.
* `Utils`, whose run shows a violation.

## 5. Not modelled

* `UdpDatagram::subscribeToMulticast`: it asks the kernel for a membership and
  changes nothing of the object; which sockets a datagram reaches is left open.
* The move constructor and the destructor of `BufferedStream`, which hand over
  and free the buffer's memory.
* Addresses, ports and socket options; the exception of `getIpAddressOf` for an
  unknown family.
* `SocketException`, `BaseTypes`: no state; the exception types are the outcomes.
* `ConditionalBufferedStream::write` and `BufferedStream::write` forward to
  `Stream::write` with two attempts, which is `StreamWrite`.
* Reuse of descriptor numbers outside `StreamOwnership`, `SIGPIPE`, exhaustion of
  memory, and data races beyond the interleavings of atomic reads and writes.

## 6. Plan

Done, in this order: `Socket` and `StreamBuffer`; `ConditionalBufferedStream`
with its abstract specification and theorems; `BufferedStream` with `ByteStream`;
`StreamRead` and `StreamWrite`; the listeners; `StreamOwnership`, `UdpDatagram`
and `Utils`.

Proved, in this order: `StreamBuffer` and the events of
`ConditionalBufferedStream`; the listeners; `StreamRead`, `StreamWrite` and
`BufferedStream`; `StreamOwnership`; one condition and the refinement of
`SegmentedStream`; `UdpDatagram`.

Left: `AbortOnlyInDestructor` says nothing of two conditions; which aborts two
conditions can cause is only known from `cbs_any` and `cbs_two_segments`.
