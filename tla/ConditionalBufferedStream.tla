---------------------- MODULE ConditionalBufferedStream ----------------------
(***************************************************************************)
(* ConditionalBufferedStream: a worker thread reads the stream into the    *)
(* buffer, asks each registered condition how many of the buffered bytes   *)
(* form a segment, moves the segment to the list of that condition and     *)
(* posts the condition's eventfd; callers poll that eventfd and pick the   *)
(* segments up.  Actors: the peer, the worker, the reader threads and the  *)
(* thread that owns the object (creates conditions, starts, stops and      *)
(* destroys it).                                                           *)
(*                                                                         *)
(* An eventfd is named by the position of its handler in                   *)
(* buffer_event_handlers: eventfd() returns fresh descriptors, so the two  *)
(* determine each other.                                                   *)
(***************************************************************************)
EXTENDS StreamBuffer, FiniteSets

CONSTANTS
  Readers,          \* threads that call read and readBlocking
  Conditions,       \* the conditions a program may register
  Condition(_, _),  \* Condition(c, data): what the callback c answers
  MaxHandlers,      \* bound: how many conditions are registered
  Uses              \* what the program does, a subset of Usage

(* The calls made once the stream exists, whether readBlocking is passed   *)
(* timeouts, and whether signal handlers run in its threads (a blocked     *)
(* poll or ::read is then interrupted).                                    *)
Usage == {"read", "readBlocking", "timeouts", "stopReads", "destroy",
          "signals"}

ASSUME ReadersAssumption == IsFiniteSet(Readers)
ASSUME MaxHandlersAssumption == MaxHandlers \in Nat
ASSUME UsesAssumption == Uses \subseteq Usage
ASSUME ConditionAssumption ==
  \A c \in Conditions, n \in 0..BufferSize :
    \A data \in [1..n -> Byte] : Condition(c, data) \in Int

VARIABLES
  handlers,    \* buffer_event_handlers: the registered conditions, in order
  received,    \* received_data_per_condition
  evfd,        \* the EFD_SEMAPHORE counter of each condition's eventfd
  last_ex,     \* the exception that ended the worker, SOCKET_OK before
  termination_requested,
  worker,      \* where the worker thread is
  frames,      \* the activations of processDataSendSignals, innermost last:
               \* the data passed and the handler its loop has reached
  popped,      \* length of the segment whose event is being posted
  note,        \* the next handler to notify of the end of the stream, or 0
  abort,       \* why std::terminate ended the process, or "none"
  life,        \* progress of the destructor
  closed,      \* how many eventfds the destructor has closed
  rpc, rfd, rtimed, rresult,  \* readers: place, arguments, last outcome
  delivered,   \* history: segments handed to callers, per condition
  errSeen      \* history: a caller has been told that the stream ended

workerVars == <<worker, frames, popped, note, last_ex>>
ownerVars  == <<handlers, termination_requested, life, closed>>
readerVars == <<rpc, rfd, rtimed, rresult, delivered, errSeen>>

vars == <<socketVars, bufferVars, workerVars, ownerVars, readerVars,
          received, evfd, abort>>

Fd == 1..MaxHandlers
Segment == Seq(Byte)
LastEx == {"SOCKET_OK", "SOCKET_WRITE"} \cup ReadException
Result == {"none", "data", "std::out_of_range", "SOCKET_INVALID_CONDITION"}
            \cup LastEx

-----------------------------------------------------------------------------
(* Type invariant: the buffer bound (no write past stream_buffer) is part  *)
(* of it, as BufferTypeOK.                                                 *)
TypeOK ==
  /\ SocketTypeOK
  /\ BufferTypeOK
  /\ handlers \in Seq(Conditions) /\ Len(handlers) <= MaxHandlers
  /\ received \in [Fd -> Seq(Segment)]
  /\ evfd \in [Fd -> Nat]
  /\ last_ex \in LastEx
  /\ termination_requested \in BOOLEAN
  /\ worker \in {"new", "reading", "scanning", "posting", "notifying", "done"}
  /\ frames \in Seq([data : Seq(Byte), i : Nat])
  /\ popped \in Nat
  /\ note \in Nat
  /\ abort \in {"none", "std::logic_error", "std::out_of_range",
                "SOCKET_WRITE", "join"}
  /\ life \in {"alive", "closing", "joining", "dead"}
  /\ closed \in 0..MaxHandlers
  /\ rpc \in [Readers -> {"idle", "poll", "consume", "pop"}]
  /\ rfd \in [Readers -> Fd \cup {1}]
  /\ rtimed \in [Readers -> BOOLEAN]
  /\ rresult \in [Readers -> Result]
  /\ delivered \in [Fd -> Seq(Segment)]
  /\ errSeen \in [Fd -> BOOLEAN]

Init ==
  /\ SocketInit
  /\ BufferInit
  /\ handlers = << >>
  /\ received = [fd \in Fd |-> << >>]
  /\ evfd = [fd \in Fd |-> 0]
  /\ last_ex = "SOCKET_OK"
  /\ termination_requested = FALSE
  /\ worker = "new"
  /\ frames = << >>
  /\ popped = 0
  /\ note = 0
  /\ abort = "none"
  /\ life = "alive"
  /\ closed = 0
  /\ rpc = [r \in Readers |-> "idle"]
  /\ rfd = [r \in Readers |-> 1]
  /\ rtimed = [r \in Readers |-> FALSE]
  /\ rresult = [r \in Readers |-> "none"]
  /\ delivered = [fd \in Fd |-> << >>]
  /\ errSeen = [fd \in Fd |-> FALSE]

Running == abort = "none"

-----------------------------------------------------------------------------
(* The owner: createEventfdOnCondition, start, stopReads.                  *)

ReadersIdle == \A r \in Readers : rpc[r] = "idle"

createEventfdOnCondition(c) ==
  /\ worker = "new" /\ life = "alive" /\ ReadersIdle
  /\ Len(handlers) < MaxHandlers
  /\ handlers' = Append(handlers, c)
  /\ UNCHANGED <<socketVars, bufferVars, workerVars, readerVars, received,
                 evfd, abort, termination_requested, life, closed>>

start ==
  /\ worker = "new" /\ life = "alive"
  /\ worker' = "reading"
  /\ UNCHANGED <<socketVars, bufferVars, ownerVars, readerVars, received,
                 evfd, abort, frames, popped, note, last_ex>>

(* stopReads: the flag that a timeout looks at, then the event that ends   *)
(* the worker.                                                             *)
stopReads ==
  /\ "stopReads" \in Uses
  /\ Running /\ life = "alive"
  /\ termination_requested' = TRUE
  /\ UNCHANGED <<socketVars, bufferVars, workerVars, readerVars, received,
                 evfd, abort, handlers, life, closed>>

StopReadsStream ==
  /\ Running /\ life = "alive" /\ termination_requested
  /\ StreamStopReads
  /\ UNCHANGED <<bufferVars, workerVars, readerVars, received, evfd, abort,
                 ownerVars>>

(* The destructor.  A program may only run it when no other thread is in a *)
(* member function.  It closes the eventfds one by one, stops the worker   *)
(* and joins it; join of a thread that was never started throws            *)
(* std::system_error out of a destructor.                                  *)
Destroy ==
  /\ "destroy" \in Uses
  /\ Running /\ life = "alive" /\ ReadersIdle
  /\ termination_requested => stop
  /\ life' = "closing"
  /\ UNCHANGED <<socketVars, bufferVars, workerVars, readerVars, received,
                 evfd, abort, handlers, termination_requested, closed>>

Closed(fd) == fd <= closed

DestroyClose ==
  /\ Running /\ life = "closing" /\ closed < Len(handlers)
  /\ closed' = closed + 1
  /\ UNCHANGED <<socketVars, bufferVars, workerVars, readerVars, received,
                 evfd, abort, handlers, termination_requested, life>>

(* Mutant: the worker is joined without being stopped.                     *)
DestroyStop_Forgotten ==
  /\ Running /\ life = "closing" /\ closed = Len(handlers)
  /\ life' = "joining"
  /\ UNCHANGED <<socketVars, bufferVars, workerVars, readerVars, received,
                 evfd, abort, handlers, termination_requested, closed>>

DestroyStop ==
  /\ Running /\ life = "closing" /\ closed = Len(handlers)
  /\ StreamStopReads
  /\ life' = "joining"
  /\ UNCHANGED <<bufferVars, workerVars, readerVars, received, evfd, abort,
                 handlers, termination_requested, closed>>

DestroyJoin ==
  /\ Running /\ life = "joining" /\ worker \in {"new", "done"}
  /\ IF worker = "new" THEN abort' = "join" /\ life' = life
                       ELSE abort' = abort /\ life' = "dead"
  /\ UNCHANGED <<socketVars, bufferVars, workerVars, readerVars, received,
                 evfd, handlers, termination_requested, closed>>

-----------------------------------------------------------------------------
(* The worker thread: ConditionalBufferWorker.                             *)

(* Mutant: only the bytes just read are scanned.                           *)
WorkerRead_ScansNewBytes(n) ==
  /\ Running /\ worker = "reading"
  /\ readAvailableDataIntoBuffer(n)
  /\ worker' = "scanning"
  /\ frames' = <<[data |-> SubSeq(inflight, 1, n), i |-> 1]>>
  /\ UNCHANGED <<ownerVars, readerVars, received, evfd, abort, popped, note,
                 last_ex>>

(* readAvailableDataIntoBuffer returns; the buffer is copied and scanned.  *)
WorkerRead(n) ==
  /\ Running /\ worker = "reading"
  /\ readAvailableDataIntoBuffer(n)
  /\ worker' = "scanning"
  /\ frames' = <<[data |-> buffer', i |-> 1]>>
  /\ UNCHANGED <<ownerVars, readerVars, received, evfd, abort, popped, note,
                 last_ex>>

(* Mutant: last_ex is not remembered.                                      *)
Catch_ForgetsException(ex) ==
  /\ frames' = << >>
  /\ popped' = 0
  /\ IF ex = "SOCKET_TERMINATION_REQUEST"
       THEN worker' = "done" /\ UNCHANGED <<last_ex, note>>
       ELSE worker' = "notifying" /\ last_ex' = last_ex /\ note' = 1

(* Mutant: the notification skips the first handler.                       *)
Catch_SkipsFirst(ex) ==
  /\ frames' = << >>
  /\ popped' = 0
  /\ IF ex = "SOCKET_TERMINATION_REQUEST"
       THEN worker' = "done" /\ UNCHANGED <<last_ex, note>>
       ELSE worker' = "notifying" /\ last_ex' = ex /\ note' = 2

(* The catch block.  A termination request ends the worker at once, any    *)
(* other exception is kept in last_ex and every handler notified.          *)
Catch(ex) ==
  /\ frames' = << >>
  /\ popped' = 0
  /\ IF ex = "SOCKET_TERMINATION_REQUEST"
       THEN worker' = "done" /\ UNCHANGED <<last_ex, note>>
       ELSE worker' = "notifying" /\ last_ex' = ex /\ note' = 1

WorkerReadThrows(ex) ==
  /\ Running /\ worker = "reading"
  /\ ReadThrows(Space, FALSE, ex)
  /\ Catch(ex)
  /\ UNCHANGED <<socketVars, bufferVars, ownerVars, readerVars, received,
                 evfd, abort>>

(* A signal handler interrupts the worker's poll: EINTR is an error to     *)
(* Stream::read like any other.                                            *)
WorkerPollInterrupted ==
  /\ "signals" \in Uses
  /\ Running /\ worker = "reading" /\ ~Readable /\ ~stop
  /\ Catch("SOCKET_POLL")
  /\ UNCHANGED <<socketVars, bufferVars, ownerVars, readerVars, received,
                 evfd, abort>>

Notify ==
  /\ Running /\ worker = "notifying" /\ note <= Len(handlers)
  /\ IF Closed(note)
       THEN abort' = "SOCKET_WRITE" /\ UNCHANGED <<evfd, note>>
       ELSE /\ evfd' = [evfd EXCEPT ![note] = @ + 1]
            /\ note' = note + 1
            /\ abort' = abort
  /\ UNCHANGED <<socketVars, bufferVars, ownerVars, readerVars, received,
                 worker, frames, popped, last_ex>>

NotifyDone ==
  /\ Running /\ worker = "notifying" /\ note > Len(handlers)
  /\ worker' = "done"
  /\ UNCHANGED <<socketVars, bufferVars, ownerVars, readerVars, received,
                 evfd, abort, frames, popped, note, last_ex>>

-----------------------------------------------------------------------------
(* processDataSendSignals, one action per outcome of a turn of its loop.   *)
(* Each activation keeps scanning the data it was passed, also after its   *)
(* recursive call has removed bytes of it from the buffer.                 *)

Top == frames[Len(frames)]
Advance(fs) == [fs EXCEPT ![Len(fs)].i = @ + 1]

(* The recursive call; it returns at once when it is passed nothing.       *)
Recurse(rest) ==
  frames' = IF rest = << >> THEN Advance(frames)
                            ELSE Append(frames, [data |-> rest, i |-> 1])

(* Mutant: only one segment is looked for per ::read.                      *)
Rest_Nothing(data, n) == << >>

(* Mutant: the recursive call is passed the data it was called with.       *)
Rest_Whole(data, n) == data

Rest(data, n) == SubSeq(data, n + 1, Len(data))

Abs(n) == IF n < 0 THEN -n ELSE n

AtHandler == Running /\ worker = "scanning" /\ Top.i <= Len(handlers)
Answer == Condition(handlers[Top.i], Top.data)

ScanReturn ==
  /\ Running /\ worker = "scanning" /\ Top.i > Len(handlers)
  /\ IF Len(frames) = 1
       THEN frames' = << >> /\ worker' = "reading"
       ELSE /\ frames' = Advance(SubSeq(frames, 1, Len(frames) - 1))
            /\ worker' = worker
  /\ UNCHANGED <<socketVars, bufferVars, ownerVars, readerVars, received,
                 evfd, abort, popped, note, last_ex>>

ScanNothing ==
  /\ AtHandler /\ Answer = 0
  /\ frames' = Advance(frames)
  /\ UNCHANGED <<socketVars, bufferVars, ownerVars, readerVars, received,
                 evfd, abort, worker, popped, note, last_ex>>

(* Neither exception is a SocketException: the thread, and with it the     *)
(* process, ends in std::terminate.                                        *)
ScanThrows ==
  /\ AtHandler
  /\ \/ Abs(Answer) > Len(Top.data) /\ abort' = "std::logic_error"
     \/ /\ Abs(Answer) <= Len(Top.data) /\ Abs(Answer) > Len(buffer)
        /\ abort' = "std::out_of_range"
  /\ UNCHANGED <<socketVars, bufferVars, workerVars, ownerVars, readerVars,
                 received, evfd>>

ScanDiscard ==
  /\ AtHandler /\ Answer < 0 /\ -Answer <= Len(Top.data)
  /\ PopFromBuffer(-Answer)
  /\ Recurse(Rest(Top.data, -Answer))
  /\ UNCHANGED <<ownerVars, readerVars, received, evfd, abort, worker, popped,
                 note, last_ex>>

(* The segment is queued under the mutex, its event posted after it.       *)
ScanMatch ==
  /\ AtHandler /\ Answer > 0 /\ Answer <= Len(Top.data)
  /\ PopFromBuffer(Answer)
  /\ received' = [received EXCEPT ![Top.i] =
                    Append(@, SubSeq(buffer, 1, Answer))]
  /\ popped' = Answer
  /\ worker' = "posting"
  /\ UNCHANGED <<ownerVars, readerVars, evfd, abort, frames, note, last_ex>>

(* Mutant: the worker hands over one segment at a time.                    *)
Post_WaitsForReader ==
  /\ Running /\ worker = "posting" /\ evfd[Top.i] = 0
  /\ IF Closed(Top.i)
       THEN Catch("SOCKET_WRITE") /\ evfd' = evfd
       ELSE /\ evfd' = [evfd EXCEPT ![Top.i] = @ + 1]
            /\ Recurse(Rest(Top.data, popped))
            /\ worker' = "scanning" /\ popped' = 0
            /\ UNCHANGED <<note, last_ex>>
  /\ UNCHANGED <<socketVars, bufferVars, ownerVars, readerVars, received,
                 abort>>

(* Mutant: only a reader that waits already is woken, as a condition       *)
(* variable would do.                                                      *)
Post_OnlyIfAwaited ==
  /\ Running /\ worker = "posting"
  /\ IF Closed(Top.i)
       THEN Catch("SOCKET_WRITE") /\ evfd' = evfd
       ELSE /\ evfd' = IF ReadersIdle THEN evfd
                       ELSE [evfd EXCEPT ![Top.i] = @ + 1]
            /\ Recurse(Rest(Top.data, popped))
            /\ worker' = "scanning" /\ popped' = 0
            /\ UNCHANGED <<note, last_ex>>
  /\ UNCHANGED <<socketVars, bufferVars, ownerVars, readerVars, received,
                 abort>>

Post ==
  /\ Running /\ worker = "posting"
  /\ IF Closed(Top.i)
       THEN Catch("SOCKET_WRITE") /\ evfd' = evfd
       ELSE /\ evfd' = [evfd EXCEPT ![Top.i] = @ + 1]
            /\ Recurse(Rest(Top.data, popped))
            /\ worker' = "scanning" /\ popped' = 0
            /\ UNCHANGED <<note, last_ex>>
  /\ UNCHANGED <<socketVars, bufferVars, ownerVars, readerVars, received,
                 abort>>

(* What a delimiter condition answers: the length of the data up to the    *)
(* first delimiter and including it, 0 when there is none.                 *)
getDelimiterCondition(delimiter, data) ==
  LET found == {k \in DOMAIN data : data[k] = delimiter}
  IN IF found = {} THEN 0
     ELSE CHOOSE k \in found : \A j \in found : k <= j

-----------------------------------------------------------------------------
(* The readers: read, readBlocking and readBlockingStr.                    *)

Return(r, result) ==
  /\ rpc' = [rpc EXCEPT ![r] = "idle"]
  /\ rfd' = [rfd EXCEPT ![r] = 1]
  /\ rtimed' = [rtimed EXCEPT ![r] = FALSE]
  /\ rresult' = [rresult EXCEPT ![r] = result]

Registered(fd) == fd \in DOMAIN handlers

(* Mutant: the error is looked at before the list.                         *)
read_ErrorFirst(r, fd) ==
  \/ /\ ~Registered(fd)
     /\ Return(r, "SOCKET_INVALID_CONDITION")
     /\ UNCHANGED <<received, delivered, errSeen>>
  \/ /\ Registered(fd) /\ last_ex # "SOCKET_OK"
     /\ errSeen' = [errSeen EXCEPT ![fd] = TRUE]
     /\ Return(r, last_ex)
     /\ UNCHANGED <<received, delivered>>
  \/ /\ Registered(fd) /\ last_ex = "SOCKET_OK" /\ received[fd] # << >>
     /\ received' = [received EXCEPT ![fd] = Tail(@)]
     /\ delivered' = [delivered EXCEPT ![fd] = Append(@, Head(received[fd]))]
     /\ Return(r, "data")
     /\ errSeen' = errSeen
  \/ /\ Registered(fd) /\ last_ex = "SOCKET_OK" /\ received[fd] = << >>
     /\ Return(r, "std::out_of_range")
     /\ UNCHANGED <<received, delivered, errSeen>>

(* ConditionalBufferedStream::read, one critical section.                  *)
read(r, fd) ==
  \/ /\ ~Registered(fd)
     /\ Return(r, "SOCKET_INVALID_CONDITION")
     /\ UNCHANGED <<received, delivered, errSeen>>
  \/ /\ Registered(fd) /\ received[fd] # << >>
     /\ received' = [received EXCEPT ![fd] = Tail(@)]
     /\ delivered' = [delivered EXCEPT ![fd] = Append(@, Head(received[fd]))]
     /\ Return(r, "data")
     /\ errSeen' = errSeen
  \/ /\ Registered(fd) /\ received[fd] = << >>
     /\ last_ex # "SOCKET_OK"
     /\ errSeen' = [errSeen EXCEPT ![fd] = TRUE]
     /\ Return(r, last_ex)
     /\ UNCHANGED <<received, delivered>>
  \/ /\ Registered(fd) /\ received[fd] = << >>
     /\ last_ex = "SOCKET_OK"
     /\ Return(r, "std::out_of_range")
     /\ UNCHANGED <<received, delivered, errSeen>>

CallRead(r, fd) ==
  /\ "read" \in Uses
  /\ Running /\ life = "alive" /\ rpc[r] = "idle"
  /\ read(r, fd)
  /\ UNCHANGED <<socketVars, bufferVars, workerVars, ownerVars, evfd,
                 abort>>

CallReadBlocking(r, fd, timed) ==
  /\ "readBlocking" \in Uses /\ (timed => "timeouts" \in Uses)
  /\ Running /\ life = "alive" /\ rpc[r] = "idle"
  /\ rpc' = [rpc EXCEPT ![r] = "poll"]
  /\ rfd' = [rfd EXCEPT ![r] = fd]
  /\ rtimed' = [rtimed EXCEPT ![r] = timed]
  /\ rresult' = [rresult EXCEPT ![r] = "none"]
  /\ UNCHANGED <<socketVars, bufferVars, workerVars, ownerVars, received,
                 evfd, abort, delivered, errSeen>>

Polling(r) == Running /\ rpc[r] = "poll"

PollReady(r) ==
  /\ Polling(r) /\ Registered(rfd[r]) /\ evfd[rfd[r]] > 0
  /\ rpc' = [rpc EXCEPT ![r] = "consume"]
  /\ UNCHANGED <<socketVars, bufferVars, workerVars, ownerVars, received,
                 evfd, abort, rfd, rtimed, rresult, delivered, errSeen>>

(* The three ways in which readBlocking gives up.  A descriptor that is    *)
(* not open is reported by poll (POLLNVAL), an interrupted poll leaves     *)
(* revents zero: both end up in the last branch.                           *)
PollInvalid(r) ==
  /\ Polling(r) /\ ~Registered(rfd[r])
  /\ Return(r, "SOCKET_READ_TIMEOUT")
  /\ UNCHANGED <<socketVars, bufferVars, workerVars, ownerVars, received,
                 evfd, abort, delivered, errSeen>>

PollTimeout(r) ==
  /\ Polling(r) /\ Registered(rfd[r]) /\ rtimed[r] /\ evfd[rfd[r]] = 0
  /\ Return(r, IF termination_requested THEN "SOCKET_TERMINATION_REQUEST"
                                        ELSE "SOCKET_POLL")
  /\ UNCHANGED <<socketVars, bufferVars, workerVars, ownerVars, received,
                 evfd, abort, delivered, errSeen>>

PollInterrupted(r) ==
  /\ "signals" \in Uses
  /\ Polling(r) /\ Registered(rfd[r]) /\ evfd[rfd[r]] = 0
  /\ Return(r, "SOCKET_READ_TIMEOUT")
  /\ UNCHANGED <<socketVars, bufferVars, workerVars, ownerVars, received,
                 evfd, abort, delivered, errSeen>>

(* Mutant: the eventfd is created without EFD_SEMAPHORE, so that one ::read *)
(* takes every event posted so far.                                        *)
Consume_NoSemaphore(r) ==
  /\ Running /\ rpc[r] = "consume" /\ evfd[rfd[r]] > 0
  /\ evfd' = [evfd EXCEPT ![rfd[r]] = 0]
  /\ rpc' = [rpc EXCEPT ![r] = "pop"]
  /\ UNCHANGED <<socketVars, bufferVars, workerVars, ownerVars, received,
                 abort, rfd, rtimed, rresult, delivered, errSeen>>

(* The ::read of the eventfd blocks, whatever the timeout, when another    *)
(* reader has taken the event since poll returned.                         *)
Consume(r) ==
  /\ Running /\ rpc[r] = "consume" /\ evfd[rfd[r]] > 0
  /\ evfd' = [evfd EXCEPT ![rfd[r]] = @ - 1]
  /\ rpc' = [rpc EXCEPT ![r] = "pop"]
  /\ UNCHANGED <<socketVars, bufferVars, workerVars, ownerVars, received,
                 abort, rfd, rtimed, rresult, delivered, errSeen>>

(* The result of that ::read is not looked at.                             *)
ConsumeInterrupted(r) ==
  /\ "signals" \in Uses
  /\ Running /\ rpc[r] = "consume" /\ evfd[rfd[r]] = 0
  /\ rpc' = [rpc EXCEPT ![r] = "pop"]
  /\ UNCHANGED <<socketVars, bufferVars, workerVars, ownerVars, received,
                 evfd, abort, rfd, rtimed, rresult, delivered, errSeen>>

Pop(r) ==
  /\ Running /\ rpc[r] = "pop"
  /\ read(r, rfd[r])
  /\ UNCHANGED <<socketVars, bufferVars, workerVars, ownerVars, evfd,
                 abort>>

-----------------------------------------------------------------------------
Owner ==
  \/ \E c \in Conditions : createEventfdOnCondition(c)
  \/ start
  \/ stopReads \/ StopReadsStream
  \/ Destroy

Destructor == DestroyClose \/ DestroyStop \/ DestroyJoin

Worker ==
  \/ \E n \in 1..BufferSize : WorkerRead(n)
  \/ \E ex \in ReadException : WorkerReadThrows(ex)
  \/ Notify \/ NotifyDone
  \/ ScanReturn \/ ScanNothing \/ ScanThrows \/ ScanDiscard \/ ScanMatch
  \/ Post

Reader(r) ==
  \/ PollReady(r) \/ PollInvalid(r) \/ PollTimeout(r)
  \/ Consume(r) \/ Pop(r)

Call(r) ==
  \E fd \in Fd :
    CallRead(r, fd) \/ \E timed \in BOOLEAN : CallReadBlocking(r, fd, timed)

Signal ==
  \/ WorkerPollInterrupted
  \/ \E r \in Readers : PollInterrupted(r) \/ ConsumeInterrupted(r)

PeerStep ==
  /\ Running
  /\ Peer
  /\ UNCHANGED <<bufferVars, workerVars, ownerVars, readerVars, received,
                 evfd, abort>>

Next ==
  \/ PeerStep \/ Owner \/ Destructor \/ Worker \/ Signal
  \/ \E r \in Readers : Call(r) \/ Reader(r)

Spec == Init /\ [][Next]_vars

(* Threads of the process that can run do run; nothing is assumed of the   *)
(* peer, of signals, or of the calls the program makes.                    *)
FairSpec ==
  /\ Spec
  /\ WF_vars(Worker)
  /\ WF_vars(StopReadsStream)
  /\ WF_vars(Destructor)
  /\ \A r \in Readers : WF_vars(Reader(r))

-----------------------------------------------------------------------------
(* Safety.                                                                 *)

Holders(fd) == {r \in Readers : rpc[r] = "pop" /\ rfd[r] = fd}
PendingPost(fd) == IF worker = "posting" /\ Top.i = fd THEN 1 ELSE 0

(* A queued segment is never stranded: for every segment in a condition's  *)
(* list there is an event in its eventfd, a reader that has consumed one   *)
(* and not yet called read, or the worker about to post one.  Otherwise a  *)
(* caller of poll or readBlocking would wait beside data.                  *)
NoStrandedSegment ==
  life = "alive" =>
    \A fd \in Fd :
      Len(received[fd]) <= evfd[fd] + Cardinality(Holders(fd)) + PendingPost(fd)

(* The post that announces the end of the stream, until a caller has been  *)
(* told; the fds notified so far are those below note.                     *)
EndPosts(fd) == IF fd < note /\ ~errSeen[fd] THEN 1 ELSE 0

(* The same count is exact when every event is consumed by readBlocking:   *)
(* posts and segments correspond one to one, but for the one post that     *)
(* announces the end of the stream.                                        *)
EventsMatchSegments ==
  life = "alive" /\ Uses \cap {"read", "signals"} = {} =>
    \A fd \in Fd :
      evfd[fd] + Cardinality(Holders(fd)) + PendingPost(fd)
        = Len(received[fd]) + EndPosts(fd)

(* readBlocking never throws std::out_of_range ("no data present yet"):    *)
(* whoever is woken by an event finds the segment or the error it stands   *)
(* for, whatever other readers do meanwhile.                               *)
NoSpuriousWakeup ==
  Uses \cap {"read", "signals"} = {} =>
    \A r \in Readers : rresult[r] # "std::out_of_range"

(* Once a caller has been told that the stream ended, the condition's list *)
(* is empty and stays so: the error never overtakes data.                  *)
ErrorIsFinal ==
  \A fd \in Fd : errSeen[fd] =>
    received[fd] = << >> /\ worker \in {"notifying", "done"}

(* Every segment queued or handed out is one that its condition accepts as *)
(* a whole.                                                                *)
SegmentsComplete ==
  \A fd \in DOMAIN handlers :
    LET segments == delivered[fd] \o received[fd]
    IN \A k \in DOMAIN segments :
         Condition(handlers[fd], segments[k]) = Len(segments[k])

(* The first segment of the rest of the stream, to the one condition that  *)
(* the program has.                                                        *)
FirstSegment(rest) == Condition(CHOOSE c \in Conditions : TRUE, rest)

Segments == INSTANCE SegmentedStream WITH
              Cut <- FirstSegment, stream <- sent, pos <- Len(taken),
              queue <- received[1], out <- delivered[1], told <- errSeen[1]

(* With one delimiter condition the worker, the mutexes and the eventfds   *)
(* together implement the abstract segmented stream: lines come out whole, *)
(* once, in order, and before the error, for every fragmentation and every *)
(* pair of readers.                                                        *)
ImplementsSegmentedStream == Segments!Spec

(* The worker ends with SOCKET_CLOSED when the peer is gone, or when the   *)
(* buffer is full: ::read is then asked for 0 bytes and its answer taken   *)
(* for "stream closed".  It never gives up with room in the buffer.        *)
ClosedIsEndOrFull ==
  last_ex = "SOCKET_CLOSED" => peer # "open" \/ Len(buffer) = BufferSize

(* With one condition (that keeps to its data) the process is taken down   *)
(* only by the destructor: by join of a thread never started, or by a      *)
(* worker that posts an eventfd already closed.                            *)
AbortOnlyInDestructor ==
  abort # "none" /\ Len(handlers) <= 1 => life # "alive"

-----------------------------------------------------------------------------
(* Liveness.                                                               *)

Blocked(fd) ==
  /\ Registered(fd)
  /\ \E r \in Readers : rpc[r] \in {"poll", "consume"} /\ rfd[r] = fd

(* Readers do not stay blocked beside a queued segment.                    *)
SegmentWakesReader ==
  \A fd \in Fd :
    Blocked(fd) /\ received[fd] # << >>
      ~> (~Blocked(fd) \/ received[fd] = << >> \/ abort # "none")

(* When the stream ends in an error, the readers blocked on a condition    *)
(* do not all stay blocked: they return or one of them has been told.      *)
ErrorWakesAReader ==
  \A fd \in Fd :
    Blocked(fd) /\ last_ex # "SOCKET_OK"
      ~> (~Blocked(fd) \/ errSeen[fd] \/ abort # "none")

(* stopReads ends the worker, also when it is called between two polls or  *)
(* while a segment is being posted, if the peer at some time ceases to     *)
(* send: Stream::read looks at the socket before the stop event, so that   *)
(* data which keeps coming keeps the worker reading.                       *)
StopEndsWorker ==
  \/ []<><<sent' # sent>>_sent
  \/ stop /\ worker # "new" ~> (worker = "done" \/ abort # "none")

(* The destructor returns (or ends the process): join does not hang, under *)
(* conditions that cut segments or wait.  (Posting a segment then ends the *)
(* process, and data that is kept fills the buffer; but a condition that   *)
(* discards data which does not cease to come keeps the worker reading.)   *)
DestructorReturns == life = "closing" ~> (life = "dead" \/ abort # "none")

-----------------------------------------------------------------------------
(* What a comment of the code says and the code does not do; see the run   *)
(* cbs_stop.                                                               *)

(* stopReads "aborts all currently running reads on the Stream".           *)
StopAbortsReads ==
  \A r \in Readers :
    termination_requested /\ worker # "new" /\ rpc[r] = "poll"
      ~> rpc[r] # "poll"
=============================================================================
