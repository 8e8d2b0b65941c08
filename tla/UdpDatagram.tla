---------------------------- MODULE UdpDatagram ----------------------------
(***************************************************************************)
(* UdpDatagram: threads in read, which polls the socket and the stop event *)
(* and then calls a blocking recvmsg into the buffer of the object, while  *)
(* one thread constructs, moves, assigns and destroys the objects and      *)
(* writes.  No operation locks anything (socket_mutex is never used).      *)
(* Which sockets a datagram reaches is left open, so that the membership   *)
(* of a multicast group, which subscribeToMulticast asks the kernel for,   *)
(* is not part of the state.  A socket number is not given out twice.      *)
(***************************************************************************)
EXTENDS Integers, Sequences

CONSTANTS
  Objects,       \* the objects, each of which is made once
  NoObject,
  Readers,       \* the threads that call read
  Sizes,         \* sizes of datagrams
  BufferSize,    \* the constructor's buffer_size
  Timeouts,      \* the values of timeout_ms
  Versions,      \* the IP versions objects are made with
  MaxSockets,    \* bound of the model: sockets made in a run
  MaxDatagrams   \* bound of the model: datagrams sent in a run

ASSUME NoObjectAssumption == NoObject \notin Objects
ASSUME SizesAssumption == Sizes \subseteq Nat /\ BufferSize \in Nat
ASSUME TimeoutsAssumption == Timeouts \subseteq Int
ASSUME VersionsAssumption == Versions \subseteq {"IPv4", "IPv6"}
ASSUME BoundsAssumption == MaxSockets \in Nat /\ MaxDatagrams \in Nat

VARIABLES
  made, open,  \* sockets: how many were made; which are open
  queue,     \* of each socket: the datagrams received and not yet read
  posted,    \* stop events that are readable; an event has the number of the
             \* socket it was made with
  ids,       \* how many datagrams have been sent
  life, fd, ev,  \* of each object: "raw", "alive" or "dead", socket_fd and
                 \* stop_all_operations_event_fd
  buffer,    \* of each object: for each byte the datagram it came from
  version,   \* ip_version; "any" when it was never initialised
  moving,    \* <<step, object, source>> of the move in progress, or << >>
  pc, on,    \* of each reader: where it is, and in which object
  timeout,
  fds,       \* the socket and the event its system call looks at
  got,       \* the datagram its recvmsg has taken, or NoDatagram
  result,    \* the outcome of its last call
  disturbed,   \* history: since it has loaded socket_fd the object was
               \* assigned to, or since its poll returned another thread
               \* has received from the socket
  overwritten  \* history: since its recvmsg returned another thread has
               \* received into the same object

socketVars == <<made, open, queue, posted, ids>>
objectVars == <<life, fd, ev, buffer, version, moving>>
callVars == <<on, timeout, fds, got, disturbed, overwritten>>
readVars == <<pc, result, callVars>>
vars == <<socketVars, objectVars, readVars>>

Sockets == 1..MaxSockets
Invalid == -1   \* kInvalidSocketFdMarker
Handle == Sockets \cup {Invalid}
Datagram == [id : 1..MaxDatagrams, size : Sizes]
NoDatagram == [id |-> 0, size |-> 0]
NoFds == [fd |-> Invalid, ev |-> Invalid]
Outcome ==
  {"none", "data", "SOCKET_POLL", "SOCKET_READ", "SOCKET_READ_TIMEOUT",
   "SOCKET_TERMINATION_REQUEST", "SOCKET_RECEIVE_BUFFER_TOO_SMALL"}

TypeOK ==
  /\ made \in 0..MaxSockets
  /\ open \subseteq Sockets
  /\ posted \subseteq Sockets
  /\ queue \in [Sockets -> Seq(Datagram)]
  /\ ids \in 0..MaxDatagrams
  /\ life \in [Objects -> {"raw", "alive", "dead"}]
  /\ fd \in [Objects -> Handle] /\ ev \in [Objects -> Handle]
  /\ buffer \in [Objects -> Seq(0..MaxDatagrams)]
  /\ version \in [Objects -> {"IPv4", "IPv6", "any"}]
  /\ pc \in [Readers ->
             {"idle", "load", "poll", "recvmsg", "receive", "copy"}]
  /\ on \in [Readers -> Objects \cup {NoObject}]
  /\ timeout \in [Readers -> Timeouts \cup {-1}]
  /\ fds \in [Readers -> [fd : Handle, ev : Handle]]
  /\ got \in [Readers -> Datagram \cup {NoDatagram}]
  /\ result \in [Readers -> Outcome]
  /\ disturbed \in [Readers -> BOOLEAN]
  /\ overwritten \in [Readers -> BOOLEAN]

Init ==
  /\ made = 0 /\ open = {} /\ posted = {}
  /\ queue = [s \in Sockets |-> << >>]
  /\ ids = 0
  /\ life = [o \in Objects |-> "raw"]
  /\ fd = [o \in Objects |-> Invalid]
  /\ ev = [o \in Objects |-> Invalid]
  /\ buffer = [o \in Objects |-> << >>]
  /\ version = [o \in Objects |-> "any"]
  /\ moving = << >>
  /\ pc = [r \in Readers |-> "idle"]
  /\ on = [r \in Readers |-> NoObject]
  /\ timeout = [r \in Readers |-> -1]
  /\ fds = [r \in Readers |-> NoFds]
  /\ got = [r \in Readers |-> NoDatagram]
  /\ result = [r \in Readers |-> "none"]
  /\ disturbed = [r \in Readers |-> FALSE]
  /\ overwritten = [r \in Readers |-> FALSE]

-----------------------------------------------------------------------------
(* An assignment to o disturbs the calls that have yet to load its         *)
(* descriptor for recvmsg.                                                 *)
DisturbReaders(o) ==
  disturbed' = [r \in Readers |->
    \/ disturbed[r]
    \/ on[r] = o /\ pc[r] \in {"load", "poll", "recvmsg"}]

(* The constructor: socket, bind, buffer, eventfd.                         *)
Construct(o, v) ==
  /\ life[o] = "raw" /\ moving = << >> /\ made < MaxSockets
  /\ made' = made + 1 /\ open' = open \cup {made'}
  /\ life' = [life EXCEPT ![o] = "alive"]
  /\ fd' = [fd EXCEPT ![o] = made']
  /\ ev' = [ev EXCEPT ![o] = made']
  /\ buffer' = [buffer EXCEPT ![o] = [k \in 1..BufferSize |-> 0]]
  /\ version' = [version EXCEPT ![o] = v]
  /\ UNCHANGED <<queue, posted, ids, moving, readVars>>

(* bind or eventfd fails: the constructor throws and leaves the socket.    *)
ConstructThrows ==
  /\ moving = << >> /\ made < MaxSockets
  /\ made' = made + 1 /\ open' = open \cup {made'}
  /\ UNCHANGED <<queue, posted, ids, objectVars, readVars>>

(* The move constructor: the descriptor is copied and then taken from the  *)
(* source, then the event is copied.  The buffer of the new object is      *)
(* empty and its ip_version not initialised.                               *)
MoveConstruct(o, src) ==
  /\ life[o] = "raw" /\ life[src] = "alive" /\ moving = << >>
  /\ fd' = [fd EXCEPT ![o] = fd[src]]
  /\ buffer' = [buffer EXCEPT ![o] = << >>]
  /\ version' = [version EXCEPT ![o] = "any"]
  /\ moving' = <<"clear", o, src>>
  /\ UNCHANGED <<socketVars, life, ev, readVars>>

(* Mutant: the buffer moves along with the socket.                         *)
MoveAssign_TakesBuffer(o, src) ==
  /\ life[o] = "alive" /\ life[src] = "alive" /\ moving = << >>
  /\ fd' = [fd EXCEPT ![o] = fd[src]]
  /\ buffer' = [buffer EXCEPT ![o] = buffer[src], ![src] = << >>]
  /\ moving' = <<"clear", o, src>>
  /\ DisturbReaders(o)
  /\ UNCHANGED <<socketVars, life, ev, version, pc, on, timeout, fds, got,
                 overwritten, result>>

(* The move assignment does the same steps and leaves buffer and           *)
(* ip_version of the target as they are; an object assigned to itself      *)
(* loses its socket.                                                       *)
MoveAssign(o, src) ==
  /\ life[o] = "alive" /\ life[src] = "alive" /\ moving = << >>
  /\ fd' = [fd EXCEPT ![o] = fd[src]]
  /\ moving' = <<"clear", o, src>>
  /\ DisturbReaders(o)
  /\ UNCHANGED <<socketVars, life, ev, buffer, version, pc, on, timeout,
                 fds, got, overwritten, result>>

MoveClear ==
  /\ moving # << >> /\ moving[1] = "clear"
  /\ fd' = [fd EXCEPT ![moving[3]] = Invalid]
  /\ moving' = [moving EXCEPT ![1] = "event"]
  /\ UNCHANGED <<socketVars, life, ev, buffer, version, readVars>>

MoveEvent ==
  /\ moving # << >> /\ moving[1] = "event"
  /\ ev' = [ev EXCEPT ![moving[2]] = ev[moving[3]]]
  /\ life' = [life EXCEPT ![moving[2]] = "alive"]
  /\ moving' = << >>
  /\ UNCHANGED <<socketVars, fd, buffer, version, readVars>>

(* A read of an object from which the socket was moved away is still in a  *)
(* system call on it: close does not end the call, and until it returns    *)
(* the socket keeps its datagrams and receives.                            *)
InUse(s) ==
  \E r \in Readers : pc[r] \in {"poll", "receive"} /\ fds[r].fd = s

(* ~UdpDatagram, once no thread is in a read of the object.                *)
Destroy(o) ==
  /\ life[o] = "alive" /\ moving = << >>
  /\ \A r \in Readers : on[r] # o
  /\ life' = [life EXCEPT ![o] = "dead"]
  /\ fd' = [fd EXCEPT ![o] = Invalid]
  /\ ev' = [ev EXCEPT ![o] = Invalid]
  /\ buffer' = [buffer EXCEPT ![o] = << >>]
  /\ version' = [version EXCEPT ![o] = "any"]
  /\ IF fd[o] = Invalid THEN UNCHANGED <<open, posted, queue>>
     ELSE /\ posted' = posted \cup {ev[o]}
          /\ open' = open \ {fd[o]}
          /\ queue' = IF InUse(fd[o]) THEN queue
                     ELSE [queue EXCEPT ![fd[o]] = << >>]
  /\ UNCHANGED <<made, ids, moving, readVars>>

stopReads(o) ==
  /\ life[o] = "alive" /\ moving = << >>
  /\ posted' = posted \cup {ev[o]}
  /\ UNCHANGED <<made, open, queue, ids, objectVars, readVars>>

-----------------------------------------------------------------------------
(* A new datagram arrives at the socket s.  One that is lost on the way,   *)
(* or finds no socket, never was; a multicast is one for each member.      *)
Deliver(s, size) ==
  /\ s \in open \/ InUse(s)
  /\ ids < MaxDatagrams
  /\ ids' = ids + 1
  /\ queue' = [queue EXCEPT ![s] = Append(@, [id |-> ids', size |-> size])]
  /\ UNCHANGED <<made, open, posted, objectVars, readVars>>

(* write sends when the object has a socket and IPv4; with IPv6 it throws  *)
(* std::logic_error, without a socket SOCKET_WRITE, and nothing changes.   *)
write(o, s, size) ==
  /\ life[o] = "alive" /\ moving = << >>
  /\ version[o] # "IPv6" /\ fd[o] # Invalid
  /\ Deliver(s, size)

-----------------------------------------------------------------------------
(* read.                                                                   *)
Goto(r, place) == pc' = [pc EXCEPT ![r] = place]

(* The call ends, and with it what the histories say about it.             *)
Return(r, type) ==
  /\ Goto(r, "idle")
  /\ result' = [result EXCEPT ![r] = type]
  /\ on' = [on EXCEPT ![r] = NoObject]
  /\ timeout' = [timeout EXCEPT ![r] = -1]
  /\ fds' = [fds EXCEPT ![r] = NoFds]
  /\ got' = [got EXCEPT ![r] = NoDatagram]

Calm(r) ==
  /\ disturbed' = [disturbed EXCEPT ![r] = FALSE]
  /\ overwritten' = [overwritten EXCEPT ![r] = FALSE]

(* The descriptors are loaded one after the other.                         *)
CallRead(r, o, ms) ==
  /\ pc[r] = "idle" /\ life[o] = "alive"
  /\ Goto(r, "load")
  /\ on' = [on EXCEPT ![r] = o]
  /\ timeout' = [timeout EXCEPT ![r] = ms]
  /\ fds' = [fds EXCEPT ![r] = [fd |-> fd[o], ev |-> Invalid]]
  /\ result' = [result EXCEPT ![r] = "none"]
  /\ UNCHANGED <<socketVars, objectVars, got, disturbed, overwritten>>

LoadEvent(r) ==
  /\ pc[r] = "load"
  /\ Goto(r, "poll")
  /\ fds' = [fds EXCEPT ![r].ev = ev[on[r]]]
  /\ UNCHANGED <<socketVars, objectVars, on, timeout, got, result, disturbed,
                 overwritten>>

(* poll ignores a negative descriptor.                                     *)
HasData(r) == fds[r].fd # Invalid /\ queue[fds[r].fd] # << >>
HasStop(r) == fds[r].ev \in posted
Count(b) == IF b THEN 1 ELSE 0
Ready(r) == Count(HasData(r)) + Count(HasStop(r))

(* Mutant: any result from timeout_ms on counts as an error.               *)
IsPollError_From(r, n) == n >= timeout[r]

(* What the code takes for an error: the result of poll is timeout_ms.     *)
IsPollError(r, n) == n = timeout[r]

(* Mutant: whatever is ready is taken for a datagram.                      *)
PollReady_AlwaysReceives(r) ==
  /\ pc[r] = "poll" /\ Ready(r) > 0
  /\ IF IsPollError(r, Ready(r)) THEN Return(r, "SOCKET_POLL") /\ Calm(r)
     ELSE Goto(r, "recvmsg") /\ UNCHANGED <<result, callVars>>
  /\ UNCHANGED <<socketVars, objectVars>>

(* poll returns n > 0.                                                     *)
PollReady(r) ==
  /\ pc[r] = "poll" /\ Ready(r) > 0
  /\ IF IsPollError(r, Ready(r)) THEN Return(r, "SOCKET_POLL") /\ Calm(r)
     ELSE IF HasData(r) THEN Goto(r, "recvmsg") /\ UNCHANGED <<result, callVars>>
     ELSE Return(r, "SOCKET_TERMINATION_REQUEST") /\ Calm(r)
  /\ UNCHANGED <<socketVars, objectVars>>

(* The descriptor was closed before poll got it (POLLNVAL): it had been    *)
(* moved to another object, and that was destroyed.                        *)
PollClosed(r) ==
  /\ pc[r] = "poll" /\ fds[r].fd \notin open \cup {Invalid}
  /\ IF IsPollError(r, 1 + Count(HasStop(r)))
       THEN Return(r, "SOCKET_POLL") /\ Calm(r)
       ELSE Goto(r, "recvmsg") /\ UNCHANGED <<result, callVars>>
  /\ UNCHANGED <<socketVars, objectVars>>

(* poll returns 0, or fails with -1.                                       *)
PollNothing(r, n) ==
  /\ pc[r] = "poll" /\ Ready(r) = 0
  /\ Return(r, IF IsPollError(r, n) THEN "SOCKET_POLL"
               ELSE "SOCKET_READ_TIMEOUT")
  /\ Calm(r)
  /\ UNCHANGED <<socketVars, objectVars>>

PollTimeout(r) == timeout[r] # -1 /\ PollNothing(r, 0)

PollInterrupted(r) == PollNothing(r, -1)

(* recvmsg loads the descriptor again and fails: the object has been moved *)
(* from.                                                                   *)
RecvmsgFails(r) ==
  /\ pc[r] = "recvmsg" /\ fd[on[r]] \notin open
  /\ Return(r, "SOCKET_READ") /\ Calm(r)
  /\ UNCHANGED <<socketVars, objectVars>>

(* From here on the call is on that socket, whatever becomes of the object. *)
EnterRecvmsg(r) ==
  /\ pc[r] = "recvmsg" /\ fd[on[r]] \in open
  /\ Goto(r, "receive")
  /\ fds' = [fds EXCEPT ![r] = [fd |-> fd[on[r]], ev |-> Invalid]]
  /\ UNCHANGED <<socketVars, objectVars, on, timeout, got, result, disturbed,
                 overwritten>>

(* MSG_TRUNC is set.                                                      *)
Truncated(o, d) == d.size > Len(buffer[o])

(* The threads that count on a datagram of the socket r receives from.     *)
Rivals(r) ==
  {q \in Readers \ {r} :
     pc[q] \in {"recvmsg", "receive"} /\ fds[q].fd = fds[r].fd}

(* recvmsg takes a datagram and writes as much of it as fits; it waits for *)
(* one as long as there is none.                                           *)
Recvmsg(r) ==
  /\ pc[r] = "receive" /\ queue[fds[r].fd] # << >>
  /\ LET o == on[r]
         s == fds[r].fd
         d == Head(queue[s])
     IN /\ queue' = [queue EXCEPT ![s] = Tail(@)]
        /\ buffer' = [buffer EXCEPT ![o] =
             [k \in DOMAIN @ |-> IF k <= d.size THEN d.id ELSE @[k]]]
        /\ disturbed' = [q \in Readers |->
             q # r /\ (disturbed[q] \/ q \in Rivals(r))]
        /\ overwritten' = [q \in Readers |->
             overwritten[q] \/ (q # r /\ pc[q] = "copy" /\ on[q] = o)]
        /\ IF Truncated(o, d)
             THEN Return(r, "SOCKET_RECEIVE_BUFFER_TOO_SMALL")
             ELSE /\ Goto(r, "copy")
                  /\ got' = [got EXCEPT ![r] = d]
                  /\ fds' = [fds EXCEPT ![r] = NoFds]
                  /\ UNCHANGED <<on, timeout, result>>
  /\ UNCHANGED <<made, open, posted, ids, life, fd, ev, version, moving>>

(* A signal interrupts recvmsg while it waits: EINTR.                      *)
RecvmsgInterrupted(r) ==
  /\ pc[r] = "receive" /\ queue[fds[r].fd] = << >>
  /\ Return(r, "SOCKET_READ") /\ Calm(r)
  /\ UNCHANGED <<socketVars, objectVars>>

(* The bytes are copied out of the buffer.                                 *)
Copy(r) ==
  /\ pc[r] = "copy"
  /\ Return(r, "data") /\ Calm(r)
  /\ UNCHANGED <<socketVars, objectVars>>

Step(r) ==
  \/ LoadEvent(r) \/ PollReady(r) \/ PollClosed(r) \/ PollTimeout(r)
  \/ RecvmsgFails(r) \/ EnterRecvmsg(r) \/ Recvmsg(r) \/ Copy(r)

Owner ==
  \/ ConstructThrows \/ MoveClear \/ MoveEvent
  \/ \E o \in Objects :
       \/ \E v \in Versions : Construct(o, v)
       \/ \E src \in Objects : MoveConstruct(o, src) \/ MoveAssign(o, src)
       \/ Destroy(o) \/ stopReads(o)
       \/ \E s \in Sockets, size \in Sizes : write(o, s, size)

Next ==
  \/ Owner
  \/ \E s \in Sockets, size \in Sizes : Deliver(s, size)
  \/ \E r \in Readers :
       \/ \E o \in Objects, ms \in Timeouts : CallRead(r, o, ms)
       \/ Step(r)
       \/ PollInterrupted(r) \/ RecvmsgInterrupted(r)

Spec == Init /\ [][Next]_vars

-----------------------------------------------------------------------------
(* What Copy returns: as many bytes as recvmsg has written.                *)
Copied(r) ==
  LET b == buffer[on[r]]
  IN SubSeq(b, 1, IF got[r].size < Len(b) THEN got[r].size ELSE Len(b))

(* read returns exactly the bytes of the datagram its own recvmsg has      *)
(* taken, all of them and no others, unless another thread's recvmsg into  *)
(* the same object came between recvmsg and the copy.  What moves and      *)
(* assignments of the object do meanwhile, and receptions into other       *)
(* objects, is no excuse.                                                  *)
ResultIsOneDatagram ==
  \A r \in Readers :
    pc[r] = "copy" /\ ~overwritten[r] =>
      Copied(r) = [k \in 1..got[r].size |-> got[r].id]

(* A datagram is thrown away as too large (SOCKET_RECEIVE_BUFFER_TOO_SMALL *)
(* consumes it) only if it exceeds buffer_size or the object was made by   *)
(* the move constructor, which leaves it without a buffer (and ip_version  *)
(* without a value); assigning an object does not hand this on.            *)
TruncationNeedsMove ==
  [][\A r \in Readers :
       /\ pc[r] = "receive"
       /\ result'[r] = "SOCKET_RECEIVE_BUFFER_TOO_SMALL"
       => \/ Head(queue[fds[r].fd]).size > BufferSize
          \/ version[on[r]] = "any"]_vars

(* SOCKET_POLL is reported only if poll has failed, except to a call whose *)
(* timeout is 0, 1 or 2 milliseconds: that is also a number of descriptors *)
(* which are ready.  In particular a call with another timeout takes a     *)
(* datagram that is there, and hears of a stop.                            *)
NoFalsePollError ==
  [][\A r \in Readers :
       /\ pc[r] = "poll" /\ result'[r] = "SOCKET_POLL"
       /\ timeout[r] \notin 0..2
       => Ready(r) = 0 /\ timeout[r] = -1]_vars

(* r waits in recvmsg, which neither a timeout nor stopReads ends.         *)
Caught(r) == pc[r] = "receive" /\ queue[fds[r].fd] = << >>

(* A thread gets caught in recvmsg only because, since its poll returned,  *)
(* another thread has taken the datagram (also through an object to which  *)
(* the socket has been moved), or because the object it reads has been     *)
(* assigned to after read had loaded its descriptor for poll and before it *)
(* loaded it again for recvmsg.                                            *)
CaughtNeedsRival == \A r \in Readers : Caught(r) => disturbed[r]
=============================================================================
