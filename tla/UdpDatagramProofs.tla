------------------------- MODULE UdpDatagramProofs -------------------------
(***************************************************************************)
(* Proofs about UdpDatagram for every set of objects and of threads in     *)
(* read, all sizes of datagrams and of the buffer, and all timeouts.       *)
(***************************************************************************)
EXTENDS UdpDatagram, SequenceTheorems, TLAPS

(* The type invariant, component by component.                             *)
SocketTypes ==
  /\ made \in 0..MaxSockets
  /\ open \subseteq Sockets
  /\ posted \subseteq Sockets
  /\ queue \in [Sockets -> Seq(Datagram)]
  /\ ids \in 0..MaxDatagrams

ObjectTypes ==
  /\ life \in [Objects -> {"raw", "alive", "dead"}]
  /\ fd \in [Objects -> Handle] /\ ev \in [Objects -> Handle]
  /\ buffer \in [Objects -> Seq(0..MaxDatagrams)]
  /\ version \in [Objects -> {"IPv4", "IPv6", "any"}]

Places == {"idle", "load", "poll", "recvmsg", "receive", "copy"}
Fds == [fd : Handle, ev : Handle]

CallTypes ==
  /\ pc \in [Readers -> Places]
  /\ on \in [Readers -> Objects \cup {NoObject}]
  /\ timeout \in [Readers -> Timeouts \cup {-1}]
  /\ fds \in [Readers -> Fds]
  /\ got \in [Readers -> Datagram \cup {NoDatagram}]
  /\ result \in [Readers -> Outcome]
  /\ disturbed \in [Readers -> BOOLEAN]
  /\ overwritten \in [Readers -> BOOLEAN]

(* The move in progress is between two objects, of which the source is     *)
(* there and the target is being made or is there too.                     *)
Moves ==
  moving # << >> =>
    /\ moving \in {"clear", "event"} \X Objects \X Objects
    /\ life[moving[3]] = "alive" /\ life[moving[2]] # "dead"

(* Every object that is there has an event.                                *)
LivingHaveEvents == \A o \in Objects : life[o] = "alive" => ev[o] \in Sockets

(* The socket of an object is open, and no other object has it except      *)
(* between the halves of a move.                                           *)
Owned ==
  /\ open \subseteq 1..made
  /\ \A o \in Objects : fd[o] # Invalid => fd[o] \in open
  /\ \A o \in Objects, p \in Objects :
       o # p /\ fd[o] # Invalid /\ fd[o] = fd[p] =>
         /\ moving # << >> /\ moving[1] = "clear"
         /\ {moving[2], moving[3]} = {o, p}

(* An object made by the constructor keeps a buffer of buffer_size.        *)
BufferMade ==
  \A o \in Objects : version[o] # "any" => Len(buffer[o]) = BufferSize

(* A call is on an object that is there and has no outcome yet; once in    *)
(* recvmsg it is on a socket.                                              *)
CallState(r) ==
  pc[r] # "idle" =>
    /\ on[r] \in Objects /\ life[on[r]] = "alive" /\ result[r] = "none"
    /\ pc[r] = "receive" => fds[r].fd \in Sockets

(* Unless disturbed, a call finds in the object the socket it has polled   *)
(* or none, and a datagram is still there, before and in recvmsg.          *)
SameSocket(r) == fd[on[r]] \in {fds[r].fd, Invalid}

StillThere(r) == fd[on[r]] # Invalid => queue[fd[on[r]]] # << >>

Undisturbed(r) ==
  ~disturbed[r] =>
    /\ pc[r] \in {"load", "poll", "recvmsg"} => SameSocket(r)
    /\ pc[r] = "recvmsg" => StillThere(r)
    /\ pc[r] = "receive" => queue[fds[r].fd] # << >>

(* Unless overwritten, the buffer holds the datagram that was taken until  *)
(* it is copied.                                                           *)
InBuffer(r) ==
  /\ got[r] \in Datagram
  /\ got[r].size <= Len(buffer[on[r]])
  /\ \A k \in 1..got[r].size : buffer[on[r]][k] = got[r].id

Intact(r) == pc[r] = "copy" /\ ~overwritten[r] => InBuffer(r)

CallOK(r) == CallState(r) /\ Undisturbed(r) /\ Intact(r)

IInv ==
  /\ SocketTypes /\ ObjectTypes /\ CallTypes
  /\ Moves /\ LivingHaveEvents /\ Owned /\ BufferMade
  /\ \A r \in Readers : CallOK(r)

-----------------------------------------------------------------------------
(* The call of q is not touched.                                           *)
Same(q) ==
  /\ pc'[q] = pc[q] /\ on'[q] = on[q] /\ fds'[q] = fds[q]
  /\ got'[q] = got[q] /\ result'[q] = result[q]

(* Invalid is not a socket.                                                *)
LEMMA HandleFacts ==
  /\ Invalid \notin Sockets /\ Invalid \in Handle /\ Sockets \subseteq Handle
  /\ \A h \in Handle : h # Invalid => h \in Sockets
  /\ \A s \in Sockets : s \in Nat \ {0}
BY BoundsAssumption DEF Invalid, Sockets, Handle

(* What a step has to grant the call of q, which it does not touch: the    *)
(* object stays and keeps its socket, or loses it, and what is in the      *)
(* buffer, while a datagram stays in the socket; or the call is marked.    *)
Spares(q) ==
  /\ Same(q)
  /\ disturbed[q] => disturbed'[q]
  /\ overwritten[q] => overwritten'[q]
  /\ pc[q] # "idle" => life'[on[q]] = "alive"
  /\ pc[q] = "copy" /\ ~overwritten'[q] => buffer'[on[q]] = buffer[on[q]]
  /\ ~disturbed'[q] =>
       /\ pc[q] \in {"load", "poll", "recvmsg"} =>
            fd'[on[q]] \in {fd[on[q]], Invalid}
       /\ pc[q] = "recvmsg" /\ fd'[on[q]] # Invalid
            /\ queue[fd[on[q]]] # << >> => queue'[fd[on[q]]] # << >>
       /\ pc[q] = "receive" /\ queue[fds[q].fd] # << >> =>
            queue'[fds[q].fd] # << >>

(* That keeps the invariant of the call.                                   *)
LEMMA CallKept ==
  ASSUME NEW q \in Readers, CallOK(q), Spares(q)
  PROVE  CallOK(q)'
<1>1. CallState(q) /\ Undisturbed(q) /\ Intact(q) /\ Same(q)
  BY DEF CallOK, Spares
<1>2. CallState(q)'
  BY <1>1 DEF CallState, Same, Spares
<1>3. ASSUME ~disturbed'[q], pc'[q] \in {"load", "poll", "recvmsg"}
      PROVE  SameSocket(q)'
  BY <1>1, <1>3 DEF Undisturbed, Same, Spares, SameSocket
<1>4. ASSUME ~disturbed'[q], pc'[q] = "recvmsg" PROVE StillThere(q)'
  BY <1>1, <1>4 DEF Undisturbed, Same, Spares, StillThere
<1>5. ASSUME ~disturbed'[q], pc'[q] = "receive"
      PROVE  queue'[fds'[q].fd] # << >>
  BY <1>1, <1>5 DEF Undisturbed, Same, Spares
<1>6. Intact(q)'
  <2>1. ASSUME pc'[q] = "copy", ~overwritten'[q]
        PROVE  InBuffer(q)'
    <3>1. InBuffer(q) /\ buffer'[on'[q]] = buffer[on[q]] /\ got'[q] = got[q]
      BY <1>1, <2>1 DEF Intact, Same, Spares
    <3>2. QED
      BY <3>1 DEF InBuffer
  <2>2. QED
    BY <2>1 DEF Intact
<1>7. QED
  BY <1>2, <1>3, <1>4, <1>5, <1>6 DEF CallOK, Undisturbed

(* A step that leaves all calls alone.                                     *)
LEMMA CallsKept ==
  ASSUME IInv, UNCHANGED readVars,
         \A q \in Readers :
           pc[q] # "idle" =>
             /\ life'[on[q]] = "alive"
             /\ fd'[on[q]] \in {fd[on[q]], Invalid}
             /\ buffer'[on[q]] = buffer[on[q]]
             /\ pc[q] = "recvmsg" /\ fd'[on[q]] # Invalid
                  /\ queue[fd[on[q]]] # << >> => queue'[fd[on[q]]] # << >>
             /\ pc[q] = "receive" /\ queue[fds[q].fd] # << >> =>
                  queue'[fds[q].fd] # << >>
  PROVE  CallTypes' /\ \A q \in Readers : CallOK(q)'
<1>1. /\ CallTypes' /\ disturbed' = disturbed /\ overwritten' = overwritten
      /\ \A q \in Readers : Same(q)
  BY DEF IInv, CallTypes, readVars, callVars, Same
<1>2. ASSUME NEW q \in Readers PROVE CallOK(q)'
  <2>1. Spares(q)
    BY <1>1 DEF Spares
  <2>2. QED
    BY <2>1, CallKept DEF IInv
<1>3. QED
  BY <1>1, <1>2

(* A call is on an object that is there.                                   *)
LEMMA OnLiving ==
  ASSUME IInv, NEW q \in Readers, pc[q] # "idle"
  PROVE  on[q] \in Objects /\ life[on[q]] = "alive" /\ result[q] = "none"
BY DEF IInv, CallOK, CallState

(* The initial state.                                                      *)
LEMMA InitInv == Init => IInv
<1> SUFFICES ASSUME Init PROVE IInv
  OBVIOUS
<1>1. SocketTypes /\ Owned
  BY BoundsAssumption DEF Init, SocketTypes, Sockets, Owned, Invalid
<1>2. ObjectTypes /\ Moves /\ LivingHaveEvents /\ BufferMade
  BY HandleFacts
     DEF Init, ObjectTypes, Moves, LivingHaveEvents, BufferMade
<1>3. CallTypes
  BY HandleFacts DEF Init, CallTypes, Outcome, Places, Fds, NoFds
<1>4. \A r \in Readers : CallOK(r)
  BY DEF Init, CallOK, CallState, Undisturbed, Intact
<1>5. QED
  BY <1>1, <1>2, <1>3, <1>4 DEF IInv

-----------------------------------------------------------------------------
(* The constructor: the number of the new socket is nobody else's.         *)
LEMMA ConstructInv ==
  ASSUME IInv, NEW o \in Objects, NEW v \in Versions, Construct(o, v)
  PROVE  IInv'
<1>1. /\ life[o] = "raw" /\ moving = << >> /\ moving' = << >>
      /\ made' = made + 1 /\ made' \in Sockets /\ made' \notin open
      /\ made' \in 0..MaxSockets /\ open' = open \cup {made'}
      /\ made' # Invalid /\ open' \subseteq 1..made'
  BY BoundsAssumption
     DEF Construct, IInv, SocketTypes, Owned, Sockets, Invalid
<1>2. /\ life'[o] = "alive" /\ fd'[o] = made' /\ ev'[o] = made'
      /\ buffer'[o] = [k \in 1..BufferSize |-> 0] /\ version'[o] = v
      /\ \A p \in Objects \ {o} :
           /\ life'[p] = life[p] /\ fd'[p] = fd[p] /\ ev'[p] = ev[p]
           /\ buffer'[p] = buffer[p] /\ version'[p] = version[p]
  BY DEF Construct, IInv, ObjectTypes
<1>3. SocketTypes'
  BY <1>1 DEF Construct, IInv, SocketTypes
<1>4. /\ [k \in 1..BufferSize |-> 0] \in Seq(0..MaxDatagrams)
      /\ Len([k \in 1..BufferSize |-> 0]) = BufferSize
  <2>1. 0 \in 0..MaxDatagrams /\ BufferSize \in Nat
    BY BoundsAssumption, SizesAssumption
  <2>2. QED
    BY <2>1
<1>5. ObjectTypes'
  <2>1. made' \in Handle /\ v \in {"IPv4", "IPv6", "any"}
    BY <1>1, HandleFacts, VersionsAssumption
  <2>2. life' \in [Objects -> {"raw", "alive", "dead"}]
    BY DEF Construct, IInv, ObjectTypes
  <2>3. fd' \in [Objects -> Handle] /\ ev' \in [Objects -> Handle]
    BY <2>1 DEF Construct, IInv, ObjectTypes
  <2>4. buffer' \in [Objects -> Seq(0..MaxDatagrams)]
    BY <1>4 DEF Construct, IInv, ObjectTypes
  <2>5. version' \in [Objects -> {"IPv4", "IPv6", "any"}]
    BY <2>1 DEF Construct, IInv, ObjectTypes
  <2>6. QED
    BY <2>2, <2>3, <2>4, <2>5 DEF ObjectTypes
<1>6. Moves' /\ LivingHaveEvents'
  BY <1>1, <1>2 DEF IInv, Moves, LivingHaveEvents
<1>7. Owned'
  <2>1. \A p \in Objects \ {o} : fd[p] # made'
    BY <1>1 DEF IInv, Owned
  <2>2. \A p \in Objects : fd'[p] # Invalid => fd'[p] \in open'
    BY <1>1, <1>2 DEF IInv, Owned
  <2>3. \A p \in Objects, q \in Objects :
          p # q /\ fd'[p] # Invalid => fd'[p] # fd'[q]
    BY <1>1, <1>2, <2>1 DEF IInv, Owned
  <2>4. QED
    BY <1>1, <2>2, <2>3 DEF Owned
<1>8. BufferMade'
  BY <1>2, <1>4 DEF IInv, BufferMade
<1>9. CallTypes' /\ \A q \in Readers : CallOK(q)'
  <2>1. \A q \in Readers : pc[q] # "idle" => on[q] \in Objects \ {o}
    BY <1>1, OnLiving
  <2>2. queue' = queue /\ UNCHANGED readVars
    BY DEF Construct
  <2>3. QED
    BY <1>2, <2>1, <2>2, OnLiving, CallsKept
<1>10. QED
  BY <1>3, <1>5, <1>6, <1>7, <1>8, <1>9 DEF IInv

(* The constructor that throws.                                            *)
LEMMA ConstructThrowsInv ==
  ASSUME IInv, ConstructThrows
  PROVE  IInv'
<1>1. /\ made' = made + 1 /\ made' \in Sockets /\ made' \in 0..MaxSockets
      /\ open' = open \cup {made'} /\ open' \subseteq 1..made'
      /\ queue' = queue /\ posted' = posted /\ ids' = ids
      /\ UNCHANGED objectVars /\ UNCHANGED readVars
  BY BoundsAssumption DEF ConstructThrows, IInv, SocketTypes, Owned, Sockets
<1>2. SocketTypes'
  BY <1>1 DEF IInv, SocketTypes
<1>3. /\ ObjectTypes' /\ Moves' /\ LivingHaveEvents' /\ Owned' /\ BufferMade'
  BY <1>1 DEF IInv, ObjectTypes, Moves, LivingHaveEvents, Owned, BufferMade,
              objectVars
<1>4. CallTypes' /\ \A q \in Readers : CallOK(q)'
  BY <1>1, OnLiving, CallsKept DEF objectVars
<1>5. QED
  BY <1>2, <1>3, <1>4 DEF IInv

(* The first half of a move construction: the socket has two owners.       *)
LEMMA MoveConstructInv ==
  ASSUME IInv, NEW o \in Objects, NEW src \in Objects, MoveConstruct(o, src)
  PROVE  IInv'
<1>1. /\ life[o] = "raw" /\ life[src] = "alive" /\ moving = << >>
      /\ moving' = <<"clear", o, src>> /\ o # src
      /\ UNCHANGED <<socketVars, life, ev, readVars>>
  BY DEF MoveConstruct
<1>2. /\ fd'[o] = fd[src] /\ version'[o] = "any"
      /\ \A p \in Objects \ {o} :
           fd'[p] = fd[p] /\ buffer'[p] = buffer[p] /\ version'[p] = version[p]
  BY DEF MoveConstruct, IInv, ObjectTypes
<1>3. SocketTypes'
  BY <1>1 DEF IInv, SocketTypes, socketVars
<1>4. ObjectTypes'
  <2>1. << >> \in Seq(0..MaxDatagrams)
    OBVIOUS
  <2>2. buffer' \in [Objects -> Seq(0..MaxDatagrams)]
    BY <2>1 DEF MoveConstruct, IInv, ObjectTypes
  <2>3. /\ fd' \in [Objects -> Handle]
        /\ version' \in [Objects -> {"IPv4", "IPv6", "any"}]
    BY DEF MoveConstruct, IInv, ObjectTypes
  <2>4. QED
    BY <1>1, <2>2, <2>3 DEF IInv, ObjectTypes
<1>5. Moves'
  BY <1>1 DEF Moves
<1>6. LivingHaveEvents' /\ BufferMade'
  BY <1>1, <1>2 DEF IInv, LivingHaveEvents, BufferMade
<1>7. Owned'
  <2>1. open' = open /\ made' = made
    BY <1>1 DEF socketVars
  <2>2. \A p \in Objects : fd'[p] # Invalid => fd'[p] \in open
    BY <1>2 DEF IInv, Owned
  <2>3. ASSUME NEW p \in Objects, NEW q \in Objects,
               p # q, fd'[p] # Invalid, fd'[p] = fd'[q]
        PROVE  {o, src} = {p, q}
    <3>1. \A x \in Objects, y \in Objects :
            x # y /\ fd[x] # Invalid => fd[x] # fd[y]
      BY <1>1 DEF IInv, Owned
    <3>2. p = o \/ q = o
      BY <1>2, <2>3, <3>1
    <3>3. p = src \/ q = src
      BY <1>2, <2>3, <3>1, <3>2
    <3>4. QED
      BY <1>1, <2>3, <3>2, <3>3
  <2>4. moving' # << >> /\ moving'[1] = "clear"
        /\ moving'[2] = o /\ moving'[3] = src
    BY <1>1
  <2>5. QED
    BY <2>1, <2>2, <2>3, <2>4 DEF IInv, Owned
<1>8. CallTypes' /\ \A q \in Readers : CallOK(q)'
  <2>1. \A q \in Readers : pc[q] # "idle" => on[q] \in Objects \ {o}
    BY <1>1, OnLiving
  <2>2. queue' = queue /\ life' = life /\ UNCHANGED readVars
    BY <1>1 DEF socketVars
  <2>3. QED
    BY <1>2, <2>1, <2>2, OnLiving, CallsKept
<1>9. QED
  BY <1>3, <1>4, <1>5, <1>6, <1>7, <1>8 DEF IInv

(* The first half of a move assignment: the socket has two owners, and the *)
(* calls on the target are disturbed.                                      *)
LEMMA MoveAssignInv ==
  ASSUME IInv, NEW o \in Objects, NEW src \in Objects, MoveAssign(o, src)
  PROVE  IInv'
<1>1. /\ life[o] = "alive" /\ life[src] = "alive" /\ moving = << >>
      /\ moving' = <<"clear", o, src>>
      /\ UNCHANGED <<socketVars, life, ev, buffer, version, pc, on, timeout,
                     fds, got, overwritten, result>>
  BY DEF MoveAssign
<1>2. fd'[o] = fd[src] /\ \A p \in Objects \ {o} : fd'[p] = fd[p]
  BY DEF MoveAssign, IInv, ObjectTypes
<1>3. \A q \in Readers :
        disturbed'[q] = \/ disturbed[q]
                        \/ on[q] = o /\ pc[q] \in {"load", "poll", "recvmsg"}
  BY DEF MoveAssign, DisturbReaders
<1>4. SocketTypes'
  BY <1>1 DEF IInv, SocketTypes, socketVars
<1>5. ObjectTypes'
  <2>1. fd' \in [Objects -> Handle]
    BY DEF MoveAssign, IInv, ObjectTypes
  <2>2. QED
    BY <1>1, <2>1 DEF IInv, ObjectTypes
<1>6. CallTypes'
  <2>1. disturbed' \in [Readers -> BOOLEAN]
    BY DEF MoveAssign, DisturbReaders, IInv, CallTypes
  <2>2. QED
    BY <1>1, <2>1 DEF IInv, CallTypes
<1>7. Moves' /\ LivingHaveEvents' /\ BufferMade'
  BY <1>1 DEF IInv, Moves, LivingHaveEvents, BufferMade
<1>8. Owned'
  <2>1. open' = open /\ made' = made
    BY <1>1 DEF socketVars
  <2>2. \A p \in Objects : fd'[p] # Invalid => fd'[p] \in open
    BY <1>2 DEF IInv, Owned
  <2>3. ASSUME NEW p \in Objects, NEW q \in Objects,
               p # q, fd'[p] # Invalid, fd'[p] = fd'[q]
        PROVE  {o, src} = {p, q}
    <3>1. \A x \in Objects, y \in Objects :
            x # y /\ fd[x] # Invalid => fd[x] # fd[y]
      BY <1>1 DEF IInv, Owned
    <3>2. p = o \/ q = o
      BY <1>2, <2>3, <3>1
    <3>3. p = src \/ q = src
      BY <1>2, <2>3, <3>1, <3>2
    <3>4. o # src
      BY <1>2, <2>3, <3>1
    <3>5. QED
      BY <2>3, <3>2, <3>3, <3>4
  <2>4. moving' # << >> /\ moving'[1] = "clear"
        /\ moving'[2] = o /\ moving'[3] = src
    BY <1>1
  <2>5. QED
    BY <2>1, <2>2, <2>3, <2>4 DEF IInv, Owned
<1>9. ASSUME NEW q \in Readers PROVE CallOK(q)'
  <2>1. Same(q) /\ queue' = queue /\ buffer' = buffer /\ life' = life
    BY <1>1 DEF Same, socketVars
  <2>2. disturbed[q] \in BOOLEAN /\ disturbed'[q] \in BOOLEAN
    BY <1>6 DEF IInv, CallTypes
  <2>3. /\ disturbed[q] => disturbed'[q]
        /\ ~disturbed'[q] /\ pc[q] \in {"load", "poll", "recvmsg"} =>
             fd'[on[q]] = fd[on[q]]
    BY <1>2, <1>3, <2>2, OnLiving
  <2>4. Spares(q)
    BY <1>1, <2>1, <2>3, OnLiving DEF Spares
  <2>5. QED
    BY <2>4, CallKept DEF IInv
<1>10. QED
  BY <1>4, <1>5, <1>6, <1>7, <1>8, <1>9 DEF IInv

(* The second half: the source loses the socket, which has one owner again *)
(* (none, when an object was assigned to itself).                          *)
LEMMA MoveClearInv ==
  ASSUME IInv, MoveClear
  PROVE  IInv'
<1>1. PICK o \in Objects, src \in Objects :
        /\ moving = <<"clear", o, src>>
        /\ life[src] = "alive" /\ life[o] # "dead"
  BY DEF MoveClear, IInv, Moves
<1>2. moving' = <<"event", o, src>>
  BY <1>1 DEF MoveClear
<1>3. fd'[src] = Invalid /\ \A p \in Objects \ {src} : fd'[p] = fd[p]
  BY <1>1 DEF MoveClear, IInv, ObjectTypes
<1>4. UNCHANGED <<socketVars, life, ev, buffer, version, readVars>>
  BY DEF MoveClear
<1>5. SocketTypes' /\ LivingHaveEvents' /\ BufferMade'
  BY <1>4 DEF IInv, SocketTypes, socketVars, LivingHaveEvents, BufferMade
<1>6. ObjectTypes'
  <2>1. fd' \in [Objects -> Handle]
    BY <1>1, HandleFacts DEF MoveClear, IInv, ObjectTypes
  <2>2. QED
    BY <1>4, <2>1 DEF IInv, ObjectTypes
<1>7. Moves'
  BY <1>1, <1>2, <1>4 DEF Moves
<1>8. Owned'
  <2>1. open' = open /\ made' = made
    BY <1>4 DEF socketVars
  <2>2. \A p \in Objects : fd'[p] # Invalid => fd'[p] \in open
    BY <1>3 DEF IInv, Owned
  <2>3. ASSUME NEW p \in Objects, NEW q \in Objects,
               p # q, fd'[p] # Invalid, fd'[p] = fd'[q]
        PROVE  FALSE
    <3>1. p # src /\ q # src /\ fd[p] # Invalid /\ fd[p] = fd[q]
      BY <1>3, <2>3
    <3>2. {moving[2], moving[3]} = {p, q}
      BY <2>3, <3>1 DEF IInv, Owned
    <3>3. QED
      BY <1>1, <3>1, <3>2
  <2>4. QED
    BY <2>1, <2>2, <2>3 DEF IInv, Owned
<1>9. CallTypes' /\ \A q \in Readers : CallOK(q)'
  <2>1. \A p \in Objects : fd'[p] \in {fd[p], Invalid}
    BY <1>3
  <2>2. queue' = queue /\ life' = life /\ buffer' = buffer /\ UNCHANGED readVars
    BY <1>4 DEF socketVars
  <2>3. \A q \in Readers :
          pc[q] # "idle" /\ fd'[on[q]] # Invalid => fd'[on[q]] = fd[on[q]]
    BY <2>1, OnLiving
  <2>4. QED
    BY <2>1, <2>2, OnLiving, CallsKept
<1>10. QED
  BY <1>5, <1>6, <1>7, <1>8, <1>9 DEF IInv

(* The last step of a move: the event is copied, and a new object is there.*)
LEMMA MoveEventInv ==
  ASSUME IInv, MoveEvent
  PROVE  IInv'
<1>1. PICK o \in Objects, src \in Objects :
        /\ moving = <<"event", o, src>>
        /\ life[src] = "alive" /\ life[o] # "dead"
  BY DEF MoveEvent, IInv, Moves
<1>2. /\ moving' = << >> /\ ev' = [ev EXCEPT ![o] = ev[src]]
      /\ life' = [life EXCEPT ![o] = "alive"]
      /\ UNCHANGED <<socketVars, fd, buffer, version, readVars>>
  BY <1>1 DEF MoveEvent
<1>3. /\ ev'[o] \in Sockets /\ life'[o] = "alive"
      /\ \A p \in Objects \ {o} : ev'[p] = ev[p] /\ life'[p] = life[p]
  BY <1>1, <1>2 DEF IInv, ObjectTypes, LivingHaveEvents
<1>4. SocketTypes'
  BY <1>2 DEF IInv, SocketTypes, socketVars
<1>5. ObjectTypes'
  BY <1>2 DEF IInv, ObjectTypes
<1>6. Moves' /\ LivingHaveEvents'
  BY <1>2, <1>3 DEF IInv, Moves, LivingHaveEvents
<1>7. Owned'
  <2>1. \A p \in Objects, q \in Objects :
          p # q /\ fd[p] # Invalid => fd[p] # fd[q]
    BY <1>1 DEF IInv, Owned
  <2>2. QED
    BY <1>2, <2>1 DEF IInv, Owned, socketVars
<1>8. BufferMade'
  BY <1>1, <1>2, <1>3 DEF IInv, BufferMade
<1>9. CallTypes' /\ \A q \in Readers : CallOK(q)'
  <2>1. queue' = queue /\ fd' = fd /\ buffer' = buffer /\ UNCHANGED readVars
    BY <1>2 DEF socketVars
  <2>2. \A p \in Objects : life[p] = "alive" => life'[p] = "alive"
    BY <1>3
  <2>3. QED
    BY <2>1, <2>2, OnLiving, CallsKept
<1>10. QED
  BY <1>4, <1>5, <1>6, <1>7, <1>8, <1>9 DEF IInv

(* The destructor.  The event was the object's, the socket is closed       *)
(* unless it was moved away, and a socket that a thread still polls keeps  *)
(* its datagrams.                                                          *)
LEMMA DestroyInv ==
  ASSUME IInv, NEW o \in Objects, Destroy(o)
  PROVE  IInv'
<1>1. /\ life[o] = "alive" /\ moving = << >> /\ moving' = << >>
      /\ \A q \in Readers : on[q] # o
      /\ made' = made /\ ids' = ids /\ UNCHANGED readVars
  BY DEF Destroy
<1>2. /\ life'[o] = "dead" /\ fd'[o] = Invalid /\ version'[o] = "any"
      /\ \A p \in Objects \ {o} :
           /\ life'[p] = life[p] /\ fd'[p] = fd[p] /\ ev'[p] = ev[p]
           /\ buffer'[p] = buffer[p] /\ version'[p] = version[p]
  BY DEF Destroy, IInv, ObjectTypes
<1>3. /\ ev[o] \in Sockets /\ fd[o] \in Handle
      /\ fd[o] # Invalid => fd[o] \in Sockets
  BY <1>1, HandleFacts DEF IInv, LivingHaveEvents, ObjectTypes
<1>4. /\ posted' \subseteq posted \cup {ev[o]}
      /\ open' = open \ {fd[o]}
  <2>1. CASE fd[o] = Invalid
    <3>1. Invalid \notin open
      BY HandleFacts DEF IInv, SocketTypes
    <3>2. QED
      BY <2>1, <3>1 DEF Destroy
  <2>2. CASE fd[o] # Invalid
    BY <2>2 DEF Destroy
  <2>3. QED
    BY <2>1, <2>2
<1>5. /\ queue' \in [Sockets -> Seq(Datagram)]
      /\ \A s \in Sockets : s # fd[o] \/ InUse(s) => queue'[s] = queue[s]
  <2>1. queue \in [Sockets -> Seq(Datagram)] /\ << >> \in Seq(Datagram)
    BY DEF IInv, SocketTypes
  <2>2. CASE queue' = queue
    BY <2>1, <2>2
  <2>3. CASE /\ fd[o] # Invalid /\ ~InUse(fd[o])
             /\ queue' = [queue EXCEPT ![fd[o]] = << >>]
    <3>1. /\ queue' \in [Sockets -> Seq(Datagram)]
          /\ \A s \in Sockets \ {fd[o]} : queue'[s] = queue[s]
      BY <1>3, <2>1, <2>3
    <3>2. QED
      BY <2>3, <3>1
  <2>4. QED
    BY <2>2, <2>3 DEF Destroy
<1>6. SocketTypes'
  BY <1>1, <1>3, <1>4, <1>5 DEF IInv, SocketTypes
<1>7. ObjectTypes'
  <2>1. << >> \in Seq(0..MaxDatagrams)
    OBVIOUS
  <2>2. buffer' \in [Objects -> Seq(0..MaxDatagrams)]
    BY <2>1 DEF Destroy, IInv, ObjectTypes
  <2>3. /\ fd' \in [Objects -> Handle] /\ ev' \in [Objects -> Handle]
        /\ version' \in [Objects -> {"IPv4", "IPv6", "any"}]
        /\ life' \in [Objects -> {"raw", "alive", "dead"}]
    BY HandleFacts DEF Destroy, IInv, ObjectTypes
  <2>4. QED
    BY <2>2, <2>3 DEF ObjectTypes
<1>8. Moves' /\ LivingHaveEvents' /\ BufferMade'
  BY <1>1, <1>2 DEF IInv, Moves, LivingHaveEvents, BufferMade
<1>9. Owned'
  <2>1. \A p \in Objects, q \in Objects :
          p # q /\ fd[p] # Invalid => fd[p] # fd[q]
    BY <1>1 DEF IInv, Owned
  <2>2. ASSUME NEW p \in Objects, fd'[p] # Invalid
        PROVE  p # o /\ fd'[p] = fd[p] /\ fd[p] \in open /\ fd[p] # fd[o]
    BY <1>2, <2>1, <2>2 DEF IInv, Owned
  <2>3. \A p \in Objects : fd'[p] # Invalid => fd'[p] \in open'
    BY <1>4, <2>2
  <2>4. \A p \in Objects, q \in Objects :
          p # q /\ fd'[p] # Invalid => fd'[p] # fd'[q]
    BY <1>2, <2>1, <2>2
  <2>5. open' \subseteq 1..made'
    BY <1>1, <1>4 DEF IInv, Owned
  <2>6. QED
    BY <2>3, <2>4, <2>5 DEF Owned
<1>10. CallTypes' /\ \A q \in Readers : CallOK(q)'
  <2>1. ASSUME NEW q \in Readers, pc[q] # "idle"
        PROVE  /\ on[q] \in Objects \ {o} /\ life'[on[q]] = "alive"
               /\ fd'[on[q]] = fd[on[q]] /\ buffer'[on[q]] = buffer[on[q]]
    BY <1>1, <1>2, <2>1, OnLiving
  <2>2. ASSUME NEW q \in Readers, pc[q] # "idle", fd[on[q]] # Invalid
        PROVE  queue'[fd[on[q]]] = queue[fd[on[q]]]
    <3>1. fd[on[q]] \in Sockets /\ fd[on[q]] # fd[o]
      BY <1>1, <2>1, <2>2, HandleFacts DEF IInv, ObjectTypes, Owned
    <3>2. QED
      BY <1>5, <3>1
  <2>3. ASSUME NEW q \in Readers, pc[q] = "receive"
        PROVE  queue'[fds[q].fd] = queue[fds[q].fd]
    <3>1. fds[q].fd \in Sockets /\ InUse(fds[q].fd)
      BY <2>3 DEF IInv, CallOK, CallState, InUse
    <3>2. QED
      BY <1>5, <3>1
  <2>4. QED
    BY <1>1, <2>1, <2>2, <2>3, CallsKept
<1>11. QED
  BY <1>6, <1>7, <1>8, <1>9, <1>10 DEF IInv

(* stopReads posts the event of a living object.                           *)
LEMMA StopInv ==
  ASSUME IInv, NEW o \in Objects, stopReads(o)
  PROVE  IInv'
<1>1. /\ posted' = posted \cup {ev[o]} /\ ev[o] \in Sockets
      /\ UNCHANGED <<made, open, queue, ids, objectVars, readVars>>
  BY DEF stopReads, IInv, LivingHaveEvents
<1>2. SocketTypes'
  BY <1>1 DEF IInv, SocketTypes
<1>3. /\ ObjectTypes' /\ Moves' /\ LivingHaveEvents' /\ Owned' /\ BufferMade'
  BY <1>1 DEF IInv, ObjectTypes, Moves, LivingHaveEvents, Owned, BufferMade,
              objectVars
<1>4. CallTypes' /\ \A q \in Readers : CallOK(q)'
  BY <1>1, OnLiving, CallsKept DEF objectVars
<1>5. QED
  BY <1>2, <1>3, <1>4 DEF IInv

(* A datagram arrives: a queue grows.                                      *)
LEMMA DeliverInv ==
  ASSUME IInv, NEW s \in Sockets, NEW size \in Sizes, Deliver(s, size)
  PROVE  IInv'
<1>1. /\ ids < MaxDatagrams /\ ids' = ids + 1
      /\ UNCHANGED <<made, open, posted, objectVars, readVars>>
  BY DEF Deliver
<1>2. PICK d \in Datagram : d = [id |-> ids', size |-> size]
  <2>1. ids' \in 1..MaxDatagrams
    BY <1>1, BoundsAssumption DEF IInv, SocketTypes
  <2>2. QED
    BY <2>1 DEF Datagram
<1>3. queue' = [queue EXCEPT ![s] = Append(queue[s], d)]
  BY <1>2 DEF Deliver
<1>4. /\ queue \in [Sockets -> Seq(Datagram)] /\ queue[s] \in Seq(Datagram)
      /\ Append(queue[s], d) \in Seq(Datagram) /\ Append(queue[s], d) # << >>
  <2>1. queue \in [Sockets -> Seq(Datagram)] /\ queue[s] \in Seq(Datagram)
    BY DEF IInv, SocketTypes
  <2>2. QED
    BY <2>1, AppendProperties
<1>5. /\ queue' \in [Sockets -> Seq(Datagram)]
      /\ \A q \in Sockets : queue[q] # << >> => queue'[q] # << >>
  BY <1>3, <1>4
<1>6. SocketTypes'
  <2>1. ids' \in 0..MaxDatagrams
    BY <1>1, BoundsAssumption DEF IInv, SocketTypes
  <2>2. QED
    BY <1>1, <1>5, <2>1 DEF IInv, SocketTypes
<1>7. /\ ObjectTypes' /\ Moves' /\ LivingHaveEvents' /\ Owned' /\ BufferMade'
  BY <1>1 DEF IInv, ObjectTypes, Moves, LivingHaveEvents, Owned, BufferMade,
              objectVars
<1>8. CallTypes' /\ \A q \in Readers : CallOK(q)'
  <2>1. /\ life' = life /\ fd' = fd /\ buffer' = buffer /\ UNCHANGED readVars
    BY <1>1 DEF objectVars
  <2>2. \A q \in Readers : pc[q] # "idle" /\ fd[on[q]] # Invalid =>
                             fd[on[q]] \in Sockets
    BY OnLiving, HandleFacts DEF IInv, ObjectTypes
  <2>3. \A q \in Readers : pc[q] = "receive" => fds[q].fd \in Sockets
    BY DEF IInv, CallOK, CallState
  <2>4. QED
    BY <1>5, <2>1, <2>2, <2>3, OnLiving, CallsKept
<1>9. QED
  BY <1>6, <1>7, <1>8 DEF IInv

-----------------------------------------------------------------------------
(* A reader's step on its own call, by which nothing else changes.         *)
LEMMA OwnCall ==
  ASSUME IInv, NEW r \in Readers, UNCHANGED <<socketVars, objectVars>>,
         CallTypes', CallOK(r)',
         \A q \in Readers \ {r} :
           /\ Same(q) /\ disturbed'[q] = disturbed[q]
           /\ overwritten'[q] = overwritten[q]
  PROVE  IInv'
<1>1. SocketTypes' /\ ObjectTypes'
  BY DEF IInv, SocketTypes, ObjectTypes, socketVars, objectVars
<1>2. Moves' /\ LivingHaveEvents' /\ Owned' /\ BufferMade'
  BY DEF IInv, Moves, LivingHaveEvents, Owned, BufferMade, socketVars,
         objectVars
<1>3. ASSUME NEW q \in Readers \ {r} PROVE CallOK(q)'
  <2>1. queue' = queue /\ life' = life /\ fd' = fd /\ buffer' = buffer
    BY DEF socketVars, objectVars
  <2>2. Spares(q)
    BY <2>1, OnLiving DEF Spares
  <2>3. QED
    BY <2>2, CallKept DEF IInv
<1>4. QED
  BY <1>1, <1>2, <1>3 DEF IInv

(* What Return does.                                                       *)
LEMMA ReturnGives ==
  ASSUME CallTypes, NEW r \in Readers, NEW type \in Outcome, Return(r, type)
  PROVE  /\ pc' \in [Readers -> Places]
         /\ on' \in [Readers -> Objects \cup {NoObject}]
         /\ timeout' \in [Readers -> Timeouts \cup {-1}]
         /\ fds' \in [Readers -> Fds]
         /\ got' \in [Readers -> Datagram \cup {NoDatagram}]
         /\ result' \in [Readers -> Outcome]
         /\ pc'[r] = "idle" /\ result'[r] = type
         /\ \A q \in Readers \ {r} : Same(q)
<1>1. PICK p \in Fds : p = NoFds
  BY HandleFacts DEF Fds, NoFds
<1>2. PICK n \in Datagram \cup {NoDatagram} : n = NoDatagram
  OBVIOUS
<1>3. /\ pc' = [pc EXCEPT ![r] = "idle"]
      /\ on' = [on EXCEPT ![r] = NoObject]
      /\ timeout' = [timeout EXCEPT ![r] = -1]
      /\ fds' = [fds EXCEPT ![r] = p]
      /\ got' = [got EXCEPT ![r] = n]
      /\ result' = [result EXCEPT ![r] = type]
  BY <1>1, <1>2 DEF Return, Goto
<1>4. /\ pc' \in [Readers -> Places] /\ "idle" \in Places
      /\ on' \in [Readers -> Objects \cup {NoObject}]
      /\ timeout' \in [Readers -> Timeouts \cup {-1}]
      /\ result' \in [Readers -> Outcome]
  BY <1>3 DEF CallTypes, Places
<1>5. fds' \in [Readers -> Fds] /\ fds'[r] = p
  BY <1>3 DEF CallTypes
<1>6. got' \in [Readers -> Datagram \cup {NoDatagram}] /\ got'[r] = n
  BY <1>3 DEF CallTypes
<1>7. /\ pc'[r] = "idle" /\ result'[r] = type
      /\ \A q \in Readers \ {r} : Same(q)
  BY <1>3 DEF CallTypes, Same
<1>8. QED
  BY <1>1, <1>2, <1>4, <1>5, <1>6, <1>7

(* A call ends, and nothing else happens.                                  *)
LEMMA ReturnInv ==
  ASSUME IInv, NEW r \in Readers, NEW type \in Outcome,
         Return(r, type), Calm(r), UNCHANGED <<socketVars, objectVars>>
  PROVE  IInv'
<1>1. /\ disturbed' \in [Readers -> BOOLEAN]
      /\ overwritten' \in [Readers -> BOOLEAN]
      /\ \A q \in Readers \ {r} : /\ disturbed'[q] = disturbed[q]
                                  /\ overwritten'[q] = overwritten[q]
  BY DEF Calm, IInv, CallTypes
<1>2. CallTypes' /\ pc'[r] = "idle" /\ \A q \in Readers \ {r} : Same(q)
  BY <1>1, ReturnGives DEF IInv, CallTypes
<1>3. CallOK(r)'
  BY <1>2 DEF CallOK, CallState, Undisturbed, Intact
<1>4. QED
  BY <1>1, <1>2, <1>3, OwnCall

(* poll has found something: on to recvmsg.                                *)
LEMMA ProceedInv ==
  ASSUME IInv, NEW r \in Readers, pc[r] = "poll", Goto(r, "recvmsg"),
         UNCHANGED <<result, callVars>>, UNCHANGED <<socketVars, objectVars>>,
         SameSocket(r) => StillThere(r)
  PROVE  IInv'
<1>1. /\ pc'[r] = "recvmsg" /\ \A q \in Readers \ {r} : pc'[q] = pc[q]
      /\ pc' \in [Readers -> Places]
  BY DEF Goto, IInv, CallTypes, Places
<1>2. CallTypes' /\ \A q \in Readers \ {r} : Same(q)
  BY <1>1 DEF IInv, CallTypes, Same, callVars
<1>3. UNCHANGED <<on, fds, got, disturbed, overwritten, result, life, fd,
                  queue, buffer>>
  BY DEF callVars, socketVars, objectVars
<1>4. CallState(r)'
  BY <1>1, <1>3, OnLiving DEF CallState
<1>5. ~disturbed[r] => SameSocket(r) /\ StillThere(r)
  BY DEF IInv, CallOK, Undisturbed
<1>6. CallOK(r)'
  BY <1>1, <1>3, <1>4, <1>5
     DEF CallOK, Undisturbed, SameSocket, StillThere, Intact
<1>7. QED
  BY <1>2, <1>3, <1>6, OwnCall

(* The pair of descriptors for one system call.                            *)
LEMMA FdsOfSocket ==
  ASSUME NEW f \in Handle, NEW e \in Handle
  PROVE  \E p \in Fds : p = [fd |-> f, ev |-> e] /\ p.fd = f
<1>1. [fd |-> f, ev |-> e] \in Fds /\ [fd |-> f, ev |-> e].fd = f
  BY DEF Fds
<1>2. QED
  BY <1>1, Zenon

(* read is called: it loads socket_fd.                                     *)
LEMMA CallReadInv ==
  ASSUME IInv, NEW r \in Readers, NEW o \in Objects, NEW ms \in Timeouts,
         CallRead(r, o, ms)
  PROVE  IInv'
<1>1. PICK p \in Fds : p = [fd |-> fd[o], ev |-> Invalid] /\ p.fd = fd[o]
  <2>1. fd[o] \in Handle /\ Invalid \in Handle
    BY HandleFacts DEF IInv, ObjectTypes
  <2>2. QED
    BY <2>1, FdsOfSocket
<1>2. /\ pc[r] = "idle" /\ life[o] = "alive"
      /\ pc' = [pc EXCEPT ![r] = "load"]
      /\ on' = [on EXCEPT ![r] = o]
      /\ timeout' = [timeout EXCEPT ![r] = ms]
      /\ fds' = [fds EXCEPT ![r] = p]
      /\ result' = [result EXCEPT ![r] = "none"]
      /\ UNCHANGED <<socketVars, objectVars, got, disturbed, overwritten>>
  BY <1>1 DEF CallRead, Goto
<1>3. CallTypes'
  BY <1>2 DEF IInv, CallTypes, Outcome, Places
<1>4. /\ pc'[r] = "load" /\ on'[r] = o /\ fds'[r] = p /\ result'[r] = "none"
      /\ \A q \in Readers \ {r} : Same(q)
  BY <1>2 DEF IInv, CallTypes, Same
<1>5. life' = life /\ fd' = fd
  BY <1>2 DEF objectVars
<1>6. CallOK(r)'
  BY <1>1, <1>2, <1>4, <1>5
     DEF CallOK, CallState, Undisturbed, SameSocket, Intact
<1>7. QED
  BY <1>2, <1>3, <1>4, <1>6, OwnCall

(* The event is loaded; recvmsg gets the socket the object has then.       *)
LEMMA LoadInv ==
  ASSUME IInv, NEW r \in Readers, LoadEvent(r) \/ EnterRecvmsg(r)
  PROVE  IInv'
<1>1. /\ pc[r] # "idle" /\ on[r] \in Objects /\ life[on[r]] = "alive"
      /\ result[r] = "none" /\ fds[r] \in Fds
  BY OnLiving DEF LoadEvent, EnterRecvmsg, IInv, CallTypes
<1>2. fd[on[r]] \in Handle /\ ev[on[r]] \in Handle
  BY <1>1 DEF IInv, ObjectTypes
<1>3. UNCHANGED <<socketVars, objectVars, on, timeout, got, result, disturbed,
                  overwritten>>
  BY DEF LoadEvent, EnterRecvmsg
<1>4. life' = life /\ fd' = fd /\ queue' = queue
  BY <1>3 DEF objectVars, socketVars
<1>5. ASSUME NEW place \in Places, NEW p \in Fds,
             Goto(r, place), fds' = [fds EXCEPT ![r] = p]
      PROVE  /\ CallTypes' /\ pc'[r] = place /\ fds'[r] = p
             /\ \A q \in Readers \ {r} : Same(q)
  <2>1. pc' = [pc EXCEPT ![r] = place]
    BY <1>5 DEF Goto
  <2>2. QED
    BY <1>3, <1>5, <2>1 DEF IInv, CallTypes, Same
<1>6. CASE LoadEvent(r)
  <2>1. PICK p \in Fds : p = [fds[r] EXCEPT !.ev = ev[on[r]]]
                         /\ p.fd = fds[r].fd
    <3>1. [fds[r] EXCEPT !.ev = ev[on[r]]] \in Fds
      BY <1>1, <1>2 DEF Fds
    <3>2. [fds[r] EXCEPT !.ev = ev[on[r]]].fd = fds[r].fd
      BY <1>1 DEF Fds
    <3>3. QED
      BY <3>1, <3>2, Zenon
  <2>2. /\ pc[r] = "load" /\ Goto(r, "poll") /\ "poll" \in Places
        /\ fds' = [fds EXCEPT ![r] = p]
    BY <1>6, <2>1 DEF LoadEvent, Places
  <2>3. /\ CallTypes' /\ pc'[r] = "poll" /\ fds'[r] = p
        /\ \A q \in Readers \ {r} : Same(q)
    BY <1>5, <2>2
  <2>4. ~disturbed[r] => SameSocket(r)
    BY <2>2 DEF IInv, CallOK, Undisturbed
  <2>5. CallOK(r)'
    BY <1>1, <1>3, <1>4, <2>1, <2>3, <2>4
       DEF CallOK, CallState, Undisturbed, SameSocket, Intact
  <2>6. QED
    BY <1>3, <2>3, <2>5, OwnCall
<1>7. CASE EnterRecvmsg(r)
  <2>1. PICK p \in Fds : p = [fd |-> fd[on[r]], ev |-> Invalid]
                         /\ p.fd = fd[on[r]]
    <3>1. Invalid \in Handle
      BY HandleFacts
    <3>2. QED
      BY <1>2, <3>1, FdsOfSocket
  <2>2. /\ pc[r] = "recvmsg" /\ Goto(r, "receive") /\ "receive" \in Places
        /\ fds' = [fds EXCEPT ![r] = p] /\ fd[on[r]] \in open
    BY <1>7, <2>1 DEF EnterRecvmsg, Places
  <2>3. /\ CallTypes' /\ pc'[r] = "receive" /\ fds'[r] = p
        /\ \A q \in Readers \ {r} : Same(q)
    BY <1>5, <2>2
  <2>4. fd[on[r]] \in Sockets /\ fd[on[r]] # Invalid
    BY <2>2, HandleFacts DEF IInv, SocketTypes
  <2>5. ~disturbed[r] => queue[fd[on[r]]] # << >>
    BY <2>2, <2>4 DEF IInv, CallOK, Undisturbed, StillThere
  <2>6. CallOK(r)'
    BY <1>1, <1>3, <1>4, <2>1, <2>3, <2>4, <2>5
       DEF CallOK, CallState, Undisturbed, Intact
  <2>7. QED
    BY <1>3, <2>3, <2>6, OwnCall
<1>8. QED
  BY <1>6, <1>7

(* The steps of read up to recvmsg, and those that end it.  A socket that  *)
(* poll finds closed is no longer the object's.                            *)
LEMMA PollInv ==
  ASSUME IInv, NEW r \in Readers,
         \/ PollReady(r) \/ PollClosed(r) \/ PollTimeout(r)
         \/ PollInterrupted(r) \/ RecvmsgFails(r) \/ RecvmsgInterrupted(r)
         \/ Copy(r)
  PROVE  IInv'
<1>1. {"data", "SOCKET_POLL", "SOCKET_READ", "SOCKET_READ_TIMEOUT",
       "SOCKET_TERMINATION_REQUEST"} \subseteq Outcome
  BY DEF Outcome
<1>2. ASSUME NEW type \in Outcome, Return(r, type), Calm(r),
             UNCHANGED <<socketVars, objectVars>>
      PROVE  IInv'
  BY <1>2, ReturnInv
<1>3. CASE PollReady(r)
  <2>1. CASE /\ pc[r] = "poll" /\ HasData(r) /\ Goto(r, "recvmsg")
             /\ UNCHANGED <<result, callVars>>
             /\ UNCHANGED <<socketVars, objectVars>>
    <3>1. SameSocket(r) => StillThere(r)
      BY <2>1 DEF HasData, SameSocket, StillThere
    <3>2. QED
      BY <2>1, <3>1, ProceedInv
  <2>2. QED
    BY <1>1, <1>2, <1>3, <2>1 DEF PollReady
<1>4. CASE PollClosed(r)
  <2>1. CASE /\ pc[r] = "poll" /\ fds[r].fd \notin open \cup {Invalid}
             /\ Goto(r, "recvmsg") /\ UNCHANGED <<result, callVars>>
             /\ UNCHANGED <<socketVars, objectVars>>
    <3>1. fd[on[r]] # Invalid => fd[on[r]] \in open
      BY <2>1, OnLiving DEF IInv, Owned
    <3>2. SameSocket(r) => StillThere(r)
      BY <2>1, <3>1 DEF SameSocket, StillThere
    <3>3. QED
      BY <2>1, <3>2, ProceedInv
  <2>2. QED
    BY <1>1, <1>2, <1>4, <2>1 DEF PollClosed
<1>5. CASE PollTimeout(r) \/ PollInterrupted(r)
  <2>1. PICK type \in Outcome : /\ Return(r, type) /\ Calm(r)
                                /\ UNCHANGED <<socketVars, objectVars>>
    BY <1>1, <1>5 DEF PollTimeout, PollInterrupted, PollNothing
  <2>2. QED
    BY <1>2, <2>1
<1>6. CASE RecvmsgFails(r) \/ RecvmsgInterrupted(r) \/ Copy(r)
  BY <1>1, <1>2, <1>6 DEF RecvmsgFails, RecvmsgInterrupted, Copy
<1>7. QED
  BY <1>3, <1>4, <1>5, <1>6

(* recvmsg takes a datagram: the calls it gets in the way of are marked.   *)
LEMMA RecvmsgInv ==
  ASSUME IInv, NEW r \in Readers, Recvmsg(r)
  PROVE  IInv'
<1>1. PICK o \in Objects : o = on[r] /\ life[o] = "alive"
  BY OnLiving DEF Recvmsg
<1>2. PICK f \in Sockets : f = fds[r].fd
  BY DEF Recvmsg, IInv, CallOK, CallState
<1>3. /\ pc[r] = "receive" /\ queue[f] # << >> /\ queue[f] \in Seq(Datagram)
      /\ queue \in [Sockets -> Seq(Datagram)]
  BY <1>1, <1>2 DEF Recvmsg, IInv, SocketTypes
<1>4. /\ Head(queue[f]) \in Datagram /\ Tail(queue[f]) \in Seq(Datagram)
  BY <1>3, HeadTailProperties
<1>5. PICK d \in Datagram : d = Head(queue[f])
  BY <1>4
<1>6. PICK b \in Seq(0..MaxDatagrams) : b = buffer[o]
  BY DEF IInv, ObjectTypes
<1>7. d.id \in 1..MaxDatagrams /\ d.size \in Nat
  BY SizesAssumption DEF Datagram
<1>8. PICK nb \in Seq(0..MaxDatagrams) :
        /\ nb = [k \in DOMAIN b |-> IF k <= d.size THEN d.id ELSE b[k]]
        /\ Len(nb) = Len(b)
        /\ \A k \in 1..Len(b) : k <= d.size => nb[k] = d.id
  <2> DEFINE w == [k \in 1..Len(b) |-> IF k <= d.size THEN d.id ELSE b[k]]
  <2>1. Len(b) \in Nat /\ DOMAIN b = 1..Len(b)
        /\ \A k \in 1..Len(b) : b[k] \in 0..MaxDatagrams
    BY LenProperties, ElementOfSeq
  <2>2. \A k \in 1..Len(b) :
          (IF k <= d.size THEN d.id ELSE b[k]) \in 0..MaxDatagrams
    BY <1>7, <2>1, BoundsAssumption
  <2>3. w \in [1..Len(b) -> 0..MaxDatagrams]
    BY <2>2
  <2>4. w \in Seq(0..MaxDatagrams) /\ Len(w) = Len(b)
    BY <2>1, <2>3
  <2>5. \A k \in 1..Len(b) : k <= d.size => w[k] = d.id
    OBVIOUS
  <2>6. w = [k \in DOMAIN b |-> IF k <= d.size THEN d.id ELSE b[k]]
    BY <2>1
  <2>7. QED
    BY <2>4, <2>5, <2>6
<1>9. /\ queue' = [queue EXCEPT ![f] = Tail(queue[f])]
      /\ buffer' = [buffer EXCEPT ![o] = nb]
      /\ UNCHANGED <<made, open, posted, ids, life, fd, ev, version, moving>>
  BY <1>1, <1>2, <1>5, <1>6, <1>8 DEF Recvmsg
<1>10. /\ disturbed' \in [Readers -> BOOLEAN]
       /\ overwritten' \in [Readers -> BOOLEAN]
       /\ \A q \in Readers \ {r} :
            /\ disturbed[q] \/ q \in Rivals(r) => disturbed'[q]
            /\ overwritten[q] => overwritten'[q]
            /\ pc[q] = "copy" /\ on[q] = o => overwritten'[q]
  BY <1>1 DEF Recvmsg, IInv, CallTypes
<1>11. \/ Truncated(o, d) /\ Return(r, "SOCKET_RECEIVE_BUFFER_TOO_SMALL")
       \/ /\ ~Truncated(o, d) /\ pc' = [pc EXCEPT ![r] = "copy"]
          /\ got' = [got EXCEPT ![r] = d]
          /\ fds' = [fds EXCEPT ![r] = NoFds]
          /\ UNCHANGED <<on, timeout, result>>
  BY <1>1, <1>2, <1>5 DEF Recvmsg, Goto
<1>12. /\ queue' \in [Sockets -> Seq(Datagram)]
       /\ \A s \in Sockets \ {f} : queue'[s] = queue[s]
  BY <1>3, <1>4, <1>9
<1>13. /\ buffer' \in [Objects -> Seq(0..MaxDatagrams)] /\ buffer'[o] = nb
       /\ \A p \in Objects \ {o} : buffer'[p] = buffer[p]
  BY <1>9 DEF IInv, ObjectTypes
<1>14. SocketTypes' /\ ObjectTypes'
  BY <1>9, <1>12, <1>13 DEF IInv, SocketTypes, ObjectTypes
<1>15. Moves' /\ LivingHaveEvents' /\ Owned'
  BY <1>9 DEF IInv, Moves, LivingHaveEvents, Owned
<1>16. BufferMade'
  <2>1. \A p \in Objects : Len(buffer'[p]) = Len(buffer[p])
    BY <1>6, <1>8, <1>13
  <2>2. QED
    BY <1>9, <2>1 DEF IInv, BufferMade
<1>17. /\ CallTypes' /\ \A q \in Readers \ {r} : Same(q)
       /\ CallOK(r)'
  <2>1. CASE Return(r, "SOCKET_RECEIVE_BUFFER_TOO_SMALL")
    <3>1. "SOCKET_RECEIVE_BUFFER_TOO_SMALL" \in Outcome
      BY DEF Outcome
    <3>2. CallTypes' /\ pc'[r] = "idle" /\ \A q \in Readers \ {r} : Same(q)
      BY <1>10, <2>1, <3>1, ReturnGives DEF IInv, CallTypes
    <3>3. QED
      BY <3>2 DEF CallOK, CallState, Undisturbed, Intact
  <2>2. CASE /\ ~Truncated(o, d) /\ pc' = [pc EXCEPT ![r] = "copy"]
             /\ got' = [got EXCEPT ![r] = d]
             /\ fds' = [fds EXCEPT ![r] = NoFds]
             /\ UNCHANGED <<on, timeout, result>>
    <3>1. /\ CallTypes' /\ pc'[r] = "copy" /\ got'[r] = d
          /\ \A q \in Readers \ {r} : Same(q)
      <4>1. PICK p \in Fds : p = NoFds
        BY HandleFacts DEF Fds, NoFds
      <4>2. fds' = [fds EXCEPT ![r] = p] /\ "copy" \in Places
        BY <2>2, <4>1 DEF Places
      <4>3. QED
        BY <1>10, <2>2, <4>2 DEF IInv, CallTypes, Same
    <3>2. CallState(r)'
      BY <1>3, <1>9, <2>2, <3>1, OnLiving DEF CallState
    <3>3. Len(b) \in Nat /\ d.size <= Len(b)
      BY <1>6, <1>7, <2>2, LenProperties DEF Truncated
    <3>4. \A k \in 1..d.size : nb[k] = d.id
      BY <1>7, <1>8, <3>3
    <3>5. buffer'[on'[r]] = nb
      BY <1>1, <1>13, <2>2
    <3>6. InBuffer(r)'
      BY <1>8, <3>1, <3>3, <3>4, <3>5 DEF InBuffer
    <3>7. QED
      BY <3>1, <3>2, <3>6 DEF CallOK, Undisturbed, Intact
  <2>3. QED
    BY <1>11, <2>1, <2>2
<1>18. ASSUME NEW q \in Readers \ {r} PROVE CallOK(q)'
  <2>1. CallState(q) /\ Undisturbed(q) /\ Same(q)
    BY <1>17 DEF IInv, CallOK
  <2>2. ASSUME ~disturbed'[q]
        PROVE  /\ ~disturbed[q]
               /\ pc[q] \in {"recvmsg", "receive"} => fds[q].fd # f
    BY <1>2, <1>10, <2>2 DEF Rivals
  <2>3. ASSUME ~disturbed'[q], pc[q] = "recvmsg", fd[on[q]] # Invalid
        PROVE  queue'[fd[on[q]]] = queue[fd[on[q]]]
    <3>1. fd[on[q]] = fds[q].fd
      BY <2>1, <2>2, <2>3 DEF Undisturbed, SameSocket
    <3>2. fd[on[q]] \in Sockets
      BY <2>3, OnLiving, HandleFacts DEF IInv, ObjectTypes
    <3>3. QED
      BY <1>12, <2>2, <2>3, <3>1, <3>2
  <2>4. ASSUME ~disturbed'[q], pc[q] = "receive"
        PROVE  queue'[fds[q].fd] = queue[fds[q].fd]
    BY <1>12, <2>1, <2>2, <2>4 DEF CallState
  <2>5. ASSUME ~overwritten'[q], pc[q] = "copy"
        PROVE  buffer'[on[q]] = buffer[on[q]]
    BY <1>10, <1>13, <2>5, OnLiving
  <2>6. fd' = fd /\ (pc[q] # "idle" => life'[on[q]] = "alive")
    BY <1>9, OnLiving
  <2>7. Spares(q)
    BY <1>10, <2>1, <2>3, <2>4, <2>5, <2>6 DEF Spares
  <2>8. QED
    BY <2>7, CallKept DEF IInv
<1>19. QED
  BY <1>14, <1>15, <1>16, <1>17, <1>18 DEF IInv

-----------------------------------------------------------------------------
(* The invariant is inductive.                                             *)
LEMMA StepInv == IInv /\ [Next]_vars => IInv'
<1> SUFFICES ASSUME IInv, [Next]_vars PROVE IInv'
  OBVIOUS
<1>1. CASE UNCHANGED vars
  <2>1. /\ UNCHANGED <<socketVars, objectVars>> /\ UNCHANGED readVars
    BY <1>1 DEF vars
  <2>2. SocketTypes' /\ ObjectTypes' /\ Moves' /\ LivingHaveEvents'
    BY <2>1 DEF IInv, SocketTypes, ObjectTypes, Moves, LivingHaveEvents,
                socketVars, objectVars
  <2>3. Owned' /\ BufferMade'
    BY <2>1 DEF IInv, Owned, BufferMade, socketVars, objectVars
  <2>4. CallTypes' /\ \A q \in Readers : CallOK(q)'
    BY <2>1, OnLiving, CallsKept DEF socketVars, objectVars
  <2>5. QED
    BY <2>2, <2>3, <2>4 DEF IInv
<1>2. CASE Owner
  <2>1. CASE ConstructThrows \/ MoveClear \/ MoveEvent
    BY <2>1, ConstructThrowsInv, MoveClearInv, MoveEventInv
  <2>2. ASSUME NEW o \in Objects,
               \/ \E v \in Versions : Construct(o, v)
               \/ \E src \in Objects : MoveConstruct(o, src) \/ MoveAssign(o, src)
               \/ Destroy(o) \/ stopReads(o)
               \/ \E s \in Sockets, size \in Sizes : write(o, s, size)
        PROVE  IInv'
    <3>1. CASE \E s \in Sockets, size \in Sizes : write(o, s, size)
      BY <3>1, DeliverInv DEF write
    <3>2. QED
      BY <2>2, <3>1, ConstructInv, MoveConstructInv, MoveAssignInv, DestroyInv,
         StopInv
  <2>3. QED
    BY <1>2, <2>1, <2>2 DEF Owner
<1>3. CASE \E s \in Sockets, size \in Sizes : Deliver(s, size)
  BY <1>3, DeliverInv
<1>4. ASSUME NEW r \in Readers,
             \/ \E o \in Objects, ms \in Timeouts : CallRead(r, o, ms)
             \/ Step(r) \/ PollInterrupted(r) \/ RecvmsgInterrupted(r)
      PROVE  IInv'
  <2>1. CASE Step(r) \/ PollInterrupted(r) \/ RecvmsgInterrupted(r)
    BY <2>1, LoadInv, PollInv, RecvmsgInv DEF Step
  <2>2. QED
    BY <1>4, <2>1, CallReadInv
<1>5. QED
  BY <1>1, <1>2, <1>3, <1>4 DEF Next

LEMMA Inductive == Spec => []IInv
BY InitInv, StepInv, PTL DEF Spec

(* Every variable keeps its type.                                          *)
THEOREM TypeCorrect == Spec => []TypeOK
<1>1. IInv => TypeOK
  BY DEF IInv, SocketTypes, ObjectTypes, CallTypes, TypeOK, Places, Fds
<1>2. QED
  BY <1>1, Inductive, PTL

(* Between moves no socket has two owners, and none that was closed has    *)
(* one: ~UdpDatagram never closes the descriptor of another object.        *)
THEOREM SocketsHaveOneOwner ==
  Spec => [](moving = << >> =>
               \A o \in Objects, p \in Objects :
                 fd[o] # Invalid =>
                   fd[o] \in open /\ (o # p => fd[o] # fd[p]))
<1>1. IInv => (moving = << >> =>
                 \A o \in Objects, p \in Objects :
                   fd[o] # Invalid =>
                     fd[o] \in open /\ (o # p => fd[o] # fd[p]))
  BY DEF IInv, Owned
<1>2. QED
  BY <1>1, Inductive, PTL

(* read returns the bytes of the one datagram its recvmsg has taken,       *)
(* unless another thread's recvmsg into the same object came between       *)
(* recvmsg and the copy; no move or assignment gets in the way.            *)
THEOREM ReadsReturnOneDatagram == Spec => []ResultIsOneDatagram
<1>1. IInv => ResultIsOneDatagram
  <2> SUFFICES ASSUME IInv, NEW r \in Readers, pc[r] = "copy", ~overwritten[r]
               PROVE  Copied(r) = [k \in 1..got[r].size |-> got[r].id]
    BY DEF ResultIsOneDatagram
  <2>1. InBuffer(r) /\ on[r] \in Objects
    BY OnLiving DEF IInv, CallOK, Intact
  <2>2. PICK b \in Seq(0..MaxDatagrams) : b = buffer[on[r]]
    BY <2>1 DEF IInv, ObjectTypes
  <2>3. PICK n \in Nat : n = got[r].size
    BY <2>1, SizesAssumption DEF InBuffer, Datagram
  <2>4. /\ Len(b) \in Nat /\ n <= Len(b)
        /\ \A k \in 1..n : b[k] = got[r].id
        /\ \A k \in 1..Len(b) : b[k] \in 0..MaxDatagrams
    BY <2>1, <2>2, <2>3, LenProperties, ElementOfSeq DEF InBuffer
  <2>5. Copied(r) = SubSeq(b, 1, n)
    <3>1. (IF n < Len(b) THEN n ELSE Len(b)) = n
      BY <2>4
    <3>2. Copied(r) = SubSeq(b, 1, IF n < Len(b) THEN n ELSE Len(b))
      BY <2>2, <2>3 DEF Copied
    <3>3. QED
      BY <3>1, <3>2
  <2>6. SubSeq(b, 1, n) = [k \in 1..n |-> b[k]]
    BY <2>4
  <2>7. [k \in 1..n |-> b[k]] = [k \in 1..n |-> got[r].id]
    BY <2>4
  <2>8. QED
    BY <2>3, <2>5, <2>6, <2>7
<1>2. QED
  BY <1>1, Inductive, PTL

(* A thread is caught in recvmsg only because another thread has received  *)
(* from the socket since its poll returned, or because its object was      *)
(* assigned to between its two loads of the descriptor.                    *)
THEOREM OnlyRivalsCatch == Spec => []CaughtNeedsRival
<1>1. IInv => CaughtNeedsRival
  BY DEF IInv, CallOK, Undisturbed, CaughtNeedsRival, Caught
<1>2. QED
  BY <1>1, Inductive, PTL

(* Which steps change the outcome of r: its own.                           *)
LEMMA OutcomeOfOwnStep ==
  ASSUME IInv, Next, NEW r \in Readers, pc[r] # "idle", result'[r] # "none"
  PROVE  Step(r) \/ PollInterrupted(r) \/ RecvmsgInterrupted(r)
<1>1. result[r] = "none"
  BY OnLiving
<1>2. ~Owner
  BY <1>1 DEF Owner, ConstructThrows, MoveClear, MoveEvent, Construct,
              MoveConstruct, MoveAssign, Destroy, stopReads, write, Deliver,
              readVars
<1>3. ~ \E s \in Sockets, size \in Sizes : Deliver(s, size)
  BY <1>1 DEF Deliver, readVars
<1>4. ASSUME NEW q \in Readers \ {r},
             \/ \E o \in Objects, ms \in Timeouts : CallRead(q, o, ms)
             \/ Step(q) \/ PollInterrupted(q) \/ RecvmsgInterrupted(q)
      PROVE  result'[r] = result[r]
  <2>1. result \in [Readers -> Outcome]
    BY DEF IInv, CallTypes
  <2>2. \/ result' = result
        \/ \E type : result' = [result EXCEPT ![q] = type]
    BY <1>4 DEF CallRead, Step, LoadEvent, PollReady, PollClosed, PollTimeout,
                PollInterrupted, PollNothing, RecvmsgFails, EnterRecvmsg,
                Recvmsg, RecvmsgInterrupted, Copy, Return
  <2>3. QED
    BY <2>1, <2>2
<1>5. ~ \E o \in Objects, ms \in Timeouts : CallRead(r, o, ms)
  BY DEF CallRead
<1>6. QED
  BY <1>1, <1>2, <1>3, <1>4, <1>5 DEF Next

(* A datagram is thrown away as too large only if it exceeds buffer_size,  *)
(* or the object was made by the move constructor.                         *)
THEOREM OnlyMovesTruncate == Spec => TruncationNeedsMove
<1> DEFINE Fits(r) ==
      /\ pc[r] = "receive"
      /\ result'[r] = "SOCKET_RECEIVE_BUFFER_TOO_SMALL"
      => \/ Head(queue[fds[r].fd]).size > BufferSize
         \/ version[on[r]] = "any"
<1>1. ASSUME IInv, [Next]_vars, NEW r \in Readers PROVE Fits(r)
  <2> SUFFICES ASSUME pc[r] = "receive",
                      result'[r] = "SOCKET_RECEIVE_BUFFER_TOO_SMALL",
                      version[on[r]] # "any"
               PROVE  Head(queue[fds[r].fd]).size > BufferSize
    OBVIOUS
  <2>1. result[r] = "none" /\ on[r] \in Objects
    BY <1>1, OnLiving
  <2>2. Next
    BY <1>1, <2>1 DEF vars, readVars
  <2>3. Step(r) \/ PollInterrupted(r) \/ RecvmsgInterrupted(r)
    BY <1>1, <2>2, OutcomeOfOwnStep
  <2>4. Recvmsg(r) \/ RecvmsgInterrupted(r)
    BY <2>3 DEF Step, LoadEvent, PollReady, PollClosed, PollTimeout,
                PollInterrupted, PollNothing, RecvmsgFails, EnterRecvmsg, Copy
  <2>5. result \in [Readers -> Outcome]
    BY <1>1 DEF IInv, CallTypes
  <2>6. ~RecvmsgInterrupted(r)
    BY <2>5 DEF RecvmsgInterrupted, Return
  <2>7. Truncated(on[r], Head(queue[fds[r].fd]))
    BY <2>1, <2>4, <2>6 DEF Recvmsg
  <2>8. Len(buffer[on[r]]) = BufferSize
    BY <1>1, <2>1 DEF IInv, BufferMade
  <2>9. QED
    BY <2>7, <2>8 DEF Truncated
<1>2. IInv /\ [Next]_vars => [\A r \in Readers : Fits(r)]_vars
  BY <1>1
<1>3. QED
  BY <1>2, Inductive, PTL DEF Spec, TruncationNeedsMove

(* SOCKET_POLL is reported only if poll has failed, except to a call whose *)
(* timeout is 0, 1 or 2 milliseconds.                                      *)
THEOREM PollErrorsAreDue == Spec => NoFalsePollError
<1> DEFINE Due(r) ==
      /\ pc[r] = "poll" /\ result'[r] = "SOCKET_POLL"
      /\ timeout[r] \notin 0..2
      => Ready(r) = 0 /\ timeout[r] = -1
<1>1. ASSUME IInv, [Next]_vars, NEW r \in Readers PROVE Due(r)
  <2> SUFFICES ASSUME pc[r] = "poll", result'[r] = "SOCKET_POLL",
                      timeout[r] \notin 0..2
               PROVE  Ready(r) = 0 /\ timeout[r] = -1
    OBVIOUS
  <2>1. result[r] = "none" /\ result \in [Readers -> Outcome]
    BY <1>1, OnLiving DEF IInv, CallTypes
  <2>2. Next
    BY <1>1, <2>1 DEF vars, readVars
  <2>3. Step(r) \/ PollInterrupted(r) \/ RecvmsgInterrupted(r)
    BY <1>1, <2>2, OutcomeOfOwnStep
  <2>4. \/ PollReady(r) \/ PollClosed(r) \/ PollTimeout(r)
        \/ PollInterrupted(r)
    BY <2>3 DEF Step, LoadEvent, RecvmsgFails, EnterRecvmsg, Recvmsg,
                RecvmsgInterrupted, Copy
  <2>5. \A b : Count(b) \in 0..1
    BY DEF Count
  <2>6. Ready(r) \in 0..2 /\ 1 + Count(HasStop(r)) \in 0..2
    BY <2>5 DEF Ready
  <2>7. ~IsPollError(r, Ready(r)) /\ ~IsPollError(r, 1 + Count(HasStop(r)))
    BY <2>6 DEF IsPollError
  <2>8. ~PollReady(r)
    <3>1. \A type : Return(r, type) => result'[r] = type
      BY <2>1 DEF Return
    <3>2. QED
      BY <2>1, <2>7, <3>1 DEF PollReady
  <2>9. ~PollClosed(r)
    BY <2>1, <2>7 DEF PollClosed
  <2>10. ASSUME NEW n \in {0, -1}, PollNothing(r, n)
         PROVE  Ready(r) = 0 /\ timeout[r] = n
    <3>1. \A type : Return(r, type) => result'[r] = type
      BY <2>1 DEF Return
    <3>2. QED
      BY <2>10, <3>1 DEF PollNothing, IsPollError
  <2>11. QED
    BY <2>4, <2>8, <2>9, <2>10 DEF PollTimeout, PollInterrupted
<1>2. IInv /\ [Next]_vars => [\A r \in Readers : Due(r)]_vars
  BY <1>1
<1>3. QED
  BY <1>2, Inductive, PTL DEF Spec, NoFalsePollError
=============================================================================
