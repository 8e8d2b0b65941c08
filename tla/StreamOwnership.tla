--------------------------- MODULE StreamOwnership ---------------------------
(***************************************************************************)
(* Who owns which descriptor: the creation of Streams by StreamFactory,    *)
(* the move constructor, the move assignment and the destructor of Stream, *)
(* by several threads that also read from and write to the Streams.  What  *)
(* reads and writes transfer, and what a posted stop event does to a       *)
(* reader, is the subject of StreamRead and StreamWrite; here they are     *)
(* holders of the two mutexes, and events are told apart, not posted.      *)
(***************************************************************************)
EXTENDS Integers, Sequences

CONSTANTS
  Objects,   \* the places a Stream object may live in
  NoObject,
  Threads,
  MaxFd      \* the size of the process's descriptor table

ASSUME NoObjectAssumption == NoObject \notin Objects
ASSUME MaxFdAssumption == MaxFd \in Nat

VARIABLES
  table,      \* the kernel's descriptor table
  life,       \* of each object: "raw" storage, "building" or "alive"
  fd,         \* stream_file_descriptor; the descriptor StreamFactory has made
              \* for an object being built
  ev,         \* stop_all_operations_event_fd
  holder,     \* of each mutex: {} or {t}
  pc, op,     \* where a thread is, and in which operation
  this, other,  \* the objects of the operation
  want,       \* mutexes the operation has still to lock, in order
  abandoned,  \* history: sockets given up without being closed
  raced,      \* history: an object was assigned to while another thread was
              \* in the middle of moving from it
  terminated  \* std::terminate was called

objectVars == <<life, fd, ev>>
callVars == <<pc, op, this, other, want>>
vars == <<table, objectVars, holder, callVars, abandoned, raced, terminated>>

Fd == 1..MaxFd
Invalid == -1   \* kInvalidSocketFdMarker
Mutexes == {"read", "write"} \X Objects
Operations == {"none", "use", "construct", "assign", "connect", "pipe"}

TypeOK ==
  /\ table \in [Fd -> {"free", "socket", "event"}]
  /\ life \in [Objects -> {"raw", "building", "alive"}]
  /\ fd \in [Objects -> Fd \cup {Invalid}]
  /\ ev \in [Objects -> Fd \cup {Invalid}]
  /\ holder \in [Mutexes -> SUBSET Threads]
  /\ pc \in [Threads -> {"idle", "lock", "use", "invalidate", "event",
                         "connect", "eventfd", "eventfd2"}]
  /\ op \in [Threads -> Operations]
  /\ this \in [Threads -> Objects \cup {NoObject}]
  /\ other \in [Threads -> Objects \cup {NoObject}]
  /\ want \in [Threads -> Seq(Mutexes)]
  /\ abandoned \subseteq Fd
  /\ raced \in BOOLEAN
  /\ terminated \in BOOLEAN

Init ==
  /\ table = [d \in Fd |-> "free"]
  /\ life = [o \in Objects |-> "raw"]
  /\ fd = [o \in Objects |-> Invalid]
  /\ ev = [o \in Objects |-> Invalid]
  /\ holder = [m \in Mutexes |-> {}]
  /\ pc = [t \in Threads |-> "idle"]
  /\ op = [t \in Threads |-> "none"]
  /\ this = [t \in Threads |-> NoObject]
  /\ other = [t \in Threads |-> NoObject]
  /\ want = [t \in Threads |-> << >>]
  /\ abandoned = {}
  /\ raced = FALSE
  /\ terminated = FALSE

-----------------------------------------------------------------------------
Goto(t, place) == pc' = [pc EXCEPT ![t] = place]

Begin(t, place, operation, o, p, mutexes) ==
  /\ ~terminated /\ pc[t] = "idle"
  /\ Goto(t, place)
  /\ op' = [op EXCEPT ![t] = operation]
  /\ this' = [this EXCEPT ![t] = o]
  /\ other' = [other EXCEPT ![t] = p]
  /\ want' = [want EXCEPT ![t] = mutexes]

End(t) ==
  /\ Goto(t, "idle")
  /\ op' = [op EXCEPT ![t] = "none"]
  /\ this' = [this EXCEPT ![t] = NoObject]
  /\ other' = [other EXCEPT ![t] = NoObject]
  /\ UNCHANGED want

Stay(t, place) == Goto(t, place) /\ UNCHANGED <<op, this, other, want>>

(* The guards of a scope are destroyed: all mutexes t holds are unlocked.  *)
Unlock(t) == holder' = [m \in Mutexes |-> holder[m] \ {t}]

(* A new descriptor is the lowest free one; there may be none.             *)
Free == {d \in Fd : table[d] = "free"}
Lowest(d, F) == d \in F /\ \A e \in F : d <= e

-----------------------------------------------------------------------------
(* StreamFactory.                                                          *)

(* CreateTcpStreamToServer: socket.                                        *)
CreateTcpStreamToServer(t, o) ==
  /\ life[o] = "raw"
  /\ Begin(t, "connect", "connect", o, NoObject, << >>)
  /\ \E d \in Fd :
       /\ Lowest(d, Free)
       /\ table' = [table EXCEPT ![d] = "socket"]
       /\ fd' = [fd EXCEPT ![o] = d]
  /\ life' = [life EXCEPT ![o] = "building"]
  /\ UNCHANGED <<ev, holder, abandoned, raced, terminated>>

Connect(t) ==
  /\ pc[t] = "connect"
  /\ Stay(t, "eventfd")
  /\ UNCHANGED <<table, objectVars, holder, abandoned, raced, terminated>>

(* The objects are not built after all, and their sockets are not closed.  *)
Abandon(os) ==
  /\ abandoned' = abandoned \cup {fd[o] : o \in os}
  /\ fd' = [o \in Objects |-> IF o \in os THEN Invalid ELSE fd[o]]
  /\ life' = [o \in Objects |-> IF o \in os THEN "raw" ELSE life[o]]

ConnectFails(t) ==
  /\ pc[t] = "connect"
  /\ Abandon({this[t]})
  /\ End(t)
  /\ UNCHANGED <<table, ev, holder, raced, terminated>>

(* CreatePipe: socketpair.                                                 *)
CreatePipe(t, o, p) ==
  /\ o # p /\ life[o] = "raw" /\ life[p] = "raw"
  /\ Begin(t, "eventfd", "pipe", o, p, << >>)
  /\ \E d \in Fd, e \in Fd :
       /\ Lowest(d, Free) /\ Lowest(e, Free \ {d})
       /\ table' = [table EXCEPT ![d] = "socket", ![e] = "socket"]
       /\ fd' = [fd EXCEPT ![o] = d, ![p] = e]
  /\ life' = [life EXCEPT ![o] = "building", ![p] = "building"]
  /\ UNCHANGED <<ev, holder, abandoned, raced, terminated>>

(* Stream(int): eventfd.  Of a pipe the second Stream is next; the Streams *)
(* reach the caller together.                                              *)
Target(t) == IF pc[t] = "eventfd2" THEN other[t] ELSE this[t]

MakeEvent(t) ==
  /\ pc[t] \in {"eventfd", "eventfd2"}
  /\ \E d \in Fd :
       /\ Lowest(d, Free)
       /\ table' = [table EXCEPT ![d] = "event"]
       /\ ev' = [ev EXCEPT ![Target(t)] = d]
  /\ IF pc[t] = "eventfd" /\ op[t] = "pipe"
       THEN Stay(t, "eventfd2") /\ life' = life
       ELSE /\ End(t)
            /\ life' = [o \in Objects |-> IF o \in {this[t], other[t]}
                                            THEN "alive" ELSE life[o]]
  /\ UNCHANGED <<fd, holder, abandoned, raced, terminated>>

(* eventfd fails: the constructor throws, and the destructor of the object *)
(* does not run.                                                           *)
MakeEventFails(t) ==
  /\ pc[t] = "eventfd" /\ Free = {}
  /\ Abandon({this[t], other[t]} \cap Objects)
  /\ End(t)
  /\ UNCHANGED <<table, ev, holder, raced, terminated>>

(* It fails for the second Stream of a pipe: the first one is destroyed.   *)
MakeEvent2Fails(t) ==
  /\ pc[t] = "eventfd2" /\ Free = {}
  /\ abandoned' = abandoned \cup {fd[other[t]]}
  /\ fd' = [fd EXCEPT ![this[t]] = Invalid, ![other[t]] = Invalid]
  /\ ev' = [ev EXCEPT ![this[t]] = Invalid]
  /\ life' = [life EXCEPT ![this[t]] = "raw", ![other[t]] = "raw"]
  /\ table' = [table EXCEPT ![fd[this[t]]] = "free"]
  /\ End(t)
  /\ UNCHANGED <<holder, raced, terminated>>

-----------------------------------------------------------------------------
(* Mutant: write also keeps readers out.                                   *)
CallUse_BothMutexes(t, m, o) ==
  /\ life[o] = "alive"
  /\ Begin(t, "lock", "use", o, NoObject,
           IF m = "write" THEN << <<m, o>>, <<"read", o>> >>
                          ELSE << <<m, o>> >>)
  /\ UNCHANGED <<table, objectVars, holder, abandoned, raced, terminated>>

(* One turn of Stream::read or one ::write of Stream::write holds the      *)
(* mutex of its direction while the kernel makes it wait.                  *)
CallUse(t, m, o) ==
  /\ life[o] = "alive"
  /\ Begin(t, "lock", "use", o, NoObject, << <<m, o>> >>)
  /\ UNCHANGED <<table, objectVars, holder, abandoned, raced, terminated>>

(* Mutant: the source is not locked.                                       *)
CallMoveConstruct_NoLocks(t, o, src) ==
  /\ life[o] = "raw" /\ life[src] = "alive"
  /\ Begin(t, "lock", "construct", o, src, << >>)
  /\ life' = [life EXCEPT ![o] = "building"]
  /\ UNCHANGED <<table, fd, ev, holder, abandoned, raced, terminated>>

(* Stream(Stream &&src) into the storage o.                                *)
CallMoveConstruct(t, o, src) ==
  /\ life[o] = "raw" /\ life[src] = "alive"
  /\ Begin(t, "lock", "construct", o, src,
           << <<"read", src>>, <<"write", src>> >>)
  /\ life' = [life EXCEPT ![o] = "building"]
  /\ UNCHANGED <<table, fd, ev, holder, abandoned, raced, terminated>>

(* Mutant: the assignment locks only its own mutexes.                      *)
CallMoveAssign_OwnLocks(t, o, src) ==
  /\ life[o] = "alive" /\ life[src] = "alive"
  /\ Begin(t, "lock", "assign", o, src, << <<"write", o>>, <<"read", o>> >>)
  /\ UNCHANGED <<table, objectVars, holder, abandoned, raced, terminated>>

(* operator=(Stream &&src) of o, also of o itself.                         *)
CallMoveAssign(t, o, src) ==
  /\ life[o] = "alive" /\ life[src] = "alive"
  /\ Begin(t, "lock", "assign", o, src,
           << <<"write", o>>, <<"read", o>>,
              <<"write", src>>, <<"read", src>> >>)
  /\ UNCHANGED <<table, objectVars, holder, abandoned, raced, terminated>>

Lock(t) ==
  /\ pc[t] = "lock" /\ want[t] # << >>
  /\ holder[Head(want[t])] = {}
  /\ holder' = [holder EXCEPT ![Head(want[t])] = {t}]
  /\ want' = [want EXCEPT ![t] = Tail(@)]
  /\ UNCHANGED <<table, objectVars, pc, op, this, other, abandoned, raced,
                 terminated>>

Use(t) ==
  /\ pc[t] = "lock" /\ want[t] = << >> /\ op[t] = "use"
  /\ Stay(t, "use")
  /\ UNCHANGED <<table, objectVars, holder, abandoned, raced, terminated>>

UseEnds(t) ==
  /\ pc[t] = "use"
  /\ Unlock(t)
  /\ End(t)
  /\ UNCHANGED <<table, objectVars, abandoned, raced, terminated>>

(* The descriptor is copied.  What the target of an assignment had is      *)
(* overwritten.                                                            *)
CopyFd(t) ==
  /\ pc[t] = "lock" /\ want[t] = << >> /\ op[t] \in {"construct", "assign"}
  /\ fd' = [fd EXCEPT ![this[t]] = fd[other[t]]]
  /\ abandoned' = abandoned \cup ({fd[this[t]]} \ {Invalid})
  /\ Stay(t, "invalidate")
  /\ UNCHANGED <<table, life, ev, holder, raced, terminated>>

(* The source gives it up.  The constructor unlocks here, the assignment   *)
(* when it returns.                                                        *)
InvalidateFd(t) ==
  /\ pc[t] = "invalidate"
  /\ fd' = [fd EXCEPT ![other[t]] = Invalid]
  /\ IF op[t] = "construct" THEN Unlock(t) ELSE UNCHANGED holder
  /\ Stay(t, "event")
  /\ UNCHANGED <<table, life, ev, abandoned, raced, terminated>>

(* u has taken the descriptor of o and not yet its event.                  *)
TakingFrom(u, o) == pc[u] = "event" /\ op[u] = "construct" /\ other[u] = o

CopyEvent(t) ==
  /\ pc[t] = "event"
  /\ ev' = [ev EXCEPT ![this[t]] = ev[other[t]]]
  /\ life' = [life EXCEPT ![this[t]] = "alive"]
  /\ raced' = (raced \/ \E u \in Threads \ {t} : TakingFrom(u, this[t]))
  /\ Unlock(t)
  /\ End(t)
  /\ UNCHANGED <<table, fd, abandoned, terminated>>

(* An object that a thread is using.                                       *)
Involved(u, o) == pc[u] # "idle" /\ o \in {this[u], other[u]}

(* Mutant: the object forgets its socket.                                  *)
Destroy_KeepsSocket(o) ==
  /\ ~terminated
  /\ life[o] = "alive" /\ \A u \in Threads : ~Involved(u, o)
  /\ life' = [life EXCEPT ![o] = "raw"]
  /\ fd' = [fd EXCEPT ![o] = Invalid]
  /\ ev' = [ev EXCEPT ![o] = Invalid]
  /\ UNCHANGED <<table, holder, callVars, abandoned, raced, terminated>>

(* ~Stream, of an object no thread is using (the lifetime rule of C++; the *)
(* destructor takes no mutex).  The event stays open.                      *)
Destroy(o) ==
  /\ ~terminated
  /\ life[o] = "alive" /\ \A u \in Threads : ~Involved(u, o)
  /\ life' = [life EXCEPT ![o] = "raw"]
  /\ fd' = [fd EXCEPT ![o] = Invalid]
  /\ ev' = [ev EXCEPT ![o] = Invalid]
  /\ IF fd[o] = Invalid THEN UNCHANGED <<table, terminated>>
     ELSE IF table[fd[o]] = "free" THEN terminated' = TRUE /\ table' = table
     ELSE table' = [table EXCEPT ![fd[o]] = "free"] /\ UNCHANGED terminated
  /\ UNCHANGED <<holder, callVars, abandoned, raced>>

-----------------------------------------------------------------------------
Calls(t) ==
  \E o \in Objects :
    \/ CreateTcpStreamToServer(t, o)
    \/ \E m \in {"read", "write"} : CallUse(t, m, o)
    \/ \E p \in Objects :
         CreatePipe(t, o, p) \/ CallMoveConstruct(t, o, p)
           \/ CallMoveAssign(t, o, p)

Step(t) ==
  \/ Connect(t) \/ ConnectFails(t)
  \/ MakeEvent(t) \/ MakeEventFails(t) \/ MakeEvent2Fails(t)
  \/ Lock(t) \/ Use(t) \/ UseEnds(t)
  \/ CopyFd(t) \/ InvalidateFd(t) \/ CopyEvent(t)

Next ==
  \/ \E t \in Threads : Calls(t) \/ Step(t)
  \/ \E o \in Objects : Destroy(o)

Spec == Init /\ [][Next]_vars

-----------------------------------------------------------------------------
Live == {o \in Objects : life[o] # "raw"}

(* The thread that is between the two halves of handing fd[o] to p.        *)
HandsOver(t, o, p) == pc[t] = "invalidate" /\ this[t] = p /\ other[t] = o

(* No two Streams own the same descriptor, except that a move has for a    *)
(* moment written it into the new owner and not yet taken it from the old  *)
(* one; what a Stream owns is an open socket, so that ~Stream never closes *)
(* a descriptor twice, nor one that by then is somebody else's, and never  *)
(* terminates the process.                                                 *)
SingleOwner ==
  /\ ~terminated
  /\ \A o \in Live : fd[o] # Invalid => table[fd[o]] = "socket"
  /\ \A o \in Live, p \in Live :
       o # p /\ fd[o] = fd[p] /\ fd[o] # Invalid =>
         \E t \in Threads : HandsOver(t, o, p) \/ HandsOver(t, p, o)

(* No socket gets lost: each that is open belongs to a Stream or is one    *)
(* that a move assignment has overwritten or a failed creation left behind *)
(* (those are never closed), and no Stream owns one of the latter.         *)
NothingLost ==
  LET owned == {fd[o] : o \in Live} IN
  /\ \A d \in Fd : table[d] = "socket" => d \in owned \cup abandoned
  /\ \A d \in abandoned : table[d] = "socket" /\ d \notin owned

(* Streams that own a socket do not share a stop event, which would let    *)
(* stopReads of one abort the reads of the other: a constructor that       *)
(* copies the event after it has unlocked the source gets the right one,   *)
(* unless the source is assigned to in between.                            *)
EventsNotShared ==
  raced \/ \A o \in Objects, p \in Objects :
    /\ o # p /\ life[o] = "alive" /\ life[p] = "alive"
    /\ fd[o] # Invalid /\ fd[p] # Invalid
    => \/ ev[o] # ev[p]
       \/ \E t \in Threads :
            pc[t] \in {"invalidate", "event"} /\ this[t] \in {o, p}

(* The threads of S wait for each other's mutexes.                         *)
Deadlocked(S) ==
  /\ S # {}
  /\ \A t \in S :
       pc[t] = "lock" /\ want[t] # << >>
         /\ \E u \in S : u \in holder[Head(want[t])]

(* Reads, writes and move constructions never wait for each other in a     *)
(* circle; it takes a move assignment, which locks in the other order and  *)
(* locks two objects.                                                      *)
CycleNeedsAssignment ==
  \A S \in SUBSET Threads : Deadlocked(S) => \E t \in S : op[t] = "assign"
=============================================================================
