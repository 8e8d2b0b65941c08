------------------------ MODULE StreamOwnershipProofs ------------------------
(***************************************************************************)
(* Proofs about the ownership of descriptors and events by Streams, for    *)
(* every set of objects and threads and every size of the descriptor       *)
(* table.  The invariant is built in four layers, each of which is         *)
(* inductive given those before it: what each thread has locked, which     *)
(* objects it builds or keeps alive, who owns which socket, and who has    *)
(* which event.                                                            *)
(***************************************************************************)
EXTENDS StreamOwnership, SequenceTheorems, TLAPS

-----------------------------------------------------------------------------
(* The first layer: types, and what each thread has locked.                *)
Places == {"idle", "lock", "use", "invalidate", "event", "connect", "eventfd",
           "eventfd2"}

(* The types of what a thread keeps, and of the rest.                      *)
CallTypeOK ==
  /\ pc \in [Threads -> Places]
  /\ op \in [Threads -> Operations]
  /\ this \in [Threads -> Objects \cup {NoObject}]
  /\ other \in [Threads -> Objects \cup {NoObject}]
  /\ want \in [Threads -> Seq(Mutexes)]

StoreTypeOK ==
  /\ table \in [Fd -> {"free", "socket", "event"}]
  /\ life \in [Objects -> {"raw", "building", "alive"}]
  /\ fd \in [Objects -> Fd \cup {Invalid}]
  /\ ev \in [Objects -> Fd \cup {Invalid}]
  /\ abandoned \subseteq Fd
  /\ raced \in BOOLEAN
  /\ terminated \in BOOLEAN

Holds(t, m) == holder[m] = {t}
HoldsNothing(t) == \A m \in Mutexes : ~Holds(t, m)
HoldsBoth(t, o) == Holds(t, <<"read", o>>) /\ Holds(t, <<"write", o>>)

(* A mutex has at most one holder.                                         *)
MutexOK == holder \in [Mutexes -> {{}} \cup {{t} : t \in Threads}]

Idle(t) ==
  /\ pc[t] = "idle" /\ op[t] = "none"
  /\ this[t] = NoObject /\ other[t] = NoObject
  /\ want[t] = << >> /\ HoldsNothing(t)

(* StreamFactory at work takes no mutex.                                   *)
Connecting(t) ==
  /\ pc[t] \in {"connect", "eventfd"} /\ op[t] = "connect"
  /\ this[t] \in Objects /\ other[t] = NoObject
  /\ want[t] = << >> /\ HoldsNothing(t)

Piping(t) ==
  /\ pc[t] \in {"eventfd", "eventfd2"} /\ op[t] = "pipe"
  /\ this[t] \in Objects /\ other[t] \in Objects /\ this[t] # other[t]
  /\ want[t] = << >> /\ HoldsNothing(t)

(* A read or write waits for its mutex holding none.                       *)
Using(t) ==
  /\ op[t] = "use" /\ this[t] \in Objects /\ other[t] = NoObject
  /\ \/ /\ pc[t] = "lock" /\ HoldsNothing(t)
        /\ \E m \in Mutexes : want[t] = <<m>>
     \/ pc[t] \in {"lock", "use"} /\ want[t] = << >>

(* A move construction locks read before write, both of its source, and    *)
(* has unlocked them when it copies the event.                             *)
Constructing(t) ==
  LET r == <<"read", other[t]>>
      w == <<"write", other[t]>>
  IN
  /\ op[t] = "construct"
  /\ this[t] \in Objects /\ other[t] \in Objects /\ this[t] # other[t]
  /\ \/ pc[t] = "lock" /\ want[t] = <<r, w>> /\ HoldsNothing(t)
     \/ /\ pc[t] = "lock" /\ want[t] = <<w>>
        /\ \A m \in Mutexes : Holds(t, m) <=> m = r
     \/ /\ pc[t] \in {"lock", "invalidate"} /\ want[t] = << >>
        /\ HoldsBoth(t, other[t])
     \/ pc[t] = "event" /\ want[t] = << >>

(* A move assignment locks write before read, of itself and then of its    *)
(* source, and keeps them to its end.  One of an object to itself never    *)
(* gets the third lock.                                                    *)
Assigning(t) ==
  LET wo == <<"write", this[t]>>
      ro == <<"read", this[t]>>
      ws == <<"write", other[t]>>
      rs == <<"read", other[t]>>
  IN
  /\ op[t] = "assign" /\ this[t] \in Objects /\ other[t] \in Objects
  /\ \/ pc[t] = "lock" /\ want[t] = <<wo, ro, ws, rs>>
     \/ pc[t] = "lock" /\ want[t] = <<ro, ws, rs>> /\ Holds(t, wo)
     \/ pc[t] = "lock" /\ want[t] = <<ws, rs>> /\ HoldsBoth(t, this[t])
     \/ /\ pc[t] = "lock" /\ want[t] = <<rs>> /\ HoldsBoth(t, this[t])
        /\ Holds(t, ws) /\ this[t] # other[t]
     \/ /\ pc[t] \in {"lock", "invalidate", "event"} /\ want[t] = << >>
        /\ HoldsBoth(t, this[t]) /\ HoldsBoth(t, other[t])
        /\ this[t] # other[t]

Script(t) ==
  \/ Idle(t) \/ Connecting(t) \/ Piping(t)
  \/ Using(t) \/ Constructing(t) \/ Assigning(t)

LockInv == CallTypeOK /\ MutexOK /\ \A t \in Threads : Script(t)

-----------------------------------------------------------------------------
(* The second layer: an object being built belongs to one thread, and an   *)
(* object that a thread uses is alive.                                     *)
Builds(t, o) ==
  \/ op[t] \in {"connect", "pipe", "construct"} /\ this[t] = o
  \/ op[t] = "pipe" /\ other[t] = o

Keeps(t, o) ==
  \/ op[t] \in {"use", "assign"} /\ this[t] = o
  \/ op[t] \in {"construct", "assign"} /\ other[t] = o

LifeInv ==
  /\ life \in [Objects -> {"raw", "building", "alive"}]
  /\ \A t \in Threads, o \in Objects :
       /\ Builds(t, o) => /\ life[o] = "building"
                          /\ \A u \in Threads : Builds(u, o) => u = t
       /\ Keeps(t, o) => life[o] = "alive"

-----------------------------------------------------------------------------
(* The third layer: sockets.                                               *)
RawOwnsNothing == \A o \in Objects : life[o] = "raw" => fd[o] = Invalid

OwnedAreSockets ==
  \A o \in Objects : fd[o] # Invalid => table[fd[o]] = "socket"

SharedInAMove ==
  \A o, p \in Objects :
    o # p /\ fd[o] = fd[p] /\ fd[o] # Invalid =>
      \E t \in Threads : HandsOver(t, o, p) \/ HandsOver(t, p, o)

(* What an object being built has, and the two halves of a move.           *)
InTheMaking(t) ==
  /\ op[t] \in {"connect", "pipe"} => fd[this[t]] # Invalid
  /\ op[t] = "pipe" => fd[other[t]] # Invalid
  /\ op[t] = "construct" /\ pc[t] = "lock" => fd[this[t]] = Invalid
  /\ pc[t] = "invalidate" => fd[this[t]] = fd[other[t]]

SocketsAccounted ==
  /\ \A d \in Fd : table[d] = "socket" =>
       d \in abandoned \/ \E o \in Objects : fd[o] = d
  /\ \A d \in abandoned : table[d] = "socket" /\ \A o \in Objects : fd[o] # d

FdInv ==
  /\ StoreTypeOK /\ ~terminated
  /\ RawOwnsNothing /\ OwnedAreSockets /\ SharedInAMove /\ SocketsAccounted
  /\ \A t \in Threads : InTheMaking(t)

-----------------------------------------------------------------------------
(* The fourth layer: events.  Which objects have one.                      *)
EventInTheMaking(t) ==
  /\ op[t] \in {"connect", "construct"} => ev[this[t]] = Invalid
  /\ op[t] = "pipe" => /\ ev[other[t]] = Invalid
                       /\ ev[this[t]] = Invalid <=> pc[t] = "eventfd"

EventsExist ==
  /\ \A o \in Objects : ev[o] # Invalid => table[ev[o]] = "event"
  /\ \A o \in Objects : life[o] = "alive" => ev[o] # Invalid
  /\ \A o \in Objects : life[o] = "raw" => ev[o] = Invalid
  /\ \A t \in Threads : EventInTheMaking(t)

(* A thread that has copied a descriptor and not yet the event.            *)
Halfway(t) == pc[t] \in {"invalidate", "event"}

(* The target of such a thread.                                            *)
Excused(o) == \E t \in Threads : Halfway(t) /\ this[t] = o

(* The descriptor it has copied was a socket.                              *)
Moving(t) == Halfway(t) /\ fd[this[t]] # Invalid

EventsApart ==
  \A o, p \in Objects :
    o # p /\ fd[o] # Invalid /\ fd[p] # Invalid /\ ev[o] = ev[p]
      /\ ev[o] # Invalid => Excused(o) \/ Excused(p)

(* The event about to be copied is not that of a third owner, nor about to *)
(* be copied by a second thread, and its source has no new socket yet.     *)
NoThirdOwner(t) ==
  Moving(t) => \A p \in Objects \ {this[t], other[t]} :
                 fd[p] # Invalid /\ ev[p] = ev[other[t]] => Excused(p)

NoRival(t) ==
  \A u \in Threads \ {t} :
    Moving(t) /\ Moving(u) => ev[other[u]] # ev[other[t]]

SourceIsEmpty(t) ==
  pc[t] = "event" => fd[other[t]] = Invalid \/ Excused(other[t])

EventsSeparate ==
  /\ EventsApart
  /\ \A t \in Threads : NoThirdOwner(t) /\ NoRival(t) /\ SourceIsEmpty(t)

EventInv == EventsExist /\ (raced \/ EventsSeparate)

-----------------------------------------------------------------------------
(* The other threads are where they were.                                  *)
OthersStay(t) ==
  \A u \in Threads \ {t} :
    /\ pc'[u] = pc[u] /\ op'[u] = op[u]
    /\ this'[u] = this[u] /\ other'[u] = other[u] /\ want'[u] = want[u]

(* A call begins.                                                          *)
LEMMA BeginGives ==
  ASSUME CallTypeOK, NEW t \in Threads, NEW place \in Places,
         NEW operation \in Operations, NEW o \in Objects \cup {NoObject},
         NEW p \in Objects \cup {NoObject}, NEW mutexes \in Seq(Mutexes),
         Begin(t, place, operation, o, p, mutexes)
  PROVE  /\ CallTypeOK' /\ pc[t] = "idle" /\ OthersStay(t)
         /\ pc'[t] = place /\ op'[t] = operation
         /\ this'[t] = o /\ other'[t] = p /\ want'[t] = mutexes
BY DEF CallTypeOK, Begin, Goto, OthersStay

(* A call ends.                                                            *)
LEMMA EndGives ==
  ASSUME CallTypeOK, NEW t \in Threads, End(t)
  PROVE  /\ CallTypeOK' /\ OthersStay(t)
         /\ pc'[t] = "idle" /\ op'[t] = "none"
         /\ this'[t] = NoObject /\ other'[t] = NoObject /\ want'[t] = want[t]
BY DEF CallTypeOK, End, Goto, OthersStay, Places, Operations

(* A call goes on.                                                         *)
LEMMA StayGives ==
  ASSUME CallTypeOK, NEW t \in Threads, NEW place \in Places, Stay(t, place)
  PROVE  /\ CallTypeOK' /\ OthersStay(t)
         /\ pc'[t] = place /\ op'[t] = op[t]
         /\ this'[t] = this[t] /\ other'[t] = other[t] /\ want'[t] = want[t]
BY DEF CallTypeOK, Stay, Goto, OthersStay

(* What becomes of the mutexes.                                            *)
LEMMA UnlockGives ==
  ASSUME MutexOK, NEW t \in Threads, Unlock(t)
  PROVE  /\ MutexOK' /\ HoldsNothing(t)'
         /\ \A u \in Threads \ {t}, m \in Mutexes : Holds(u, m)' <=> Holds(u, m)
<1>1. ASSUME NEW m \in Mutexes
      PROVE  /\ holder'[m] \in {{}} \cup {{u} : u \in Threads}
             /\ holder'[m] # {t}
             /\ \A u \in Threads \ {t} : holder'[m] = {u} <=> holder[m] = {u}
  <2>1. holder'[m] = holder[m] \ {t}
    BY DEF Unlock
  <2>2. CASE holder[m] = {}
    BY <2>1, <2>2
  <2>3. ASSUME NEW u \in Threads, holder[m] = {u}
        PROVE  /\ holder'[m] \in {{}} \cup {{v} : v \in Threads}
               /\ holder'[m] # {t}
               /\ \A v \in Threads \ {t} : holder'[m] = {v} <=> holder[m] = {v}
    <3>1. CASE u = t
      <4>1. holder'[m] = {}
        BY <2>1, <2>3, <3>1
      <4>2. QED
        BY <2>3, <3>1, <4>1
    <3>2. CASE u # t
      <4>1. holder'[m] = {u}
        BY <2>1, <2>3, <3>2
      <4>2. QED
        BY <2>3, <3>2, <4>1
    <3>3. QED
      BY <3>1, <3>2
  <2>4. QED
    BY <2>2, <2>3 DEF MutexOK
<1>2. holder' = [m \in Mutexes |-> holder'[m]]
  BY DEF Unlock
<1>3. MutexOK'
  BY <1>1, <1>2 DEF MutexOK
<1>4. QED
  BY <1>1, <1>3 DEF HoldsNothing, Holds

(* A thread that does not move, and whose mutexes do not either, keeps to  *)
(* its script.                                                             *)
LEMMA ScriptFrame ==
  ASSUME NEW t \in Threads, Script(t),
         pc'[t] = pc[t], op'[t] = op[t], this'[t] = this[t],
         other'[t] = other[t], want'[t] = want[t],
         \A m \in Mutexes : Holds(t, m)' <=> Holds(t, m)
  PROVE  Script(t)'
<1>1. HoldsNothing(t)' <=> HoldsNothing(t)
  BY DEF HoldsNothing
<1>2. \A o \in Objects : HoldsBoth(t, o)' <=> HoldsBoth(t, o)
  BY DEF HoldsBoth, Mutexes
<1>3. \A o \in Objects : <<"read", o>> \in Mutexes /\ <<"write", o>> \in Mutexes
  BY DEF Mutexes
<1>4. CASE Idle(t)
  BY <1>1, <1>4 DEF Script, Idle
<1>5. CASE Connecting(t)
  BY <1>1, <1>5 DEF Script, Connecting
<1>6. CASE Piping(t)
  BY <1>1, <1>6 DEF Script, Piping
<1>7. CASE Using(t)
  BY <1>1, <1>7 DEF Script, Using
<1>8. CASE Constructing(t)
  <2>1. Constructing(t)'
    BY <1>1, <1>2, <1>3, <1>8 DEF Constructing
  <2>2. QED
    BY <2>1 DEF Script
<1>9. CASE Assigning(t)
  <2>1. Assigning(t)'
    BY <1>2, <1>3, <1>9 DEF Assigning
  <2>2. QED
    BY <2>1 DEF Script
<1>10. QED
  BY <1>4, <1>5, <1>6, <1>7, <1>8, <1>9 DEF Script

(* A step of t: it suffices that t goes by its script and no mutex changes *)
(* between the others.                                                     *)
LEMMA LockStep ==
  ASSUME LockInv, NEW t \in Threads, CallTypeOK', MutexOK',
         OthersStay(t), Script(t)',
         \A u \in Threads \ {t}, m \in Mutexes : Holds(u, m)' <=> Holds(u, m)
  PROVE  LockInv'
<1>1. ASSUME NEW u \in Threads
      PROVE  Script(u)'
  <2>1. CASE u # t
    BY <2>1, ScriptFrame DEF LockInv, OthersStay
  <2>2. QED
    BY <2>1
<1>2. QED
  BY <1>1 DEF LockInv

(* The mutexes of an object are mutexes.                                   *)
LEMMA MutexFacts ==
  /\ \A o \in Objects : <<"read", o>> \in Mutexes /\ <<"write", o>> \in Mutexes
  /\ \A a \in Mutexes : <<a>> \in Seq(Mutexes)
  /\ \A a, b \in Mutexes : <<a, b>> \in Seq(Mutexes)
  /\ \A a, b, c, d \in Mutexes : <<a, b, c, d>> \in Seq(Mutexes)
  /\ << >> \in Seq(Mutexes)
<1>1. \A o \in Objects : <<"read", o>> \in Mutexes /\ <<"write", o>> \in Mutexes
  BY DEF Mutexes
<1>2. /\ \A a \in Mutexes : <<a>> \in Seq(Mutexes)
      /\ \A a, b \in Mutexes : <<a, b>> \in Seq(Mutexes)
      /\ \A a, b, c, d \in Mutexes : <<a, b, c, d>> \in Seq(Mutexes)
      /\ << >> \in Seq(Mutexes)
  OBVIOUS
<1>3. QED
  BY <1>1, <1>2

(* Heads and tails of the sequences of mutexes still to lock.              *)
LEMMA Fronts ==
  /\ \A a : Head(<<a>>) = a /\ Tail(<<a>>) = << >>
  /\ \A a, b : Head(<<a, b>>) = a /\ Tail(<<a, b>>) = <<b>>
  /\ \A a, b, c : Head(<<a, b, c>>) = a /\ Tail(<<a, b, c>>) = <<b, c>>
  /\ \A a, b, c, d : /\ Head(<<a, b, c, d>>) = a
                     /\ Tail(<<a, b, c, d>>) = <<b, c, d>>
OBVIOUS

(* A step that leaves the mutexes alone.                                   *)
LEMMA HolderKept ==
  ASSUME MutexOK, holder' = holder
  PROVE  /\ MutexOK'
         /\ \A t \in Threads : HoldsNothing(t)' <=> HoldsNothing(t)
         /\ \A t \in Threads, m \in Mutexes : Holds(t, m)' <=> Holds(t, m)
         /\ \A t \in Threads, o \in Objects : HoldsBoth(t, o)' <=> HoldsBoth(t, o)
BY DEF MutexOK, HoldsNothing, Holds, HoldsBoth

(* An idle thread calls.                                                   *)
LEMMA CallsLock ==
  ASSUME LockInv, NEW t \in Threads, Calls(t)
  PROVE  LockInv' /\ OthersStay(t)
<1>1. /\ pc[t] = "idle" /\ holder' = holder
  BY DEF Calls, CreateTcpStreamToServer, CreatePipe, CallUse,
         CallMoveConstruct, CallMoveAssign, Begin
<1>2. /\ CallTypeOK /\ MutexOK /\ HoldsNothing(t)
  BY <1>1 DEF LockInv, Script, Idle, Connecting, Piping, Using, Constructing,
              Assigning
<1>3. /\ MutexOK' /\ HoldsNothing(t)'
      /\ \A u \in Threads \ {t}, m \in Mutexes : Holds(u, m)' <=> Holds(u, m)
  BY <1>1, <1>2, HolderKept
<1>4. ASSUME NEW o \in Objects, CreateTcpStreamToServer(t, o)
      PROVE  CallTypeOK' /\ OthersStay(t) /\ Script(t)'
  <2>1. Begin(t, "connect", "connect", o, NoObject, << >>)
    BY <1>4 DEF CreateTcpStreamToServer
  <2>2. /\ CallTypeOK' /\ OthersStay(t)
        /\ pc'[t] = "connect" /\ op'[t] = "connect"
        /\ this'[t] = o /\ other'[t] = NoObject /\ want'[t] = << >>
    BY <1>2, <2>1, MutexFacts, BeginGives DEF Places, Operations
  <2>3. QED
    BY <1>3, <2>2 DEF Script, Connecting
<1>5. ASSUME NEW o \in Objects, NEW p \in Objects, CreatePipe(t, o, p)
      PROVE  CallTypeOK' /\ OthersStay(t) /\ Script(t)'
  <2>1. Begin(t, "eventfd", "pipe", o, p, << >>) /\ o # p
    BY <1>5 DEF CreatePipe
  <2>2. /\ CallTypeOK' /\ OthersStay(t)
        /\ pc'[t] = "eventfd" /\ op'[t] = "pipe"
        /\ this'[t] = o /\ other'[t] = p /\ want'[t] = << >>
    BY <1>2, <2>1, MutexFacts, BeginGives DEF Places, Operations
  <2>3. QED
    BY <1>3, <2>1, <2>2 DEF Script, Piping
<1>6. ASSUME NEW o \in Objects, NEW m \in {"read", "write"}, CallUse(t, m, o)
      PROVE  CallTypeOK' /\ OthersStay(t) /\ Script(t)'
  <2>1. Begin(t, "lock", "use", o, NoObject, << <<m, o>> >>)
    BY <1>6 DEF CallUse
  <2>2. <<m, o>> \in Mutexes
    BY MutexFacts
  <2>3. PICK ms \in Seq(Mutexes) : ms = << <<m, o>> >>
    BY <2>2, MutexFacts
  <2>4. /\ CallTypeOK' /\ OthersStay(t)
        /\ pc'[t] = "lock" /\ op'[t] = "use"
        /\ this'[t] = o /\ other'[t] = NoObject /\ want'[t] = << <<m, o>> >>
    <3>1. "lock" \in Places /\ "use" \in Operations
      BY DEF Places, Operations
    <3>2. Begin(t, "lock", "use", o, NoObject, ms)
      BY <2>1, <2>3
    <3>3. /\ CallTypeOK' /\ OthersStay(t)
          /\ pc'[t] = "lock" /\ op'[t] = "use"
          /\ this'[t] = o /\ other'[t] = NoObject /\ want'[t] = ms
      BY <1>2, <3>1, <3>2, BeginGives
    <3>4. QED
      BY <2>3, <3>3
  <2>5. QED
    BY <1>3, <2>2, <2>4 DEF Script, Using
<1>7. ASSUME NEW o \in Objects, NEW s \in Objects, CallMoveConstruct(t, o, s)
      PROVE  CallTypeOK' /\ OthersStay(t) /\ Script(t)'
  <2> DEFINE w == << <<"read", s>>, <<"write", s>> >>
  <2>1. Begin(t, "lock", "construct", o, s, w) /\ o # s
    BY <1>7 DEF CallMoveConstruct
  <2>2. w \in Seq(Mutexes)
    BY MutexFacts
  <2> HIDE DEF w
  <2>3. /\ CallTypeOK' /\ OthersStay(t)
        /\ pc'[t] = "lock" /\ op'[t] = "construct"
        /\ this'[t] = o /\ other'[t] = s /\ want'[t] = w
    BY <1>2, <2>1, <2>2, BeginGives DEF Places, Operations
  <2>4. Constructing(t)'
    BY <1>3, <2>1, <2>3 DEF w, Constructing
  <2>5. QED
    BY <2>3, <2>4 DEF Script
<1>8. ASSUME NEW o \in Objects, NEW s \in Objects, CallMoveAssign(t, o, s)
      PROVE  CallTypeOK' /\ OthersStay(t) /\ Script(t)'
  <2> DEFINE w == << <<"write", o>>, <<"read", o>>,
                     <<"write", s>>, <<"read", s>> >>
  <2>1. Begin(t, "lock", "assign", o, s, w)
    BY <1>8 DEF CallMoveAssign
  <2>2. w \in Seq(Mutexes)
    BY MutexFacts
  <2> HIDE DEF w
  <2>3. /\ CallTypeOK' /\ OthersStay(t)
        /\ pc'[t] = "lock" /\ op'[t] = "assign"
        /\ this'[t] = o /\ other'[t] = s /\ want'[t] = w
    BY <1>2, <2>1, <2>2, BeginGives DEF Places, Operations
  <2>4. Assigning(t)'
    BY <2>3 DEF w, Assigning
  <2>5. QED
    BY <2>3, <2>4 DEF Script
<1>9. CallTypeOK' /\ OthersStay(t) /\ Script(t)'
  BY <1>4, <1>5, <1>6, <1>7, <1>8 DEF Calls
<1>10. QED
  BY <1>3, <1>9, LockStep

(* A thread gets the next mutex it wants.                                  *)
LEMMA LockLock ==
  ASSUME LockInv, NEW t \in Threads, Lock(t)
  PROVE  LockInv' /\ OthersStay(t)
<1> DEFINE m == Head(want[t])
<1>1. /\ pc[t] = "lock" /\ want[t] # << >> /\ holder[m] = {}
      /\ holder' = [holder EXCEPT ![m] = {t}]
      /\ want' = [want EXCEPT ![t] = Tail(want[t])]
      /\ pc' = pc /\ op' = op /\ this' = this /\ other' = other
  BY DEF Lock
<1>2. CallTypeOK /\ MutexOK /\ Script(t)
  BY DEF LockInv
<1>3. m \in Mutexes /\ Tail(want[t]) \in Seq(Mutexes)
  <2>1. want[t] \in Seq(Mutexes)
    BY <1>2 DEF CallTypeOK
  <2>2. QED
    BY <1>1, <2>1, HeadTailProperties
<1>4. CallTypeOK' /\ OthersStay(t)
  BY <1>1, <1>2, <1>3 DEF CallTypeOK, OthersStay
<1>5. want'[t] = Tail(want[t])
  BY <1>1, <1>2 DEF CallTypeOK
<1> HIDE DEF m
<1>6. /\ MutexOK'
      /\ \A u \in Threads \ {t}, n \in Mutexes : Holds(u, n)' <=> Holds(u, n)
      /\ \A n \in Mutexes : Holds(t, n)' <=> n = m \/ Holds(t, n)
  BY <1>1, <1>2, <1>3 DEF MutexOK, Holds
<1>7. Script(t)'
  <2>1. CASE Using(t)
    <3>1. PICK n \in Mutexes : want[t] = <<n>>
      BY <1>1, <2>1 DEF Using
    <3>2. want'[t] = << >>
      BY <1>5, <3>1, Fronts
    <3>3. QED
      BY <1>1, <2>1, <3>2 DEF Using, Script
  <2>2. CASE Constructing(t)
    <3>1. PICK r \in Mutexes, w \in Mutexes :
            r = <<"read", other[t]>> /\ w = <<"write", other[t]>>
      BY <2>2, MutexFacts DEF Constructing
    <3>2. \/ want[t] = <<r, w>> /\ HoldsNothing(t)
          \/ want[t] = <<w>> /\ \A n \in Mutexes : Holds(t, n) <=> n = r
      BY <1>1, <2>2, <3>1 DEF Constructing
    <3>3. CASE want[t] = <<r, w>> /\ HoldsNothing(t)
      <4>1. m = r /\ want'[t] = <<w>>
        BY <1>5, <3>3, Fronts DEF m
      <4>2. \A n \in Mutexes : Holds(t, n)' <=> n = r
        BY <1>6, <3>3, <4>1 DEF HoldsNothing
      <4>3. Constructing(t)'
        BY <1>1, <2>2, <3>1, <4>1, <4>2 DEF Constructing
      <4>4. QED
        BY <4>3 DEF Script
    <3>4. CASE want[t] = <<w>> /\ \A n \in Mutexes : Holds(t, n) <=> n = r
      <4>1. m = w /\ want'[t] = << >>
        BY <1>5, <3>4, Fronts DEF m
      <4>2. Holds(t, r)' /\ Holds(t, w)'
        BY <1>6, <3>1, <3>4, <4>1
      <4>3. HoldsBoth(t, other[t])'
        BY <1>1, <3>1, <4>2 DEF HoldsBoth
      <4>4. Constructing(t)'
        BY <1>1, <2>2, <4>1, <4>3 DEF Constructing
      <4>5. QED
        BY <4>4 DEF Script
    <3>5. QED
      BY <3>2, <3>3, <3>4
  <2>3. CASE Assigning(t)
    <3>1. PICK wo \in Mutexes, ro \in Mutexes, ws \in Mutexes,
               rs \in Mutexes :
            /\ wo = <<"write", this[t]>> /\ ro = <<"read", this[t]>>
            /\ ws = <<"write", other[t]>> /\ rs = <<"read", other[t]>>
      BY <2>3, MutexFacts DEF Assigning
    <3>2. /\ op[t] = "assign" /\ this[t] \in Objects /\ other[t] \in Objects
          /\ \/ want[t] = <<wo, ro, ws, rs>>
             \/ want[t] = <<ro, ws, rs>> /\ Holds(t, wo)
             \/ want[t] = <<ws, rs>> /\ Holds(t, wo) /\ Holds(t, ro)
             \/ /\ want[t] = <<rs>> /\ Holds(t, wo) /\ Holds(t, ro)
                /\ Holds(t, ws) /\ this[t] # other[t]
      BY <1>1, <2>3, <3>1 DEF Assigning, HoldsBoth
    <3>3. /\ HoldsBoth(t, this[t])' <=> Holds(t, wo)' /\ Holds(t, ro)'
          /\ HoldsBoth(t, other[t])' <=> Holds(t, ws)' /\ Holds(t, rs)'
      BY <1>1, <3>1 DEF HoldsBoth
    <3>4. this[t] = other[t] => wo = ws
      BY <3>1
    <3>5. \/ want'[t] = <<ro, ws, rs>> /\ Holds(t, wo)'
          \/ want'[t] = <<ws, rs>> /\ Holds(t, wo)' /\ Holds(t, ro)'
          \/ /\ want'[t] = <<rs>> /\ Holds(t, wo)' /\ Holds(t, ro)'
             /\ Holds(t, ws)' /\ this[t] # other[t]
          \/ /\ want'[t] = << >> /\ Holds(t, wo)' /\ Holds(t, ro)'
             /\ Holds(t, ws)' /\ Holds(t, rs)' /\ this[t] # other[t]
      <4>1. CASE want[t] = <<wo, ro, ws, rs>>
        <5>1. m = wo /\ want'[t] = <<ro, ws, rs>>
          BY <1>5, <4>1, Fronts DEF m
        <5>2. QED
          BY <1>6, <3>1, <5>1
      <4>2. CASE want[t] = <<ro, ws, rs>> /\ Holds(t, wo)
        <5>1. m = ro /\ want'[t] = <<ws, rs>>
          BY <1>5, <4>2, Fronts DEF m
        <5>2. QED
          BY <1>6, <3>1, <4>2, <5>1
      <4>3. CASE want[t] = <<ws, rs>> /\ Holds(t, wo) /\ Holds(t, ro)
        <5>1. m = ws /\ want'[t] = <<rs>>
          BY <1>5, <4>3, Fronts DEF m
        <5>2. wo # ws
          BY <1>1, <4>3, <5>1 DEF Holds
        <5>3. QED
          BY <1>6, <3>1, <3>4, <4>3, <5>1, <5>2
      <4>4. CASE /\ want[t] = <<rs>> /\ Holds(t, wo) /\ Holds(t, ro)
                 /\ Holds(t, ws) /\ this[t] # other[t]
        <5>1. m = rs /\ want'[t] = << >>
          BY <1>5, <4>4, Fronts DEF m
        <5>2. QED
          BY <1>6, <3>1, <4>4, <5>1
      <4>5. QED
        BY <3>2, <4>1, <4>2, <4>3, <4>4
    <3>6. Assigning(t)'
      BY <1>1, <3>1, <3>2, <3>3, <3>5 DEF Assigning
    <3>7. QED
      BY <3>6 DEF Script
  <2>4. QED
    BY <1>1, <1>2, <2>1, <2>2, <2>3 DEF Script, Idle, Connecting, Piping
<1>8. QED
  BY <1>4, <1>6, <1>7, LockStep

(* The steps of StreamFactory.                                             *)
LEMMA FactoryLock ==
  ASSUME LockInv, NEW t \in Threads,
         \/ Connect(t) \/ ConnectFails(t)
         \/ MakeEvent(t) \/ MakeEventFails(t) \/ MakeEvent2Fails(t)
  PROVE  LockInv' /\ OthersStay(t)
<1>1. CallTypeOK /\ MutexOK /\ Script(t)
  BY DEF LockInv
<1>2. holder' = holder
  BY DEF Connect, ConnectFails, MakeEvent, MakeEventFails, MakeEvent2Fails
<1>3. /\ MutexOK' /\ (HoldsNothing(t)' <=> HoldsNothing(t))
      /\ \A u \in Threads \ {t}, m \in Mutexes : Holds(u, m)' <=> Holds(u, m)
  BY <1>1, <1>2, HolderKept
<1>4. Connecting(t) \/ Piping(t)
  BY <1>1 DEF Script, Idle, Using, Constructing, Assigning, Connect,
              ConnectFails, MakeEvent, MakeEventFails, MakeEvent2Fails
<1>5. HoldsNothing(t)' /\ want[t] = << >>
  BY <1>3, <1>4 DEF Connecting, Piping
<1>6. CASE End(t)
  <2>1. /\ CallTypeOK' /\ OthersStay(t)
        /\ pc'[t] = "idle" /\ op'[t] = "none"
        /\ this'[t] = NoObject /\ other'[t] = NoObject /\ want'[t] = want[t]
    BY <1>1, <1>6, EndGives
  <2>2. Script(t)'
    BY <1>5, <2>1 DEF Script, Idle
  <2>3. QED
    BY <1>3, <2>1, <2>2, LockStep
<1>7. CASE pc[t] = "connect" /\ Stay(t, "eventfd")
  <2>1. /\ CallTypeOK' /\ OthersStay(t)
        /\ pc'[t] = "eventfd" /\ op'[t] = op[t]
        /\ this'[t] = this[t] /\ other'[t] = other[t] /\ want'[t] = want[t]
    BY <1>1, <1>7, StayGives DEF Places
  <2>2. Script(t)'
    BY <1>4, <1>5, <1>7, <2>1 DEF Script, Connecting, Piping
  <2>3. QED
    BY <1>3, <2>1, <2>2, LockStep
<1>8. CASE op[t] = "pipe" /\ Stay(t, "eventfd2")
  <2>1. /\ CallTypeOK' /\ OthersStay(t)
        /\ pc'[t] = "eventfd2" /\ op'[t] = op[t]
        /\ this'[t] = this[t] /\ other'[t] = other[t] /\ want'[t] = want[t]
    BY <1>1, <1>8, StayGives DEF Places
  <2>2. Script(t)'
    BY <1>4, <1>5, <1>8, <2>1 DEF Script, Connecting, Piping
  <2>3. QED
    BY <1>3, <2>1, <2>2, LockStep
<1>9. QED
  BY <1>6, <1>7, <1>8 DEF Connect, ConnectFails, MakeEvent, MakeEventFails,
                          MakeEvent2Fails

(* The steps of a read, a write or a move that has its mutexes.            *)
LEMMA MoveLock ==
  ASSUME LockInv, NEW t \in Threads,
         Use(t) \/ UseEnds(t) \/ CopyFd(t) \/ InvalidateFd(t) \/ CopyEvent(t)
  PROVE  LockInv' /\ OthersStay(t)
<1>1. CallTypeOK /\ MutexOK /\ Script(t)
  BY DEF LockInv
<1>2. ASSUME holder' = holder
      PROVE  /\ MutexOK'
             /\ \A o \in Objects : HoldsBoth(t, o)' <=> HoldsBoth(t, o)
             /\ \A u \in Threads \ {t}, m \in Mutexes :
                  Holds(u, m)' <=> Holds(u, m)
  BY <1>1, <1>2, HolderKept
<1>3. ASSUME Unlock(t)
      PROVE  /\ MutexOK' /\ HoldsNothing(t)'
             /\ \A u \in Threads \ {t}, m \in Mutexes :
                  Holds(u, m)' <=> Holds(u, m)
  BY <1>1, <1>3, UnlockGives
<1>4. want[t] = << >>
  BY <1>1 DEF Script, Idle, Connecting, Piping, Using, Constructing,
              Assigning, Use, UseEnds, CopyFd, InvalidateFd, CopyEvent
<1>5. CASE Use(t)
  <2>1. Stay(t, "use") /\ holder' = holder /\ pc[t] = "lock" /\ op[t] = "use"
    BY <1>5 DEF Use
  <2>2. /\ CallTypeOK' /\ OthersStay(t)
        /\ pc'[t] = "use" /\ op'[t] = op[t]
        /\ this'[t] = this[t] /\ other'[t] = other[t] /\ want'[t] = want[t]
    BY <1>1, <2>1, StayGives DEF Places
  <2>3. Using(t)
    BY <1>1, <2>1 DEF Script, Idle, Connecting, Piping, Constructing, Assigning
  <2>4. Script(t)'
    BY <1>4, <2>1, <2>2, <2>3 DEF Script, Using
  <2>5. QED
    BY <1>2, <2>1, <2>2, <2>4, LockStep
<1>6. CASE UseEnds(t) \/ CopyEvent(t)
  <2>1. End(t) /\ Unlock(t)
    BY <1>6 DEF UseEnds, CopyEvent
  <2>2. /\ CallTypeOK' /\ OthersStay(t)
        /\ pc'[t] = "idle" /\ op'[t] = "none"
        /\ this'[t] = NoObject /\ other'[t] = NoObject /\ want'[t] = want[t]
    BY <1>1, <2>1, EndGives
  <2>3. Script(t)'
    BY <1>3, <1>4, <2>1, <2>2 DEF Script, Idle
  <2>4. QED
    BY <1>3, <2>1, <2>2, <2>3, LockStep
<1>7. CASE CopyFd(t)
  <2>1. /\ Stay(t, "invalidate") /\ holder' = holder /\ pc[t] = "lock"
        /\ op[t] \in {"construct", "assign"}
    BY <1>7 DEF CopyFd
  <2>2. /\ CallTypeOK' /\ OthersStay(t)
        /\ pc'[t] = "invalidate" /\ op'[t] = op[t]
        /\ this'[t] = this[t] /\ other'[t] = other[t] /\ want'[t] = want[t]
    BY <1>1, <2>1, StayGives DEF Places
  <2>3. Script(t)'
    <3>1. CASE Constructing(t)
      <4>1. /\ HoldsBoth(t, other[t]) /\ other[t] \in Objects
            /\ this[t] \in Objects /\ this[t] # other[t] /\ op[t] = "construct"
        BY <1>4, <2>1, <3>1 DEF Constructing
      <4>2. HoldsBoth(t, other[t])'
        BY <1>2, <2>1, <2>2, <4>1 DEF HoldsBoth, Holds
      <4>3. QED
        BY <1>4, <2>2, <4>1, <4>2 DEF Script, Constructing
    <3>2. CASE Assigning(t)
      <4>1. /\ HoldsBoth(t, other[t]) /\ HoldsBoth(t, this[t])
            /\ other[t] \in Objects /\ this[t] \in Objects
            /\ this[t] # other[t] /\ op[t] = "assign"
        BY <1>4, <2>1, <3>2 DEF Assigning
      <4>2. HoldsBoth(t, other[t])' /\ HoldsBoth(t, this[t])'
        BY <1>2, <2>1, <2>2, <4>1 DEF HoldsBoth, Holds
      <4>3. Assigning(t)'
        BY <1>4, <2>2, <4>1, <4>2 DEF Assigning
      <4>4. QED
        BY <4>3 DEF Script
    <3>3. QED
      BY <1>1, <2>1, <3>1, <3>2 DEF Script, Idle, Connecting, Piping, Using
  <2>4. QED
    BY <1>2, <2>1, <2>2, <2>3, LockStep
<1>8. CASE InvalidateFd(t)
  <2>1. /\ Stay(t, "event") /\ pc[t] = "invalidate"
        /\ op[t] = "construct" => Unlock(t)
        /\ op[t] # "construct" => holder' = holder
    BY <1>8 DEF InvalidateFd
  <2>2. /\ CallTypeOK' /\ OthersStay(t)
        /\ pc'[t] = "event" /\ op'[t] = op[t]
        /\ this'[t] = this[t] /\ other'[t] = other[t] /\ want'[t] = want[t]
    BY <1>1, <2>1, StayGives DEF Places
  <2>3. Script(t)'
    <3>1. CASE Constructing(t)
      BY <1>4, <2>2, <3>1 DEF Script, Constructing
    <3>2. CASE Assigning(t)
      <4>1. /\ HoldsBoth(t, other[t]) /\ HoldsBoth(t, this[t])
            /\ other[t] \in Objects /\ this[t] \in Objects
            /\ this[t] # other[t] /\ op[t] = "assign"
        BY <1>4, <2>1, <3>2 DEF Assigning
      <4>2. HoldsBoth(t, other[t])' /\ HoldsBoth(t, this[t])'
        BY <1>2, <2>1, <2>2, <4>1 DEF HoldsBoth, Holds
      <4>3. Assigning(t)'
        BY <1>4, <2>2, <4>1, <4>2 DEF Assigning
      <4>4. QED
        BY <4>3 DEF Script
    <3>3. QED
      BY <1>1, <2>1, <3>1, <3>2 DEF Script, Idle, Connecting, Piping, Using
  <2>4. QED
    BY <1>2, <1>3, <2>1, <2>2, <2>3, LockStep
<1>9. QED
  BY <1>5, <1>6, <1>7, <1>8

(* A step of t changes the locals of t only.                               *)
LEMMA ThreadLock ==
  ASSUME LockInv, NEW t \in Threads, Calls(t) \/ Step(t)
  PROVE  LockInv' /\ OthersStay(t)
BY CallsLock, LockLock, FactoryLock, MoveLock DEF Step

(* The first layer is inductive.                                           *)
LEMMA LockNext == LockInv /\ [Next]_vars => LockInv'
<1>1. ASSUME LockInv, UNCHANGED <<holder, callVars>>
      PROVE  LockInv'
  <2>1. CallTypeOK'
    BY <1>1 DEF LockInv, CallTypeOK, callVars
  <2>2. /\ MutexOK'
        /\ \A t \in Threads, m \in Mutexes : Holds(t, m)' <=> Holds(t, m)
    BY <1>1, HolderKept DEF LockInv
  <2>3. \A t \in Threads : Script(t)'
    BY <1>1, <2>2, ScriptFrame DEF LockInv, callVars
  <2>4. QED
    BY <2>1, <2>2, <2>3 DEF LockInv
<1>2. QED
  BY <1>1, ThreadLock DEF Next, Destroy, vars

(* It holds initially.                                                     *)
LEMMA InitLock == Init => LockInv
<1> SUFFICES ASSUME Init PROVE LockInv
  OBVIOUS
<1>1. CallTypeOK
  BY MutexFacts DEF Init, CallTypeOK, Places, Operations
<1>2. MutexOK /\ \A t \in Threads : HoldsNothing(t)
  BY DEF Init, MutexOK, HoldsNothing, Holds
<1>3. \A t \in Threads : Script(t)
  BY <1>2 DEF Init, Script, Idle
<1>4. QED
  BY <1>1, <1>2, <1>3 DEF LockInv

(* So it is an invariant.                                                  *)
LEMMA LockInvariant == Spec => []LockInv
BY InitLock, LockNext, PTL DEF Spec

(* A circle of threads that wait for each other takes a move assignment:   *)
(* a read or write that waits holds nothing, and a move construction that  *)
(* waits holds at most the read mutex of its source, and then waits for    *)
(* the write mutex, which none of those holds while it waits.              *)
THEOREM CyclesNeedAssignment == Spec => []CycleNeedsAssignment
<1>1. ASSUME LockInv, NEW S \in SUBSET Threads, Deadlocked(S),
             \A t \in S : op[t] # "assign"
      PROVE  FALSE
  <2>1. ASSUME NEW u \in S, NEW m \in Mutexes, u \in holder[m]
        PROVE  /\ m = <<"read", other[u]>>
               /\ Head(want[u]) = <<"write", other[u]>>
    <3>1. pc[u] = "lock" /\ want[u] # << >> /\ op[u] # "assign" /\ Script(u)
      BY <1>1 DEF LockInv, Deadlocked
    <3>2. Holds(u, m)
      BY <1>1, <2>1 DEF LockInv, MutexOK, Holds
    <3>3. Constructing(u)
      BY <3>1, <3>2 DEF Script, Idle, Connecting, Piping, Using, Assigning,
                        HoldsNothing
    <3>4. /\ want[u] = << <<"write", other[u]>> >>
          /\ Holds(u, m) <=> m = <<"read", other[u]>>
      BY <3>1, <3>2, <3>3 DEF Constructing, HoldsNothing
    <3>5. QED
      BY <3>2, <3>4, Fronts
  <2>2. ASSUME NEW t \in S
        PROVE  Head(want[t]) \in Mutexes
    <3>1. want[t] \in Seq(Mutexes) /\ want[t] # << >>
      BY <1>1 DEF LockInv, CallTypeOK, Deadlocked
    <3>2. QED
      BY <3>1, HeadTailProperties
  <2>3. PICK t \in S : TRUE
    BY <1>1 DEF Deadlocked
  <2>4. PICK u \in S : u \in holder[Head(want[t])]
    BY <1>1 DEF Deadlocked
  <2>5. Head(want[u]) = <<"write", other[u]>>
    BY <2>1, <2>2, <2>4
  <2>6. PICK v \in S : v \in holder[Head(want[u])]
    BY <1>1 DEF Deadlocked
  <2>7. Head(want[u]) = <<"read", other[v]>>
    BY <2>1, <2>2, <2>6
  <2>8. QED
    BY <2>5, <2>7
<1>2. LockInv => CycleNeedsAssignment
  BY <1>1 DEF CycleNeedsAssignment
<1>3. QED
  BY <1>2, LockInvariant, PTL

-----------------------------------------------------------------------------
(* The second layer.  A step of t may begin to build raw objects, ends the *)
(* building of its own objects only, and leaves what is alive alive.       *)
LEMMA LifeStep ==
  ASSUME LifeInv, NEW t \in Threads, OthersStay(t),
         life' \in [Objects -> {"raw", "building", "alive"}],
         \A o \in Objects : Builds(t, o)' =>
           life'[o] = "building" /\ (life[o] = "raw" \/ Builds(t, o)),
         \A o \in Objects : Keeps(t, o)' => life'[o] = "alive",
         \A o \in Objects : life[o] = "building" =>
           life'[o] = "building" \/ Builds(t, o),
         \A o \in Objects : life[o] = "alive" => life'[o] = "alive"
  PROVE  LifeInv'
<1>1. \A u \in Threads \ {t}, o \in Objects :
        /\ Builds(u, o)' <=> Builds(u, o)
        /\ Keeps(u, o)' <=> Keeps(u, o)
  BY DEF OthersStay, Builds, Keeps
<1>2. ASSUME NEW u \in Threads, NEW o \in Objects, Builds(u, o)'
      PROVE  /\ life'[o] = "building"
             /\ \A v \in Threads : Builds(v, o)' => v = u
  <2>1. CASE u = t
    <3>1. \A v \in Threads \ {t} : ~Builds(v, o)
      BY <1>2, <2>1 DEF LifeInv
    <3>2. QED
      BY <1>1, <1>2, <2>1, <3>1
  <2>2. CASE u # t
    <3>1. Builds(u, o) /\ life[o] = "building"
      BY <1>1, <1>2, <2>2 DEF LifeInv
    <3>2. \A v \in Threads : Builds(v, o) => v = u
      BY <3>1 DEF LifeInv
    <3>3. ~Builds(t, o) /\ ~Builds(t, o)'
      BY <2>2, <3>1, <3>2
    <3>4. QED
      BY <1>1, <3>1, <3>2, <3>3
  <2>3. QED
    BY <2>1, <2>2
<1>3. ASSUME NEW u \in Threads, NEW o \in Objects, Keeps(u, o)'
      PROVE  life'[o] = "alive"
  BY <1>1, <1>3 DEF LifeInv
<1>4. QED
  BY <1>2, <1>3 DEF LifeInv

(* The calls, and the steps of a thread.                                   *)
LEMMA ThreadLife ==
  ASSUME LockInv, LifeInv, NEW t \in Threads, Calls(t) \/ Step(t)
  PROVE  LifeInv'
<1> USE NoObjectAssumption
<1>1. /\ CallTypeOK /\ Script(t) /\ OthersStay(t)
      /\ life \in [Objects -> {"raw", "building", "alive"}]
  BY ThreadLock DEF LockInv, LifeInv
<1>2. ASSUME life' = life,
             \A o \in Objects : /\ Builds(t, o)' => Builds(t, o)
                                /\ Keeps(t, o)' => Keeps(t, o)
      PROVE  LifeInv'
  BY <1>1, <1>2, LifeStep DEF LifeInv
<1>3. ASSUME NEW place, Stay(t, place), life' = life
      PROVE  LifeInv'
  <2>1. op'[t] = op[t] /\ this'[t] = this[t] /\ other'[t] = other[t]
    BY <1>3 DEF Stay
  <2>2. QED
    BY <1>2, <1>3, <2>1 DEF Builds, Keeps
<1>4. ASSUME End(t)
      PROVE  \A o \in Objects : ~Builds(t, o)' /\ ~Keeps(t, o)'
  <2>1. op'[t] = "none"
    BY <1>1, <1>4, EndGives
  <2>2. QED
    BY <2>1 DEF Builds, Keeps
<1>5. CASE Calls(t)
  <2>1. ASSUME NEW o \in Objects, CreateTcpStreamToServer(t, o)
        PROVE  LifeInv'
    <3>1. op'[t] = "connect" /\ this'[t] = o
      BY <1>1, <2>1 DEF CreateTcpStreamToServer, Begin, CallTypeOK
    <3>2. life[o] = "raw" /\ life' = [life EXCEPT ![o] = "building"]
      BY <2>1 DEF CreateTcpStreamToServer
    <3>3. \A q \in Objects : (Builds(t, q)' => q = o) /\ ~Keeps(t, q)'
      BY <3>1 DEF Builds, Keeps
    <3>4. QED
      BY <1>1, <3>2, <3>3, LifeStep
  <2>2. ASSUME NEW o \in Objects, NEW p \in Objects, CreatePipe(t, o, p)
        PROVE  LifeInv'
    <3>1. op'[t] = "pipe" /\ this'[t] = o /\ other'[t] = p
      BY <1>1, <2>2 DEF CreatePipe, Begin, CallTypeOK
    <3>2. /\ life[o] = "raw" /\ life[p] = "raw"
          /\ life' = [life EXCEPT ![o] = "building", ![p] = "building"]
      BY <2>2 DEF CreatePipe
    <3>3. \A q \in Objects : (Builds(t, q)' => q \in {o, p}) /\ ~Keeps(t, q)'
      BY <3>1 DEF Builds, Keeps
    <3>4. QED
      BY <1>1, <3>2, <3>3, LifeStep
  <2>3. ASSUME NEW o \in Objects, NEW m, CallUse(t, m, o)
        PROVE  LifeInv'
    <3>1. op'[t] = "use" /\ this'[t] = o
      BY <1>1, <2>3 DEF CallUse, Begin, CallTypeOK
    <3>2. life[o] = "alive" /\ life' = life
      BY <2>3 DEF CallUse, objectVars
    <3>3. \A q \in Objects : (Keeps(t, q)' => q = o) /\ ~Builds(t, q)'
      BY <3>1 DEF Builds, Keeps
    <3>4. QED
      BY <1>1, <3>2, <3>3, LifeStep
  <2>4. ASSUME NEW o \in Objects, NEW s \in Objects, CallMoveConstruct(t, o, s)
        PROVE  LifeInv'
    <3>1. op'[t] = "construct" /\ this'[t] = o /\ other'[t] = s
      BY <1>1, <2>4 DEF CallMoveConstruct, Begin, CallTypeOK
    <3>2. /\ life[o] = "raw" /\ life[s] = "alive"
          /\ life' = [life EXCEPT ![o] = "building"]
      BY <2>4 DEF CallMoveConstruct
    <3>3. \A q \in Objects : /\ Builds(t, q)' => q = o
                             /\ Keeps(t, q)' => q = s
      BY <3>1 DEF Builds, Keeps
    <3>4. QED
      BY <1>1, <3>2, <3>3, LifeStep
  <2>5. ASSUME NEW o \in Objects, NEW s \in Objects, CallMoveAssign(t, o, s)
        PROVE  LifeInv'
    <3>1. op'[t] = "assign" /\ this'[t] = o /\ other'[t] = s
      BY <1>1, <2>5 DEF CallMoveAssign, Begin, CallTypeOK
    <3>2. life[o] = "alive" /\ life[s] = "alive" /\ life' = life
      BY <2>5 DEF CallMoveAssign, objectVars
    <3>3. \A q \in Objects : (Keeps(t, q)' => q \in {o, s}) /\ ~Builds(t, q)'
      BY <3>1 DEF Builds, Keeps
    <3>4. QED
      BY <1>1, <3>2, <3>3, LifeStep
  <2>6. QED
    BY <1>5, <2>1, <2>2, <2>3, <2>4, <2>5 DEF Calls
<1>6. CASE Connect(t) \/ Use(t) \/ CopyFd(t) \/ InvalidateFd(t)
  BY <1>3, <1>6 DEF Connect, Use, CopyFd, InvalidateFd, objectVars
<1>7. CASE Lock(t)
  BY <1>2, <1>7 DEF Lock, objectVars, Builds, Keeps
<1>8. CASE UseEnds(t)
  BY <1>2, <1>4, <1>8 DEF UseEnds, objectVars
<1>9. ASSUME NEW os \in SUBSET Objects, End(t),
             NEW to \in {"raw", "alive"},
             life' = [o \in Objects |-> IF o \in os THEN to ELSE life[o]],
             \A o \in os : Builds(t, o)
      PROVE  LifeInv'
  <2>1. \A o \in Objects : life'[o] = IF o \in os THEN to ELSE life[o]
    BY <1>9
  <2>2. \A o \in Objects : life[o] = "alive" => life'[o] = "alive"
    <3>1. \A o \in Objects : life[o] = "alive" => ~Builds(t, o)
      BY DEF LifeInv
    <3>2. QED
      BY <1>9, <2>1, <3>1
  <2>3. life' \in [Objects -> {"raw", "building", "alive"}]
    BY <1>1, <1>9
  <2>4. \A o \in Objects : life[o] = "building" =>
          life'[o] = "building" \/ Builds(t, o)
    BY <1>9, <2>1
  <2>5. QED
    BY <1>1, <1>4, <1>9, <2>2, <2>3, <2>4, LifeStep
<1>10. CASE ConnectFails(t)
  <2>1. pc[t] = "connect" /\ End(t) /\ Abandon({this[t]})
    BY <1>10 DEF ConnectFails
  <2>2. this[t] \in Objects /\ Builds(t, this[t])
    BY <1>1, <2>1 DEF Script, Idle, Connecting, Piping, Using, Constructing,
                      Assigning, Builds
  <2>3. life' = [o \in Objects |-> IF o \in {this[t]} THEN "raw" ELSE life[o]]
    BY <2>1 DEF Abandon
  <2>4. QED
    BY <1>9, <2>1, <2>2, <2>3
<1>11. ASSUME pc[t] \in {"eventfd", "eventfd2"}
       PROVE  /\ Connecting(t) \/ Piping(t)
              /\ \A o \in {this[t], other[t]} \cap Objects : Builds(t, o)
  BY <1>1, <1>11 DEF Script, Idle, Connecting, Piping, Using, Constructing,
                     Assigning, Builds
<1>12. CASE MakeEventFails(t)
  <2>1. /\ pc[t] = "eventfd" /\ End(t)
        /\ Abandon({this[t], other[t]} \cap Objects)
    BY <1>12 DEF MakeEventFails
  <2>2. life' = [o \in Objects |->
          IF o \in {this[t], other[t]} \cap Objects THEN "raw" ELSE life[o]]
    BY <2>1 DEF Abandon
  <2>3. QED
    BY <1>9, <1>11, <2>1, <2>2
<1>13. CASE MakeEvent2Fails(t)
  <2>1. /\ pc[t] = "eventfd2" /\ End(t)
        /\ life' = [life EXCEPT ![this[t]] = "raw", ![other[t]] = "raw"]
    BY <1>13 DEF MakeEvent2Fails
  <2>2. life' = [o \in Objects |->
          IF o \in {this[t], other[t]} \cap Objects THEN "raw" ELSE life[o]]
    BY <1>1, <2>1
  <2>3. QED
    BY <1>9, <1>11, <2>1, <2>2
<1>14. CASE MakeEvent(t)
  <2>1. pc[t] \in {"eventfd", "eventfd2"}
    BY <1>14 DEF MakeEvent
  <2>2. CASE pc[t] = "eventfd" /\ op[t] = "pipe"
    BY <1>3, <1>14, <2>2 DEF MakeEvent
  <2>3. CASE ~(pc[t] = "eventfd" /\ op[t] = "pipe")
    <3>1. /\ End(t)
          /\ life' = [o \in Objects |-> IF o \in {this[t], other[t]}
                                          THEN "alive" ELSE life[o]]
      BY <1>14, <2>3 DEF MakeEvent
    <3>2. life' = [o \in Objects |->
            IF o \in {this[t], other[t]} \cap Objects THEN "alive" ELSE life[o]]
      BY <3>1
    <3>3. QED
      BY <1>9, <1>11, <2>1, <3>1, <3>2
  <2>4. QED
    BY <2>2, <2>3
<1>15. CASE CopyEvent(t)
  <2>1. /\ pc[t] = "event" /\ End(t)
        /\ life' = [life EXCEPT ![this[t]] = "alive"]
    BY <1>15 DEF CopyEvent
  <2>2. this[t] \in Objects /\ (Builds(t, this[t]) \/ Keeps(t, this[t]))
    BY <1>1, <2>1 DEF Script, Idle, Connecting, Piping, Using, Constructing,
                      Assigning, Builds, Keeps
  <2>3. Builds(t, this[t]) \/ life[this[t]] = "alive"
    BY <2>2 DEF LifeInv
  <2>4. life' \in [Objects -> {"raw", "building", "alive"}]
    BY <1>1, <2>1
  <2>5. \A o \in Objects : life'[o] = IF o = this[t] THEN "alive" ELSE life[o]
    BY <1>1, <2>1
  <2>6. \A o \in Objects : life[o] = "building" =>
          life'[o] = "building" \/ Builds(t, o)
    BY <2>3, <2>5
  <2>7. QED
    BY <1>1, <1>4, <2>1, <2>4, <2>5, <2>6, LifeStep
<1>16. QED
  BY <1>5, <1>6, <1>7, <1>8, <1>10, <1>12, <1>13, <1>14, <1>15 DEF Step

(* Only an object that nobody uses is destroyed.                           *)
LEMMA DestroyLife ==
  ASSUME LockInv, LifeInv, NEW o \in Objects, Destroy(o)
  PROVE  LifeInv' /\ \A t \in Threads : ~Builds(t, o) /\ ~Keeps(t, o)
<1>1. /\ life[o] = "alive" /\ \A u \in Threads : ~Involved(u, o)
      /\ life' = [life EXCEPT ![o] = "raw"]
      /\ pc' = pc /\ op' = op /\ this' = this /\ other' = other
  BY DEF Destroy, callVars
<1>2. \A t \in Threads : pc[t] = "idle" => op[t] = "none"
  BY DEF LockInv, Script, Idle, Connecting, Piping, Using, Constructing,
         Assigning
<1>3. \A t \in Threads : ~Builds(t, o) /\ ~Keeps(t, o)
  BY <1>1, <1>2 DEF Involved, Builds, Keeps
<1>4. \A t \in Threads, q \in Objects :
        (Builds(t, q)' <=> Builds(t, q)) /\ (Keeps(t, q)' <=> Keeps(t, q))
  BY <1>1 DEF Builds, Keeps
<1>5. QED
  BY <1>1, <1>3, <1>4 DEF LifeInv

(* The second layer is inductive.                                          *)
LEMMA LifeNext == LockInv /\ LifeInv /\ [Next]_vars => LifeInv'
<1>1. ASSUME LifeInv, UNCHANGED vars PROVE LifeInv'
  BY <1>1 DEF LifeInv, Builds, Keeps, vars, objectVars, callVars
<1>2. QED
  BY <1>1, ThreadLife, DestroyLife DEF Next

(* It holds initially.                                                     *)
LEMMA InitLife == Init => LifeInv
BY DEF Init, LifeInv, Builds, Keeps

-----------------------------------------------------------------------------
(* The third layer.  A move that has its mutexes.                          *)
Locked(t) ==
  /\ op[t] \in {"construct", "assign"} /\ want[t] = << >>
  /\ \/ pc[t] \in {"lock", "invalidate"}
     \/ pc[t] = "event" /\ op[t] = "assign"

(* What such a move holds.                                                 *)
LEMMA LockedHolds ==
  ASSUME LockInv, NEW t \in Threads, Locked(t)
  PROVE  /\ this[t] \in Objects /\ other[t] \in Objects /\ this[t] # other[t]
         /\ Holds(t, <<"read", other[t]>>)
         /\ op[t] = "assign" => Holds(t, <<"read", this[t]>>)
<1>1. Constructing(t) \/ Assigning(t)
  BY DEF LockInv, Script, Idle, Connecting, Piping, Using, Locked
<1>2. CASE Constructing(t)
  <2>1. /\ this[t] \in Objects /\ other[t] \in Objects /\ this[t] # other[t]
        /\ op[t] = "construct" /\ HoldsBoth(t, other[t])
    BY <1>2 DEF Constructing, Locked
  <2>2. QED
    BY <2>1 DEF HoldsBoth
<1>3. CASE Assigning(t)
  <2>1. /\ this[t] \in Objects /\ other[t] \in Objects /\ this[t] # other[t]
        /\ HoldsBoth(t, this[t]) /\ HoldsBoth(t, other[t])
    BY <1>3 DEF Assigning, Locked
  <2>2. QED
    BY <2>1 DEF HoldsBoth
<1>4. QED
  BY <1>1, <1>2, <1>3

(* A thread between the two halves of a move is one.                       *)
LEMMA HandingIsLocked ==
  ASSUME LockInv, NEW t \in Threads, pc[t] = "invalidate"
  PROVE  Locked(t)
BY DEF LockInv, Script, Idle, Connecting, Piping, Using, Constructing,
       Assigning, Locked

(* Two such moves have no object in common.                                *)
LEMMA Apart ==
  ASSUME LockInv, LifeInv, NEW t \in Threads, NEW u \in Threads, t # u,
         Locked(t), Locked(u)
  PROVE  {this[t], other[t]} \cap {this[u], other[u]} = {}
<1>1. ASSUME NEW v \in Threads, Locked(v)
      PROVE  /\ this[v] \in Objects /\ other[v] \in Objects
             /\ op[v] = "construct" => Builds(v, this[v])
             /\ op[v] = "assign" => life[this[v]] = "alive"
             /\ life[other[v]] = "alive"
             /\ op[v] = "construct" => life[this[v]] = "building"
             /\ Holds(v, <<"read", other[v]>>)
             /\ op[v] = "assign" => Holds(v, <<"read", this[v]>>)
             /\ op[v] \in {"construct", "assign"}
  <2>1. /\ this[v] \in Objects /\ other[v] \in Objects
        /\ Holds(v, <<"read", other[v]>>)
        /\ op[v] = "assign" => Holds(v, <<"read", this[v]>>)
        /\ op[v] \in {"construct", "assign"}
    BY <1>1, LockedHolds DEF Locked
  <2>2. /\ op[v] = "construct" => Builds(v, this[v])
        /\ op[v] = "assign" => Keeps(v, this[v])
        /\ Keeps(v, other[v])
    BY <2>1 DEF Builds, Keeps
  <2>3. QED
    BY <2>1, <2>2 DEF LifeInv
<1>2. ASSUME NEW m, Holds(t, m), Holds(u, m)
      PROVE  FALSE
  <2>1. {t} = {u}
    BY <1>2 DEF Holds
  <2>2. QED
    BY <2>1
<1>3. /\ this[t] \in Objects /\ other[t] \in Objects
      /\ op[t] = "construct" => Builds(t, this[t])
      /\ op[t] = "assign" => life[this[t]] = "alive"
      /\ life[other[t]] = "alive"
      /\ op[t] = "construct" => life[this[t]] = "building"
      /\ Holds(t, <<"read", other[t]>>)
      /\ op[t] = "assign" => Holds(t, <<"read", this[t]>>)
      /\ op[t] \in {"construct", "assign"}
  BY <1>1
<1>4. /\ this[u] \in Objects /\ other[u] \in Objects
      /\ op[u] = "construct" => Builds(u, this[u])
      /\ op[u] = "assign" => life[this[u]] = "alive"
      /\ life[other[u]] = "alive"
      /\ op[u] = "construct" => life[this[u]] = "building"
      /\ Holds(u, <<"read", other[u]>>)
      /\ op[u] = "assign" => Holds(u, <<"read", this[u]>>)
      /\ op[u] \in {"construct", "assign"}
  BY <1>1
<1>5. other[t] # other[u]
  BY <1>2, <1>3, <1>4
<1>6. this[t] # other[u]
  <2>1. CASE op[t] = "assign"
    BY <1>2, <1>3, <1>4, <2>1
  <2>2. CASE op[t] = "construct"
    BY <1>3, <1>4, <2>2
  <2>3. QED
    BY <1>3, <2>1, <2>2
<1>7. other[t] # this[u]
  <2>1. CASE op[u] = "assign"
    BY <1>2, <1>3, <1>4, <2>1
  <2>2. CASE op[u] = "construct"
    BY <1>3, <1>4, <2>2
  <2>3. QED
    BY <1>4, <2>1, <2>2
<1>8. this[t] # this[u]
  <2>1. CASE op[t] = "assign" /\ op[u] = "assign"
    BY <1>2, <1>3, <1>4, <2>1
  <2>2. CASE op[t] = "construct" /\ op[u] = "construct"
    BY <1>3, <1>4, <2>2 DEF LifeInv
  <2>3. CASE op[t] # op[u]
    BY <1>3, <1>4, <2>3
  <2>4. QED
    BY <1>3, <1>4, <2>1, <2>2, <2>3
<1>9. QED
  BY <1>5, <1>6, <1>7, <1>8

(* Nor has an object that t builds anything to do with another's move.     *)
LEMMA BuildingApart ==
  ASSUME LockInv, LifeInv, NEW t \in Threads, NEW o \in Objects, Builds(t, o),
         NEW u \in Threads, u # t, Locked(u)
  PROVE  o \notin {this[u], other[u]}
<1>1. life[o] = "building" /\ ~Builds(u, o)
  BY DEF LifeInv
<1>2. ~Keeps(u, o)
  BY <1>1 DEF LifeInv
<1>3. op[u] \in {"construct", "assign"}
  BY DEF Locked
<1>4. QED
  BY <1>1, <1>2, <1>3 DEF Builds, Keeps

(* An object that no thread is handing over shares its socket with none.   *)
LEMMA Unshared ==
  ASSUME FdInv, NEW o \in Objects, fd[o] # Invalid,
         \A u \in Threads : pc[u] = "invalidate" => o \notin {this[u], other[u]}
  PROVE  \A p \in Objects \ {o} : fd[p] # fd[o]
BY DEF FdInv, SharedInAMove, HandsOver

(* The marker is no descriptor.                                            *)
LEMMA InvalidIsNoFd == Invalid \notin Fd
BY MaxFdAssumption DEF Invalid, Fd

(* What a thread that stays where it is knows of its descriptors.          *)
LEMMA MakingFrame ==
  ASSUME NEW u \in Threads, InTheMaking(u), pc'[u] = pc[u], op'[u] = op[u],
         this'[u] = this[u], other'[u] = other[u],
         op[u] \in {"connect", "pipe", "construct"} \/ pc[u] = "invalidate" =>
           fd'[this[u]] = fd[this[u]],
         op[u] = "pipe" \/ pc[u] = "invalidate" =>
           fd'[other[u]] = fd[other[u]]
  PROVE  InTheMaking(u)'
BY DEF InTheMaking

(* A step that changes no ownership.                                       *)
LEMMA FdFrame ==
  ASSUME FdInv, NEW t \in Threads, OthersStay(t), pc[t] # "invalidate",
         StoreTypeOK', fd' = fd, abandoned' = abandoned,
         terminated' = terminated, InTheMaking(t)',
         \A d \in Fd : (table'[d] = "socket") <=> (table[d] = "socket"),
         \A o \in Objects : life'[o] = "raw" => life[o] = "raw"
  PROVE  FdInv'
<1>1. \A o \in Objects : fd[o] \in Fd \cup {Invalid}
  BY DEF FdInv, StoreTypeOK
<1>2. abandoned \subseteq Fd
  BY DEF FdInv, StoreTypeOK
<1>3. \A u \in Threads, o, p \in Objects :
        HandsOver(u, o, p) => HandsOver(u, o, p)'
  BY DEF OthersStay, HandsOver
<1>4. \A u \in Threads : InTheMaking(u)'
  BY MakingFrame DEF FdInv, OthersStay
<1>5. RawOwnsNothing' /\ OwnedAreSockets'
  BY <1>1 DEF FdInv, RawOwnsNothing, OwnedAreSockets
<1>6. SharedInAMove'
  BY <1>3 DEF FdInv, SharedInAMove
<1>7. SocketsAccounted'
  BY <1>2 DEF FdInv, SocketsAccounted
<1>8. QED
  BY <1>4, <1>5, <1>6, <1>7 DEF FdInv

(* Objects o and p (or one object, if they are the same) get new sockets.  *)
LEMMA Gain ==
  ASSUME FdInv, StoreTypeOK', NEW o \in Objects, NEW p \in Objects,
         NEW d \in Fd, NEW e \in Fd, o = p <=> d = e,
         life[o] = "raw", life[p] = "raw",
         table[d] = "free", table[e] = "free",
         \A c \in Fd : table'[c] = IF c \in {d, e} THEN "socket" ELSE table[c],
         fd'[o] = d, fd'[p] = e,
         \A q \in Objects \ {o, p} : fd'[q] = fd[q],
         \A q \in Objects : life'[q] = "raw" => life[q] = "raw" /\ q \notin {o, p},
         abandoned' = abandoned, terminated' = terminated,
         \A u \in Threads, q, r \in Objects :
           HandsOver(u, q, r) => HandsOver(u, q, r)',
         \A u \in Threads : InTheMaking(u)'
  PROVE  FdInv'
<1>1. \A q \in Objects : fd[q] \in Fd \cup {Invalid}
  BY DEF FdInv, StoreTypeOK
<1>2. abandoned \subseteq Fd
  BY DEF FdInv, StoreTypeOK
<1>3. \A q \in Objects : fd[q] \notin {d, e}
  BY InvalidIsNoFd DEF FdInv, OwnedAreSockets
<1>4. fd[o] = Invalid /\ fd[p] = Invalid
  BY DEF FdInv, RawOwnsNothing
<1>5. RawOwnsNothing'
  BY DEF FdInv, RawOwnsNothing
<1>6. OwnedAreSockets'
  <2>1. ASSUME NEW q \in Objects, fd'[q] # Invalid
        PROVE  table'[fd'[q]] = "socket"
    <3>1. CASE q \in {o, p}
      BY <3>1
    <3>2. CASE q \notin {o, p}
      <4>1. fd'[q] = fd[q] /\ fd[q] \in Fd /\ table[fd[q]] = "socket"
        BY <1>1, <2>1, <3>2 DEF FdInv, OwnedAreSockets
      <4>2. QED
        BY <4>1
    <3>3. QED
      BY <3>1, <3>2
  <2>2. QED
    BY <2>1 DEF OwnedAreSockets
<1>7. SharedInAMove'
  <2>1. ASSUME NEW q \in Objects, NEW r \in Objects, q # r,
               fd'[q] = fd'[r], fd'[q] # Invalid
        PROVE  fd[q] = fd[r] /\ fd[q] # Invalid
    BY <1>3, <2>1
  <2>2. QED
    BY <2>1 DEF FdInv, SharedInAMove
<1>8. SocketsAccounted'
  <2>1. ASSUME NEW c \in Fd, table'[c] = "socket"
        PROVE  c \in abandoned' \/ \E q \in Objects : fd'[q] = c
    <3>1. CASE c \in {d, e}
      BY <3>1
    <3>2. CASE c \notin {d, e}
      <4>1. c \in abandoned \/ \E q \in Objects : fd[q] = c
        BY <2>1, <3>2 DEF FdInv, SocketsAccounted
      <4>2. \A q \in Objects : fd[q] = c => fd'[q] = c
        BY <1>4, InvalidIsNoFd
      <4>3. QED
        BY <4>1, <4>2
    <3>3. QED
      BY <3>1, <3>2
  <2>2. ASSUME NEW c \in abandoned'
        PROVE  table'[c] = "socket" /\ \A q \in Objects : fd'[q] # c
    <3>1. c \in Fd /\ table[c] = "socket" /\ \A q \in Objects : fd[q] # c
      BY <1>2, <2>2 DEF FdInv, SocketsAccounted
    <3>2. QED
      BY <3>1
  <2>3. QED
    BY <2>1, <2>2 DEF SocketsAccounted
<1>9. QED
  BY <1>5, <1>6, <1>7, <1>8 DEF FdInv

(* Objects give up sockets that they share with nobody; those of cl are    *)
(* closed and the others abandoned.                                        *)
LEMMA Drop ==
  ASSUME FdInv, StoreTypeOK', NEW os \in SUBSET Objects, NEW cl \in SUBSET os,
         \A o \in os : fd[o] # Invalid =>
                         \A p \in Objects \ {o} : fd[p] # fd[o],
         \A o \in os : fd'[o] = Invalid,
         \A o \in Objects \ os : fd'[o] = fd[o],
         \A d \in Fd : \/ /\ \E o \in cl : fd[o] = d
                          /\ table'[d] = "free"
                       \/ /\ \A o \in cl : fd[o] # d
                          /\ table'[d] = table[d],
         \A d \in Fd : d \in abandoned' <=>
                         d \in abandoned \/ \E o \in os \ cl : fd[o] = d,
         \A o \in Objects : life'[o] = "raw" => life[o] = "raw" \/ o \in os,
         terminated' = terminated,
         \A u \in Threads, q, r \in Objects :
           HandsOver(u, q, r) => HandsOver(u, q, r)',
         \A u \in Threads : InTheMaking(u)'
  PROVE  FdInv'
<1>1. \A q \in Objects : fd[q] \in Fd \cup {Invalid}
  BY DEF FdInv, StoreTypeOK
<1>2. abandoned' \subseteq Fd
  BY DEF StoreTypeOK
<1>3. RawOwnsNothing'
  BY DEF FdInv, RawOwnsNothing
<1>4. OwnedAreSockets'
  <2>1. ASSUME NEW q \in Objects, fd'[q] # Invalid
        PROVE  table'[fd'[q]] = "socket"
    <3>1. q \notin os /\ fd'[q] = fd[q]
      BY <2>1
    <3>2. fd[q] \in Fd /\ table[fd[q]] = "socket"
      BY <1>1, <2>1, <3>1 DEF FdInv, OwnedAreSockets
    <3>3. \A o \in cl : fd[o] # fd[q]
      BY <2>1, <3>1
    <3>4. QED
      BY <3>1, <3>2, <3>3
  <2>2. QED
    BY <2>1 DEF OwnedAreSockets
<1>5. SharedInAMove'
  BY DEF FdInv, SharedInAMove
<1>6. SocketsAccounted'
  <2>1. ASSUME NEW d \in Fd, table'[d] = "socket"
        PROVE  d \in abandoned' \/ \E q \in Objects : fd'[q] = d
    <3>1. table[d] = "socket" /\ \A o \in cl : fd[o] # d
      BY <2>1
    <3>2. d \in abandoned \/ \E q \in Objects : fd[q] = d
      BY <3>1 DEF FdInv, SocketsAccounted
    <3>3. ASSUME NEW q \in Objects, fd[q] = d
          PROVE  d \in abandoned' \/ fd'[q] = d
      BY <3>1, <3>3
    <3>4. QED
      BY <3>2, <3>3
  <2>2. ASSUME NEW d \in abandoned'
        PROVE  table'[d] = "socket" /\ \A q \in Objects : fd'[q] # d
    <3>1. d \in Fd /\ d # Invalid
      BY <1>2, InvalidIsNoFd
    <3>2. CASE d \in abandoned
      <4>1. table[d] = "socket" /\ \A q \in Objects : fd[q] # d
        BY <3>2 DEF FdInv, SocketsAccounted
      <4>2. table'[d] = "socket"
        BY <3>1, <4>1
      <4>3. QED
        BY <3>1, <4>1, <4>2
    <3>3. ASSUME NEW o \in os \ cl, fd[o] = d
          PROVE  table'[d] = "socket" /\ \A q \in Objects : fd'[q] # d
      <4>1. table[d] = "socket" /\ \A p \in Objects \ {o} : fd[p] # d
        BY <3>1, <3>3 DEF FdInv, OwnedAreSockets
      <4>2. table'[d] = "socket"
        BY <3>1, <4>1
      <4>3. ASSUME NEW q \in Objects PROVE fd'[q] # d
        BY <3>1, <4>1
      <4>4. QED
        BY <4>2, <4>3
    <3>4. QED
      BY <3>1, <3>2, <3>3
  <2>3. QED
    BY <2>1, <2>2 DEF SocketsAccounted
<1>7. QED
  BY <1>3, <1>4, <1>5, <1>6 DEF FdInv

(* A thread that stays keeps what it knows, if the objects that it builds  *)
(* or moves between keep their descriptors.                                *)
LEMMA MakingKept ==
  ASSUME LockInv, FdInv, NEW u \in Threads, pc'[u] = pc[u], op'[u] = op[u],
         this'[u] = this[u], other'[u] = other[u],
         \A q \in Objects :
           Builds(u, q) \/ (pc[u] = "invalidate" /\ q \in {this[u], other[u]})
             => fd'[q] = fd[q]
  PROVE  InTheMaking(u)'
<1>1. InTheMaking(u)
  BY DEF FdInv
<1>2. Script(u)
  BY DEF LockInv
<1>3. /\ op[u] \in {"connect", "pipe", "construct"} \/ pc[u] = "invalidate" =>
           this[u] \in Objects
      /\ op[u] = "pipe" \/ pc[u] = "invalidate" => other[u] \in Objects
  BY <1>2 DEF Script, Idle, Connecting, Piping, Using, Constructing, Assigning
<1>4. op[u] \in {"connect", "pipe", "construct"} \/ pc[u] = "invalidate" =>
        fd'[this[u]] = fd[this[u]]
  BY <1>3 DEF Builds
<1>5. op[u] = "pipe" \/ pc[u] = "invalidate" => fd'[other[u]] = fd[other[u]]
  BY <1>3 DEF Builds
<1>6. QED
  BY <1>1, <1>4, <1>5, MakingFrame

(* What a thread builds or moves between is not raw storage.               *)
LEMMA NotRaw ==
  ASSUME LockInv, LifeInv, NEW u \in Threads, NEW q \in Objects,
         Builds(u, q) \/ (pc[u] = "invalidate" /\ q \in {this[u], other[u]})
  PROVE  life[q] # "raw"
<1>1. CASE Builds(u, q)
  BY <1>1 DEF LifeInv
<1>2. CASE pc[u] = "invalidate" /\ q \in {this[u], other[u]}
  <2>1. op[u] \in {"construct", "assign"}
    BY <1>2, HandingIsLocked DEF Locked
  <2>2. Builds(u, q) \/ Keeps(u, q)
    BY <1>2, <2>1 DEF Builds, Keeps
  <2>3. QED
    BY <2>2 DEF LifeInv
<1>3. QED
  BY <1>1, <1>2

(* A call begins: StreamFactory makes sockets, the others leave them.      *)
LEMMA CallsFd ==
  ASSUME LockInv, LifeInv, FdInv, NEW t \in Threads, Calls(t)
  PROVE  FdInv'
<1>1. OthersStay(t) /\ LifeInv' /\ CallTypeOK
  BY ThreadLock, ThreadLife DEF LockInv
<1>2. pc[t] = "idle"
  BY DEF Calls, CreateTcpStreamToServer, CallUse, CreatePipe,
         CallMoveConstruct, CallMoveAssign, Begin
<1>3. \A u \in Threads, q, r \in Objects :
        HandsOver(u, q, r) => HandsOver(u, q, r)'
  BY <1>1, <1>2 DEF HandsOver, OthersStay
<1>4. StoreTypeOK /\ life' \in [Objects -> {"raw", "building", "alive"}]
  BY <1>1 DEF FdInv, LifeInv
<1>5. ASSUME NEW u \in Threads \ {t},
             \A q \in Objects : life[q] # "raw" => fd'[q] = fd[q]
      PROVE  InTheMaking(u)'
  <2>1. /\ pc'[u] = pc[u] /\ op'[u] = op[u]
        /\ this'[u] = this[u] /\ other'[u] = other[u]
    BY <1>1 DEF OthersStay
  <2>2. \A q \in Objects :
          Builds(u, q) \/ (pc[u] = "invalidate" /\ q \in {this[u], other[u]})
            => fd'[q] = fd[q]
    BY <1>5, NotRaw
  <2>3. QED
    BY <2>1, <2>2, MakingKept
<1>6. ASSUME NEW o \in Objects, CreateTcpStreamToServer(t, o)
      PROVE  FdInv'
  <2>1. PICK d \in Fd : /\ Lowest(d, Free)
                        /\ table' = [table EXCEPT ![d] = "socket"]
                        /\ fd' = [fd EXCEPT ![o] = d]
    BY <1>6 DEF CreateTcpStreamToServer
  <2>2. /\ life[o] = "raw" /\ life' = [life EXCEPT ![o] = "building"]
        /\ ev' = ev /\ abandoned' = abandoned /\ raced' = raced
        /\ terminated' = terminated
        /\ op'[t] = "connect" /\ pc'[t] = "connect" /\ this'[t] = o
    BY <1>1, <1>6 DEF CreateTcpStreamToServer, Begin, Goto, CallTypeOK
  <2>3. table[d] = "free"
    BY <2>1 DEF Lowest, Free
  <2>4. /\ \A c \in Fd : table'[c] = IF c \in {d} THEN "socket" ELSE table[c]
        /\ table' \in [Fd -> {"free", "socket", "event"}]
    BY <1>4, <2>1 DEF StoreTypeOK
  <2>5. /\ fd'[o] = d /\ \A q \in Objects \ {o} : fd'[q] = fd[q]
        /\ fd' \in [Objects -> Fd \cup {Invalid}]
    BY <1>4, <2>1 DEF StoreTypeOK
  <2>6. StoreTypeOK'
    BY <1>4, <2>2, <2>4, <2>5 DEF StoreTypeOK
  <2>7. InTheMaking(t)'
    BY <2>2, <2>5, InvalidIsNoFd DEF InTheMaking
  <2>8. \A u \in Threads : InTheMaking(u)'
    BY <1>5, <2>2, <2>5, <2>7
  <2>9. \A q \in Objects : life'[q] = "raw" => life[q] = "raw" /\ q # o
    BY <1>4, <2>2 DEF StoreTypeOK
  <2>10. QED
    BY <1>3, <2>2, <2>3, <2>4, <2>5, <2>6, <2>8, <2>9, Gain
<1>7. ASSUME NEW o \in Objects, NEW p \in Objects, CreatePipe(t, o, p)
      PROVE  FdInv'
  <2>1. PICK d \in Fd, e \in Fd :
          /\ Lowest(d, Free) /\ Lowest(e, Free \ {d})
          /\ table' = [table EXCEPT ![d] = "socket", ![e] = "socket"]
          /\ fd' = [fd EXCEPT ![o] = d, ![p] = e]
    BY <1>7 DEF CreatePipe
  <2>2. /\ o # p /\ life[o] = "raw" /\ life[p] = "raw"
        /\ life' = [life EXCEPT ![o] = "building", ![p] = "building"]
        /\ ev' = ev /\ abandoned' = abandoned /\ raced' = raced
        /\ terminated' = terminated
        /\ op'[t] = "pipe" /\ pc'[t] = "eventfd"
        /\ this'[t] = o /\ other'[t] = p
    BY <1>1, <1>7 DEF CreatePipe, Begin, Goto, CallTypeOK
  <2>3. table[d] = "free" /\ table[e] = "free" /\ d # e
    BY <2>1 DEF Lowest, Free
  <2>4. /\ \A c \in Fd : table'[c] = IF c \in {d, e} THEN "socket" ELSE table[c]
        /\ table' \in [Fd -> {"free", "socket", "event"}]
    BY <1>4, <2>1 DEF StoreTypeOK
  <2>5. /\ fd'[o] = d /\ fd'[p] = e
        /\ \A q \in Objects \ {o, p} : fd'[q] = fd[q]
        /\ fd' \in [Objects -> Fd \cup {Invalid}]
    BY <1>4, <2>1, <2>2 DEF StoreTypeOK
  <2>6. StoreTypeOK'
    BY <1>4, <2>2, <2>4, <2>5 DEF StoreTypeOK
  <2>7. InTheMaking(t)'
    BY <2>2, <2>5, InvalidIsNoFd DEF InTheMaking
  <2>8. \A u \in Threads : InTheMaking(u)'
    BY <1>5, <2>2, <2>5, <2>7
  <2>9. \A q \in Objects : life'[q] = "raw" => life[q] = "raw" /\ q \notin {o, p}
    BY <1>4, <2>2 DEF StoreTypeOK
  <2>10. /\ (o = p) <=> (d = e)
         /\ life[o] = "raw" /\ life[p] = "raw"
         /\ abandoned' = abandoned /\ terminated' = terminated
    BY <2>2, <2>3
  <2>11. QED
    BY <1>3, <2>3, <2>4, <2>5, <2>6, <2>8, <2>9, <2>10, Gain
<1>8. ASSUME UNCHANGED <<table, fd, ev, abandoned, raced, terminated>>,
             InTheMaking(t)', \A o \in Objects : life'[o] = "raw" => life[o] = "raw"
      PROVE  FdInv'
  <2>1. StoreTypeOK'
    BY <1>4, <1>8 DEF StoreTypeOK
  <2>2. QED
    BY <1>1, <1>2, <1>8, <2>1, FdFrame
<1>9. ASSUME NEW o \in Objects, NEW m, CallUse(t, m, o)
      PROVE  FdInv'
  <2>1. op'[t] = "use" /\ pc'[t] = "lock"
    BY <1>1, <1>9 DEF CallUse, Begin, Goto, CallTypeOK
  <2>2. QED
    BY <1>8, <1>9, <2>1 DEF CallUse, objectVars, InTheMaking
<1>10. ASSUME NEW o \in Objects, NEW s \in Objects, CallMoveConstruct(t, o, s)
       PROVE  FdInv'
  <2>1. op'[t] = "construct" /\ pc'[t] = "lock" /\ this'[t] = o
    BY <1>1, <1>10 DEF CallMoveConstruct, Begin, Goto, CallTypeOK
  <2>2. /\ life[o] = "raw" /\ life' = [life EXCEPT ![o] = "building"]
        /\ UNCHANGED <<table, fd, ev, abandoned, raced, terminated>>
    BY <1>10 DEF CallMoveConstruct
  <2>3. fd[o] = Invalid
    BY <2>2 DEF FdInv, RawOwnsNothing
  <2>4. InTheMaking(t)'
    BY <2>1, <2>2, <2>3 DEF InTheMaking
  <2>5. QED
    BY <1>4, <1>8, <2>2, <2>4 DEF StoreTypeOK
<1>11. ASSUME NEW o \in Objects, NEW s \in Objects, CallMoveAssign(t, o, s)
       PROVE  FdInv'
  <2>1. op'[t] = "assign" /\ pc'[t] = "lock"
    BY <1>1, <1>11 DEF CallMoveAssign, Begin, Goto, CallTypeOK
  <2>2. QED
    BY <1>8, <1>11, <2>1 DEF CallMoveAssign, objectVars, InTheMaking
<1>12. QED
  BY <1>6, <1>7, <1>9, <1>10, <1>11 DEF Calls

(* The steps that leave the descriptors where they are.                    *)
LEMMA QuietFd ==
  ASSUME LockInv, LifeInv, FdInv, NEW t \in Threads,
         \/ Connect(t) \/ Lock(t) \/ Use(t) \/ UseEnds(t) \/ CopyEvent(t)
         \/ MakeEvent(t)
  PROVE  FdInv'
<1>1. OthersStay(t) /\ LifeInv' /\ CallTypeOK /\ Script(t)
  BY ThreadLock, ThreadLife DEF LockInv, Step
<1>2. /\ StoreTypeOK /\ life' \in [Objects -> {"raw", "building", "alive"}]
      /\ InTheMaking(t)
  BY <1>1 DEF FdInv, LifeInv
<1>3. /\ fd' = fd /\ abandoned' = abandoned /\ terminated' = terminated
      /\ pc[t] # "invalidate" /\ raced' \in BOOLEAN
  BY <1>2 DEF Connect, Lock, Use, UseEnds, CopyEvent, MakeEvent, objectVars,
              StoreTypeOK
<1>4. ASSUME End(t) PROVE InTheMaking(t)'
  <2>1. pc'[t] = "idle" /\ op'[t] = "none"
    BY <1>1, <1>4, EndGives
  <2>2. QED
    BY <2>1 DEF InTheMaking
<1>5. ASSUME NEW place \in {"eventfd", "eventfd2", "use"}, Stay(t, place)
      PROVE  InTheMaking(t)'
  <2>1. /\ pc'[t] = place /\ op'[t] = op[t]
        /\ this'[t] = this[t] /\ other'[t] = other[t]
    BY <1>1, <1>5, StayGives DEF Places
  <2>2. QED
    BY <1>2, <1>3, <1>5, <2>1 DEF InTheMaking
<1>6. ASSUME UNCHANGED <<table, ev>>, InTheMaking(t)',
             \A o \in Objects : life'[o] = "raw" => life[o] = "raw"
      PROVE  FdInv'
  <2>1. StoreTypeOK'
    BY <1>2, <1>3, <1>6 DEF StoreTypeOK
  <2>2. QED
    BY <1>1, <1>3, <1>6, <2>1, FdFrame
<1>7. CASE Connect(t) \/ Use(t)
  BY <1>5, <1>6, <1>7 DEF Connect, Use, objectVars
<1>8. CASE UseEnds(t)
  BY <1>4, <1>6, <1>8 DEF UseEnds, objectVars
<1>9. CASE Lock(t)
  <2>1. InTheMaking(t)'
    BY <1>2, <1>3, <1>9 DEF Lock, InTheMaking
  <2>2. QED
    BY <1>6, <1>9, <2>1 DEF Lock, objectVars
<1>10. CASE CopyEvent(t)
  <2>1. pc[t] = "event" /\ End(t) /\ life' = [life EXCEPT ![this[t]] = "alive"]
    BY <1>10 DEF CopyEvent
  <2>2. this[t] \in Objects /\ other[t] \in Objects
    BY <1>1, <2>1 DEF Script, Idle, Connecting, Piping, Using, Constructing,
                      Assigning
  <2>3. ev' \in [Objects -> Fd \cup {Invalid}] /\ table' = table
    BY <1>2, <1>10, <2>2 DEF CopyEvent, StoreTypeOK
  <2>4. StoreTypeOK'
    BY <1>2, <1>3, <2>3 DEF StoreTypeOK
  <2>5. \A o \in Objects : life'[o] = "raw" => life[o] = "raw"
    BY <1>2, <2>1 DEF StoreTypeOK
  <2>6. QED
    BY <1>1, <1>3, <1>4, <2>1, <2>3, <2>4, <2>5, FdFrame
<1>11. CASE MakeEvent(t)
  <2>1. PICK d \in Fd : /\ Lowest(d, Free)
                        /\ table' = [table EXCEPT ![d] = "event"]
                        /\ ev' = [ev EXCEPT ![Target(t)] = d]
    BY <1>11 DEF MakeEvent
  <2>2. table[d] = "free"
    BY <2>1 DEF Lowest, Free
  <2>3. /\ table' \in [Fd -> {"free", "socket", "event"}]
        /\ \A c \in Fd : (table'[c] = "socket") <=> (table[c] = "socket")
    BY <1>2, <2>1, <2>2 DEF StoreTypeOK
  <2>4. ev' \in [Objects -> Fd \cup {Invalid}]
    BY <1>2, <2>1 DEF StoreTypeOK
  <2>5. StoreTypeOK'
    BY <1>2, <1>3, <2>3, <2>4 DEF StoreTypeOK
  <2>6. /\ Stay(t, "eventfd2") \/ End(t)
        /\ \/ life' = life
           \/ life' = [o \in Objects |-> IF o \in {this[t], other[t]}
                                           THEN "alive" ELSE life[o]]
    BY <1>11 DEF MakeEvent
  <2>7. \A o \in Objects : life'[o] = "raw" => life[o] = "raw"
    BY <2>6
  <2>8. InTheMaking(t)'
    BY <1>4, <1>5, <2>6
  <2>9. QED
    BY <1>1, <1>3, <2>3, <2>5, <2>7, <2>8, FdFrame
<1>12. QED
  BY <1>7, <1>8, <1>9, <1>10, <1>11

(* StreamFactory gives up.                                                 *)
LEMMA FailFd ==
  ASSUME LockInv, LifeInv, FdInv, NEW t \in Threads,
         ConnectFails(t) \/ MakeEventFails(t) \/ MakeEvent2Fails(t)
  PROVE  FdInv'
<1> USE NoObjectAssumption
<1>1. OthersStay(t) /\ LifeInv' /\ CallTypeOK /\ Script(t) /\ InTheMaking(t)
  BY ThreadLock, ThreadLife DEF LockInv, Step, FdInv
<1>2. /\ StoreTypeOK /\ life' \in [Objects -> {"raw", "building", "alive"}]
  BY <1>1 DEF FdInv, LifeInv
<1>3. /\ pc[t] \in {"connect", "eventfd", "eventfd2"} /\ End(t)
      /\ raced' = raced /\ terminated' = terminated
  BY DEF ConnectFails, MakeEventFails, MakeEvent2Fails
<1>4. /\ Connecting(t) \/ Piping(t)
      /\ pc[t] = "connect" => Connecting(t)
      /\ pc[t] = "eventfd2" => Piping(t)
  BY <1>1, <1>3 DEF Script, Idle, Connecting, Piping, Using, Constructing,
                    Assigning
<1>5. /\ this[t] \in Objects /\ Builds(t, this[t]) /\ fd[this[t]] # Invalid
      /\ Connecting(t) => other[t] \notin Objects
      /\ other[t] \in Objects =>
           Builds(t, other[t]) /\ fd[other[t]] # Invalid /\ this[t] # other[t]
  BY <1>1, <1>4 DEF Connecting, Piping, Builds, InTheMaking
<1>6. \A q \in Objects : fd[q] # Invalid => fd[q] \in Fd
  BY <1>2 DEF StoreTypeOK
<1>7. \A u \in Threads, q, r \in Objects :
        HandsOver(u, q, r) => HandsOver(u, q, r)'
  BY <1>1, <1>3 DEF HandsOver, OthersStay
<1>8. ASSUME NEW o \in Objects, Builds(t, o), NEW u \in Threads \ {t}
      PROVE  ~(Builds(u, o) \/ (pc[u] = "invalidate"
                                  /\ o \in {this[u], other[u]}))
  <2>1. ~Builds(u, o)
    BY <1>8 DEF LifeInv
  <2>2. pc[u] = "invalidate" => o \notin {this[u], other[u]}
    BY <1>8, BuildingApart, HandingIsLocked
  <2>3. QED
    BY <2>1, <2>2
<1>9. ASSUME NEW o \in Objects, Builds(t, o), fd[o] # Invalid
      PROVE  \A p \in Objects \ {o} : fd[p] # fd[o]
  <2>1. \A u \in Threads : pc[u] = "invalidate" => o \notin {this[u], other[u]}
    BY <1>3, <1>8, <1>9
  <2>2. QED
    BY <1>9, <2>1, Unshared
<1>10. ASSUME NEW os \in SUBSET Objects, \A o \in os : Builds(t, o),
              \A o \in Objects \ os : fd'[o] = fd[o]
       PROVE  \A u \in Threads : InTheMaking(u)'
  <2>1. InTheMaking(t)'
    <3>1. pc'[t] = "idle" /\ op'[t] = "none"
      BY <1>1, <1>3, EndGives
    <3>2. QED
      BY <3>1 DEF InTheMaking
  <2>2. ASSUME NEW u \in Threads \ {t}
        PROVE  InTheMaking(u)'
    <3>1. /\ pc'[u] = pc[u] /\ op'[u] = op[u]
          /\ this'[u] = this[u] /\ other'[u] = other[u]
      BY <1>1 DEF OthersStay
    <3>2. ASSUME NEW q \in Objects,
                 Builds(u, q)
                   \/ (pc[u] = "invalidate" /\ q \in {this[u], other[u]})
          PROVE  fd'[q] = fd[q]
      <4>1. ~Builds(t, q)
        BY <1>8, <3>2
      <4>2. QED
        BY <1>10, <4>1
    <3>3. QED
      BY <3>1, <3>2, MakingKept
  <2>3. QED
    BY <2>1, <2>2
<1>11. ASSUME NEW os \in SUBSET Objects, Abandon(os), table' = table, ev' = ev,
              \A o \in os : Builds(t, o) /\ fd[o] # Invalid
       PROVE  FdInv'
  <2>1. /\ \A o \in os : fd'[o] = Invalid
        /\ \A o \in Objects \ os : fd'[o] = fd[o]
        /\ fd' \in [Objects -> Fd \cup {Invalid}]
    BY <1>2, <1>11 DEF Abandon, StoreTypeOK
  <2>2. \A d : d \in abandoned' <=> d \in abandoned \/ \E o \in os : fd[o] = d
    BY <1>11 DEF Abandon
  <2>3. abandoned' \subseteq Fd
    BY <1>2, <1>6, <1>11, <2>2 DEF StoreTypeOK
  <2>4. StoreTypeOK'
    BY <1>2, <1>3, <1>11, <2>1, <2>3 DEF StoreTypeOK
  <2>5. \A o \in Objects : life'[o] = "raw" => life[o] = "raw" \/ o \in os
    BY <1>11 DEF Abandon
  <2>6. \A u \in Threads : InTheMaking(u)'
    BY <1>10, <1>11, <2>1
  <2>7. PICK cl \in SUBSET os : cl = {}
    OBVIOUS
  <2>8. \A o \in os : fd[o] # Invalid => \A p \in Objects \ {o} : fd[p] # fd[o]
    BY <1>9, <1>11
  <2>9. \A d \in Fd : \/ /\ \E o \in cl : fd[o] = d
                         /\ table'[d] = "free"
                      \/ /\ \A o \in cl : fd[o] # d
                         /\ table'[d] = table[d]
    BY <1>11, <2>7
  <2>10. \A d \in Fd : d \in abandoned' <=>
                         d \in abandoned \/ \E o \in os \ cl : fd[o] = d
    BY <2>2, <2>7
  <2>11. QED
    BY <1>3, <1>7, <2>1, <2>4, <2>5, <2>6, <2>7, <2>8, <2>9, <2>10, Drop
<1>12. CASE ConnectFails(t)
  BY <1>5, <1>11, <1>12 DEF ConnectFails
<1>13. CASE MakeEventFails(t)
  BY <1>5, <1>11, <1>13 DEF MakeEventFails
<1>14. CASE MakeEvent2Fails(t)
  <2>1. /\ pc[t] = "eventfd2"
        /\ abandoned' = abandoned \cup {fd[other[t]]}
        /\ fd' = [fd EXCEPT ![this[t]] = Invalid, ![other[t]] = Invalid]
        /\ ev' = [ev EXCEPT ![this[t]] = Invalid]
        /\ life' = [life EXCEPT ![this[t]] = "raw", ![other[t]] = "raw"]
        /\ table' = [table EXCEPT ![fd[this[t]]] = "free"]
    BY <1>14 DEF MakeEvent2Fails
  <2>2. other[t] \in Objects
    BY <1>4, <2>1 DEF Piping
  <2>3. PICK o \in Objects : o = this[t]
    BY <1>5
  <2>4. PICK p \in Objects : p = other[t]
    BY <2>2
  <2>5. /\ Builds(t, o) /\ Builds(t, p) /\ o # p
        /\ fd[o] # Invalid /\ fd[p] # Invalid /\ fd[o] \in Fd /\ fd[p] \in Fd
    BY <1>5, <1>6, <2>2, <2>3, <2>4
  <2>6. /\ fd'[o] = Invalid /\ fd'[p] = Invalid
        /\ \A q \in Objects \ {o, p} : fd'[q] = fd[q]
        /\ fd' \in [Objects -> Fd \cup {Invalid}]
        /\ ev' \in [Objects -> Fd \cup {Invalid}]
    BY <1>2, <2>1, <2>3, <2>4 DEF StoreTypeOK
  <2>7. /\ \A d \in Fd : table'[d] = IF d = fd[o] THEN "free" ELSE table[d]
        /\ table' \in [Fd -> {"free", "socket", "event"}]
    BY <1>2, <2>1, <2>3, <2>5 DEF StoreTypeOK
  <2>8. abandoned' = abandoned \cup {fd[p]}
    BY <2>1, <2>4
  <2>9. StoreTypeOK'
    BY <1>2, <1>3, <2>5, <2>6, <2>7, <2>8 DEF StoreTypeOK
  <2>10. \A q \in Objects : life'[q] = "raw" => life[q] = "raw" \/ q \in {o, p}
    BY <1>2, <2>1, <2>3, <2>4 DEF StoreTypeOK
  <2>11. \A u \in Threads : InTheMaking(u)'
    <3>1. {o, p} \in SUBSET Objects /\ \A q \in {o, p} : Builds(t, q)
      BY <2>5
    <3>2. QED
      BY <1>10, <2>6, <3>1
  <2>12. PICK os \in SUBSET Objects : os = {o, p}
    BY <2>3, <2>4
  <2>13. PICK cl \in SUBSET os : cl = {o}
    BY <2>12
  <2>14. \A q \in os : fd[q] # Invalid =>
                         \A r \in Objects \ {q} : fd[r] # fd[q]
    BY <1>9, <2>5, <2>12
  <2>15. /\ \A q \in os : fd'[q] = Invalid
         /\ \A q \in Objects \ os : fd'[q] = fd[q]
         /\ \A q \in Objects : life'[q] = "raw" => life[q] = "raw" \/ q \in os
    BY <2>6, <2>10, <2>12
  <2>16. \A d \in Fd : \/ /\ \E q \in cl : fd[q] = d
                          /\ table'[d] = "free"
                       \/ /\ \A q \in cl : fd[q] # d
                          /\ table'[d] = table[d]
    BY <2>7, <2>13
  <2>17. \A d \in Fd : d \in abandoned' <=>
                         d \in abandoned \/ \E q \in os \ cl : fd[q] = d
    BY <2>5, <2>8, <2>12, <2>13
  <2>18. QED
    BY <1>3, <1>7, <2>9, <2>11, <2>14, <2>15, <2>16, <2>17, Drop
<1>15. QED
  BY <1>12, <1>13, <1>14

(* A move: between its two halves, the descriptor has two owners.          *)
LEMMA MoveFd ==
  ASSUME LockInv, LifeInv, FdInv, NEW t \in Threads, CopyFd(t) \/ InvalidateFd(t)
  PROVE  FdInv'
<1>1. OthersStay(t) /\ LifeInv' /\ CallTypeOK /\ Script(t) /\ InTheMaking(t)
  BY ThreadLock, ThreadLife DEF LockInv, Step, FdInv
<1>2. /\ StoreTypeOK /\ life' \in [Objects -> {"raw", "building", "alive"}]
  BY <1>1 DEF FdInv, LifeInv
<1>3. Locked(t)
  BY HandingIsLocked DEF CopyFd, InvalidateFd, Locked
<1>4. PICK a \in Objects : a = this[t]
  BY <1>3, LockedHolds
<1>5. PICK b \in Objects : b = other[t]
  BY <1>3, LockedHolds
<1>6. a # b
  BY <1>3, <1>4, <1>5, LockedHolds
<1>7. ASSUME NEW u \in Threads \ {t}, pc[u] = "invalidate"
      PROVE  a \notin {this[u], other[u]} /\ b \notin {this[u], other[u]}
  BY <1>3, <1>4, <1>5, <1>7, Apart, HandingIsLocked
<1>8. /\ life[a] # "raw" /\ life[b] # "raw"
      /\ \A u \in Threads \ {t} : ~Builds(u, a) /\ ~Builds(u, b)
  <2>1. op[t] \in {"construct", "assign"}
    BY <1>3 DEF Locked
  <2>2. Keeps(t, b) /\ (Builds(t, a) \/ Keeps(t, a))
    BY <1>4, <1>5, <2>1 DEF Builds, Keeps
  <2>3. life[b] = "alive"
    BY <2>2 DEF LifeInv
  <2>4. CASE Builds(t, a)
    BY <2>3, <2>4 DEF LifeInv
  <2>5. CASE Keeps(t, a)
    <3>1. life[a] = "alive"
      BY <2>5 DEF LifeInv
    <3>2. QED
      BY <2>3, <3>1 DEF LifeInv
  <2>6. QED
    BY <2>2, <2>4, <2>5
<1>9. \A q \in Objects : fd[q] \in Fd \cup {Invalid}
  BY <1>2 DEF StoreTypeOK
<1>10. ASSUME \A q \in Objects \ {a, b} : fd'[q] = fd[q], InTheMaking(t)'
       PROVE  \A u \in Threads : InTheMaking(u)'
  <2>1. ASSUME NEW u \in Threads \ {t}
        PROVE  InTheMaking(u)'
    <3>1. /\ pc'[u] = pc[u] /\ op'[u] = op[u]
          /\ this'[u] = this[u] /\ other'[u] = other[u]
      BY <1>1 DEF OthersStay
    <3>2. \A q \in Objects :
            Builds(u, q) \/ (pc[u] = "invalidate" /\ q \in {this[u], other[u]})
              => fd'[q] = fd[q]
      BY <1>7, <1>8, <1>10
    <3>3. QED
      BY <3>1, <3>2, MakingKept
  <2>2. QED
    BY <1>10, <2>1
<1>11. \A u \in Threads \ {t}, q, r \in Objects :
         HandsOver(u, q, r) => HandsOver(u, q, r)'
  BY <1>1 DEF HandsOver, OthersStay
<1>12. CASE CopyFd(t)
  <2>1. /\ pc[t] = "lock" /\ op[t] \in {"construct", "assign"}
        /\ fd' = [fd EXCEPT ![a] = fd[b]]
        /\ abandoned' = abandoned \cup ({fd[a]} \ {Invalid})
        /\ Stay(t, "invalidate")
        /\ UNCHANGED <<table, life, ev, raced, terminated>>
    BY <1>4, <1>5, <1>12 DEF CopyFd
  <2>2. /\ pc'[t] = "invalidate" /\ op'[t] = op[t]
        /\ this'[t] = a /\ other'[t] = b
    BY <1>1, <1>4, <1>5, <2>1, StayGives DEF Places
  <2>3. /\ fd'[a] = fd[b] /\ \A q \in Objects \ {a} : fd'[q] = fd[q]
        /\ fd' \in [Objects -> Fd \cup {Invalid}]
    BY <1>2, <2>1 DEF StoreTypeOK
  <2>4. StoreTypeOK'
    BY <1>2, <1>9, <2>1, <2>3 DEF StoreTypeOK
  <2>5. InTheMaking(t)'
    BY <1>6, <2>1, <2>2, <2>3 DEF InTheMaking
  <2>6. \A u \in Threads : InTheMaking(u)'
    BY <1>10, <2>3, <2>5
  <2>7. RawOwnsNothing' /\ OwnedAreSockets'
    BY <1>8, <2>1, <2>3 DEF FdInv, RawOwnsNothing, OwnedAreSockets
  <2>8. \A u \in Threads : pc[u] = "invalidate" =>
          a \notin {this[u], other[u]} /\ b \notin {this[u], other[u]}
    BY <1>7, <2>1
  <2>9. /\ fd[a] # Invalid => \A p \in Objects \ {a} : fd[p] # fd[a]
        /\ fd[b] # Invalid => \A p \in Objects \ {b} : fd[p] # fd[b]
    BY <2>8, Unshared
  <2>10. HandsOver(t, b, a)'
    BY <2>2 DEF HandsOver
  <2>11. \A u \in Threads, q, r \in Objects :
           HandsOver(u, q, r) => HandsOver(u, q, r)'
    BY <1>11, <2>1 DEF HandsOver
  <2>12. ASSUME NEW q \in Objects, NEW r \in Objects, q # r,
                fd'[q] = fd'[r], fd'[q] # Invalid
         PROVE  \E u \in Threads : HandsOver(u, q, r)' \/ HandsOver(u, r, q)'
    <3>1. CASE q # a /\ r # a
      <4>1. fd[q] = fd[r] /\ fd[q] # Invalid
        BY <2>3, <2>12, <3>1
      <4>2. QED
        BY <2>11, <2>12, <4>1 DEF FdInv, SharedInAMove
    <3>2. CASE q = a
      <4>1. r = b
        BY <2>3, <2>9, <2>12, <3>2
      <4>2. QED
        BY <2>10, <3>2, <4>1
    <3>3. CASE r = a
      <4>1. q = b
        BY <2>3, <2>9, <2>12, <3>3
      <4>2. QED
        BY <2>10, <3>3, <4>1
    <3>4. QED
      BY <3>1, <3>2, <3>3
  <2>13. SharedInAMove'
    BY <2>12 DEF SharedInAMove
  <2>14. SocketsAccounted'
    <3>1. ASSUME NEW d \in Fd, table'[d] = "socket"
          PROVE  d \in abandoned' \/ \E q \in Objects : fd'[q] = d
      <4>1. d \in abandoned \/ \E q \in Objects : fd[q] = d
        BY <2>1, <3>1 DEF FdInv, SocketsAccounted
      <4>2. fd[a] = d => d \in abandoned'
        BY <2>1, InvalidIsNoFd
      <4>3. QED
        BY <2>1, <2>3, <4>1, <4>2
    <3>2. ASSUME NEW d \in abandoned'
          PROVE  table'[d] = "socket" /\ \A q \in Objects : fd'[q] # d
      <4>1. CASE d \in abandoned
        BY <2>1, <2>3, <4>1 DEF FdInv, SocketsAccounted
      <4>2. CASE d = fd[a] /\ d # Invalid
        <5>1. table'[d] = "socket"
          BY <2>1, <4>2 DEF FdInv, OwnedAreSockets
        <5>2. \A q \in Objects \ {a} : fd[q] # d
          BY <2>9, <4>2
        <5>3. QED
          BY <1>6, <2>3, <5>1, <5>2
      <4>3. QED
        BY <2>1, <3>2, <4>1, <4>2
    <3>3. QED
      BY <3>1, <3>2 DEF SocketsAccounted
  <2>15. QED
    BY <2>1, <2>4, <2>6, <2>7, <2>13, <2>14 DEF FdInv
<1>13. CASE InvalidateFd(t)
  <2>1. /\ pc[t] = "invalidate" /\ fd' = [fd EXCEPT ![b] = Invalid]
        /\ Stay(t, "event")
        /\ UNCHANGED <<table, life, ev, abandoned, raced, terminated>>
    BY <1>5, <1>13 DEF InvalidateFd
  <2>2. pc'[t] = "event" /\ op'[t] = op[t] /\ op[t] \in {"construct", "assign"}
    BY <1>1, <1>3, <2>1, StayGives DEF Places, Locked
  <2>3. /\ fd'[b] = Invalid /\ \A q \in Objects \ {b} : fd'[q] = fd[q]
        /\ fd' \in [Objects -> Fd \cup {Invalid}]
    BY <1>2, <2>1 DEF StoreTypeOK
  <2>4. StoreTypeOK'
    BY <1>2, <2>1, <2>3 DEF StoreTypeOK
  <2>5. InTheMaking(t)'
    BY <2>2 DEF InTheMaking
  <2>6. \A u \in Threads : InTheMaking(u)'
    BY <1>10, <2>3, <2>5
  <2>7. RawOwnsNothing' /\ OwnedAreSockets'
    BY <2>1, <2>3 DEF FdInv, RawOwnsNothing, OwnedAreSockets
  <2>8. ASSUME NEW q \in Objects, NEW r \in Objects, q # r,
               fd'[q] = fd'[r], fd'[q] # Invalid
        PROVE  \E u \in Threads : HandsOver(u, q, r)' \/ HandsOver(u, r, q)'
    <3>1. q # b /\ r # b
      BY <2>3, <2>8
    <3>2. fd[q] = fd[r] /\ fd[q] # Invalid
      BY <2>3, <2>8, <3>1
    <3>3. PICK u \in Threads : HandsOver(u, q, r) \/ HandsOver(u, r, q)
      BY <2>8, <3>2 DEF FdInv, SharedInAMove
    <3>4. u # t
      BY <1>5, <3>1, <3>3 DEF HandsOver
    <3>5. QED
      BY <1>11, <3>3, <3>4
  <2>9. SharedInAMove'
    BY <2>8 DEF SharedInAMove
  <2>10. fd[a] = fd[b]
    BY <1>1, <1>4, <1>5, <2>1 DEF InTheMaking
  <2>11. SocketsAccounted'
    <3>1. ASSUME NEW d \in Fd, table'[d] = "socket"
          PROVE  d \in abandoned' \/ \E q \in Objects : fd'[q] = d
      <4>1. d \in abandoned \/ \E q \in Objects \ {b} : fd[q] = d
        BY <1>6, <2>1, <2>10, <3>1 DEF FdInv, SocketsAccounted
      <4>2. QED
        BY <2>1, <2>3, <4>1
    <3>2. ASSUME NEW d \in abandoned'
          PROVE  table'[d] = "socket" /\ \A q \in Objects : fd'[q] # d
      <4>1. d \in Fd /\ d \in abandoned
        BY <2>1, <2>4, <3>2 DEF StoreTypeOK
      <4>2. QED
        BY <2>1, <2>3, <4>1, InvalidIsNoFd DEF FdInv, SocketsAccounted
    <3>3. QED
      BY <3>1, <3>2 DEF SocketsAccounted
  <2>12. QED
    BY <2>1, <2>4, <2>6, <2>7, <2>9, <2>11 DEF FdInv
<1>14. QED
  BY <1>12, <1>13

(* ~Stream closes the one socket of an object that nobody uses.            *)
LEMMA DestroyFd ==
  ASSUME LockInv, LifeInv, FdInv, NEW o \in Objects, Destroy(o)
  PROVE  FdInv'
<1>1. /\ LifeInv' /\ StoreTypeOK /\ ~terminated /\ life[o] = "alive"
      /\ \A u \in Threads : ~Builds(u, o) /\ ~Keeps(u, o) /\ ~Involved(u, o)
  BY DestroyLife DEF FdInv, Destroy
<1>2. /\ life' = [life EXCEPT ![o] = "raw"]
      /\ fd' = [fd EXCEPT ![o] = Invalid] /\ ev' = [ev EXCEPT ![o] = Invalid]
      /\ abandoned' = abandoned /\ raced' = raced
      /\ pc' = pc /\ op' = op /\ this' = this /\ other' = other
  BY DEF Destroy, callVars
<1>3. \A u \in Threads : pc[u] = "invalidate" => o \notin {this[u], other[u]}
  BY <1>1 DEF Involved
<1>4. fd[o] # Invalid =>
        /\ \A p \in Objects \ {o} : fd[p] # fd[o]
        /\ fd[o] \in Fd /\ table[fd[o]] = "socket"
  <2>1. fd[o] # Invalid => \A p \in Objects \ {o} : fd[p] # fd[o]
    BY <1>3, Unshared
  <2>2. fd[o] # Invalid => fd[o] \in Fd /\ table[fd[o]] = "socket"
    BY <1>1 DEF StoreTypeOK, FdInv, OwnedAreSockets
  <2>3. QED
    BY <2>1, <2>2
<1>5. /\ terminated' = terminated
      /\ fd[o] = Invalid => table' = table
      /\ fd[o] # Invalid => table' = [table EXCEPT ![fd[o]] = "free"]
  BY <1>4 DEF Destroy
<1>6. /\ fd'[o] = Invalid /\ \A q \in Objects \ {o} : fd'[q] = fd[q]
      /\ fd' \in [Objects -> Fd \cup {Invalid}]
      /\ ev' \in [Objects -> Fd \cup {Invalid}]
      /\ life' \in [Objects -> {"raw", "building", "alive"}]
  BY <1>1, <1>2 DEF StoreTypeOK
<1>7. /\ table' \in [Fd -> {"free", "socket", "event"}]
      /\ \A d \in Fd : table'[d] = IF d = fd[o] THEN "free" ELSE table[d]
  <2>1. CASE fd[o] = Invalid
    BY <1>1, <1>5, <2>1, InvalidIsNoFd DEF StoreTypeOK
  <2>2. CASE fd[o] # Invalid
    BY <1>1, <1>4, <1>5, <2>2 DEF StoreTypeOK
  <2>3. QED
    BY <2>1, <2>2
<1>8. StoreTypeOK'
  BY <1>1, <1>2, <1>5, <1>6, <1>7 DEF StoreTypeOK
<1>9. ASSUME NEW u \in Threads
      PROVE  InTheMaking(u)'
  <2>1. \A q \in Objects :
          Builds(u, q) \/ (pc[u] = "invalidate" /\ q \in {this[u], other[u]})
            => fd'[q] = fd[q]
    BY <1>1, <1>3, <1>6
  <2>2. QED
    BY <1>2, <2>1, MakingKept
<1>10. \A u \in Threads, q, r \in Objects :
         HandsOver(u, q, r) => HandsOver(u, q, r)'
  BY <1>2 DEF HandsOver
<1>11. /\ {o} \in SUBSET Objects /\ {o} \in SUBSET {o}
       /\ \A q \in {o} : fd[q] # Invalid =>
                           \A p \in Objects \ {q} : fd[p] # fd[q]
       /\ \A q \in {o} : fd'[q] = Invalid
       /\ \A q \in Objects \ {o} : fd'[q] = fd[q]
  BY <1>4, <1>6
<1>12. \A d \in Fd : \/ /\ \E q \in {o} : fd[q] = d
                        /\ table'[d] = "free"
                     \/ /\ \A q \in {o} : fd[q] # d
                        /\ table'[d] = table[d]
  BY <1>7
<1>13. \A d \in Fd : d \in abandoned' <=>
                       d \in abandoned \/ \E q \in {o} \ {o} : fd[q] = d
  BY <1>2
<1>14. \A q \in Objects : life'[q] = "raw" => life[q] = "raw" \/ q \in {o}
  BY <1>1, <1>2 DEF StoreTypeOK
<1>15. QED
  BY <1>5, <1>8, <1>9, <1>10, <1>11, <1>12, <1>13, <1>14, Drop

(* The third layer is inductive.                                           *)
LEMMA FdNext == LockInv /\ LifeInv /\ FdInv /\ [Next]_vars => FdInv'
<1>1. ASSUME FdInv, UNCHANGED vars PROVE FdInv'
  <2>1. /\ fd' = fd /\ table' = table /\ life' = life /\ ev' = ev
        /\ abandoned' = abandoned /\ raced' = raced /\ terminated' = terminated
        /\ pc' = pc /\ op' = op /\ this' = this /\ other' = other
    BY <1>1 DEF vars, objectVars, callVars
  <2>2. /\ StoreTypeOK' /\ ~terminated' /\ RawOwnsNothing' /\ OwnedAreSockets'
        /\ SocketsAccounted'
    BY <1>1, <2>1 DEF FdInv, StoreTypeOK, RawOwnsNothing, OwnedAreSockets,
                      SocketsAccounted
  <2>3. SharedInAMove'
    BY <1>1, <2>1 DEF FdInv, SharedInAMove, HandsOver
  <2>4. \A t \in Threads : InTheMaking(t)'
    BY <1>1, <2>1 DEF FdInv, InTheMaking
  <2>5. QED
    BY <2>2, <2>3, <2>4 DEF FdInv
<1>2. ASSUME LockInv, LifeInv, FdInv, NEW t \in Threads, Calls(t) \/ Step(t)
      PROVE  FdInv'
  BY <1>2, CallsFd, QuietFd, FailFd, MoveFd DEF Step
<1>3. QED
  BY <1>1, <1>2, DestroyFd DEF Next

(* It holds initially.                                                     *)
LEMMA InitFd == Init => FdInv
<1> SUFFICES ASSUME Init PROVE FdInv
  OBVIOUS
<1>1. StoreTypeOK /\ ~terminated
  BY DEF Init, StoreTypeOK
<1>2. RawOwnsNothing /\ OwnedAreSockets /\ SharedInAMove /\ SocketsAccounted
  BY DEF Init, RawOwnsNothing, OwnedAreSockets, SharedInAMove, SocketsAccounted
<1>3. \A t \in Threads : InTheMaking(t)
  BY DEF Init, InTheMaking
<1>4. QED
  BY <1>1, <1>2, <1>3 DEF FdInv

(* The three layers are an invariant.                                      *)
LEMMA OwnershipInvariant == Spec => [](LockInv /\ LifeInv /\ FdInv)
BY InitLock, LockNext, InitLife, LifeNext, InitFd, FdNext, PTL DEF Spec

(* The descriptor table, the objects, the mutexes and what each thread     *)
(* remembers of its operation always have their types.                     *)
THEOREM TypeCorrect == Spec => []TypeOK
<1>1. LockInv /\ FdInv => TypeOK
  <2> SUFFICES ASSUME LockInv, FdInv PROVE TypeOK
    OBVIOUS
  <2>1. holder \in [Mutexes -> SUBSET Threads]
    <3>1. {{}} \cup {{t} : t \in Threads} \subseteq SUBSET Threads
      OBVIOUS
    <3>2. QED
      BY <3>1 DEF LockInv, MutexOK
  <2>2. QED
    BY <2>1 DEF LockInv, FdInv, CallTypeOK, StoreTypeOK, TypeOK, Places
<1>2. QED
  BY <1>1, OwnershipInvariant, PTL

(* However many threads construct, assign, use and destroy Streams, no two *)
(* own one descriptor outside the two halves of a move, each descriptor    *)
(* owned is an open socket, and ~Stream never terminates the process.      *)
THEOREM OwnersAreSingle == Spec => []SingleOwner
<1>1. FdInv => SingleOwner
  BY DEF FdInv, OwnedAreSockets, SharedInAMove, SingleOwner, Live
<1>2. QED
  BY <1>1, OwnershipInvariant, PTL

(* Every open socket is owned by a Stream, or was overwritten by a move    *)
(* assignment or left behind by a failed creation.                         *)
THEOREM NoSocketIsLost == Spec => []NothingLost
<1>1. FdInv => NothingLost
  <2> SUFFICES ASSUME FdInv PROVE NothingLost
    OBVIOUS
  <2>1. ASSUME NEW d \in Fd, table[d] = "socket", d \notin abandoned
        PROVE  d \in {fd[o] : o \in Live}
    <3>1. PICK o \in Objects : fd[o] = d
      BY <2>1 DEF FdInv, SocketsAccounted
    <3>2. life[o] # "raw"
      BY <3>1, InvalidIsNoFd DEF FdInv, RawOwnsNothing
    <3>3. QED
      BY <3>1, <3>2 DEF Live
  <2>2. ASSUME NEW d \in abandoned
        PROVE  table[d] = "socket" /\ d \notin {fd[o] : o \in Live}
    BY <2>2 DEF FdInv, SocketsAccounted, Live
  <2>3. QED
    BY <2>1, <2>2 DEF NothingLost
<1>2. QED
  BY <1>1, OwnershipInvariant, PTL

-----------------------------------------------------------------------------
(* The fourth layer.  A thread that has copied a descriptor.               *)
LEMMA HalfwayFacts ==
  ASSUME LockInv, LifeInv, NEW t \in Threads, Halfway(t)
  PROVE  /\ this[t] \in Objects /\ other[t] \in Objects /\ this[t] # other[t]
         /\ op[t] \in {"construct", "assign"}
         /\ op[t] = "construct" => Builds(t, this[t])
         /\ op[t] = "assign" => life[this[t]] = "alive"
         /\ life[other[t]] = "alive"
         /\ Locked(t) \/ (op[t] = "construct" /\ pc[t] = "event")
<1>1. Script(t)
  BY DEF LockInv
<1>2. /\ this[t] \in Objects /\ other[t] \in Objects /\ this[t] # other[t]
      /\ op[t] \in {"construct", "assign"}
      /\ Locked(t) \/ (op[t] = "construct" /\ pc[t] = "event")
  BY <1>1 DEF Halfway, Script, Idle, Connecting, Piping, Using, Constructing,
              Assigning, Locked
<1>3. /\ op[t] = "construct" => Builds(t, this[t])
      /\ op[t] = "assign" => Keeps(t, this[t])
      /\ Keeps(t, other[t])
  BY <1>2 DEF Builds, Keeps
<1>4. QED
  BY <1>2, <1>3 DEF LifeInv

(* It does not write to an object that another thread builds or has locked *)
(* for a move, and reads from it only once it has unlocked it itself.      *)
LEMMA FreeOfOthers ==
  ASSUME LockInv, LifeInv, NEW t \in Threads, NEW u \in Threads, t # u,
         NEW o \in Objects, Halfway(u),
         Builds(t, o) \/ (Locked(t) /\ o \in {this[t], other[t]})
  PROVE  this[u] # o /\ (other[u] = o => TakingFrom(u, o) /\ ~Builds(t, o))
<1>1. CASE Locked(u)
  <2>1. CASE Builds(t, o)
    BY <1>1, <2>1, BuildingApart
  <2>2. CASE Locked(t) /\ o \in {this[t], other[t]}
    BY <1>1, <2>2, Apart
  <2>3. QED
    BY <2>1, <2>2
<1>2. CASE op[u] = "construct" /\ pc[u] = "event"
  <2>1. Builds(u, this[u]) /\ life[other[u]] = "alive" /\ this[u] \in Objects
    BY <1>2, HalfwayFacts
  <2>2. CASE Builds(t, o)
    <3>1. life[o] = "building" /\ ~Builds(u, o)
      BY <2>2 DEF LifeInv
    <3>2. QED
      BY <2>1, <3>1
  <2>3. CASE Locked(t) /\ o \in {this[t], other[t]} /\ ~Builds(t, o)
    <3>1. Keeps(t, o)
      BY <2>3 DEF Locked, Builds, Keeps
    <3>2. life[o] = "alive" /\ life[this[u]] = "building"
      BY <2>1, <3>1 DEF LifeInv
    <3>3. QED
      BY <1>2, <2>3, <3>2 DEF TakingFrom
  <2>4. QED
    BY <2>2, <2>3
<1>3. QED
  BY <1>1, <1>2, HalfwayFacts

(* Nothing happens to the objects of the threads that are halfway, except  *)
(* that a source is emptied; other objects lose what they have, or get an  *)
(* event that no object has.                                               *)
LEMMA EventFrame ==
  ASSUME LockInv, LifeInv, EventInv, raced' = raced,
         \A u \in Threads : Halfway(u)' <=> Halfway(u),
         \A u \in Threads : Halfway(u) =>
           /\ this'[u] = this[u] /\ other'[u] = other[u]
           /\ fd'[this[u]] = fd[this[u]] /\ ev'[other[u]] = ev[other[u]]
           /\ fd'[other[u]] \in {fd[other[u]], Invalid},
         \A u \in Threads : pc'[u] = "event" =>
           pc[u] = "event" \/ fd'[other[u]] = Invalid,
         \A q \in Objects : fd'[q] # Invalid /\ ev'[q] # Invalid =>
           \/ fd'[q] = fd[q] /\ ev'[q] = ev[q]
           \/ \A r \in Objects \ {q} : ev'[r] # ev'[q]
  PROVE  raced' \/ EventsSeparate'
<1> SUFFICES ASSUME ~raced PROVE EventsSeparate'
  OBVIOUS
<1>1. EventsSeparate /\ EventsExist
  BY DEF EventInv
<1>2. \A o \in Objects : Excused(o)' <=> Excused(o)
  BY DEF Excused
<1>3. \A u \in Threads : Moving(u)' <=> Moving(u)
  BY DEF Moving
<1>4. \A u \in Threads : Halfway(u) =>
        /\ this[u] \in Objects /\ other[u] \in Objects
        /\ ev[other[u]] # Invalid
  BY <1>1, HalfwayFacts DEF EventsExist
<1>5. EventsApart'
  <2>1. ASSUME NEW o \in Objects, NEW p \in Objects, o # p,
               fd'[o] # Invalid, fd'[p] # Invalid, ev'[o] = ev'[p],
               ev'[o] # Invalid
        PROVE  Excused(o)' \/ Excused(p)'
    <3>1. fd'[o] = fd[o] /\ ev'[o] = ev[o] /\ fd'[p] = fd[p] /\ ev'[p] = ev[p]
      BY <2>1
    <3>2. QED
      BY <1>1, <1>2, <2>1, <3>1 DEF EventsSeparate, EventsApart
  <2>2. QED
    BY <2>1 DEF EventsApart
<1>6. ASSUME NEW u \in Threads
      PROVE  NoThirdOwner(u)'
  <2>1. SUFFICES ASSUME Moving(u)',
                        NEW p \in Objects \ {this'[u], other'[u]},
                        fd'[p] # Invalid, ev'[p] = ev'[other'[u]]
                 PROVE  Excused(p)'
    BY DEF NoThirdOwner
  <2>2. /\ Moving(u) /\ Halfway(u) /\ NoThirdOwner(u)
        /\ this'[u] = this[u] /\ other'[u] = other[u]
        /\ ev'[other[u]] = ev[other[u]]
    BY <1>1, <1>3, <2>1 DEF Moving, EventsSeparate
  <2>3. ev'[p] = ev'[other[u]] /\ ev'[p] # Invalid /\ other[u] \in Objects \ {p}
    BY <1>4, <2>1, <2>2
  <2>4. fd'[p] = fd[p] /\ ev'[p] = ev[p]
    BY <2>1, <2>3
  <2>5. Excused(p)
    BY <2>1, <2>2, <2>3, <2>4 DEF NoThirdOwner
  <2>6. QED
    BY <1>2, <2>5
<1>7. ASSUME NEW u \in Threads
      PROVE  NoRival(u)'
  <2>1. SUFFICES ASSUME NEW v \in Threads \ {u}, Moving(u)', Moving(v)'
                 PROVE  ev'[other'[v]] # ev'[other'[u]]
    BY DEF NoRival
  <2>2. Moving(u) /\ Moving(v) /\ Halfway(u) /\ Halfway(v) /\ NoRival(u)
    BY <1>1, <1>3, <2>1 DEF Moving, EventsSeparate
  <2>3. ev[other[v]] # ev[other[u]]
    BY <2>2 DEF NoRival
  <2>4. QED
    BY <2>2, <2>3
<1>8. ASSUME NEW u \in Threads
      PROVE  SourceIsEmpty(u)'
  <2>1. SUFFICES ASSUME pc'[u] = "event"
                 PROVE  fd'[other'[u]] = Invalid \/ Excused(other[u])'
    <3>1. pc'[u] = "event" => other'[u] = other[u]
      BY DEF Halfway
    <3>2. QED
      BY <3>1 DEF SourceIsEmpty, Excused
  <2>2. Halfway(u) /\ other'[u] = other[u] /\ other[u] \in Objects
    BY <1>4, <2>1 DEF Halfway
  <2>3. CASE pc[u] = "event"
    <3>1. fd[other[u]] = Invalid \/ Excused(other[u])
      BY <1>1, <2>3 DEF EventsSeparate, SourceIsEmpty
    <3>2. QED
      BY <1>2, <2>2, <3>1
  <2>4. QED
    BY <2>1, <2>2, <2>3
<1>9. QED
  BY <1>5, <1>6, <1>7, <1>8 DEF EventsSeparate

(* A step of a thread that is not halfway.                                 *)
LEMMA SeparateStep ==
  ASSUME LockInv, LifeInv, EventInv, NEW t \in Threads, OthersStay(t),
         ~Halfway(t), ~Halfway(t)', raced' = raced,
         \A q \in Objects :
           \/ fd'[q] = fd[q] /\ ev'[q] = ev[q]
           \/ /\ life[q] = "raw" \/ Builds(t, q)
              /\ \/ fd'[q] = Invalid
                 \/ ev'[q] = Invalid
                 \/ \A r \in Objects \ {q} : ev'[r] # ev'[q]
  PROVE  raced' \/ EventsSeparate'
<1>1. \A u \in Threads : Halfway(u)' <=> Halfway(u)
  BY DEF OthersStay, Halfway
<1>2. ASSUME NEW u \in Threads, Halfway(u)
      PROVE  /\ this'[u] = this[u] /\ other'[u] = other[u]
             /\ fd'[this[u]] = fd[this[u]] /\ ev'[other[u]] = ev[other[u]]
             /\ fd'[other[u]] \in {fd[other[u]], Invalid}
  <2>1. /\ u # t /\ this[u] \in Objects /\ other[u] \in Objects
        /\ op[u] = "construct" => Builds(u, this[u])
        /\ op[u] = "assign" => life[this[u]] = "alive"
        /\ op[u] \in {"construct", "assign"}
        /\ life[other[u]] = "alive"
    BY <1>2, HalfwayFacts
  <2>2. life[this[u]] # "raw" /\ life[other[u]] # "raw"
    BY <2>1 DEF LifeInv
  <2>3. ~Builds(t, this[u]) /\ ~Builds(t, other[u])
    BY <1>2, <2>1, FreeOfOthers
  <2>4. /\ fd'[this[u]] = fd[this[u]]
        /\ fd'[other[u]] = fd[other[u]] /\ ev'[other[u]] = ev[other[u]]
    BY <2>1, <2>2, <2>3
  <2>5. QED
    BY <2>1, <2>4 DEF OthersStay
<1>3. \A u \in Threads : pc'[u] = "event" =>
        pc[u] = "event" \/ fd'[other[u]] = Invalid
  BY DEF OthersStay, Halfway
<1>4. \A q \in Objects : fd'[q] # Invalid /\ ev'[q] # Invalid =>
        \/ fd'[q] = fd[q] /\ ev'[q] = ev[q]
        \/ \A r \in Objects \ {q} : ev'[r] # ev'[q]
  OBVIOUS
<1>5. QED
  BY <1>1, <1>2, <1>3, <1>4, EventFrame

(* A thread that stays has the event it had for what it builds.            *)
LEMMA EventMakingKept ==
  ASSUME LockInv, EventsExist, NEW u \in Threads, pc'[u] = pc[u],
         op'[u] = op[u], this'[u] = this[u], other'[u] = other[u],
         \A q \in Objects : Builds(u, q) => ev'[q] = ev[q]
  PROVE  EventInTheMaking(u)'
<1>1. EventInTheMaking(u) /\ Script(u)
  BY DEF EventsExist, LockInv
<1>2. /\ op[u] \in {"connect", "pipe", "construct"} => this[u] \in Objects
      /\ op[u] = "pipe" => other[u] \in Objects
  BY <1>1 DEF Script, Idle, Connecting, Piping, Using, Constructing, Assigning
<1>3. /\ op[u] \in {"connect", "pipe", "construct"} =>
           ev'[this[u]] = ev[this[u]]
      /\ op[u] = "pipe" => ev'[other[u]] = ev[other[u]]
  BY <1>2 DEF Builds
<1>4. QED
  BY <1>1, <1>3 DEF EventInTheMaking

(* A step of t that changes the events of its own or of live objects only. *)
LEMMA ExistStep ==
  ASSUME LockInv, LifeInv, EventsExist, StoreTypeOK, NEW t \in Threads,
         OthersStay(t), EventInTheMaking(t)',
         \A d \in Fd : table[d] = "event" => table'[d] = "event",
         \A q \in Objects : ev'[q] # ev[q] =>
           /\ life[q] = "building" => Builds(t, q)
           /\ ev'[q] # Invalid => table'[ev'[q]] = "event",
         \A q \in Objects : life'[q] = "alive" =>
           (life[q] = "alive" /\ ev'[q] = ev[q]) \/ ev'[q] # Invalid,
         \A q \in Objects : life'[q] = "raw" =>
           (life[q] = "raw" /\ ev'[q] = ev[q]) \/ ev'[q] = Invalid
  PROVE  EventsExist'
<1>1. ASSUME NEW u \in Threads
      PROVE  EventInTheMaking(u)'
  <2>1. CASE u # t
    <3>1. \A q \in Objects : Builds(u, q) => ev'[q] = ev[q]
      BY <2>1 DEF LifeInv
    <3>2. QED
      BY <2>1, <3>1, EventMakingKept DEF OthersStay
  <2>2. QED
    BY <2>1
<1>2. \A q \in Objects : ev'[q] # Invalid => table'[ev'[q]] = "event"
  <2>1. ASSUME NEW q \in Objects, ev'[q] # Invalid, ev'[q] = ev[q]
        PROVE  table'[ev'[q]] = "event"
    <3>1. ev[q] \in Fd /\ table[ev[q]] = "event"
      BY <2>1 DEF EventsExist, StoreTypeOK
    <3>2. QED
      BY <2>1, <3>1
  <2>2. QED
    BY <2>1
<1>3. \A q \in Objects : life'[q] = "alive" => ev'[q] # Invalid
  BY DEF EventsExist
<1>4. \A q \in Objects : life'[q] = "raw" => ev'[q] = Invalid
  BY DEF EventsExist
<1>5. QED
  BY <1>1, <1>2, <1>3, <1>4 DEF EventsExist

(* A call begins, and no event is touched.                                 *)
LEMMA CallsEvent ==
  ASSUME LockInv, LifeInv, FdInv, EventInv, NEW t \in Threads, Calls(t)
  PROVE  EventInv'
<1>1. OthersStay(t) /\ CallTypeOK /\ StoreTypeOK /\ EventsExist
  BY ThreadLock DEF LockInv, FdInv, EventInv
<1>2. pc[t] = "idle" /\ ev' = ev /\ raced' = raced
  BY DEF Calls, CreateTcpStreamToServer, CallUse, CreatePipe,
         CallMoveConstruct, CallMoveAssign, Begin, objectVars
<1>3. ~Halfway(t)
  BY <1>2 DEF Halfway
<1>4. ASSUME NEW rs \in SUBSET Objects, \A q \in rs : life[q] = "raw",
             \A q \in Objects \ rs : fd'[q] = fd[q],
             \A q \in Objects \ rs : life'[q] = life[q],
             \A q \in rs : life'[q] = "building",
             \A d \in Fd : table[d] = "event" => table'[d] = "event",
             pc'[t] \in {"lock", "connect", "eventfd"}, EventInTheMaking(t)'
      PROVE  EventInv'
  <2>1. ~Halfway(t)'
    BY <1>4 DEF Halfway
  <2>2. \A q \in rs : ev[q] = Invalid
    BY <1>1, <1>4 DEF EventsExist
  <2>3. \A q \in Objects :
           \/ fd'[q] = fd[q] /\ ev'[q] = ev[q]
           \/ /\ life[q] = "raw" \/ Builds(t, q)
              /\ \/ fd'[q] = Invalid
                 \/ ev'[q] = Invalid
                 \/ \A r \in Objects \ {q} : ev'[r] # ev'[q]
    BY <1>2, <1>4, <2>2
  <2>4. raced' \/ EventsSeparate'
    BY <1>1, <1>2, <1>3, <2>1, <2>3, SeparateStep
  <2>5. /\ \A q \in Objects : life'[q] = "alive" =>
             (life[q] = "alive" /\ ev'[q] = ev[q]) \/ ev'[q] # Invalid
        /\ \A q \in Objects : life'[q] = "raw" =>
             (life[q] = "raw" /\ ev'[q] = ev[q]) \/ ev'[q] = Invalid
    BY <1>2, <1>4
  <2>6. EventsExist'
    BY <1>1, <1>2, <1>4, <2>5, ExistStep
  <2>7. QED
    BY <2>4, <2>6 DEF EventInv
<1>5. ASSUME NEW o \in Objects, CreateTcpStreamToServer(t, o)
      PROVE  EventInv'
  <2>1. PICK d \in Fd : /\ Lowest(d, Free)
                        /\ table' = [table EXCEPT ![d] = "socket"]
                        /\ fd' = [fd EXCEPT ![o] = d]
    BY <1>5 DEF CreateTcpStreamToServer
  <2>2. /\ life[o] = "raw" /\ life' = [life EXCEPT ![o] = "building"]
        /\ op'[t] = "connect" /\ pc'[t] = "connect" /\ this'[t] = o
    BY <1>1, <1>5 DEF CreateTcpStreamToServer, Begin, Goto, CallTypeOK
  <2>3. \A c \in Fd : table[c] = "event" => table'[c] = "event"
    BY <1>1, <2>1 DEF Lowest, Free, StoreTypeOK
  <2>4. EventInTheMaking(t)'
    BY <1>1, <1>2, <2>2 DEF EventInTheMaking, EventsExist
  <2>5. /\ {o} \in SUBSET Objects /\ \A q \in {o} : life[q] = "raw"
        /\ \A q \in Objects \ {o} : fd'[q] = fd[q]
        /\ \A q \in Objects \ {o} : life'[q] = life[q]
        /\ \A q \in {o} : life'[q] = "building"
    BY <1>1, <2>1, <2>2 DEF StoreTypeOK
  <2>6. QED
    BY <1>4, <2>2, <2>3, <2>4, <2>5
<1>6. ASSUME NEW o \in Objects, NEW p \in Objects, CreatePipe(t, o, p)
      PROVE  EventInv'
  <2>1. PICK d \in Fd, e \in Fd :
          /\ Lowest(d, Free) /\ Lowest(e, Free \ {d})
          /\ table' = [table EXCEPT ![d] = "socket", ![e] = "socket"]
          /\ fd' = [fd EXCEPT ![o] = d, ![p] = e]
    BY <1>6 DEF CreatePipe
  <2>2. /\ life[o] = "raw" /\ life[p] = "raw"
        /\ life' = [life EXCEPT ![o] = "building", ![p] = "building"]
        /\ op'[t] = "pipe" /\ pc'[t] = "eventfd"
        /\ this'[t] = o /\ other'[t] = p
    BY <1>1, <1>6 DEF CreatePipe, Begin, Goto, CallTypeOK
  <2>3. \A c \in Fd : table[c] = "event" => table'[c] = "event"
    <3>1. table[d] = "free" /\ table[e] = "free"
      BY <2>1 DEF Lowest, Free
    <3>2. QED
      BY <1>1, <2>1, <3>1 DEF StoreTypeOK
  <2>4. EventInTheMaking(t)'
    BY <1>1, <1>2, <2>2 DEF EventInTheMaking, EventsExist
  <2>5. /\ {o, p} \in SUBSET Objects /\ \A q \in {o, p} : life[q] = "raw"
        /\ \A q \in Objects \ {o, p} : fd'[q] = fd[q]
        /\ \A q \in Objects \ {o, p} : life'[q] = life[q]
        /\ \A q \in {o, p} : life'[q] = "building"
    BY <1>1, <2>1, <2>2 DEF StoreTypeOK
  <2>6. QED
    BY <1>4, <2>2, <2>3, <2>4, <2>5
<1>7. ASSUME NEW o \in Objects, NEW m, CallUse(t, m, o)
      PROVE  EventInv'
  <2>1. op'[t] = "use" /\ pc'[t] = "lock" /\ life' = life /\ fd' = fd
        /\ table' = table
    BY <1>1, <1>7 DEF CallUse, Begin, Goto, CallTypeOK, objectVars
  <2>2. EventInTheMaking(t)'
    BY <2>1 DEF EventInTheMaking
  <2>3. PICK rs \in SUBSET Objects : rs = {}
    OBVIOUS
  <2>4. QED
    BY <1>4, <2>1, <2>2, <2>3
<1>8. ASSUME NEW o \in Objects, NEW s \in Objects, CallMoveConstruct(t, o, s)
      PROVE  EventInv'
  <2>1. /\ op'[t] = "construct" /\ pc'[t] = "lock" /\ this'[t] = o
        /\ life[o] = "raw" /\ life' = [life EXCEPT ![o] = "building"]
        /\ fd' = fd /\ table' = table
    BY <1>1, <1>8 DEF CallMoveConstruct, Begin, Goto, CallTypeOK
  <2>2. EventInTheMaking(t)'
    BY <1>1, <1>2, <2>1 DEF EventInTheMaking, EventsExist
  <2>3. /\ {o} \in SUBSET Objects /\ \A q \in {o} : life[q] = "raw"
        /\ \A q \in Objects \ {o} : fd'[q] = fd[q]
        /\ \A q \in Objects \ {o} : life'[q] = life[q]
        /\ \A q \in {o} : life'[q] = "building"
    BY <1>1, <2>1 DEF StoreTypeOK
  <2>4. QED
    BY <1>4, <2>1, <2>2, <2>3
<1>9. ASSUME NEW o \in Objects, NEW s \in Objects, CallMoveAssign(t, o, s)
      PROVE  EventInv'
  <2>1. op'[t] = "assign" /\ pc'[t] = "lock" /\ life' = life /\ fd' = fd
        /\ table' = table
    BY <1>1, <1>9 DEF CallMoveAssign, Begin, Goto, CallTypeOK, objectVars
  <2>2. EventInTheMaking(t)'
    BY <2>1 DEF EventInTheMaking
  <2>3. PICK rs \in SUBSET Objects : rs = {}
    OBVIOUS
  <2>4. QED
    BY <1>4, <2>1, <2>2, <2>3
<1>10. QED
  BY <1>5, <1>6, <1>7, <1>8, <1>9 DEF Calls

(* The steps that leave descriptors and events where they are.             *)
LEMMA QuietEvent ==
  ASSUME LockInv, LifeInv, FdInv, EventInv, NEW t \in Threads,
         Connect(t) \/ Lock(t) \/ Use(t) \/ UseEnds(t)
  PROVE  EventInv'
<1>1. OthersStay(t) /\ CallTypeOK /\ StoreTypeOK /\ EventsExist /\ Script(t)
  BY ThreadLock DEF LockInv, FdInv, EventInv, Step
<1>2. /\ ev' = ev /\ fd' = fd /\ life' = life /\ table' = table /\ raced' = raced
      /\ ~Halfway(t)
  BY DEF Connect, Lock, Use, UseEnds, objectVars, Halfway
<1>3. /\ ~Halfway(t)'
      /\ op'[t] \in {op[t], "none"}
      /\ op'[t] # "none" => this'[t] = this[t] /\ other'[t] = other[t]
      /\ pc'[t] = pc[t] \/ op[t] # "pipe"
  <2>1. CASE Connect(t)
    <3>1. /\ pc[t] = "connect" /\ pc'[t] = "eventfd" /\ op'[t] = op[t]
          /\ this'[t] = this[t] /\ other'[t] = other[t]
      BY <1>1, <2>1, StayGives DEF Connect, Places
    <3>2. op[t] # "pipe"
      BY <1>1, <3>1 DEF Script, Idle, Connecting, Piping, Using, Constructing,
                        Assigning
    <3>3. QED
      BY <3>1, <3>2 DEF Halfway
  <2>2. CASE Lock(t)
    BY <1>2, <2>2 DEF Lock, Halfway
  <2>3. CASE Use(t)
    <3>1. /\ op[t] = "use" /\ pc'[t] = "use" /\ op'[t] = op[t]
          /\ this'[t] = this[t] /\ other'[t] = other[t]
      BY <1>1, <2>3, StayGives DEF Use, Places
    <3>2. QED
      BY <3>1 DEF Halfway
  <2>4. CASE UseEnds(t)
    <3>1. pc[t] = "use" /\ pc'[t] = "idle" /\ op'[t] = "none"
      BY <1>1, <2>4, EndGives DEF UseEnds
    <3>2. op[t] # "pipe"
      BY <1>1, <3>1 DEF Script, Idle, Connecting, Piping, Using, Constructing,
                        Assigning
    <3>3. QED
      BY <3>1, <3>2 DEF Halfway
  <2>5. QED
    BY <2>1, <2>2, <2>3, <2>4
<1>4. EventInTheMaking(t)'
  BY <1>1, <1>2, <1>3 DEF EventsExist, EventInTheMaking
<1>5. raced' \/ EventsSeparate'
  BY <1>1, <1>2, <1>3, SeparateStep
<1>6. EventsExist'
  BY <1>1, <1>2, <1>4, ExistStep
<1>7. QED
  BY <1>5, <1>6 DEF EventInv

(* StreamFactory at work.                                                  *)
LEMMA FactoryEvent ==
  ASSUME LockInv, LifeInv, FdInv, EventInv, NEW t \in Threads,
         \/ MakeEvent(t) \/ ConnectFails(t)
         \/ MakeEventFails(t) \/ MakeEvent2Fails(t)
  PROVE  EventInv'
<1> USE NoObjectAssumption
<1>1. /\ OthersStay(t) /\ CallTypeOK /\ StoreTypeOK /\ EventsExist /\ Script(t)
      /\ EventInTheMaking(t)
  BY ThreadLock DEF LockInv, FdInv, EventInv, Step, EventsExist
<1>2. pc[t] \in {"connect", "eventfd", "eventfd2"} /\ raced' = raced
  BY DEF MakeEvent, ConnectFails, MakeEventFails, MakeEvent2Fails
<1>3. /\ Connecting(t) \/ Piping(t)
      /\ pc[t] = "connect" => Connecting(t)
      /\ pc[t] = "eventfd2" => Piping(t)
  BY <1>1, <1>2 DEF Script, Idle, Connecting, Piping, Using, Constructing,
                    Assigning
<1>4. /\ this[t] \in Objects /\ Builds(t, this[t])
      /\ Connecting(t) => other[t] \notin Objects
      /\ other[t] \in Objects =>
           Builds(t, other[t]) /\ this[t] # other[t] /\ ev[other[t]] = Invalid
      /\ pc[t] # "eventfd2" => ev[this[t]] = Invalid
      /\ pc[t] = "eventfd2" => ev[this[t]] # Invalid /\ other[t] \in Objects
  BY <1>1, <1>3 DEF Connecting, Piping, Builds, EventInTheMaking
<1>5. ~Halfway(t)
  BY <1>2 DEF Halfway
<1>6. ASSUME End(t)
      PROVE  ~Halfway(t)' /\ EventInTheMaking(t)'
  <2>1. pc'[t] = "idle" /\ op'[t] = "none"
    BY <1>1, <1>6, EndGives
  <2>2. QED
    BY <2>1 DEF Halfway, EventInTheMaking
<1>7. ASSUME NEW os \in SUBSET Objects, \A q \in os : Builds(t, q),
             \A q \in os : fd'[q] = Invalid /\ ev'[q] = Invalid,
             \A q \in Objects \ os : fd'[q] = fd[q] /\ ev'[q] = ev[q],
             \A q \in os : life'[q] = "raw",
             \A q \in Objects \ os : life'[q] = life[q],
             \A d \in Fd : table[d] = "event" => table'[d] = "event", End(t)
      PROVE  EventInv'
  <2>1. \A q \in Objects :
           \/ fd'[q] = fd[q] /\ ev'[q] = ev[q]
           \/ /\ life[q] = "raw" \/ Builds(t, q)
              /\ \/ fd'[q] = Invalid
                 \/ ev'[q] = Invalid
                 \/ \A r \in Objects \ {q} : ev'[r] # ev'[q]
    BY <1>7
  <2>2. raced' \/ EventsSeparate'
    BY <1>1, <1>2, <1>5, <1>6, <1>7, <2>1, SeparateStep
  <2>3. /\ \A q \in Objects : ev'[q] # ev[q] =>
             /\ life[q] = "building" => Builds(t, q)
             /\ ev'[q] # Invalid => table'[ev'[q]] = "event"
        /\ \A q \in Objects : life'[q] = "alive" =>
             (life[q] = "alive" /\ ev'[q] = ev[q]) \/ ev'[q] # Invalid
        /\ \A q \in Objects : life'[q] = "raw" =>
             (life[q] = "raw" /\ ev'[q] = ev[q]) \/ ev'[q] = Invalid
    BY <1>7
  <2>4. EventsExist'
    BY <1>1, <1>6, <1>7, <2>3, ExistStep
  <2>5. QED
    BY <2>2, <2>4 DEF EventInv
<1>8. ASSUME NEW os \in SUBSET Objects, Abandon(os), table' = table, ev' = ev,
             End(t), \A q \in os : Builds(t, q) /\ ev[q] = Invalid
      PROVE  EventInv'
  <2>1. /\ \A q \in os : fd'[q] = Invalid /\ life'[q] = "raw"
        /\ \A q \in Objects \ os : fd'[q] = fd[q] /\ life'[q] = life[q]
    BY <1>8 DEF Abandon
  <2>2. QED
    BY <1>7, <1>8, <2>1
<1>9. CASE ConnectFails(t)
  BY <1>4, <1>8, <1>9 DEF ConnectFails
<1>10. CASE MakeEventFails(t)
  BY <1>4, <1>8, <1>10 DEF MakeEventFails
<1>11. CASE MakeEvent2Fails(t)
  <2>1. /\ pc[t] = "eventfd2" /\ End(t)
        /\ fd' = [fd EXCEPT ![this[t]] = Invalid, ![other[t]] = Invalid]
        /\ ev' = [ev EXCEPT ![this[t]] = Invalid]
        /\ life' = [life EXCEPT ![this[t]] = "raw", ![other[t]] = "raw"]
        /\ table' = [table EXCEPT ![fd[this[t]]] = "free"]
    BY <1>11 DEF MakeEvent2Fails
  <2>2. PICK o \in Objects : o = this[t]
    BY <1>4
  <2>3. PICK p \in Objects : p = other[t]
    BY <1>4, <2>1
  <2>4. Builds(t, o) /\ Builds(t, p) /\ ev[p] = Invalid
    BY <1>4, <2>1, <2>2, <2>3
  <2>5. /\ \A q \in {o, p} : fd'[q] = Invalid /\ ev'[q] = Invalid
        /\ \A q \in Objects \ {o, p} : fd'[q] = fd[q] /\ ev'[q] = ev[q]
        /\ \A q \in {o, p} : life'[q] = "raw"
        /\ \A q \in Objects \ {o, p} : life'[q] = life[q]
    BY <1>1, <2>1, <2>2, <2>3, <2>4 DEF StoreTypeOK
  <2>6. \A d \in Fd : table[d] = "event" => table'[d] = "event"
    <3>1. fd[o] # Invalid => table[fd[o]] = "socket"
      BY DEF FdInv, OwnedAreSockets
    <3>2. fd[o] # Invalid
      BY <1>1, <1>3, <2>1, <2>2 DEF FdInv, InTheMaking, Piping
    <3>3. QED
      BY <1>1, <2>1, <2>2, <3>1, <3>2 DEF StoreTypeOK
  <2>7. {o, p} \in SUBSET Objects /\ \A q \in {o, p} : Builds(t, q)
    BY <2>4
  <2>8. QED
    BY <1>7, <2>1, <2>5, <2>6, <2>7
<1>12. CASE MakeEvent(t)
  <2>1. PICK g \in Objects : g = Target(t)
    BY <1>4 DEF Target
  <2>2. PICK d \in Fd : /\ Lowest(d, Free)
                        /\ table' = [table EXCEPT ![d] = "event"]
                        /\ ev' = [ev EXCEPT ![g] = d]
    BY <1>12, <2>1 DEF MakeEvent
  <2>3. table[d] = "free" /\ d # Invalid
    BY <2>2, InvalidIsNoFd DEF Lowest, Free
  <2>4. /\ pc[t] \in {"eventfd", "eventfd2"} /\ fd' = fd
        /\ pc[t] = "eventfd" /\ op[t] = "pipe" =>
             Stay(t, "eventfd2") /\ life' = life
        /\ ~(pc[t] = "eventfd" /\ op[t] = "pipe") =>
             /\ End(t)
             /\ life' = [o \in Objects |-> IF o \in {this[t], other[t]}
                                             THEN "alive" ELSE life[o]]
    BY <1>12 DEF MakeEvent
  <2>5. Builds(t, g) /\ (pc[t] = "eventfd" => g = this[t])
          /\ (pc[t] = "eventfd2" => g = other[t])
    BY <1>4, <2>1, <2>4 DEF Target
  <2>6. /\ ev'[g] = d /\ \A q \in Objects \ {g} : ev'[q] = ev[q]
        /\ table'[d] = "event" /\ \A c \in Fd \ {d} : table'[c] = table[c]
    BY <1>1, <2>2 DEF StoreTypeOK
  <2>7. \A q \in Objects \ {g} : ev'[q] # d
    BY <1>1, <2>3, <2>6 DEF EventsExist
  <2>8. \A q \in Objects :
           \/ fd'[q] = fd[q] /\ ev'[q] = ev[q]
           \/ /\ life[q] = "raw" \/ Builds(t, q)
              /\ \/ fd'[q] = Invalid
                 \/ ev'[q] = Invalid
                 \/ \A r \in Objects \ {q} : ev'[r] # ev'[q]
    BY <2>4, <2>5, <2>6, <2>7
  <2>9. ~Halfway(t)' /\ EventInTheMaking(t)'
    <3>1. CASE pc[t] = "eventfd" /\ op[t] = "pipe"
      <4>1. /\ pc'[t] = "eventfd2" /\ op'[t] = "pipe"
            /\ this'[t] = this[t] /\ other'[t] = other[t]
        BY <1>1, <2>4, <3>1, StayGives DEF Places
      <4>2. other[t] \in Objects
        BY <1>3, <3>1 DEF Connecting, Piping
      <4>3. QED
        BY <1>4, <2>3, <2>5, <2>6, <3>1, <4>1, <4>2
        DEF Halfway, EventInTheMaking
    <3>2. QED
      BY <1>6, <2>4, <3>1
  <2>10. raced' \/ EventsSeparate'
    BY <1>1, <1>2, <1>5, <2>8, <2>9, SeparateStep
  <2>11. \A q \in Objects : life'[q] = "alive" =>
           (life[q] = "alive" /\ ev'[q] = ev[q]) \/ ev'[q] # Invalid
    <3>1. CASE pc[t] = "eventfd" /\ op[t] = "pipe"
      BY <2>3, <2>4, <2>6, <3>1
    <3>2. CASE ~(pc[t] = "eventfd" /\ op[t] = "pipe")
      <4>1. \A q \in Objects : q \in {this[t], other[t]} => ev'[q] # Invalid
        <5>1. CASE pc[t] = "eventfd"
          <6>1. Connecting(t)
            BY <1>3, <3>2, <5>1 DEF Piping
          <6>2. QED
            BY <1>4, <2>3, <2>5, <2>6, <5>1, <6>1
        <5>2. CASE pc[t] = "eventfd2"
          BY <1>4, <2>3, <2>5, <2>6, <5>2
        <5>3. QED
          BY <2>4, <5>1, <5>2
      <4>2. QED
        BY <2>3, <2>4, <2>6, <3>2, <4>1
    <3>3. QED
      BY <3>1, <3>2
  <2>12. \A q \in Objects : life'[q] = "raw" =>
           (life[q] = "raw" /\ ev'[q] = ev[q]) \/ ev'[q] = Invalid
    <3>1. life[g] = "building"
      BY <2>5 DEF LifeInv
    <3>2. \A q \in Objects : life'[q] = "raw" => life[q] = "raw"
      BY <2>4
    <3>3. QED
      BY <2>6, <3>1, <3>2
  <2>13. \A q \in Objects : ev'[q] # ev[q] =>
           /\ life[q] = "building" => Builds(t, q)
           /\ ev'[q] # Invalid => table'[ev'[q]] = "event"
    BY <2>5, <2>6
  <2>14. \A c \in Fd : table[c] = "event" => table'[c] = "event"
    BY <2>6
  <2>15. EventsExist'
    BY <1>1, <2>9, <2>11, <2>12, <2>13, <2>14, ExistStep
  <2>16. QED
    BY <2>10, <2>15 DEF EventInv
<1>13. QED
  BY <1>9, <1>10, <1>11, <1>12

(* ~Stream of an object that no thread uses.                               *)
LEMMA DestroyEvent ==
  ASSUME LockInv, LifeInv, FdInv, EventInv, NEW o \in Objects, Destroy(o)
  PROVE  EventInv'
<1>1. /\ StoreTypeOK /\ life[o] = "alive" /\ EventsExist
      /\ \A u \in Threads : ~Builds(u, o) /\ ~Involved(u, o)
  BY DestroyLife DEF FdInv, Destroy, EventInv
<1>2. /\ life' = [life EXCEPT ![o] = "raw"]
      /\ fd' = [fd EXCEPT ![o] = Invalid] /\ ev' = [ev EXCEPT ![o] = Invalid]
      /\ raced' = raced
      /\ pc' = pc /\ op' = op /\ this' = this /\ other' = other
  BY DEF Destroy, callVars
<1>3. /\ fd'[o] = Invalid /\ ev'[o] = Invalid /\ life'[o] = "raw"
      /\ \A q \in Objects \ {o} : /\ fd'[q] = fd[q] /\ ev'[q] = ev[q]
                                  /\ life'[q] = life[q]
  BY <1>1, <1>2 DEF StoreTypeOK
<1>4. \A u \in Threads : Halfway(u) =>
        /\ this[u] \in Objects \ {o} /\ other[u] \in Objects \ {o}
  BY <1>1, HalfwayFacts DEF Halfway, Involved
<1>5. \A u \in Threads : Halfway(u) =>
        /\ this'[u] = this[u] /\ other'[u] = other[u]
        /\ fd'[this[u]] = fd[this[u]] /\ ev'[other[u]] = ev[other[u]]
        /\ fd'[other[u]] \in {fd[other[u]], Invalid}
  BY <1>2, <1>3, <1>4
<1>6. /\ \A u \in Threads : Halfway(u)' <=> Halfway(u)
      /\ \A u \in Threads : pc'[u] = "event" =>
           pc[u] = "event" \/ fd'[other[u]] = Invalid
  BY <1>2 DEF Halfway
<1>7. \A q \in Objects : fd'[q] # Invalid /\ ev'[q] # Invalid =>
        \/ fd'[q] = fd[q] /\ ev'[q] = ev[q]
        \/ \A r \in Objects \ {q} : ev'[r] # ev'[q]
  BY <1>3
<1>8. raced' \/ EventsSeparate'
  BY <1>2, <1>5, <1>6, <1>7, EventFrame
<1>9. \A d \in Fd : table[d] = "event" => table'[d] = "event"
  <2>1. fd[o] # Invalid => table[fd[o]] = "socket"
    BY DEF FdInv, OwnedAreSockets
  <2>2. table' = table \/ (fd[o] # Invalid /\
                             table' = [table EXCEPT ![fd[o]] = "free"])
    BY DEF Destroy
  <2>3. QED
    BY <1>1, <2>1, <2>2 DEF StoreTypeOK
<1>10. ASSUME NEW u \in Threads
       PROVE  EventInTheMaking(u)'
  <2>1. \A q \in Objects : Builds(u, q) => ev'[q] = ev[q]
    BY <1>1, <1>3
  <2>2. QED
    BY <1>1, <1>2, <2>1, EventMakingKept
<1>11. \A q \in Objects : ev'[q] # Invalid => table'[ev'[q]] = "event"
  <2>1. ASSUME NEW q \in Objects, ev'[q] # Invalid
        PROVE  table'[ev'[q]] = "event"
    <3>1. ev'[q] = ev[q] /\ ev[q] \in Fd /\ table[ev[q]] = "event"
      BY <1>1, <1>3, <2>1 DEF EventsExist, StoreTypeOK
    <3>2. QED
      BY <1>9, <3>1
  <2>2. QED
    BY <2>1
<1>12. EventsExist'
  BY <1>1, <1>3, <1>10, <1>11 DEF EventsExist
<1>13. QED
  BY <1>8, <1>12 DEF EventInv

(* The descriptor is copied: its target is excused from now on, and its    *)
(* source is not, as nobody else can be halfway with it.                   *)
LEMMA CopyFdEvent ==
  ASSUME LockInv, LifeInv, FdInv, EventInv, NEW t \in Threads, CopyFd(t)
  PROVE  EventInv'
<1>1. /\ OthersStay(t) /\ CallTypeOK /\ StoreTypeOK /\ EventsExist
      /\ EventInTheMaking(t)
  BY ThreadLock DEF LockInv, FdInv, EventInv, Step, EventsExist
<1>2. Locked(t) /\ pc[t] = "lock" /\ op[t] \in {"construct", "assign"}
  BY DEF CopyFd, Locked
<1>3. PICK a \in Objects : a = this[t]
  BY <1>2, LockedHolds
<1>4. PICK b \in Objects : b = other[t]
  BY <1>2, LockedHolds
<1>5. a # b
  BY <1>2, <1>3, <1>4, LockedHolds
<1>6. /\ fd' = [fd EXCEPT ![a] = fd[b]] /\ Stay(t, "invalidate")
      /\ UNCHANGED <<table, life, ev, raced>>
  BY <1>3, <1>4 DEF CopyFd
<1>7. /\ pc'[t] = "invalidate" /\ op'[t] = op[t]
      /\ this'[t] = a /\ other'[t] = b
  BY <1>1, <1>3, <1>4, <1>6, StayGives DEF Places
<1>8. fd'[a] = fd[b] /\ \A q \in Objects \ {a} : fd'[q] = fd[q]
  BY <1>1, <1>6 DEF StoreTypeOK
<1>9. life[b] = "alive" /\ ev[b] # Invalid
  <2>1. Keeps(t, b)
    BY <1>2, <1>4 DEF Keeps
  <2>2. QED
    BY <1>1, <2>1 DEF LifeInv, EventsExist
<1>10. EventsExist'
  <2>1. EventInTheMaking(t)'
    BY <1>1, <1>2, <1>3, <1>6, <1>7 DEF EventInTheMaking
  <2>2. QED
    BY <1>1, <1>6, <2>1, ExistStep
<1>11. ASSUME ~raced PROVE EventsSeparate'
  <2>1. EventsSeparate
    BY <1>11 DEF EventInv
  <2>2. ~Halfway(t) /\ Halfway(t)'
    BY <1>2, <1>7 DEF Halfway
  <2>3. ASSUME NEW u \in Threads \ {t}
        PROVE  /\ Halfway(u)' <=> Halfway(u)
               /\ this'[u] = this[u] /\ other'[u] = other[u] /\ pc'[u] = pc[u]
    BY <1>1 DEF OthersStay, Halfway
  <2>4. ASSUME NEW u \in Threads \ {t}, Halfway(u)
        PROVE  /\ this[u] # a /\ this[u] # b
               /\ this[u] \in Objects /\ other[u] \in Objects
               /\ other[u] = b => pc[u] = "event"
    <3>1. this[u] # a
      BY <1>2, <1>3, <2>4, FreeOfOthers
    <3>2. this[u] # b /\ (other[u] = b => TakingFrom(u, b))
      BY <1>2, <1>4, <2>4, FreeOfOthers
    <3>3. QED
      BY <2>4, <3>1, <3>2, HalfwayFacts DEF TakingFrom
  <2>5. \A o \in Objects : Excused(o) => Excused(o)'
    BY <2>2, <2>3 DEF Excused
  <2>6. Excused(a)'
    BY <1>7, <2>2 DEF Excused
  <2>7. ~Excused(b)
    BY <2>2, <2>4 DEF Excused
  <2>8. \A u \in Threads \ {t} : Moving(u)' <=> Moving(u)
    BY <1>8, <2>3, <2>4 DEF Moving
  <2>9. EventsApart'
    BY <1>6, <1>8, <2>1, <2>5, <2>6 DEF EventsSeparate, EventsApart
  <2>10. ASSUME NEW u \in Threads \ {t}, Moving(t)', Moving(u)
         PROVE  ev[other[u]] # ev[b]
    <3>1. /\ Halfway(u) /\ fd[b] # Invalid
          /\ NoThirdOwner(u) /\ SourceIsEmpty(u)
      BY <1>7, <1>8, <2>1, <2>10 DEF Moving, EventsSeparate
    <3>2. this[u] # b /\ (other[u] = b => pc[u] = "event")
      BY <2>4, <3>1
    <3>3. other[u] # b
      BY <2>7, <3>1, <3>2 DEF SourceIsEmpty
    <3>4. QED
      BY <2>7, <2>10, <3>1, <3>2, <3>3 DEF NoThirdOwner
  <2>11. NoThirdOwner(t)'
    <3>1. SUFFICES ASSUME Moving(t)', NEW p \in Objects \ {a, b},
                          fd'[p] # Invalid, ev'[p] = ev'[b]
                   PROVE  Excused(p)'
      BY <1>7 DEF NoThirdOwner
    <3>2. fd[b] # Invalid /\ fd[p] # Invalid /\ ev[p] = ev[b]
      BY <1>6, <1>7, <1>8, <3>1 DEF Moving
    <3>3. Excused(p)
      BY <1>9, <2>1, <2>7, <3>2 DEF EventsSeparate, EventsApart
    <3>4. QED
      BY <2>5, <3>3
  <2>12. NoRival(t)' /\ SourceIsEmpty(t)'
    BY <1>6, <1>7, <2>3, <2>8, <2>10 DEF NoRival, SourceIsEmpty
  <2>13. ASSUME NEW u \in Threads \ {t}
         PROVE  NoThirdOwner(u)' /\ NoRival(u)' /\ SourceIsEmpty(u)'
    <3>1. /\ NoThirdOwner(u) /\ NoRival(u) /\ SourceIsEmpty(u)
          /\ this'[u] = this[u] /\ other'[u] = other[u] /\ pc'[u] = pc[u]
      BY <2>1, <2>3 DEF EventsSeparate
    <3>2. NoThirdOwner(u)'
      BY <1>6, <1>8, <2>5, <2>6, <2>8, <3>1 DEF NoThirdOwner
    <3>3. ASSUME NEW v \in Threads \ {u}, Moving(u)', Moving(v)'
          PROVE  ev'[other'[v]] # ev'[other'[u]]
      <4>1. CASE v = t
        BY <1>6, <1>7, <2>8, <2>10, <3>1, <3>3, <4>1
      <4>2. CASE v # t
        BY <1>6, <2>3, <2>8, <3>1, <3>3, <4>2 DEF NoRival
      <4>3. QED
        BY <4>1, <4>2
    <3>4. NoRival(u)'
      BY <3>3 DEF NoRival
    <3>5. SourceIsEmpty(u)'
      <4>1. SUFFICES ASSUME pc[u] = "event"
                     PROVE  SourceIsEmpty(u)'
        BY <3>1 DEF SourceIsEmpty
      <4>2. other[u] \in Objects /\ (fd[other[u]] = Invalid \/ Excused(other[u]))
        BY <2>4, <3>1, <4>1 DEF SourceIsEmpty, Halfway
      <4>3. PICK s \in Objects : s = other[u]
        BY <4>2
      <4>4. fd'[s] = Invalid \/ Excused(s)'
        BY <1>8, <2>5, <2>6, <4>2, <4>3 DEF Excused
      <4>5. QED
        BY <3>1, <4>3, <4>4 DEF SourceIsEmpty, Excused
    <3>6. QED
      BY <3>2, <3>4, <3>5
  <2>14. QED
    BY <2>9, <2>11, <2>12, <2>13 DEF EventsSeparate
<1>12. QED
  BY <1>6, <1>10, <1>11 DEF EventInv

(* The source gives its descriptor up.                                     *)
LEMMA InvalidateFdEvent ==
  ASSUME LockInv, LifeInv, FdInv, EventInv, NEW t \in Threads, InvalidateFd(t)
  PROVE  EventInv'
<1>1. /\ OthersStay(t) /\ CallTypeOK /\ StoreTypeOK /\ EventsExist
      /\ EventInTheMaking(t)
  BY ThreadLock DEF LockInv, FdInv, EventInv, Step, EventsExist
<1>2. /\ pc[t] = "invalidate" /\ Halfway(t)
      /\ fd' = [fd EXCEPT ![other[t]] = Invalid] /\ Stay(t, "event")
      /\ UNCHANGED <<table, life, ev, raced>>
  BY DEF InvalidateFd, Halfway
<1>3. Locked(t) /\ op[t] \in {"construct", "assign"}
  BY <1>2, HandingIsLocked DEF Locked
<1>4. PICK b \in Objects : b = other[t]
  BY <1>3, LockedHolds
<1>5. /\ pc'[t] = "event" /\ op'[t] = op[t]
      /\ this'[t] = this[t] /\ other'[t] = b
  BY <1>1, <1>2, <1>4, StayGives DEF Places
<1>6. fd'[b] = Invalid /\ \A q \in Objects \ {b} : fd'[q] = fd[q]
  BY <1>1, <1>2, <1>4 DEF StoreTypeOK
<1>7. EventsExist'
  <2>1. EventInTheMaking(t)'
    BY <1>1, <1>2, <1>3, <1>5 DEF EventInTheMaking
  <2>2. QED
    BY <1>1, <1>2, <2>1, ExistStep
<1>8. \A u \in Threads : Halfway(u)' <=> Halfway(u)
  BY <1>1, <1>2, <1>5 DEF OthersStay, Halfway
<1>9. ASSUME NEW u \in Threads, Halfway(u)
      PROVE  /\ this'[u] = this[u] /\ other'[u] = other[u]
             /\ fd'[this[u]] = fd[this[u]] /\ ev'[other[u]] = ev[other[u]]
             /\ fd'[other[u]] \in {fd[other[u]], Invalid}
  <2>1. this'[u] = this[u] /\ other'[u] = other[u]
    BY <1>1, <1>4, <1>5 DEF OthersStay
  <2>2. this[u] \in Objects /\ other[u] \in Objects /\ this[u] # b
    <3>1. CASE u = t
      BY <1>4, <1>9, <3>1, HalfwayFacts
    <3>2. CASE u # t
      BY <1>3, <1>4, <1>9, <3>2, HalfwayFacts, FreeOfOthers
    <3>3. QED
      BY <3>1, <3>2
  <2>3. QED
    BY <1>2, <1>6, <2>1, <2>2
<1>10. \A u \in Threads : pc'[u] = "event" =>
         pc[u] = "event" \/ fd'[other[u]] = Invalid
  BY <1>1, <1>4, <1>6 DEF OthersStay
<1>11. \A q \in Objects : fd'[q] # Invalid /\ ev'[q] # Invalid =>
         \/ fd'[q] = fd[q] /\ ev'[q] = ev[q]
         \/ \A r \in Objects \ {q} : ev'[r] # ev'[q]
  BY <1>2, <1>6
<1>12. raced' \/ EventsSeparate'
  BY <1>2, <1>8, <1>9, <1>10, <1>11, EventFrame
<1>13. QED
  BY <1>7, <1>12 DEF EventInv

(* The event is copied.  Unless another thread is about to copy the event  *)
(* that is overwritten, the target now has an event of its own.            *)
LEMMA CopyEventEvent ==
  ASSUME LockInv, LifeInv, FdInv, EventInv, NEW t \in Threads, CopyEvent(t)
  PROVE  EventInv'
<1>1. /\ OthersStay(t) /\ CallTypeOK /\ StoreTypeOK /\ EventsExist
  BY ThreadLock DEF LockInv, FdInv, EventInv, Step
<1>2. /\ pc[t] = "event" /\ Halfway(t) /\ End(t)
      /\ ev' = [ev EXCEPT ![this[t]] = ev[other[t]]]
      /\ life' = [life EXCEPT ![this[t]] = "alive"]
      /\ raced' = (raced \/ \E u \in Threads \ {t} : TakingFrom(u, this[t]))
      /\ table' = table /\ fd' = fd
  BY DEF CopyEvent, Halfway
<1>3. PICK a \in Objects : a = this[t]
  BY <1>2, HalfwayFacts
<1>4. PICK b \in Objects : b = other[t]
  BY <1>2, HalfwayFacts
<1>5. /\ a # b /\ life[b] = "alive" /\ ev[b] # Invalid
      /\ Builds(t, a) \/ (Locked(t) /\ life[a] = "alive")
  BY <1>1, <1>2, <1>3, <1>4, HalfwayFacts DEF EventsExist
<1>6. pc'[t] = "idle" /\ op'[t] = "none"
  BY <1>1, <1>2, EndGives
<1>7. ev'[a] = ev[b] /\ \A q \in Objects \ {a} : ev'[q] = ev[q]
  BY <1>1, <1>2, <1>3, <1>4 DEF StoreTypeOK
<1>8. life'[a] = "alive" /\ \A q \in Objects \ {a} : life'[q] = life[q]
  BY <1>1, <1>2, <1>3 DEF StoreTypeOK
<1>9. EventsExist'
  <2>1. EventInTheMaking(t)'
    BY <1>6 DEF EventInTheMaking
  <2>2. table[ev[b]] = "event"
    BY <1>1, <1>5 DEF EventsExist
  <2>3. \A q \in Objects : ev'[q] # ev[q] =>
          /\ life[q] = "building" => Builds(t, q)
          /\ ev'[q] # Invalid => table'[ev'[q]] = "event"
    BY <1>2, <1>5, <1>7, <2>2
  <2>4. /\ \A q \in Objects : life'[q] = "alive" =>
             (life[q] = "alive" /\ ev'[q] = ev[q]) \/ ev'[q] # Invalid
        /\ \A q \in Objects : life'[q] = "raw" =>
             (life[q] = "raw" /\ ev'[q] = ev[q]) \/ ev'[q] = Invalid
    BY <1>5, <1>7, <1>8
  <2>5. QED
    BY <1>1, <1>2, <2>1, <2>3, <2>4, ExistStep
<1>10. ASSUME ~raced' PROVE EventsSeparate'
  <2>1. ~raced /\ EventsSeparate /\ \A u \in Threads \ {t} : ~TakingFrom(u, a)
    BY <1>2, <1>3, <1>10 DEF EventInv
  <2>2. ~Halfway(t)'
    BY <1>6 DEF Halfway
  <2>3. ASSUME NEW u \in Threads \ {t}
        PROVE  /\ Halfway(u)' <=> Halfway(u)
               /\ this'[u] = this[u] /\ other'[u] = other[u] /\ pc'[u] = pc[u]
    BY <1>1 DEF OthersStay, Halfway
  <2>4. ASSUME NEW u \in Threads \ {t}, Halfway(u)
        PROVE  /\ this[u] # a /\ other[u] # a
               /\ this[u] \in Objects /\ other[u] \in Objects
    BY <1>3, <1>5, <2>1, <2>4, FreeOfOthers, HalfwayFacts
  <2>5. \A o \in Objects \ {a} : Excused(o) => Excused(o)'
    BY <1>3, <2>3 DEF Excused
  <2>6. \A u \in Threads : Moving(u)' => Moving(u) /\ u # t
    BY <1>2, <2>2, <2>3 DEF Moving
  <2>7. fd[a] # Invalid => /\ Moving(t) /\ NoThirdOwner(t) /\ NoRival(t)
                           /\ SourceIsEmpty(t)
    BY <1>2, <1>3, <2>1 DEF Moving, EventsSeparate
  <2>8. ASSUME NEW p \in Objects \ {a}, fd[a] # Invalid, fd[p] # Invalid,
               ev'[a] = ev'[p]
        PROVE  Excused(p)'
    <3>1. ev[p] = ev[b]
      BY <1>7, <2>8
    <3>2. CASE p = b
      <4>1. Excused(b)
        BY <1>2, <1>4, <2>7, <2>8, <3>2 DEF SourceIsEmpty
      <4>2. QED
        BY <2>5, <2>8, <3>2, <4>1
    <3>3. CASE p # b
      <4>1. Excused(p)
        BY <1>3, <1>4, <2>7, <2>8, <3>1, <3>3 DEF NoThirdOwner
      <4>2. QED
        BY <2>5, <2>8, <4>1
    <3>4. QED
      BY <3>2, <3>3
  <2>9. EventsApart'
    <3>1. ASSUME NEW o \in Objects, NEW p \in Objects, o # p,
                 fd'[o] # Invalid, fd'[p] # Invalid, ev'[o] = ev'[p],
                 ev'[o] # Invalid
          PROVE  Excused(o)' \/ Excused(p)'
      <4>1. CASE o = a
        BY <1>2, <2>8, <3>1, <4>1
      <4>2. CASE p = a
        BY <1>2, <2>8, <3>1, <4>2
      <4>3. CASE o # a /\ p # a
        <5>1. Excused(o) \/ Excused(p)
          BY <1>2, <1>7, <2>1, <3>1, <4>3 DEF EventsSeparate, EventsApart
        <5>2. QED
          BY <2>5, <4>3, <5>1
      <4>4. QED
        BY <4>1, <4>2, <4>3
    <3>2. QED
      BY <3>1 DEF EventsApart
  <2>10. NoThirdOwner(t)' /\ NoRival(t)' /\ SourceIsEmpty(t)'
    BY <1>6, <2>6 DEF NoThirdOwner, NoRival, SourceIsEmpty
  <2>11. ASSUME NEW u \in Threads \ {t}
         PROVE  NoThirdOwner(u)' /\ NoRival(u)' /\ SourceIsEmpty(u)'
    <3>1. /\ NoThirdOwner(u) /\ NoRival(u) /\ SourceIsEmpty(u)
          /\ this'[u] = this[u] /\ other'[u] = other[u] /\ pc'[u] = pc[u]
      BY <2>1, <2>3 DEF EventsSeparate
    <3>2. Halfway(u) => ev'[other[u]] = ev[other[u]]
      BY <1>7, <2>4
    <3>3. NoThirdOwner(u)'
      <4>1. SUFFICES ASSUME Moving(u)', NEW p \in Objects \ {this[u], other[u]},
                            fd'[p] # Invalid, ev'[p] = ev'[other[u]]
                     PROVE  Excused(p)'
        BY <3>1 DEF NoThirdOwner
      <4>2. Moving(u) /\ ev'[p] = ev[other[u]] /\ fd[p] # Invalid
        BY <1>2, <2>6, <3>2, <4>1 DEF Moving
      <4>3. p # a
        <5>1. SUFFICES ASSUME p = a PROVE FALSE
          OBVIOUS
        <5>2. Moving(t) /\ NoRival(t) /\ ev[other[u]] = ev[b]
          BY <1>7, <2>7, <4>2, <5>1
        <5>3. QED
          BY <1>4, <4>2, <5>2 DEF NoRival
      <4>4. Excused(p)
        BY <1>7, <3>1, <4>1, <4>2, <4>3 DEF NoThirdOwner
      <4>5. QED
        BY <2>5, <4>3, <4>4
    <3>4. ASSUME NEW v \in Threads \ {u}, Moving(u)', Moving(v)'
          PROVE  ev'[other'[v]] # ev'[other'[u]]
      <4>1. Moving(u) /\ Moving(v) /\ v # t /\ Halfway(v) /\ Halfway(u)
        BY <2>6, <3>4 DEF Moving
      <4>2. ev'[other'[v]] = ev[other[v]] /\ ev'[other'[u]] = ev[other[u]]
        BY <1>7, <2>3, <2>4, <4>1
      <4>3. QED
        BY <3>1, <4>1, <4>2 DEF NoRival
    <3>5. NoRival(u)'
      BY <3>4 DEF NoRival
    <3>6. SourceIsEmpty(u)'
      <4>1. SUFFICES ASSUME pc[u] = "event"
                     PROVE  SourceIsEmpty(u)'
        BY <3>1 DEF SourceIsEmpty
      <4>2. /\ other[u] \in Objects \ {a}
            /\ fd[other[u]] = Invalid \/ Excused(other[u])
        BY <2>4, <3>1, <4>1 DEF SourceIsEmpty, Halfway
      <4>3. PICK s \in Objects \ {a} : s = other[u]
        BY <4>2
      <4>4. fd'[s] = Invalid \/ Excused(s)'
        BY <1>2, <2>5, <4>2, <4>3 DEF Excused
      <4>5. QED
        BY <3>1, <4>3, <4>4 DEF SourceIsEmpty, Excused
    <3>7. QED
      BY <3>3, <3>5, <3>6
  <2>12. QED
    BY <2>9, <2>10, <2>11 DEF EventsSeparate
<1>11. QED
  BY <1>9, <1>10 DEF EventInv

(* The fourth layer is inductive.                                          *)
LEMMA EventNext ==
  LockInv /\ LifeInv /\ FdInv /\ EventInv /\ [Next]_vars => EventInv'
<1>1. ASSUME EventInv, UNCHANGED vars PROVE EventInv'
  <2>1. /\ fd' = fd /\ table' = table /\ life' = life /\ ev' = ev
        /\ raced' = raced /\ pc' = pc /\ op' = op /\ this' = this
        /\ other' = other
    BY <1>1 DEF vars, objectVars, callVars
  <2>2. EventsExist'
    BY <1>1, <2>1 DEF EventInv, EventsExist, EventInTheMaking
  <2>3. EventsSeparate' <=> EventsSeparate
    BY <2>1 DEF EventsSeparate, EventsApart, NoThirdOwner, NoRival,
                SourceIsEmpty, Moving, Excused, Halfway
  <2>4. QED
    BY <1>1, <2>1, <2>2, <2>3 DEF EventInv
<1>2. ASSUME LockInv, LifeInv, FdInv, EventInv, NEW t \in Threads,
             Calls(t) \/ Step(t)
      PROVE  EventInv'
  BY <1>2, CallsEvent, QuietEvent, FactoryEvent, CopyFdEvent,
     InvalidateFdEvent, CopyEventEvent DEF Step
<1>3. QED
  BY <1>1, <1>2, DestroyEvent DEF Next

(* It holds initially.                                                     *)
LEMMA InitEvent == Init => EventInv
<1> SUFFICES ASSUME Init PROVE EventInv
  OBVIOUS
<1>1. EventsExist
  BY DEF Init, EventsExist, EventInTheMaking
<1>2. \A t \in Threads : ~Halfway(t)
  BY DEF Init, Halfway
<1>3. EventsSeparate
  BY <1>2 DEF Init, EventsSeparate, EventsApart, NoThirdOwner, NoRival,
              SourceIsEmpty, Moving
<1>4. QED
  BY <1>1, <1>3 DEF EventInv

(* Streams that own sockets have different stop events, although the move  *)
(* constructor copies the event after it has unlocked the source, unless   *)
(* the source was assigned to in just that moment.                         *)
THEOREM EventsAreNotShared == Spec => []EventsNotShared
<1>1. EventInv => EventsNotShared
  BY DEF EventInv, EventsExist, EventsSeparate, EventsApart, Excused, Halfway,
         EventsNotShared
<1>2. QED
  BY <1>1, InitLock, LockNext, InitLife, LifeNext, InitFd, FdNext, InitEvent,
     EventNext, PTL DEF Spec
=============================================================================
