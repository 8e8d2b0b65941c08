--------------------------- MODULE ListenerProofs ---------------------------
(***************************************************************************)
(* Proofs about Listener for every set of clients, every set of threads in *)
(* accept and every finite set of threads in stopAccepting, and about      *)
(* ListenerBase, with which it shares the state of the socket, for every   *)
(* set of clients.                                                         *)
(***************************************************************************)
EXTENDS ListenerBase, Listener, FiniteSetTheorems, TLAPS

(* Callers of stopAccepting that are about to close the socket, and those  *)
(* that have closed it and are about to set the flag.                      *)
Closers == {s \in Stoppers : stop[s] = "close"}
Storers == {s \in Stoppers : stop[s] = "store"}

(* The flag and the last step of stopAccepting come after the close, and a *)
(* closed socket stays closed: the constructor has run.                    *)
SocketPhase ==
  /\ stopped_accepting \/ Storers # {} => sock = "closed"
  /\ sock = "closed" => life \in {"alive", "dead"}
  /\ \A s \in Stoppers : Stopping(s) => life = "alive"

(* A late call finds a closed descriptor and never waits in the kernel.    *)
LateCalls ==
  \A t \in Threads :
    late[t] => /\ sock = "closed"
               /\ pc[t] \in {"idle", "accept"}
               /\ result[t] # "stream"

(* How many have closed the socket: while the flag is not set, exactly     *)
(* those about to set it; and those still to close it are among the rest.  *)
CloseCount ==
  /\ ~stopped_accepting => closes = Cardinality(Storers)
  /\ closes + Cardinality(Closers) <= Cardinality(Stoppers)

(* Calls of stopAccepting that do not overlap.                             *)
OneStopper ==
  ~overlap =>
    /\ \A r \in Stoppers, s \in Stoppers : Stopping(r) /\ Stopping(s) => r = s
    /\ stopped_accepting => \A s \in Stoppers : ~Stopping(s)
    /\ closes <= 1

IInv == TypeOK /\ SocketPhase /\ LateCalls /\ CloseCount /\ OneStopper

-----------------------------------------------------------------------------
(* The sets of callers are finite, disjoint parts of Stoppers.             *)
LEMMA StopperSets ==
  /\ IsFiniteSet(Closers) /\ IsFiniteSet(Storers)
  /\ Cardinality(Closers) \in Nat /\ Cardinality(Storers) \in Nat
  /\ Cardinality(Stoppers) \in Nat
  /\ Cardinality(Closers) + Cardinality(Storers) <= Cardinality(Stoppers)
<1>1. /\ IsFiniteSet(Closers) /\ IsFiniteSet(Storers)
  BY StoppersAssumption, FS_Subset DEF Closers, Storers
<1>2. /\ Cardinality(Closers) \in Nat /\ Cardinality(Storers) \in Nat
      /\ Cardinality(Stoppers) \in Nat
  BY <1>1, StoppersAssumption, FS_CardinalityType
<1>3. Closers \cap Storers = {}
  BY DEF Closers, Storers
<1>4. Cardinality(Closers \cup Storers)
        = Cardinality(Closers) + Cardinality(Storers)
  <2>1. Cardinality(Closers \cap Storers) = 0
    BY <1>3, FS_EmptySet
  <2>2. Cardinality(Closers \cup Storers)
          = Cardinality(Closers) + Cardinality(Storers)
              - Cardinality(Closers \cap Storers)
    BY <1>1, FS_Union, Zenon
  <2>3. QED
    BY <1>2, <2>1, <2>2
<1>5. Cardinality(Closers \cup Storers) <= Cardinality(Stoppers)
  <2>1. Closers \cup Storers \in SUBSET Stoppers
    BY DEF Closers, Storers
  <2>2. QED
    BY <2>1, StoppersAssumption, FS_Subset
<1>6. QED
  BY <1>1, <1>2, <1>4, <1>5

(* A thread that enters stopAccepting becomes a closer.                    *)
LEMMA BeginCounts ==
  ASSUME IInv, NEW s \in Stoppers, StopBegin(s)
  PROVE  CloseCount' /\ OneStopper'
<1>1. /\ Closers' = Closers \cup {s} /\ s \notin Closers
      /\ Storers' = Storers /\ s \notin Storers
  BY DEF StopBegin, Stopping, Closers, Storers, IInv, TypeOK
<1>2. Cardinality(Closers \cup {s}) = Cardinality(Closers) + 1
  BY <1>1, StopperSets, FS_AddElement
<1>3. Cardinality(Closers \cup {s}) + Cardinality(Storers)
        <= Cardinality(Stoppers)
  <2>1. (Closers \cup {s}) \cap Storers = {}
    BY <1>1 DEF Closers, Storers
  <2>2. IsFiniteSet(Closers \cup {s})
    BY StopperSets, FS_AddElement
  <2>3. (Closers \cup {s}) \cup Storers \in SUBSET Stoppers
    BY DEF Closers, Storers
  <2>4. Cardinality((Closers \cup {s}) \cup Storers) <= Cardinality(Stoppers)
    BY <2>3, StoppersAssumption, FS_Subset
  <2>5. Cardinality((Closers \cup {s}) \cap Storers) = 0
    BY <2>1, FS_EmptySet
  <2>6. Cardinality((Closers \cup {s}) \cup Storers)
          = Cardinality(Closers \cup {s}) + Cardinality(Storers)
              - Cardinality((Closers \cup {s}) \cap Storers)
    BY <2>2, StopperSets, FS_Union, Zenon
  <2>7. QED
    BY <1>2, <2>4, <2>5, <2>6, StopperSets
<1>4. closes = Cardinality(Storers) /\ closes' = closes
      /\ ~stopped_accepting /\ ~stopped_accepting'
  BY DEF IInv, CloseCount, StopBegin, PostEnd
<1>5. CloseCount'
  BY <1>1, <1>2, <1>3, <1>4, StopperSets DEF CloseCount
<1>6. OneStopper'
  BY <1>4 DEF IInv, OneStopper, StopBegin, Stopping, TypeOK
<1>7. QED
  BY <1>5, <1>6

(* A closer becomes a storer, and the descriptor is closed once more.      *)
LEMMA CloseCounts ==
  ASSUME IInv, NEW s \in Stoppers, StopClose(s)
  PROVE  CloseCount' /\ OneStopper'
<1>1. /\ Closers' = Closers \ {s} /\ s \in Closers
      /\ Storers' = Storers \cup {s} /\ s \notin Storers
  BY DEF StopClose, Closers, Storers, IInv, TypeOK
<1>2. /\ Cardinality(Closers \ {s}) = Cardinality(Closers) - 1
      /\ Cardinality(Storers \cup {s}) = Cardinality(Storers) + 1
  BY <1>1, StopperSets, FS_AddElement, FS_RemoveElement
<1>3. /\ closes' = closes + 1 /\ stopped_accepting' = stopped_accepting
      /\ closes \in Nat
  BY DEF StopClose, CloseSocket, IInv, TypeOK, ListeningTypeOK
<1>4. CloseCount'
  BY <1>1, <1>2, <1>3, StopperSets DEF CloseCount, IInv
<1>5. ASSUME ~overlap
      PROVE  closes' <= 1
  <2>1. Storers = {} /\ ~stopped_accepting
    BY <1>5 DEF IInv, OneStopper, Storers, Stopping, StopClose
  <2>2. closes = 0
    BY <2>1, FS_EmptySet DEF IInv, CloseCount
  <2>3. QED
    BY <1>3, <2>2
<1>6. OneStopper'
  BY <1>3, <1>5 DEF IInv, OneStopper, StopClose, Stopping, TypeOK
<1>7. QED
  BY <1>4, <1>6

(* The flag is set: from now on nobody enters.                             *)
LEMMA StoreCounts ==
  ASSUME IInv, NEW s \in Stoppers, StopStore(s)
  PROVE  CloseCount' /\ OneStopper'
<1>1. Closers' = Closers
  BY DEF StopStore, Closers, IInv, TypeOK
<1>2. closes' = closes /\ stopped_accepting'
  BY DEF StopStore, SetStopped
<1>3. CloseCount'
  BY <1>1, <1>2 DEF CloseCount, IInv
<1>4. OneStopper'
  BY <1>2 DEF IInv, OneStopper, StopStore, Stopping, TypeOK
<1>5. QED
  BY <1>3, <1>4

-----------------------------------------------------------------------------
(* The initial states satisfy the invariant.                               *)
LEMMA InitInv == Init => IInv
<1> SUFFICES ASSUME Init PROVE IInv
  OBVIOUS
<1>1. TypeOK
  BY DEF Init, ListeningInit, TypeOK, ListeningTypeOK, Outcome
<1>2. Closers = {} /\ Storers = {}
  BY DEF Init, Closers, Storers
<1>3. SocketPhase /\ LateCalls /\ OneStopper
  BY <1>2 DEF Init, ListeningInit, SocketPhase, LateCalls, OneStopper,
              Stopping
<1>4. CloseCount
  BY <1>2, StopperSets, FS_EmptySet DEF Init, ListeningInit, CloseCount
<1>5. QED
  BY <1>1, <1>3, <1>4 DEF IInv

(* What depends on the callers of stopAccepting only.                      *)
LEMMA StopFrame ==
  ASSUME IInv, UNCHANGED <<stopVars, stopped_accepting, closes>>
  PROVE  CloseCount' /\ OneStopper' /\ Storers' = Storers
BY DEF IInv, CloseCount, OneStopper, stopVars, Closers, Storers, Stopping

(* stopAccepting.                                                          *)
LEMMA StopInv ==
  ASSUME IInv, NEW s \in Stoppers, StopBegin(s) \/ StopStep(s)
  PROVE  IInv'
<1> USE DEF IInv, TypeOK, ListeningTypeOK, SocketPhase, LateCalls, Stopping,
            Storers, callVars
<1>1. CASE StopBegin(s)
  <2>1. TypeOK' /\ SocketPhase' /\ LateCalls'
    BY <1>1 DEF StopBegin, PostEnd
  <2>2. QED
    BY <1>1, <2>1, BeginCounts
<1>2. CASE StopClose(s)
  <2>1. TypeOK' /\ SocketPhase' /\ LateCalls'
    BY <1>2 DEF StopClose, CloseSocket
  <2>2. QED
    BY <1>2, <2>1, CloseCounts
<1>3. CASE StopStore(s)
  <2>1. TypeOK' /\ SocketPhase' /\ LateCalls'
    BY <1>3 DEF StopStore, SetStopped
  <2>2. QED
    BY <1>3, <2>1, StoreCounts
<1>4. QED
  BY <1>1, <1>2, <1>3 DEF StopStep

(* The constructor, the destructor and the clients.                        *)
LEMMA OutsideInv ==
  ASSUME IInv, Constructor \/ ClientConnects \/ ClientVanishes \/ Destroy
  PROVE  IInv'
<1> USE DEF IInv, TypeOK, ListeningTypeOK, SocketPhase, LateCalls, Stopping,
            callVars, stopVars
<1>1. CASE Constructor
  BY <1>1, StopFrame DEF Constructor, Construct, ConstructThrows
<1>2. CASE ClientConnects
  BY <1>2, StopFrame DEF ClientConnects, Connect
<1>3. CASE Destroy
  BY <1>3, StopFrame DEF Destroy
<1>4. CASE ClientVanishes
  BY <1>4, StopFrame DEF ClientVanishes, Vanish
<1>5. QED
  BY <1>1, <1>2, <1>3, <1>4

(* accept.                                                                 *)
LEMMA AcceptInv ==
  ASSUME IInv, NEW t \in Threads,
         \/ \E timeout \in BOOLEAN : CallAccept(t, timeout)
         \/ Step(t) \/ Failure(t)
  PROVE  IInv'
<1> USE DEF IInv, TypeOK, ListeningTypeOK, SocketPhase, LateCalls, Stopping,
            socketVars, stopVars, Goto, Return, Outcome, InAccept
<1>1. ASSUME NEW timeout \in BOOLEAN, CallAccept(t, timeout)
      PROVE  IInv'
  BY <1>1, StopFrame DEF CallAccept
<1>2. CASE PollClient(t)
  BY <1>2, StopFrame DEF PollClient
<1>3. CASE PollEnd(t)
  BY <1>3, StopFrame DEF PollEnd
<1>4. CASE PollTimeout(t)
  BY <1>4, StopFrame DEF PollTimeout
<1>5. CASE PollInterrupted(t)
  BY <1>5, StopFrame DEF PollInterrupted
<1>6. CASE AcceptFails(t)
  BY <1>6, StopFrame DEF AcceptFails
<1>7. CASE AcceptBlocks(t)
  BY <1>7, StopFrame DEF AcceptBlocks
<1>8. ASSUME NEW c \in Clients, Accept(t, c)
      PROVE  IInv'
  BY <1>8, StopFrame DEF Accept
<1>9. CASE AcceptOnClosed(t)
  BY <1>9, StopFrame DEF AcceptOnClosed
<1>10. ASSUME NEW c \in Clients, StreamThrows(t, c)
       PROVE  IInv'
  BY <1>10, StopFrame DEF StreamThrows
<1>11. QED
  BY <1>1, <1>2, <1>3, <1>4, <1>5, <1>6, <1>7, <1>8, <1>9, <1>10
     DEF Step, Failure

(* The invariant is inductive.                                             *)
LEMMA Inductive == Spec => []IInv
<1>1. IInv /\ UNCHANGED vars => IInv'
  BY StopFrame DEF IInv, TypeOK, ListeningTypeOK, SocketPhase, LateCalls,
                   Stopping, vars, socketVars, callVars, stopVars
<1>2. IInv /\ [Next]_vars => IInv'
  BY <1>1, OutsideInv, StopInv, AcceptInv DEF Next
<1>3. QED
  BY InitInv, <1>2, PTL DEF Spec

(* Every variable keeps its type.                                          *)
THEOREM TypeCorrect == Spec => []TypeOK
BY Inductive, PTL DEF IInv

(* A call of accept that begins after stopAccepting has returned yields no *)
(* Stream.                                                                 *)
THEOREM LateCallsYieldNothing == Spec => []NoStreamAfterStop
<1>1. IInv => NoStreamAfterStop
  BY DEF IInv, LateCalls, NoStreamAfterStop
<1>2. QED
  BY <1>1, Inductive, PTL

(* The descriptor is closed once, and more often only when calls of        *)
(* stopAccepting overlap, by each of them once.                            *)
THEOREM SocketIsClosedOnce == Spec => []ClosedOnce
<1>1. IInv => ClosedOnce
  BY StopperSets DEF IInv, CloseCount, OneStopper, ClosedOnce, TypeOK,
                     ListeningTypeOK
<1>2. QED
  BY <1>1, Inductive, PTL

-----------------------------------------------------------------------------
(* ListenerBase.                                                           *)

(* The thread has ended or was never started.                              *)
Quiescent == task \in {"none", "done"}

(* Where the owner may be in stopAccepting, and what it has done by then.  *)
OwnerPhase ==
  /\ owner \in {"close", "store"} => Quiescent
  /\ owner = "store" => sock = "closed"
  /\ sock = "closed" => owner = "store" \/ stopped_accepting

(* Before the constructor is done nothing runs.                            *)
NothingBeforeLife ==
  life # "alive" => Quiescent /\ owner = "idle"

(* A derived class that stops first is gone only once the thread is.       *)
DerivedOutlivesThread ==
  stopsFirst /\ ~derived => stopped_accepting

BaseInv ==
  /\ BaseTypeOK
  /\ OwnerPhase
  /\ NothingBeforeLife
  /\ DerivedOutlivesThread
  /\ NoCallbackAfterStop
  /\ CallbackHasObject

(* The initial states satisfy the invariant.                               *)
LEMMA BaseInitInv == BaseInit => BaseInv
<1> SUFFICES ASSUME BaseInit PROVE BaseInv
  OBVIOUS
<1> USE DEF BaseInit, ListeningInit
<1>1. BaseTypeOK
  <2>1. closes \in Nat
    OBVIOUS
  <2>2. QED
    BY <2>1, Zenon DEF BaseTypeOK, ListeningTypeOK
<1>2. OwnerPhase /\ NothingBeforeLife /\ DerivedOutlivesThread
  BY DEF OwnerPhase, NothingBeforeLife, DerivedOutlivesThread, Quiescent
<1>3. NoCallbackAfterStop /\ CallbackHasObject
  BY DEF NoCallbackAfterStop, CallbackHasObject
<1>4. QED
  BY <1>1, <1>2, <1>3 DEF BaseInv

(* Construction, start and the clients.                                    *)
LEMMA BaseOutside ==
  ASSUME BaseInv,
         \/ BaseConstructor \/ startAccepting
         \/ BaseClientConnects \/ BaseClientVanishes
  PROVE  BaseInv'
<1> USE DEF BaseInv, BaseTypeOK, ListeningTypeOK, OwnerPhase, Quiescent,
            NothingBeforeLife, DerivedOutlivesThread, NoCallbackAfterStop,
            CallbackHasObject, socketVars, taskVars, ownVars
<1>1. CASE BaseConstructor
  BY <1>1 DEF BaseConstructor, Construct, ConstructThrows
<1>2. CASE startAccepting
  BY <1>2 DEF startAccepting
<1>3. CASE BaseClientConnects
  BY <1>3 DEF BaseClientConnects, Connect
<1>4. CASE BaseClientVanishes
  BY <1>4 DEF BaseClientVanishes, Vanish
<1>5. QED
  BY <1>1, <1>2, <1>3, <1>4

(* The accepting thread, and the callback that calls stopAccepting.        *)
LEMMA BaseTask ==
  ASSUME BaseInv, Task \/ BaseAcceptFails \/ CallbackStops
  PROVE  BaseInv'
<1> USE DEF BaseInv, BaseTypeOK, ListeningTypeOK, OwnerPhase, Quiescent,
            NothingBeforeLife, DerivedOutlivesThread, NoCallbackAfterStop,
            CallbackHasObject, socketVars, taskVars, ownVars
<1>1. CASE BasePollClient
  BY <1>1 DEF BasePollClient
<1>2. CASE BasePollEnd
  BY <1>2 DEF BasePollEnd
<1>3. CASE BaseAcceptFails
  BY <1>3 DEF BaseAcceptFails
<1>4. CASE CallbackReturns
  BY <1>4 DEF CallbackReturns
<1>5. ASSUME NEW c \in Clients, BaseAccept(c)
      PROVE  BaseInv'
  BY <1>5 DEF BaseAccept
<1>6. CASE CallbackStops
  BY <1>6 DEF CallbackStops, PostEnd
<1>7. QED
  BY <1>1, <1>2, <1>3, <1>4, <1>5, <1>6 DEF Task

(* The owner in stopAccepting and in the two destructors.                  *)
LEMMA BaseOwner ==
  ASSUME BaseInv,
         \/ BaseStopBegin \/ BaseStopping
         \/ DestroyDerived \/ DestroyBase
  PROVE  BaseInv'
<1> USE DEF BaseInv, BaseTypeOK, ListeningTypeOK, OwnerPhase, Quiescent,
            NothingBeforeLife, DerivedOutlivesThread, NoCallbackAfterStop,
            CallbackHasObject, socketVars, taskVars, ownVars
<1>1. CASE BaseStopBegin
  BY <1>1 DEF BaseStopBegin, PostEnd
<1>2. CASE StopJoin
  BY <1>2 DEF StopJoin
<1>3. CASE BaseStopClose
  BY <1>3 DEF BaseStopClose, CloseSocket
<1>4. CASE BaseStopStore
  BY <1>4 DEF BaseStopStore, SetStopped
<1>5. CASE DestroyDerived
  BY <1>5 DEF DestroyDerived
<1>6. CASE DestroyBase
  BY <1>6 DEF DestroyBase
<1>7. QED
  BY <1>1, <1>2, <1>3, <1>4, <1>5, <1>6 DEF BaseStopping

(* The invariant is inductive.                                             *)
LEMMA BaseInductive == BaseSpec => []BaseInv
<1>1. BaseInv /\ UNCHANGED baseVars => BaseInv'
  BY DEF BaseInv, BaseTypeOK, ListeningTypeOK, OwnerPhase, Quiescent,
         NothingBeforeLife, DerivedOutlivesThread, NoCallbackAfterStop,
         CallbackHasObject, baseVars, socketVars, taskVars, ownVars
<1>2. BaseInv /\ [BaseNext]_baseVars => BaseInv'
  BY <1>1, BaseOutside, BaseTask, BaseOwner DEF BaseNext
<1>3. QED
  BY BaseInitInv, <1>2, PTL DEF BaseSpec

(* Every variable keeps its type.                                          *)
THEOREM BaseTypeCorrect == BaseSpec => []BaseTypeOK
BY BaseInductive, PTL DEF BaseInv

(* Once stopAccepting has returned, or has closed the socket, the thread   *)
(* is gone: it neither calls onIncomingStream nor uses the descriptor.     *)
THEOREM StopIsFinal == BaseSpec => []NoCallbackAfterStop
BY BaseInductive, PTL DEF BaseInv

(* A derived class whose destructor calls stopAccepting is never called    *)
(* back after it is gone.                                                  *)
THEOREM CallbacksHaveAnObject == BaseSpec => []CallbackHasObject
BY BaseInductive, PTL DEF BaseInv
=============================================================================
