----------------------------- MODULE StreamRead -----------------------------
(***************************************************************************)
(* Stream::read called by several threads.  Each turn of its loop takes    *)
(* stream_file_descriptor_read_mtx, polls the socket and the stop event,   *)
(* and calls ::read; the mutex is free between two turns.  The socket is a *)
(* blocking one (TCP): a ::read with nothing to return waits, and nothing  *)
(* but data or the peer ends the wait.                                     *)
(***************************************************************************)
EXTENDS Socket, FiniteSets

CONSTANTS
  Threads,   \* the threads that call read
  Lengths,   \* the values of max_bytes_to_read and min_bytes_to_read
  MaxCalls   \* bound of the model: calls each thread makes

ASSUME LengthsAssumption == Lengths \subseteq Nat
ASSUME MaxCallsAssumption == MaxCalls \in Nat

VARIABLES
  mtx,     \* the holder of the read mutex: {} or {t}
  pc,
  args,    \* max, min and whether there is a timeout
  got,     \* the bytes the call has put into the caller's buffer
  result,
  calls,   \* how many calls a thread has begun
  owner    \* history: for each byte ::read returned, the thread it went to

callVars == <<mtx, pc, args, got, result, calls, owner>>
vars == <<socketVars, callVars>>

Outcome == {"none", "data"} \cup ReadException

(* Type invariant.                                                         *)
TypeOK ==
  /\ SocketTypeOK
  /\ mtx \in {{}} \cup {{t} : t \in Threads}
  /\ pc \in [Threads -> {"idle", "lock", "poll", "receive"}]
  /\ args \in [Threads -> [max : Nat, min : Nat, timed : BOOLEAN]]
  /\ got \in [Threads -> Seq(Byte)]
  /\ result \in [Threads -> Outcome]
  /\ calls \in [Threads -> 0..MaxCalls]
  /\ owner \in Seq(Threads)

Init ==
  /\ SocketInit
  /\ mtx = {}
  /\ pc = [t \in Threads |-> "idle"]
  /\ args = [t \in Threads |-> [max |-> 0, min |-> 0, timed |-> FALSE]]
  /\ got = [t \in Threads |-> << >>]
  /\ result = [t \in Threads |-> "none"]
  /\ calls = [t \in Threads |-> 0]
  /\ owner = << >>

-----------------------------------------------------------------------------
Goto(t, place) == pc' = [pc EXCEPT ![t] = place]

Finish(t, type) ==
  /\ Goto(t, "idle")
  /\ result' = [result EXCEPT ![t] = type]

(* The call, up to the first test of the loop: a minimum of 0 is reached   *)
(* before anything has been read.                                          *)
Call(t, max, min, timed) ==
  /\ pc[t] = "idle" /\ calls[t] < MaxCalls
  /\ calls' = [calls EXCEPT ![t] = @ + 1]
  /\ args' = [args EXCEPT ![t] = [max |-> max, min |-> min, timed |-> timed]]
  /\ got' = [got EXCEPT ![t] = << >>]
  /\ result' = [result EXCEPT ![t] = IF min = 0 THEN "data" ELSE "none"]
  /\ Goto(t, IF min = 0 THEN "idle" ELSE "lock")
  /\ UNCHANGED <<socketVars, mtx, owner>>

Lock(t) ==
  /\ pc[t] = "lock" /\ mtx = {}
  /\ mtx' = {t}
  /\ Goto(t, "poll")
  /\ UNCHANGED <<socketVars, args, got, result, calls, owner>>

(* Mutant: the mutex covers poll only, not ::read.                         *)
PollSocket_Unlocks(t) ==
  /\ pc[t] = "poll" /\ Readable
  /\ mtx' = {}
  /\ Goto(t, "receive")
  /\ UNCHANGED <<socketVars, args, got, result, calls, owner>>

(* poll returns because of the socket, which is looked at first.           *)
PollSocket(t) ==
  /\ pc[t] = "poll" /\ Readable
  /\ Goto(t, "receive")
  /\ UNCHANGED <<socketVars, mtx, args, got, result, calls, owner>>

(* Mutant: the exception leaves the mutex locked.                          *)
Throw_KeepsLock(t, ex) ==
  /\ mtx' = mtx
  /\ Finish(t, ex)
  /\ UNCHANGED <<socketVars, args, got, calls, owner>>

Throw(t, ex) ==
  /\ mtx' = {}
  /\ Finish(t, ex)
  /\ UNCHANGED <<socketVars, args, got, calls, owner>>

PollStop(t) ==
  /\ pc[t] = "poll" /\ ~Readable /\ stop
  /\ Throw(t, "SOCKET_TERMINATION_REQUEST")

PollTimeout(t) ==
  /\ pc[t] = "poll" /\ ~Readable /\ ~stop /\ args[t].timed
  /\ Throw(t, "SOCKET_READ_TIMEOUT")

PollInterrupted(t) ==
  /\ pc[t] = "poll" /\ ~Readable /\ ~stop
  /\ Throw(t, "SOCKET_POLL")

(* Mutant: max_bytes_to_read is passed in every turn.                      *)
Room_Whole(t) == args[t].max

(* What ::read is asked for: the rest of the caller's buffer.              *)
Room(t) == args[t].max - Len(got[t])

(* Mutant: the loop goes on until the caller's buffer is full.             *)
Receive_UntilFull(t, n) ==
  /\ pc[t] = "receive"
  /\ ReadReturns(Room(t), n)
  /\ inflight' = SubSeq(inflight, n + 1, Len(inflight))
  /\ got' = [got EXCEPT ![t] = @ \o SubSeq(inflight, 1, n)]
  /\ owner' = owner \o [k \in 1..n |-> t]
  /\ mtx' = {}
  /\ IF Len(got[t]) + n < args[t].max
       THEN Goto(t, "lock") /\ result' = result
       ELSE Finish(t, "data")
  /\ UNCHANGED <<sent, lost, peer, stop, args, calls>>

Receive(t, n) ==
  /\ pc[t] = "receive"
  /\ ReadReturns(Room(t), n)
  /\ inflight' = SubSeq(inflight, n + 1, Len(inflight))
  /\ got' = [got EXCEPT ![t] = @ \o SubSeq(inflight, 1, n)]
  /\ owner' = owner \o [k \in 1..n |-> t]
  /\ mtx' = {}
  /\ IF Len(got[t]) + n < args[t].min
       THEN Goto(t, "lock") /\ result' = result
       ELSE Finish(t, "data")
  /\ UNCHANGED <<sent, lost, peer, stop, args, calls>>

(* ::read returns 0 or -1: end of stream, no room left in the caller's     *)
(* buffer, or a reset.                                                     *)
ReceiveThrows(t) ==
  /\ pc[t] = "receive"
  /\ \/ /\ Room(t) = 0 \/ (inflight = << >> /\ peer # "open")
        /\ Throw(t, "SOCKET_CLOSED")
     \/ /\ Room(t) > 0 /\ inflight = << >> /\ peer = "reset"
        /\ Throw(t, "SOCKET_READ")

stopReads == ~stop /\ StreamStopReads /\ UNCHANGED callVars

PeerStep == Peer /\ UNCHANGED callVars

ReceiveSome(t) == \E n \in 1..MaxSent : Receive(t, n)

Step(t) ==
  \/ Lock(t) \/ PollSocket(t) \/ PollStop(t) \/ PollTimeout(t)
  \/ ReceiveSome(t) \/ ReceiveThrows(t)

Next ==
  \/ PeerStep \/ stopReads
  \/ \E t \in Threads :
       \/ \E max \in Lengths, min \in Lengths, timed \in BOOLEAN :
            Call(t, max, min, timed)
       \/ Step(t)
       \/ PollInterrupted(t)

Spec == Init /\ [][Next]_vars

(* A thread inside a call runs when it can; its calls are finitely many    *)
(* (MaxCalls), so that a thread waiting for the mutex gets it.             *)
FairSpec == Spec /\ \A t \in Threads : WF_vars(Step(t))

-----------------------------------------------------------------------------
(* A thread past poll finds something to read: the mutex keeps any other   *)
(* reader from taking the data between poll and ::read, which would leave  *)
(* this one blocked in ::read, out of reach of the timeout and of          *)
(* stopReads.                                                              *)
ReadNeverBlocks == \A t \in Threads : pc[t] = "receive" => Readable

(* The places in the stream of the bytes that went to t, and those of them *)
(* behind k.                                                               *)
Mine(t) == {k \in DOMAIN owner : owner[k] = t}
Behind(t, k) == {i \in Mine(t) : i > k}

(* A call never writes past the max bytes of the buffer it was given, and  *)
(* the bytes it has put there are the last ones of the stream that went to *)
(* its thread, in stream order and without a gap or a repetition that      *)
(* another thread does not account for.                                    *)
BufferHoldsStream ==
  \A t \in Threads :
    /\ Len(got[t]) <= args[t].max
    /\ \A j \in DOMAIN got[t] :
         \E k \in Mine(t) :
           /\ Len(got[t]) - j = Cardinality(Behind(t, k))
           /\ got[t][j] = sent[k]

(* An exception drops the bytes its call has taken from the stream so far, *)
(* and nobody is told how many they were.  It is thrown only before the    *)
(* call has its minimum, so that a call with a minimum of one (all those   *)
(* of the buffered layers) never loses a byte; and it is SOCKET_CLOSED     *)
(* only if the peer is gone or the caller's buffer cannot hold the minimum *)
(* asked for.                                                              *)
ExceptionsAreDue ==
  \A t \in Threads :
    /\ result[t] \in ReadException => Len(got[t]) < args[t].min
    /\ result[t] = "SOCKET_CLOSED" =>
         peer # "open" \/ args[t].max < args[t].min

(* stopReads "aborts all currently running reads": every call in progress  *)
(* returns, also one that waits for the mutex or is between two turns.     *)
StopAbortsReads == \A t \in Threads : stop ~> pc[t] = "idle"
=============================================================================
