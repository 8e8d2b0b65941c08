--------------------------- MODULE BufferedStream ---------------------------
(***************************************************************************)
(* The public API of BufferedStream used by several threads.  read(n) and  *)
(* read(buffer, max, min) go through buffer_lock, which is held while the  *)
(* stream is polled; readUntilDelimiter takes no lock.  What it shares     *)
(* with a call of another thread is a data race: when a call writes to the *)
(* buffer at an offset that is out of date, or while another uses it, the  *)
(* object is spoilt, and the model ends there.                             *)
(***************************************************************************)
EXTENDS StreamBuffer

CONSTANTS
  Callers,      \* the threads that use the object
  Delimiter,    \* the argument of readUntilDelimiter
  Lengths,      \* the lengths asked for
  Ops           \* of each caller, the operations the program lets it use,
                \* and "timeouts" if it passes timeouts to them

Operations == {"read", "readInto", "readUntilDelimiter"}

ASSUME LengthsAssumption == Lengths \subseteq Nat
ASSUME OpsAssumption ==
  Ops \in [Callers -> SUBSET (Operations \cup {"timeouts"})]

VARIABLES
  lock,    \* the caller that holds buffer_lock, or {}
  pc,      \* where each caller is
  args,    \* the arguments of its call, NoArgs when there is none
  at,      \* buffer_write_offset as its call has last loaded it, 0 when the
           \* call does not use that value any more
  result,  \* how its last call has ended
  spoilt,  \* bytes were written to the buffer where they do not belong
  given,      \* history: the bytes handed to callers, in order
  overtaken,  \* history: the operations of others that have popped from
              \* the buffer since the caller found enough data there
  overlap     \* history: a readUntilDelimiter ran at the time of another call

callerVars == <<lock, pc, args, at, result>>
historyVars == <<given, overtaken, overlap>>
vars == <<socketVars, bufferVars, callerVars, spoilt, historyVars>>

(* read(n) asks for max = min = n.                                         *)
Args == [op : Operations, max : Nat, min : Nat, timed : BOOLEAN]
Outcome == {"none", "data", "std::out_of_range", "std::logic_error",
            "SocketException"}
NoArgs == [op |-> "read", max |-> 0, min |-> 0, timed |-> FALSE]

(* Type invariant.                                                         *)
TypeOK ==
  /\ SocketTypeOK
  /\ BufferTypeOK
  /\ lock \in {{}} \cup {{c} : c \in Callers}
  /\ pc \in [Callers -> {"idle", "check", "lock", "fill", "pop", "scan"}]
  /\ args \in [Callers -> Args]
  /\ at \in [Callers -> 0..BufferSize]
  /\ result \in [Callers -> Outcome]
  /\ spoilt \in BOOLEAN
  /\ given \in Seq(Byte)
  /\ overtaken \in [Callers -> SUBSET Operations]
  /\ overlap \in BOOLEAN

Init ==
  /\ SocketInit
  /\ BufferInit
  /\ lock = {}
  /\ pc = [c \in Callers |-> "idle"]
  /\ args = [c \in Callers |-> NoArgs]
  /\ at = [c \in Callers |-> 0]
  /\ result = [c \in Callers |-> "none"]
  /\ spoilt = FALSE
  /\ given = << >>
  /\ overtaken = [c \in Callers |-> {}]
  /\ overlap = FALSE

-----------------------------------------------------------------------------
Goto(c, place) == pc' = [pc EXCEPT ![c] = place]
Load(c, offset) == at' = [at EXCEPT ![c] = offset]
Runs(c, place) == pc[c] = place /\ ~spoilt
Free(c) == lock \subseteq {c}   \* buffer_lock is recursive

Return(c, type) ==
  /\ Goto(c, "idle")
  /\ args' = [args EXCEPT ![c] = NoArgs]
  /\ Load(c, 0)
  /\ result' = [result EXCEPT ![c] = type]

(* stopReads "should only be called before destruction": no call starts    *)
(* after it.                                                               *)
MayCall(c) == Runs(c, "idle") /\ ~stop

Begin(c, place, op, max, min, timed) ==
  /\ Goto(c, place)
  /\ args' = [args EXCEPT ![c] = [op |-> op, max |-> max, min |-> min,
                                 timed |-> timed]]
  /\ Load(c, IF place = "scan" THEN Len(buffer) ELSE 0)
  /\ result' = [result EXCEPT ![c] = "none"]
  /\ overlap' = \/ overlap
                \/ \E d \in Callers \ {c} :
                     IF place = "scan" THEN pc[d] # "idle" ELSE pc[d] = "scan"

(* The call is refused: what it asks for does not fit into the buffer.     *)
Refuse(c) == Return(c, "std::logic_error") /\ overlap' = overlap

(* BufferedStream::read(n).                                                *)
CallRead(c, n, timed) ==
  /\ "read" \in Ops[c] /\ MayCall(c) /\ (timed => "timeouts" \in Ops[c])
  /\ IF n > BufferSize THEN Refuse(c)
                       ELSE Begin(c, "check", "read", n, n, timed)
  /\ UNCHANGED <<socketVars, bufferVars, lock, spoilt, given, overtaken>>

(* Mutant: the loop ends one byte early.                                   *)
Check_OneLess(c) ==
  /\ Runs(c, "check")
  /\ Goto(c, IF Len(buffer) + 1 < args[c].min THEN "lock" ELSE "pop")
  /\ UNCHANGED <<socketVars, bufferVars, lock, args, at, result, spoilt,
                 historyVars>>

(* The loop condition of read(n), evaluated without the lock.              *)
Check(c) ==
  /\ Runs(c, "check")
  /\ Goto(c, IF Len(buffer) < args[c].min THEN "lock" ELSE "pop")
  /\ UNCHANGED <<socketVars, bufferVars, lock, args, at, result, spoilt,
                 historyVars>>

(* BufferedStream::read(buffer, max, min) takes the lock until it returns. *)
CallReadInto(c, max, min, timed) ==
  /\ "readInto" \in Ops[c] /\ MayCall(c) /\ (timed => "timeouts" \in Ops[c])
  /\ Begin(c, "lock", "readInto", max, min, timed)
  /\ UNCHANGED <<socketVars, bufferVars, lock, spoilt, given, overtaken>>

(* Mutant: the stream is read without waiting for the lock.                *)
Lock_NotWaitedFor(c) ==
  /\ Runs(c, "lock")
  /\ lock' = {c}
  /\ Goto(c, "fill")
  /\ Load(c, Len(buffer))
  /\ UNCHANGED <<socketVars, bufferVars, args, result, spoilt, historyVars>>

(* The lock is taken, and with it the offset at which the stream will be   *)
(* read into the buffer.                                                   *)
Lock(c) ==
  /\ Runs(c, "lock") /\ Free(c)
  /\ lock' = {c}
  /\ Goto(c, "fill")
  /\ Load(c, Len(buffer))
  /\ UNCHANGED <<socketVars, bufferVars, args, result, spoilt, historyVars>>

(* readAvailableDataIntoBuffer returns to read(n), which releases the      *)
(* lock, or to read(buffer, max, min), which keeps it.                     *)
Fill(c, n) ==
  /\ Runs(c, "fill") /\ at[c] = Len(buffer)
  /\ readAvailableDataIntoBuffer(n)
  /\ IF args[c].op = "read"
       THEN lock' = {} /\ Goto(c, "check") /\ Load(c, 0)
       ELSE /\ lock' = lock
            /\ Goto(c, IF Len(buffer') < args[c].min THEN "fill" ELSE "pop")
            /\ Load(c, Len(buffer'))
  /\ UNCHANGED <<args, result, spoilt, historyVars>>

(* Mutant: the exception leaves the lock behind.                           *)
FillThrows_KeepsLock(c, ex) ==
  /\ Runs(c, "fill")
  /\ ReadThrows(BufferSize - at[c], args[c].timed, ex)
  /\ lock' = lock
  /\ Return(c, "SocketException")
  /\ UNCHANGED <<socketVars, bufferVars, spoilt, historyVars>>

FillThrows(c, ex) ==
  /\ Runs(c, "fill")
  /\ ReadThrows(BufferSize - at[c], args[c].timed, ex)
  /\ lock' = {}
  /\ Return(c, "SocketException")
  /\ UNCHANGED <<socketVars, bufferVars, spoilt, historyVars>>

(* What PopFromBuffer is asked for: n, or what there was after the last    *)
(* turn, up to max.                                                        *)
PopLength(c) ==
  IF args[c].op = "read" \/ args[c].max < at[c] THEN args[c].max ELSE at[c]

(* c has popped: who has looked at the buffer and not yet popped is        *)
(* overtaken if there is less in it now.                                   *)
Overtake(c) ==
  overtaken' = [d \in Callers |->
    IF d = c THEN {}
    ELSE IF pc[d] = "pop" /\ Len(buffer') < Len(buffer)
      THEN overtaken[d] \cup {args[c].op}
      ELSE overtaken[d]]

Pop(c) ==
  /\ Runs(c, "pop") /\ Free(c)
  /\ PopFromBuffer(PopLength(c))
  /\ given' = given \o SubSeq(buffer, 1, PopLength(c))
  /\ Return(c, "data")
  /\ lock' = {}
  /\ Overtake(c)
  /\ UNCHANGED <<spoilt, overlap>>

PopThrows(c) ==
  /\ Runs(c, "pop") /\ Free(c)
  /\ PopLength(c) > Len(buffer)
  /\ Return(c, "std::out_of_range")
  /\ lock' = {}
  /\ overtaken' = [overtaken EXCEPT ![c] = {}]
  /\ UNCHANGED <<socketVars, bufferVars, spoilt, given, overlap>>

-----------------------------------------------------------------------------
(* readUntilDelimiter.  The stream is read before the buffer is searched.  *)
CallReadUntilDelimiter(c) ==
  /\ "readUntilDelimiter" \in Ops[c] /\ MayCall(c)
  /\ IF Len(buffer) < BufferSize
       THEN Begin(c, "scan", "readUntilDelimiter", 0, 0, FALSE)
       ELSE Refuse(c)
  /\ UNCHANGED <<socketVars, bufferVars, lock, spoilt, given, overtaken>>

Delimiters(data) == {k \in DOMAIN data : data[k] = Delimiter}
FirstDelimiter(data) ==
  CHOOSE k \in Delimiters(data) : \A j \in Delimiters(data) : k <= j

(* One turn of its loop in which the stream returns n bytes: the delimiter *)
(* is removed from the buffer and is not part of the result.               *)
Scan(c, n) ==
  /\ Runs(c, "scan") /\ at[c] = Len(buffer)
  /\ ReadReturns(Space, n)
  /\ inflight' = SubSeq(inflight, n + 1, Len(inflight))
  /\ LET data == buffer \o SubSeq(inflight, 1, n)
         k == FirstDelimiter(data)
     IN \/ /\ Delimiters(data) # {}
           /\ buffer' = SubSeq(data, k + 1, Len(data))
           /\ taken' = taken \o SubSeq(data, 1, k)
           /\ given' = given \o SubSeq(data, 1, k - 1)
           /\ Return(c, "data")
           /\ Overtake(c)
        \/ /\ Delimiters(data) = {}
           /\ buffer' = data
           /\ UNCHANGED <<taken, given, overtaken>>
           /\ IF Len(data) < BufferSize
                THEN Load(c, Len(data)) /\ UNCHANGED <<pc, args, result>>
                ELSE Return(c, "std::logic_error")
  /\ UNCHANGED <<sent, lost, peer, stop, lock, spoilt, overlap>>

ScanThrows(c, ex) ==
  /\ Runs(c, "scan")
  /\ ReadThrows(BufferSize - at[c], FALSE, ex)
  /\ Return(c, "SocketException")
  /\ UNCHANGED <<socketVars, bufferVars, lock, spoilt, historyVars>>

(* The stream returns data to a call whose offset is no longer that of the *)
(* buffer, or to readUntilDelimiter while another call uses the buffer.    *)
Spoil(c) ==
  /\ Runs(c, "fill") \/ Runs(c, "scan")
  /\ \E n \in 1..BufferSize : ReadReturns(BufferSize - at[c], n)
  /\ \/ at[c] # Len(buffer)
     \/ pc[c] = "scan" /\ \E d \in Callers \ {c} : pc[d] # "idle"
  /\ spoilt' = TRUE
  /\ UNCHANGED <<socketVars, bufferVars, callerVars, historyVars>>

-----------------------------------------------------------------------------
(* A signal interrupts poll: EINTR ends the call.                          *)
PollInterrupted(c) ==
  /\ Runs(c, "fill") \/ Runs(c, "scan")
  /\ ~Readable /\ ~stop
  /\ lock' = lock \ {c}
  /\ Return(c, "SocketException")
  /\ UNCHANGED <<socketVars, bufferVars, spoilt, historyVars>>

stopReads ==
  /\ ~spoilt
  /\ StreamStopReads
  /\ UNCHANGED <<bufferVars, callerVars, spoilt, historyVars>>

PeerStep ==
  /\ ~spoilt
  /\ Peer
  /\ UNCHANGED <<bufferVars, callerVars, spoilt, historyVars>>

Call(c) ==
  \/ CallReadUntilDelimiter(c)
  \/ \E timed \in BOOLEAN, n \in Lengths :
       \/ CallRead(c, n, timed)
       \/ \E min \in Lengths : CallReadInto(c, n, min, timed)

Step(c) ==
  \/ Check(c) \/ Lock(c) \/ Pop(c) \/ PopThrows(c) \/ Spoil(c)
  \/ \E n \in 1..BufferSize : Fill(c, n) \/ Scan(c, n)
  \/ \E ex \in ReadException : FillThrows(c, ex) \/ ScanThrows(c, ex)

Next ==
  \/ PeerStep \/ stopReads
  \/ \E c \in Callers : Call(c) \/ Step(c) \/ PollInterrupted(c)

Spec == Init /\ [][Next]_vars

(* A thread inside a call runs when it can.  Nothing is assumed of the     *)
(* peer, of signals or of the calls made.                                  *)
FairSpec == Spec /\ \A c \in Callers : WF_vars(Step(c))

-----------------------------------------------------------------------------
(* buffer_lock is held exactly by the caller that fills the buffer (and by *)
(* read(buffer, max, min) until it has popped): no exception path keeps    *)
(* it, and no two of them write to stream_buffer at the same time.         *)
LockDiscipline ==
  \A c \in Callers :
    (lock = {c}) <=> \/ pc[c] = "fill"
                     \/ pc[c] = "pop" /\ args[c].op = "readInto"

(* The stream is never read to an out-of-date place of the buffer, however *)
(* threads mix the two calls of read, and readUntilDelimiter by itself:    *)
(* that takes a readUntilDelimiter, which has no lock, at the same time as *)
(* another call.                                                           *)
SpoiltByOverlap == spoilt => overlap

(* The bytes that leave the buffer in a step.                              *)
Popped == Len(taken') - Len(taken)

(* A call of read that succeeds pops what was asked for: exactly n bytes,  *)
(* or at least min and at most max of them (max when min exceeds it),      *)
(* whatever other callers have taken in between.  read(n), which checks    *)
(* the length and pops in two critical sections, throws std::out_of_range  *)
(* only if another caller popped between the two; and                      *)
(* read(buffer, max, min), which keeps the lock, only if the other was in  *)
(* readUntilDelimiter.                                                     *)
LengthAsAsked ==
  [][\A c \in Callers : pc[c] = "pop" /\ pc'[c] = "idle" =>
       IF result'[c] = "data"
         THEN \/ Popped \in args[c].min .. args[c].max
              \/ Popped = args[c].max
         ELSE \/ args[c].op = "read" /\ overtaken[c] # {}
              \/ "readUntilDelimiter" \in overtaken[c]]_vars

ByteLayer ==
  INSTANCE ByteStream WITH stream <- sent, pos <- Len(taken), out <- given

(* The buffer implements a byte stream, whatever mixture of the three      *)
(* reading calls empties it and also when they overlap, as long as the     *)
(* object is not spoilt.  readUntilDelimiter drops the delimiter it finds  *)
(* (the comment in BufferedStream.h, "including the delimiter", has it     *)
(* otherwise); no other byte is dropped.                                   *)
ImplementsByteStream == ByteLayer!Spec

(* After stopReads every call returns, also those that wait for the lock   *)
(* another caller holds while it polls (unless the object is spoilt).      *)
StopEndsCalls == \A c \in Callers : stop ~> (pc[c] = "idle" \/ spoilt)
=============================================================================
