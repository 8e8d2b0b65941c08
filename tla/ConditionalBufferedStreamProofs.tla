------------------ MODULE ConditionalBufferedStreamProofs ------------------
(***************************************************************************)
(* Proofs about ConditionalBufferedStream for every buffer size, every set *)
(* of bytes, conditions and readers, and every number of handlers.         *)
(***************************************************************************)
EXTENDS ConditionalBufferedStream, StreamBufferProofs, FiniteSetTheorems,
        WellFoundedInduction

(* The type invariant in the groups that the actions change together.      *)
OwnerOK ==
  /\ handlers \in Seq(Conditions) /\ Len(handlers) <= MaxHandlers
  /\ termination_requested \in BOOLEAN
  /\ life \in {"alive", "closing", "joining", "dead"}
  /\ closed \in 0..MaxHandlers

WorkerOK ==
  /\ last_ex \in LastEx
  /\ worker \in {"new", "reading", "scanning", "posting", "notifying", "done"}
  /\ frames \in Seq([data : Seq(Byte), i : Nat])
  /\ popped \in Nat
  /\ note \in Nat
  /\ abort \in {"none", "std::logic_error", "std::out_of_range",
                "SOCKET_WRITE", "join"}

QueueOK ==
  /\ received \in [Fd -> Seq(Segment)]
  /\ evfd \in [Fd -> Nat]
  /\ delivered \in [Fd -> Seq(Segment)]
  /\ errSeen \in [Fd -> BOOLEAN]

ReaderOK ==
  /\ rpc \in [Readers -> {"idle", "poll", "consume", "pop"}]
  /\ rfd \in [Readers -> Fd \cup {1}]
  /\ rtimed \in [Readers -> BOOLEAN]
  /\ rresult \in [Readers -> Result]

(* The stack of activations: the worker is inside processDataSendSignals   *)
(* exactly as long as there is one, no activation was passed more than the *)
(* buffer holds, and the segment being posted is part of its data.         *)
FramesOK ==
  /\ worker \in {"scanning", "posting"} => frames # << >>
  /\ \A k \in 1..Len(frames) :
       frames[k].i >= 1 /\ Len(frames[k].data) <= BufferSize
  /\ worker = "posting" =>
       Top.i <= Len(handlers) /\ popped \in 1..Len(Top.data)

TypeInv ==
  BufferInv /\ OwnerOK /\ WorkerOK /\ QueueOK /\ ReaderOK /\ FramesOK

-----------------------------------------------------------------------------
(* What an action that leaves a group of variables alone preserves.        *)

(* OwnerOK depends on the owner's variables only.                          *)
LEMMA OwnerFrame == OwnerOK /\ UNCHANGED ownerVars => OwnerOK'
BY DEF OwnerOK, ownerVars

(* WorkerOK depends on the worker's variables and abort only.              *)
LEMMA WorkerFrame == WorkerOK /\ UNCHANGED <<workerVars, abort>> => WorkerOK'
BY DEF WorkerOK, workerVars

(* QueueOK depends on the lists and the eventfds only.                     *)
LEMMA QueueFrame ==
  QueueOK /\ UNCHANGED <<received, evfd, delivered, errSeen>> => QueueOK'
BY DEF QueueOK

(* ReaderOK depends on the readers' variables only.                        *)
LEMMA ReaderFrame ==
  ReaderOK /\ UNCHANGED <<rpc, rfd, rtimed, rresult>> => ReaderOK'
BY DEF ReaderOK

(* FramesOK depends on the stack, the worker and the handlers only.        *)
LEMMA FramesFrame ==
  FramesOK /\ UNCHANGED <<worker, frames, popped, handlers>> => FramesOK'
BY DEF FramesOK, Top

-----------------------------------------------------------------------------
(* The stack of activations.                                               *)

Frame == [data : Seq(Byte), i : Nat]

GoodFrames(fs) ==
  /\ fs \in Seq(Frame)
  /\ \A k \in 1..Len(fs) : fs[k].i >= 1 /\ Len(fs[k].data) <= BufferSize

(* Advance changes the loop counter of the innermost activation only.      *)
LEMMA AdvanceGood ==
  ASSUME NEW fs, GoodFrames(fs), fs # << >>
  PROVE  GoodFrames(Advance(fs)) /\ Advance(fs) # << >>
<1> DEFINE n == Len(fs)
           top == [fs[n] EXCEPT !.i = @ + 1]
<1>1. fs \in Seq(Frame) /\ n \in 1..Len(fs)
  BY EmptySeq, LenProperties DEF GoodFrames
<1>2. fs[n] \in Frame /\ fs[n].i >= 1 /\ Len(fs[n].data) <= BufferSize
  BY <1>1, ElementOfSeq DEF GoodFrames
<1>3. /\ top \in Frame /\ top.i >= 1
      /\ Len(top.data) <= BufferSize
  BY <1>2 DEF Frame
<1>4. Advance(fs) = [fs EXCEPT ![n] = top]
  BY <1>1, LenProperties DEF Advance
<1> HIDE DEF n, top
<1>5. /\ Advance(fs) \in Seq(Frame) /\ Len(Advance(fs)) = Len(fs)
      /\ \A j \in 1..Len(fs) : Advance(fs)[j] = IF j = n THEN top ELSE fs[j]
  BY <1>1, <1>3, <1>4, ExceptSeq
<1>6. GoodFrames(Advance(fs))
  BY <1>3, <1>5 DEF GoodFrames
<1>7. QED
  BY <1>1, <1>5, <1>6, EmptySeq

(* A recursive call pushes an activation, unless there is nothing to scan. *)
LEMMA RecurseGood ==
  ASSUME GoodFrames(frames), frames # << >>, NEW rest \in Seq(Byte),
         Len(rest) <= BufferSize, Recurse(rest)
  PROVE  GoodFrames(frames') /\ frames' # << >>
<1>1. CASE rest = << >>
  BY <1>1, AdvanceGood DEF Recurse
<1>2. CASE rest # << >>
  <2> DEFINE f == [data |-> rest, i |-> 1]
  <2>1. f \in Frame /\ f.i >= 1 /\ Len(f.data) <= BufferSize
    BY DEF Frame
  <2>2. frames' = Append(frames, f)
    BY <1>2 DEF Recurse
  <2> HIDE DEF f
  <2>3. /\ frames' \in Seq(Frame) /\ frames' # << >>
        /\ Len(frames') = Len(frames) + 1
        /\ \A k \in 1..Len(frames) : frames'[k] = frames[k]
        /\ frames'[Len(frames) + 1] = f
    BY <2>1, <2>2, AppendProperties DEF GoodFrames
  <2>4. Len(frames) \in Nat
    BY LenProperties DEF GoodFrames
  <2>5. QED
    BY <2>1, <2>3, <2>4 DEF GoodFrames
<1>3. QED
  BY <1>1, <1>2

(* The stack of activations is well formed in every phase.                 *)
LEMMA FramesAreGood == TypeInv => GoodFrames(frames)
BY DEF TypeInv, WorkerOK, FramesOK, GoodFrames, Frame

(* A worker that scans or posts has an innermost activation.               *)
LEMMA TopType ==
  ASSUME TypeInv, worker \in {"scanning", "posting"}
  PROVE  /\ frames # << >> /\ Top \in Frame /\ Top.i \in Nat \ {0}
         /\ Top.data \in Seq(Byte)
         /\ Len(Top.data) \in Nat /\ Len(Top.data) <= BufferSize
<1>1. frames \in Seq(Frame) /\ frames # << >> /\ GoodFrames(frames)
  BY FramesAreGood DEF TypeInv, FramesOK, GoodFrames
<1>2. Len(frames) \in 1..Len(frames)
  BY <1>1, EmptySeq, LenProperties
<1>3. Top \in Frame /\ Top.i >= 1 /\ Len(Top.data) <= BufferSize
  BY <1>1, <1>2, ElementOfSeq DEF GoodFrames, Top
<1>4. Top.data \in Seq(Byte) /\ Top.i \in Nat \ {0}
  BY <1>3 DEF Frame
<1>5. QED
  BY <1>1, <1>3, <1>4, LenProperties

(* The callback is asked about at most BufferSize bytes and answers a      *)
(* number.                                                                 *)
LEMMA AnswerType ==
  ASSUME TypeInv, AtHandler
  PROVE  Answer \in Int /\ Top.i \in 1..Len(handlers) /\ Top.i \in Fd
<1>1. /\ Top.i \in Nat \ {0} /\ Top.data \in Seq(Byte)
      /\ Len(Top.data) \in Nat /\ Len(Top.data) <= BufferSize
  BY TopType DEF AtHandler
<1>2. /\ handlers \in Seq(Conditions) /\ Len(handlers) \in Nat
      /\ Len(handlers) <= MaxHandlers
  BY LenProperties DEF TypeInv, OwnerOK
<1>3. Top.i \in 1..Len(handlers)
  BY <1>1, <1>2 DEF AtHandler
<1>4. handlers[Top.i] \in Conditions
  BY <1>2, <1>3, ElementOfSeq
<1>5. Len(Top.data) \in 0..BufferSize /\ Top.data \in [1..Len(Top.data) -> Byte]
  BY <1>1, LenProperties, BufferSizeAssumption
<1>6. Answer \in Int
  BY <1>4, <1>5, ConditionAssumption DEF Answer
<1>7. QED
  BY <1>2, <1>3, <1>6, MaxHandlersAssumption DEF Fd

(* The rest of the data after a segment.                                   *)
LEMMA RestType ==
  ASSUME NEW data \in Seq(Byte), Len(data) <= BufferSize, NEW n \in 0..Len(data)
  PROVE  Rest(data, n) \in Seq(Byte) /\ Len(Rest(data, n)) <= BufferSize
<1>1. Len(data) \in Nat
  BY LenProperties
<1>2. Rest(data, n) \in Seq(Byte) /\ Len(Rest(data, n)) = Len(data) - n
  BY Cut DEF Rest
<1>3. QED
  BY <1>1, <1>2, BufferSizeAssumption

-----------------------------------------------------------------------------
(* TypeInv is inductive.  One lemma per actor.                             *)

(* The owner's calls and the destructor keep TypeInv.                      *)
LEMMA OwnerType ==
  ASSUME TypeInv, Owner \/ Destructor
  PROVE  TypeInv'
<1>1. /\ BufferInv /\ OwnerOK /\ WorkerOK /\ QueueOK /\ ReaderOK /\ FramesOK
  BY DEF TypeInv
<1>2. Len(handlers) \in Nat
  BY <1>1, LenProperties DEF OwnerOK
<1>3. ASSUME NEW c \in Conditions, createEventfdOnCondition(c)
      PROVE  TypeInv'
  <2>1. BufferInv'
    BY <1>1, <1>3, StutterPreserves DEF createEventfdOnCondition
  <2>2. OwnerOK'
    <3>1. handlers' \in Seq(Conditions) /\ Len(handlers') = Len(handlers) + 1
      BY <1>1, <1>3, AppendProperties DEF createEventfdOnCondition, OwnerOK
    <3>2. QED
      BY <1>1, <1>2, <1>3, <3>1, MaxHandlersAssumption
         DEF createEventfdOnCondition, OwnerOK
  <2>3. WorkerOK' /\ QueueOK' /\ ReaderOK'
    BY <1>1, <1>3, WorkerFrame, QueueFrame, ReaderFrame
       DEF createEventfdOnCondition, readerVars
  <2>4. FramesOK'
    BY <1>1, <1>3 DEF createEventfdOnCondition, FramesOK, workerVars, Top
  <2>5. QED
    BY <2>1, <2>2, <2>3, <2>4 DEF TypeInv
<1>4. CASE start
  <2>1. BufferInv'
    BY <1>1, <1>4, StutterPreserves DEF start
  <2>2. OwnerOK' /\ QueueOK' /\ ReaderOK'
    BY <1>1, <1>4, OwnerFrame, QueueFrame, ReaderFrame DEF start, readerVars
  <2>3. WorkerOK'
    BY <1>1, <1>4 DEF start, WorkerOK
  <2>4. FramesOK'
    BY <1>1, <1>4 DEF start, FramesOK
  <2>5. QED
    BY <2>1, <2>2, <2>3, <2>4 DEF TypeInv
<1>5. CASE stopReads \/ StopReadsStream
  <2>1. BufferInv'
    BY <1>1, <1>5, StopPreserves, StutterPreserves
       DEF stopReads, StopReadsStream
  <2>2. OwnerOK'
    BY <1>1, <1>5 DEF stopReads, StopReadsStream, OwnerOK, ownerVars
  <2>3. WorkerOK' /\ QueueOK' /\ ReaderOK' /\ FramesOK'
    BY <1>1, <1>5, WorkerFrame, QueueFrame, ReaderFrame, FramesFrame
       DEF stopReads, StopReadsStream, readerVars, workerVars, ownerVars
  <2>4. QED
    BY <2>1, <2>2, <2>3 DEF TypeInv
<1>6. CASE Destroy
  <2>1. BufferInv'
    BY <1>1, <1>6, StutterPreserves DEF Destroy
  <2>2. OwnerOK'
    BY <1>1, <1>6 DEF Destroy, OwnerOK
  <2>3. WorkerOK' /\ QueueOK' /\ ReaderOK' /\ FramesOK'
    BY <1>1, <1>6, WorkerFrame, QueueFrame, ReaderFrame, FramesFrame
       DEF Destroy, readerVars, workerVars
  <2>4. QED
    BY <2>1, <2>2, <2>3 DEF TypeInv
<1>7. CASE DestroyClose
  <2>1. BufferInv'
    BY <1>1, <1>7, StutterPreserves DEF DestroyClose
  <2>2. OwnerOK'
    BY <1>1, <1>2, <1>7, MaxHandlersAssumption DEF DestroyClose, OwnerOK
  <2>3. WorkerOK' /\ QueueOK' /\ ReaderOK' /\ FramesOK'
    BY <1>1, <1>7, WorkerFrame, QueueFrame, ReaderFrame, FramesFrame
       DEF DestroyClose, readerVars, workerVars
  <2>4. QED
    BY <2>1, <2>2, <2>3 DEF TypeInv
<1>8. CASE DestroyStop
  <2>1. BufferInv'
    BY <1>1, <1>8, StopPreserves DEF DestroyStop
  <2>2. OwnerOK'
    BY <1>1, <1>8 DEF DestroyStop, OwnerOK
  <2>3. WorkerOK' /\ QueueOK' /\ ReaderOK' /\ FramesOK'
    BY <1>1, <1>8, WorkerFrame, QueueFrame, ReaderFrame, FramesFrame
       DEF DestroyStop, readerVars, workerVars
  <2>4. QED
    BY <2>1, <2>2, <2>3 DEF TypeInv
<1>9. CASE DestroyJoin
  <2>1. BufferInv'
    BY <1>1, <1>9, StutterPreserves DEF DestroyJoin
  <2>2. OwnerOK'
    BY <1>1, <1>9 DEF DestroyJoin, OwnerOK
  <2>3. WorkerOK'
    BY <1>1, <1>9 DEF DestroyJoin, WorkerOK, workerVars
  <2>4. QueueOK' /\ ReaderOK' /\ FramesOK'
    BY <1>1, <1>9, QueueFrame, ReaderFrame, FramesFrame
       DEF DestroyJoin, readerVars, workerVars
  <2>5. QED
    BY <2>1, <2>2, <2>3, <2>4 DEF TypeInv
<1>10. QED
  BY <1>3, <1>4, <1>5, <1>6, <1>7, <1>8, <1>9 DEF Owner, Destructor

(* The catch block leaves an empty stack behind.                           *)
LEMMA CatchType ==
  ASSUME TypeInv, NEW ex \in LastEx, Catch(ex), abort' = abort,
         handlers' = handlers
  PROVE  WorkerOK' /\ FramesOK'
<1>1. << >> \in Seq(Frame) /\ Len(<< >>) = 0
  BY EmptySeq
<1>2. frames' = << >> /\ worker' \in {"done", "notifying"}
  BY DEF Catch
<1>3. WorkerOK'
  BY <1>1 DEF Catch, TypeInv, WorkerOK, Frame
<1>4. FramesOK'
  BY <1>1, <1>2 DEF FramesOK
<1>5. QED
  BY <1>3, <1>4

(* The worker's steps keep TypeInv, one case per action.                   *)
LEMMA WorkerType ==
  ASSUME TypeInv, Worker \/ WorkerPollInterrupted
  PROVE  TypeInv'
<1>1. /\ BufferInv /\ OwnerOK /\ WorkerOK /\ QueueOK /\ ReaderOK /\ FramesOK
  BY DEF TypeInv
<1>2. GoodFrames(frames) /\ Len(handlers) \in Nat
  BY <1>1, FramesAreGood, LenProperties DEF TypeInv, OwnerOK
<1>3. ASSUME NEW n \in 1..BufferSize, WorkerRead(n)
      PROVE  TypeInv'
  <2>1. BufferInv'
    BY <1>1, <1>3, FillPreserves DEF WorkerRead
  <2>2. OwnerOK' /\ QueueOK' /\ ReaderOK'
    BY <1>1, <1>3, OwnerFrame, QueueFrame, ReaderFrame
       DEF WorkerRead, readerVars
  <2>3. /\ buffer' \in Seq(Byte) /\ Len(buffer') <= BufferSize
    BY <2>1 DEF BufferInv, BufferTypeOK
  <2> DEFINE f == [data |-> buffer', i |-> 1]
  <2>4. f \in Frame /\ f.i >= 1 /\ Len(f.data) <= BufferSize
    BY <2>3 DEF Frame
  <2>5. frames' = <<f>>
    BY <1>3 DEF WorkerRead
  <2> HIDE DEF f
  <2>6. /\ frames' \in Seq(Frame) /\ frames' # << >> /\ Len(frames') = 1
        /\ frames'[1] = f
    BY <2>4, <2>5
  <2>7. WorkerOK'
    BY <1>1, <1>3, <2>6 DEF WorkerRead, WorkerOK, Frame
  <2>8. FramesOK'
    BY <1>3, <2>4, <2>6 DEF WorkerRead, FramesOK
  <2>9. QED
    BY <2>1, <2>2, <2>7, <2>8 DEF TypeInv
<1>4. ASSUME NEW ex \in ReadException, WorkerReadThrows(ex)
      PROVE  TypeInv'
  <2>1. BufferInv'
    BY <1>1, <1>4, StutterPreserves DEF WorkerReadThrows
  <2>2. OwnerOK' /\ QueueOK' /\ ReaderOK'
    BY <1>1, <1>4, OwnerFrame, QueueFrame, ReaderFrame
       DEF WorkerReadThrows, readerVars
  <2>3. WorkerOK' /\ FramesOK'
    BY <1>4, CatchType DEF WorkerReadThrows, LastEx, ownerVars
  <2>4. QED
    BY <2>1, <2>2, <2>3 DEF TypeInv
<1>5. CASE WorkerPollInterrupted
  <2>1. BufferInv'
    BY <1>1, <1>5, StutterPreserves DEF WorkerPollInterrupted
  <2>2. OwnerOK' /\ QueueOK' /\ ReaderOK'
    BY <1>1, <1>5, OwnerFrame, QueueFrame, ReaderFrame
       DEF WorkerPollInterrupted, readerVars
  <2>3. "SOCKET_POLL" \in LastEx
    BY DEF LastEx, ReadException
  <2>4. WorkerOK' /\ FramesOK'
    BY <1>5, <2>3, CatchType DEF WorkerPollInterrupted, ownerVars
  <2>5. QED
    BY <2>1, <2>2, <2>4 DEF TypeInv
<1>6. CASE Notify
  <2>1. BufferInv'
    BY <1>1, <1>6, StutterPreserves DEF Notify
  <2>2. OwnerOK' /\ ReaderOK'
    BY <1>1, <1>6, OwnerFrame, ReaderFrame DEF Notify, readerVars
  <2>3. WorkerOK'
    BY <1>1, <1>6 DEF Notify, WorkerOK
  <2>4. QueueOK'
    <3>1. evfd' = evfd \/ evfd' = [evfd EXCEPT ![note] = evfd[note] + 1]
      BY <1>6 DEF Notify
    <3>2. evfd' \in [Fd -> Nat]
      BY <1>1, <3>1 DEF QueueOK
    <3>3. QED
      BY <1>1, <1>6, <3>2 DEF Notify, QueueOK, readerVars
  <2>5. FramesOK'
    BY <1>1, <1>6, FramesFrame DEF Notify, ownerVars
  <2>6. QED
    BY <2>1, <2>2, <2>3, <2>4, <2>5 DEF TypeInv
<1>7. CASE NotifyDone
  <2>1. BufferInv'
    BY <1>1, <1>7, StutterPreserves DEF NotifyDone
  <2>2. OwnerOK' /\ QueueOK' /\ ReaderOK'
    BY <1>1, <1>7, OwnerFrame, QueueFrame, ReaderFrame
       DEF NotifyDone, readerVars
  <2>3. WorkerOK' /\ FramesOK'
    BY <1>1, <1>7 DEF NotifyDone, WorkerOK, FramesOK
  <2>4. QED
    BY <2>1, <2>2, <2>3 DEF TypeInv
<1>8. CASE ScanReturn
  <2>1. BufferInv'
    BY <1>1, <1>8, StutterPreserves DEF ScanReturn
  <2>2. OwnerOK' /\ QueueOK' /\ ReaderOK'
    BY <1>1, <1>8, OwnerFrame, QueueFrame, ReaderFrame
       DEF ScanReturn, readerVars
  <2>3. frames # << >> /\ Len(frames) \in Nat \ {0}
    BY <1>2, <1>8, TopType, EmptySeq DEF ScanReturn, GoodFrames
  <2>4. GoodFrames(frames') /\ (worker' = "scanning" => frames' # << >>)
    <3>1. CASE Len(frames) = 1
      <4>1. frames' = << >> /\ worker' = "reading"
        BY <1>8, <3>1 DEF ScanReturn
      <4>2. QED
        BY <4>1, EmptySeq DEF GoodFrames
    <3>2. CASE Len(frames) # 1
      <4> DEFINE n == Len(frames) - 1
                 caller == SubSeq(frames, 1, n)
      <4>1. n \in Nat \ {0} /\ n <= Len(frames)
        BY <2>3, <3>2
      <4>2. frames' = Advance(caller)
        BY <1>8, <3>2 DEF ScanReturn
      <4> HIDE DEF n
      <4>3. \A k \in 1..n : frames[k] \in Frame
        BY <1>2, <2>3, <4>1, ElementOfSeq DEF GoodFrames
      <4>4. /\ caller \in Seq(Frame) /\ Len(caller) = n
            /\ \A k \in 1..n : caller[k] = frames[k]
        <5>1. 1 \in Int /\ n \in Int /\ 1 <= n /\ n - 1 + 1 = n
          BY <4>1
        <5>2. \A k \in 1..n : 1 + k - 1 = k
          BY <4>1
        <5>3. /\ caller \in Seq(Frame)
              /\ Len(caller) = n - 1 + 1
              /\ \A k \in 1..(n - 1 + 1) : caller[k] = frames[1 + k - 1]
          BY <4>3, <5>1, SubSeqProperties
        <5>4. QED
          BY <5>1, <5>2, <5>3
      <4> HIDE DEF caller
      <4>5. GoodFrames(caller) /\ caller # << >>
        BY <1>2, <2>3, <4>1, <4>4, EmptySeq DEF GoodFrames
      <4>6. QED
        BY <4>2, <4>5, AdvanceGood
    <3>3. QED
      BY <3>1, <3>2
  <2>5. WorkerOK'
    BY <1>1, <1>8, <2>4 DEF ScanReturn, WorkerOK, GoodFrames, Frame
  <2>6. FramesOK'
    BY <1>8, <2>4 DEF ScanReturn, FramesOK, GoodFrames
  <2>7. QED
    BY <2>1, <2>2, <2>5, <2>6 DEF TypeInv
<1>9. CASE ScanNothing
  <2>1. BufferInv'
    BY <1>1, <1>9, StutterPreserves DEF ScanNothing
  <2>2. OwnerOK' /\ QueueOK' /\ ReaderOK'
    BY <1>1, <1>9, OwnerFrame, QueueFrame, ReaderFrame
       DEF ScanNothing, readerVars
  <2>3. GoodFrames(frames') /\ frames' # << >>
    BY <1>2, <1>9, TopType, AdvanceGood DEF ScanNothing, AtHandler
  <2>4. WorkerOK'
    BY <1>1, <1>9, <2>3 DEF ScanNothing, WorkerOK, GoodFrames, Frame
  <2>5. FramesOK'
    BY <1>9, <2>3 DEF ScanNothing, AtHandler, FramesOK, GoodFrames
  <2>6. QED
    BY <2>1, <2>2, <2>4, <2>5 DEF TypeInv
<1>10. CASE ScanThrows
  <2>1. BufferInv'
    BY <1>1, <1>10, StutterPreserves DEF ScanThrows
  <2>2. OwnerOK' /\ QueueOK' /\ ReaderOK' /\ FramesOK'
    BY <1>1, <1>10, OwnerFrame, QueueFrame, ReaderFrame, FramesFrame
       DEF ScanThrows, readerVars, workerVars, ownerVars
  <2>3. WorkerOK'
    BY <1>1, <1>10 DEF ScanThrows, WorkerOK, workerVars
  <2>4. QED
    BY <2>1, <2>2, <2>3 DEF TypeInv
<1>11. CASE ScanDiscard
  <2>1. /\ Answer \in Int /\ Top.data \in Seq(Byte) /\ frames # << >>
        /\ Len(Top.data) \in Nat /\ Len(Top.data) <= BufferSize
    BY <1>11, AnswerType, TopType DEF ScanDiscard, AtHandler
  <2>2. -Answer \in Nat /\ -Answer \in 0..Len(Top.data)
    BY <1>11, <2>1 DEF ScanDiscard
  <2>3. BufferInv'
    BY <1>1, <1>11, <2>2, PopPreserves DEF ScanDiscard
  <2>4. OwnerOK' /\ QueueOK' /\ ReaderOK'
    BY <1>1, <1>11, OwnerFrame, QueueFrame, ReaderFrame
       DEF ScanDiscard, readerVars
  <2>5. /\ Rest(Top.data, -Answer) \in Seq(Byte)
        /\ Len(Rest(Top.data, -Answer)) <= BufferSize
    BY <2>1, <2>2, RestType
  <2>6. GoodFrames(frames') /\ frames' # << >>
    BY <1>2, <1>11, <2>1, <2>5, RecurseGood DEF ScanDiscard
  <2>7. WorkerOK'
    BY <1>1, <1>11, <2>6 DEF ScanDiscard, WorkerOK, GoodFrames, Frame
  <2>8. FramesOK'
    BY <1>11, <2>6 DEF ScanDiscard, AtHandler, FramesOK, GoodFrames
  <2>9. QED
    BY <2>3, <2>4, <2>7, <2>8 DEF TypeInv
<1>12. CASE ScanMatch
  <2>1. /\ Answer \in Int /\ Top.i \in 1..Len(handlers) /\ Top.i \in Fd
        /\ Top.data \in Seq(Byte) /\ Len(Top.data) \in Nat /\ frames # << >>
    BY <1>12, AnswerType, TopType DEF ScanMatch, AtHandler
  <2>2. Answer \in Nat /\ Answer \in 1..Len(Top.data)
    BY <1>12, <2>1 DEF ScanMatch
  <2>3. BufferInv'
    BY <1>1, <1>12, <2>2, PopPreserves DEF ScanMatch
  <2>4. OwnerOK' /\ ReaderOK'
    BY <1>1, <1>12, OwnerFrame, ReaderFrame DEF ScanMatch, readerVars
  <2>5. QueueOK'
    <3>1. SubSeq(buffer, 1, Answer) \in Segment
      <4>1. buffer \in Seq(Byte) /\ Answer \in 0..Len(buffer)
        BY <1>1, <1>12, <2>2, LenProperties
           DEF ScanMatch, PopFromBuffer, BufferInv, BufferTypeOK
      <4>2. QED
        BY <4>1, Cut DEF Segment
    <3>2. Append(received[Top.i], SubSeq(buffer, 1, Answer)) \in Seq(Segment)
      BY <1>1, <2>1, <3>1, AppendProperties DEF QueueOK
    <3>3. received' = [received EXCEPT ![Top.i] =
                         Append(received[Top.i], SubSeq(buffer, 1, Answer))]
      BY <1>12 DEF ScanMatch
    <3>4. received' \in [Fd -> Seq(Segment)]
      BY <1>1, <3>2, <3>3 DEF QueueOK
    <3>5. QED
      BY <1>1, <1>12, <3>4 DEF ScanMatch, QueueOK, readerVars
  <2>6. WorkerOK'
    BY <1>1, <1>12, <2>2 DEF ScanMatch, WorkerOK
  <2>7. FramesOK'
    BY <1>1, <1>12, <2>1, <2>2 DEF ScanMatch, FramesOK, Top, ownerVars
  <2>8. QED
    BY <2>3, <2>4, <2>5, <2>6, <2>7 DEF TypeInv
<1>13. CASE Post
  <2>1. BufferInv'
    BY <1>1, <1>13, StutterPreserves DEF Post
  <2>2. OwnerOK' /\ ReaderOK'
    BY <1>1, <1>13, OwnerFrame, ReaderFrame DEF Post, readerVars
  <2>3. QueueOK'
    BY <1>1, <1>13 DEF Post, QueueOK, readerVars
  <2>4. CASE Closed(Top.i)
    <3>1. Catch("SOCKET_WRITE") /\ abort' = abort /\ handlers' = handlers
      BY <1>13, <2>4 DEF Post, ownerVars
    <3>2. WorkerOK' /\ FramesOK'
      BY <3>1, CatchType DEF LastEx
    <3>3. QED
      BY <2>1, <2>2, <2>3, <3>2 DEF TypeInv
  <2>5. CASE ~Closed(Top.i)
    <3>1. /\ Top.data \in Seq(Byte) /\ frames # << >>
          /\ Len(Top.data) \in Nat /\ Len(Top.data) <= BufferSize
          /\ popped \in 0..Len(Top.data)
      BY <1>1, <1>13, TopType DEF Post, FramesOK
    <3>2. /\ Rest(Top.data, popped) \in Seq(Byte)
          /\ Len(Rest(Top.data, popped)) <= BufferSize
      BY <3>1, RestType
    <3>3. GoodFrames(frames') /\ frames' # << >>
      BY <1>2, <1>13, <2>5, <3>1, <3>2, RecurseGood DEF Post
    <3>4. WorkerOK'
      BY <1>1, <1>13, <2>5, <3>3 DEF Post, WorkerOK, GoodFrames, Frame
    <3>5. FramesOK'
      BY <1>13, <2>5, <3>3 DEF Post, FramesOK, GoodFrames
    <3>6. QED
      BY <2>1, <2>2, <2>3, <3>4, <3>5 DEF TypeInv
  <2>6. QED
    BY <2>4, <2>5
<1>14. QED
  BY <1>3, <1>4, <1>5, <1>6, <1>7, <1>8, <1>9, <1>10, <1>11, <1>12, <1>13
     DEF Worker

(* The end of a call keeps the types of the readers' variables.            *)
LEMMA ReturnType ==
  ASSUME ReaderOK, NEW r \in Readers, NEW res \in Result, Return(r, res)
  PROVE  ReaderOK'
BY DEF ReaderOK, Return

(* A registered eventfd is one of Fd.                                      *)
LEMMA RegisteredFd ==
  ASSUME TypeInv, NEW fd, Registered(fd)
  PROVE  fd \in Fd /\ fd \in 1..Len(handlers)
<1>1. DOMAIN handlers = 1..Len(handlers) /\ Len(handlers) \in Nat
  BY LenProperties DEF TypeInv, OwnerOK
<1>2. QED
  BY <1>1, MaxHandlersAssumption DEF TypeInv, OwnerOK, Registered, Fd

(* ConditionalBufferedStream::read keeps TypeInv.                          *)
LEMMA ReadType ==
  ASSUME TypeInv, NEW r \in Readers, NEW fd, read(r, fd), evfd' = evfd
  PROVE  ReaderOK' /\ QueueOK'
<1>1. ReaderOK /\ QueueOK /\ WorkerOK
  BY DEF TypeInv
<1>2. last_ex \in Result /\ "data" \in Result /\ "std::out_of_range" \in Result
        /\ "SOCKET_INVALID_CONDITION" \in Result
  BY <1>1 DEF Result, WorkerOK
<1>3. CASE UNCHANGED <<received, delivered, errSeen>>
           /\ \E res \in Result : Return(r, res)
  BY <1>1, <1>3, ReturnType, QueueFrame
<1>4. CASE /\ Registered(fd) /\ received[fd] # << >>
           /\ received' = [received EXCEPT ![fd] = Tail(@)]
           /\ delivered' = [delivered EXCEPT ![fd] =
                              Append(@, Head(received[fd]))]
           /\ Return(r, "data") /\ errSeen' = errSeen
  <2>1. fd \in Fd
    BY <1>4, RegisteredFd
  <2>2. received[fd] \in Seq(Segment) /\ delivered[fd] \in Seq(Segment)
    BY <1>1, <2>1 DEF QueueOK
  <2>3. Tail(received[fd]) \in Seq(Segment) /\ Head(received[fd]) \in Segment
    BY <1>4, <2>2, HeadTailProperties
  <2>4. Append(delivered[fd], Head(received[fd])) \in Seq(Segment)
    BY <2>2, <2>3, AppendProperties
  <2>5. QueueOK'
    BY <1>1, <1>4, <2>3, <2>4 DEF QueueOK
  <2>6. QED
    BY <1>1, <1>2, <1>4, <2>5, ReturnType
<1>5. CASE /\ errSeen' = [errSeen EXCEPT ![fd] = TRUE]
           /\ Return(r, last_ex) /\ UNCHANGED <<received, delivered>>
  <2>1. QueueOK'
    BY <1>1, <1>5 DEF QueueOK
  <2>2. QED
    BY <1>1, <1>2, <1>5, <2>1, ReturnType
<1>6. QED
  BY <1>2, <1>3, <1>4, <1>5 DEF read

(* The readers' calls and steps keep TypeInv.                              *)
LEMMA ReaderType ==
  ASSUME TypeInv, NEW r \in Readers,
         Call(r) \/ Reader(r) \/ PollInterrupted(r) \/ ConsumeInterrupted(r)
  PROVE  TypeInv'
<1>1. /\ BufferInv /\ OwnerOK /\ WorkerOK /\ QueueOK /\ ReaderOK /\ FramesOK
  BY DEF TypeInv
<1>2. SUFFICES /\ UNCHANGED <<socketVars, bufferVars, workerVars, ownerVars, abort>>
               /\ ReaderOK' /\ QueueOK'
  <2>1. BufferInv'
    BY <1>1, <1>2, StutterPreserves
  <2>2. OwnerOK' /\ WorkerOK' /\ FramesOK'
    BY <1>1, <1>2, OwnerFrame, WorkerFrame, FramesFrame
       DEF workerVars, ownerVars
  <2>3. QED
    BY <1>2, <2>1, <2>2 DEF TypeInv
<1>3. ASSUME NEW fd \in Fd, CallRead(r, fd)
      PROVE  /\ UNCHANGED <<socketVars, bufferVars, workerVars, ownerVars, abort>>
             /\ ReaderOK' /\ QueueOK'
  BY <1>3, ReadType DEF CallRead
<1>4. ASSUME NEW fd \in Fd, NEW timed \in BOOLEAN, CallReadBlocking(r, fd, timed)
      PROVE  /\ UNCHANGED <<socketVars, bufferVars, workerVars, ownerVars, abort>>
             /\ ReaderOK' /\ QueueOK'
  <2>1. "none" \in Result
    BY DEF Result
  <2>2. ReaderOK'
    BY <1>1, <1>4, <2>1 DEF CallReadBlocking, ReaderOK
  <2>3. QED
    BY <1>1, <1>4, <2>2, QueueFrame DEF CallReadBlocking
<1>5. CASE PollReady(r)
  BY <1>1, <1>5, QueueFrame DEF PollReady, ReaderOK
<1>6. CASE PollInvalid(r)
  <2>1. "SOCKET_READ_TIMEOUT" \in Result
    BY DEF Result, LastEx, ReadException
  <2>2. QED
    BY <1>1, <1>6, <2>1, QueueFrame, ReturnType DEF PollInvalid
<1>7. CASE PollTimeout(r)
  <2>1. "SOCKET_TERMINATION_REQUEST" \in Result /\ "SOCKET_POLL" \in Result
    BY DEF Result, LastEx, ReadException
  <2>2. QED
    BY <1>1, <1>7, <2>1, QueueFrame, ReturnType DEF PollTimeout
<1>8. CASE PollInterrupted(r)
  <2>1. "SOCKET_READ_TIMEOUT" \in Result
    BY DEF Result, LastEx, ReadException
  <2>2. QED
    BY <1>1, <1>8, <2>1, QueueFrame, ReturnType DEF PollInterrupted
<1>9. CASE Consume(r)
  <2>1. evfd' = [evfd EXCEPT ![rfd[r]] = evfd[rfd[r]] - 1] /\ evfd[rfd[r]] > 0
    BY <1>9 DEF Consume
  <2>2. evfd' \in [Fd -> Nat]
    <3>1. \A fd \in Fd : fd = rfd[r] => evfd[fd] - 1 \in Nat
      BY <1>1, <2>1 DEF QueueOK
    <3>2. QED
      BY <1>1, <2>1, <3>1 DEF QueueOK
  <2>3. QueueOK'
    BY <1>1, <1>9, <2>2 DEF Consume, QueueOK
  <2>4. ReaderOK'
    BY <1>1, <1>9 DEF Consume, ReaderOK
  <2>5. QED
    BY <1>9, <2>3, <2>4 DEF Consume
<1>10. CASE ConsumeInterrupted(r)
  BY <1>1, <1>10, QueueFrame DEF ConsumeInterrupted, ReaderOK
<1>11. CASE Pop(r)
  BY <1>11, ReadType DEF Pop
<1>12. QED
  BY <1>3, <1>4, <1>5, <1>6, <1>7, <1>8, <1>9, <1>10, <1>11 DEF Call, Reader

(* The peer keeps TypeInv.                                                 *)
LEMMA PeerType ==
  ASSUME TypeInv, PeerStep
  PROVE  TypeInv'
<1>1. /\ BufferInv /\ OwnerOK /\ WorkerOK /\ QueueOK /\ ReaderOK /\ FramesOK
  BY DEF TypeInv
<1>2. BufferInv'
  BY <1>1, PeerPreserves DEF PeerStep
<1>3. OwnerOK' /\ WorkerOK' /\ QueueOK' /\ ReaderOK' /\ FramesOK'
  BY <1>1, OwnerFrame, WorkerFrame, QueueFrame, ReaderFrame, FramesFrame
     DEF PeerStep, workerVars, ownerVars, readerVars
<1>4. QED
  BY <1>2, <1>3 DEF TypeInv

(* A stuttering step keeps TypeInv.                                        *)
LEMMA StutterType ==
  ASSUME TypeInv, UNCHANGED vars
  PROVE  TypeInv'
<1>1. /\ BufferInv /\ OwnerOK /\ WorkerOK /\ QueueOK /\ ReaderOK /\ FramesOK
  BY DEF TypeInv
<1>2. BufferInv'
  BY <1>1, StutterPreserves DEF vars
<1>3. OwnerOK' /\ WorkerOK' /\ QueueOK' /\ ReaderOK' /\ FramesOK'
  BY <1>1, OwnerFrame, WorkerFrame, QueueFrame, ReaderFrame, FramesFrame
     DEF vars, workerVars, ownerVars, readerVars
<1>4. QED
  BY <1>2, <1>3 DEF TypeInv

(* Init establishes the invariant.                                         *)
LEMMA InitType == Init => TypeInv
<1> SUFFICES ASSUME Init PROVE TypeInv
  OBVIOUS
<1>1. BufferInv
  BY InitEstablishes DEF Init
<1>2. /\ \A S : << >> \in Seq(S)
      /\ Len(<< >>) = 0
  BY EmptySeq
<1>3. OwnerOK
  <2>1. /\ handlers \in Seq(Conditions) /\ Len(handlers) = 0 /\ closed = 0
        /\ life = "alive"
    BY <1>2 DEF Init
  <2>2. termination_requested \in BOOLEAN
    BY Zenon DEF Init
  <2>3. QED
    BY <2>1, <2>2, MaxHandlersAssumption DEF OwnerOK
<1>4. WorkerOK /\ FramesOK
  BY <1>2 DEF Init, WorkerOK, FramesOK, LastEx
<1>5. QueueOK
  BY <1>2 DEF Init, QueueOK
<1>6. ReaderOK
  BY DEF Init, ReaderOK, Result
<1>7. QED
  BY <1>1, <1>3, <1>4, <1>5, <1>6 DEF TypeInv

(* TypeInv is inductive.                                                   *)
LEMMA NextType == TypeInv /\ [Next]_vars => TypeInv'
<1> SUFFICES ASSUME TypeInv, [Next]_vars PROVE TypeInv'
  OBVIOUS
<1>1. CASE Next
  BY <1>1, PeerType, OwnerType, WorkerType, ReaderType DEF Next, Signal
<1>2. CASE UNCHANGED vars
  BY <1>2, StutterType
<1>3. QED
  BY <1>1, <1>2

(* TypeInv holds in every reachable state.                                 *)
LEMMA TypeInvariant == Spec => []TypeInv
BY InitType, NextType, PTL DEF Spec

(* The variables of the worker, the readers and the owner keep their       *)
(* types; above all, stream_buffer never holds more than                   *)
(* stream_buffer_size bytes.                                               *)
THEOREM TypeCorrect == Spec => []TypeOK
<1>1. TypeInv => TypeOK
  BY DEF TypeInv, BufferInv, OwnerOK, WorkerOK, QueueOK, ReaderOK, TypeOK
<1>2. QED
  BY <1>1, TypeInvariant, PTL

(* No byte of the stream is lost, duplicated or reordered between the      *)
(* socket, the buffer and the segments, whatever the conditions answer and *)
(* however the steps of the threads interleave.                            *)
THEOREM BytesAreConserved == Spec => []BytesConserved
<1>1. TypeInv => BytesConserved
  BY DEF TypeInv, BufferInv
<1>2. QED
  BY <1>1, TypeInvariant, PTL

-----------------------------------------------------------------------------
(* How the phases of the worker, the object and the readers go together.   *)

(* Only an exception caught by the worker sets last_ex and starts the      *)
(* notifications, and it ends the scanning.                                *)
WorkerPhases ==
  /\ last_ex # "SOCKET_OK" => worker \in {"notifying", "done"}
  /\ worker \notin {"notifying", "done"} => note = 0
  /\ note > 0 \/ worker = "notifying" => last_ex # "SOCKET_OK"

(* No eventfd is closed, and no reader gone, while the object is alive.    *)
ObjectPhases ==
  /\ life = "alive" => closed = 0
  /\ life # "alive" => ReadersIdle

(* A reader past its poll has a registered eventfd.                        *)
PolledIsRegistered ==
  \A r \in Readers : rpc[r] \in {"consume", "pop"} => Registered(rfd[r])

(* A caller is told of the end only when its list is empty.                *)
ToldAtTheEnd ==
  \A fd \in Fd :
    errSeen[fd] => last_ex # "SOCKET_OK" /\ received[fd] = << >>

PhaseInv ==
  /\ TypeInv
  /\ WorkerPhases /\ ObjectPhases /\ PolledIsRegistered /\ ToldAtTheEnd

(* PhaseInv holds initially.                                               *)
LEMMA InitPhases == Init => PhaseInv
<1> SUFFICES ASSUME Init PROVE PhaseInv
  OBVIOUS
<1>1. TypeInv
  BY InitType
<1>2. WorkerPhases /\ ObjectPhases
  BY DEF Init, WorkerPhases, ObjectPhases, ReadersIdle
<1>3. PolledIsRegistered /\ ToldAtTheEnd
  BY DEF Init, PolledIsRegistered, ToldAtTheEnd
<1>4. QED
  BY <1>1, <1>2, <1>3 DEF PhaseInv

(* Every step keeps the phases of the worker.                              *)
LEMMA WorkerPhasesStep ==
  ASSUME PhaseInv, [Next]_vars
  PROVE  WorkerPhases'
<1>1. WorkerPhases /\ note \in Nat
  BY DEF PhaseInv, TypeInv, WorkerOK
<1>2. CASE UNCHANGED <<last_ex, worker, note>>
  BY <1>1, <1>2 DEF WorkerPhases
<1>3. ASSUME NEW ex \in LastEx \ {"SOCKET_OK"}, Catch(ex)
      PROVE  WorkerPhases'
  BY <1>1, <1>3 DEF Catch, WorkerPhases
<1>4. ASSUME NEW n \in 1..BufferSize, WorkerRead(n)
      PROVE  WorkerPhases'
  BY <1>1, <1>4 DEF WorkerRead, WorkerPhases
<1>5. ASSUME NEW ex \in ReadException, WorkerReadThrows(ex)
      PROVE  WorkerPhases'
  BY <1>3, <1>5 DEF WorkerReadThrows, LastEx, ReadException
<1>6. CASE WorkerPollInterrupted
  BY <1>3, <1>6 DEF WorkerPollInterrupted, LastEx, ReadException
<1>7. CASE start
  BY <1>1, <1>7 DEF start, WorkerPhases
<1>8. CASE Notify
  BY <1>1, <1>8 DEF Notify, WorkerPhases
<1>9. CASE NotifyDone
  BY <1>1, <1>9 DEF NotifyDone, WorkerPhases
<1>10. CASE ScanReturn
  BY <1>1, <1>10 DEF ScanReturn, WorkerPhases
<1>11. CASE ScanMatch
  BY <1>1, <1>11 DEF ScanMatch, AtHandler, WorkerPhases
<1>12. CASE Post
  <2>1. CASE Closed(Top.i)
    BY <1>3, <1>12, <2>1 DEF Post, LastEx, ReadException
  <2>2. CASE ~Closed(Top.i)
    BY <1>1, <1>12, <2>2 DEF Post, WorkerPhases
  <2>3. QED
    BY <2>1, <2>2
<1>13. CASE ScanNothing \/ ScanThrows \/ ScanDiscard
  BY <1>2, <1>13 DEF ScanNothing, ScanThrows, ScanDiscard, workerVars
<1>14. CASE PeerStep \/ Destructor \/ stopReads \/ StopReadsStream \/ Destroy
  BY <1>2, <1>14
     DEF PeerStep, Destructor, stopReads,
         StopReadsStream, Destroy, DestroyClose, DestroyStop,
         DestroyJoin, workerVars
<1>15. ASSUME NEW c \in Conditions, createEventfdOnCondition(c)
       PROVE  WorkerPhases'
  BY <1>2, <1>15 DEF createEventfdOnCondition, workerVars
<1>16. ASSUME NEW r \in Readers,
              Call(r) \/ Reader(r) \/ PollInterrupted(r) \/ ConsumeInterrupted(r)
       PROVE  WorkerPhases'
  BY <1>2, <1>16
     DEF Call, Reader, CallRead, CallReadBlocking, PollReady, PollInvalid,
         PollTimeout, PollInterrupted, Consume, ConsumeInterrupted, Pop,
         workerVars
<1>17. CASE UNCHANGED vars
  BY <1>2, <1>17 DEF vars, workerVars
<1>18. QED
  BY <1>4, <1>5, <1>6, <1>7, <1>8, <1>9, <1>10, <1>11, <1>12, <1>13, <1>14,
     <1>15, <1>16, <1>17
     DEF Next, Owner, Worker, Signal

(* Every step keeps the phases of the object.                              *)
LEMMA ObjectPhasesStep ==
  ASSUME PhaseInv, [Next]_vars
  PROVE  ObjectPhases'
<1>1. ObjectPhases
  BY DEF PhaseInv
<1>2. CASE UNCHANGED <<life, closed, rpc>>
  BY <1>1, <1>2 DEF ObjectPhases, ReadersIdle
<1>3. CASE Destroy
  BY <1>1, <1>3 DEF Destroy, ObjectPhases, ReadersIdle, readerVars
<1>4. CASE Destructor
  BY <1>1, <1>4
     DEF Destructor, DestroyClose, DestroyStop, DestroyJoin, ObjectPhases,
         ReadersIdle, readerVars
<1>5. CASE PeerStep \/ start \/ stopReads
           \/ StopReadsStream \/ WorkerPollInterrupted
  BY <1>2, <1>5
     DEF PeerStep, start, stopReads,
         StopReadsStream, WorkerPollInterrupted, ownerVars,
         readerVars
<1>6. CASE Worker
  BY <1>2, <1>6
     DEF Worker, WorkerRead, WorkerReadThrows, Notify, NotifyDone, ScanReturn,
         ScanNothing, ScanThrows, ScanDiscard, ScanMatch, Post, ownerVars,
         readerVars
<1>7. ASSUME NEW c \in Conditions, createEventfdOnCondition(c)
      PROVE  ObjectPhases'
  BY <1>2, <1>7 DEF createEventfdOnCondition, readerVars
<1>8. ASSUME NEW r \in Readers,
             Call(r) \/ Reader(r) \/ PollInterrupted(r) \/ ConsumeInterrupted(r)
      PROVE  ObjectPhases'
  <2>1. UNCHANGED <<life, closed>>
    BY <1>8
       DEF Call, Reader, CallRead, CallReadBlocking, PollReady, PollInvalid,
           PollTimeout, PollInterrupted, Consume, ConsumeInterrupted, Pop,
           ownerVars
  <2>2. life = "alive" \/ rpc[r] # "idle"
    BY <1>8
       DEF Call, Reader, CallRead, CallReadBlocking, PollReady, PollInvalid,
           PollTimeout, PollInterrupted, Consume, ConsumeInterrupted, Pop,
           Polling
  <2>3. life = "alive"
    BY <1>1, <2>2 DEF ObjectPhases, ReadersIdle
  <2>4. QED
    BY <1>1, <2>1, <2>3 DEF ObjectPhases
<1>9. CASE UNCHANGED vars
  BY <1>2, <1>9 DEF vars, ownerVars, readerVars
<1>10. QED
  BY <1>3, <1>4, <1>5, <1>6, <1>7, <1>8, <1>9 DEF Next, Owner, Signal

(* Every step keeps that a woken reader waits on a registered eventfd.     *)
LEMMA PolledIsRegisteredStep ==
  ASSUME PhaseInv, [Next]_vars
  PROVE  PolledIsRegistered'
<1>1. PolledIsRegistered /\ ReaderOK
  BY DEF PhaseInv, TypeInv
<1>2. CASE UNCHANGED <<rpc, rfd, handlers>>
  BY <1>1, <1>2 DEF PolledIsRegistered, Registered
<1>3. CASE PeerStep \/ Destructor \/ start \/ stopReads
           \/ StopReadsStream \/ Destroy
             \/ WorkerPollInterrupted
  BY <1>2, <1>3
     DEF PeerStep, Destructor, DestroyClose, DestroyStop, DestroyJoin, start,
         stopReads,
         StopReadsStream, Destroy, WorkerPollInterrupted, ownerVars, readerVars
<1>4. CASE Worker
  BY <1>2, <1>4
     DEF Worker, WorkerRead, WorkerReadThrows, Notify, NotifyDone, ScanReturn,
         ScanNothing, ScanThrows, ScanDiscard, ScanMatch, Post, ownerVars,
         readerVars
<1>5. ASSUME NEW c \in Conditions, createEventfdOnCondition(c)
      PROVE  PolledIsRegistered'
  BY <1>5
     DEF createEventfdOnCondition, ReadersIdle, PolledIsRegistered, readerVars
<1>6. ASSUME NEW r \in Readers,
             Call(r) \/ Reader(r) \/ PollInterrupted(r) \/ ConsumeInterrupted(r)
      PROVE  PolledIsRegistered'
  <2>1. handlers' = handlers
    BY <1>6
       DEF Call, Reader, CallRead, CallReadBlocking, PollReady, PollInvalid,
           PollTimeout, PollInterrupted, Consume, ConsumeInterrupted, Pop,
           ownerVars
  <2>2. ASSUME rpc' = [rpc EXCEPT ![r] = rpc'[r]],
               rfd' = [rfd EXCEPT ![r] = rfd'[r]],
               rpc'[r] \in {"consume", "pop"} => Registered(rfd'[r])
        PROVE  PolledIsRegistered'
    BY <1>1, <2>1, <2>2 DEF PolledIsRegistered, Registered, ReaderOK
  <2>3. ASSUME NEW res, Return(r, res)
        PROVE  PolledIsRegistered'
    BY <1>1, <2>2, <2>3 DEF Return, ReaderOK
  <2>4. ASSUME NEW fd, read(r, fd)
        PROVE  PolledIsRegistered'
    BY <2>3, <2>4 DEF read
  <2>5. ASSUME NEW fd, NEW timed, CallReadBlocking(r, fd, timed)
        PROVE  PolledIsRegistered'
    BY <1>1, <2>2, <2>5 DEF CallReadBlocking, ReaderOK
  <2>6. CASE PollReady(r)
    BY <1>1, <2>2, <2>6 DEF PollReady, ReaderOK
  <2>7. CASE Consume(r) \/ ConsumeInterrupted(r)
    BY <1>1, <2>2, <2>7
       DEF Consume, ConsumeInterrupted, PolledIsRegistered, ReaderOK
  <2>8. QED
    BY <1>6, <2>3, <2>4, <2>5, <2>6, <2>7
       DEF Call, Reader, CallRead, PollInvalid, PollTimeout, PollInterrupted, Pop
<1>7. CASE UNCHANGED vars
  BY <1>2, <1>7 DEF vars, ownerVars, readerVars
<1>8. QED
  BY <1>3, <1>4, <1>5, <1>6, <1>7 DEF Next, Owner, Signal

(* Every step keeps that the end is told only after the last segment.      *)
LEMMA ToldAtTheEndStep ==
  ASSUME PhaseInv, [Next]_vars
  PROVE  ToldAtTheEnd'
<1>1. ToldAtTheEnd /\ WorkerPhases /\ QueueOK
  BY DEF PhaseInv, TypeInv
<1>2. CASE UNCHANGED <<errSeen, last_ex, received>>
  BY <1>1, <1>2 DEF ToldAtTheEnd
<1>3. ASSUME worker \notin {"notifying", "done"}, errSeen' = errSeen
      PROVE  ToldAtTheEnd'
  BY <1>1, <1>3 DEF ToldAtTheEnd, WorkerPhases
<1>4. CASE Worker
  <2>1. CASE Notify \/ NotifyDone
    BY <1>2, <2>1 DEF Notify, NotifyDone, readerVars
  <2>2. CASE ~(Notify \/ NotifyDone)
    BY <1>3, <1>4, <2>2
       DEF Worker, WorkerRead, WorkerReadThrows, ScanReturn, ScanNothing,
           ScanThrows, ScanDiscard, ScanMatch, Post, AtHandler, readerVars
  <2>3. QED
    BY <2>1, <2>2
<1>5. CASE WorkerPollInterrupted
  BY <1>3, <1>5 DEF WorkerPollInterrupted, readerVars
<1>6. CASE PeerStep \/ Destructor \/ start \/ stopReads
           \/ StopReadsStream \/ Destroy
  BY <1>2, <1>6
     DEF PeerStep, Destructor, DestroyClose, DestroyStop, DestroyJoin, start,
         stopReads, StopReadsStream, Destroy, workerVars, readerVars
<1>7. ASSUME NEW c \in Conditions, createEventfdOnCondition(c)
      PROVE  ToldAtTheEnd'
  BY <1>2, <1>7 DEF createEventfdOnCondition, workerVars, readerVars
<1>8. ASSUME NEW r \in Readers, NEW fd, read(r, fd), last_ex' = last_ex
      PROVE  ToldAtTheEnd'
  BY <1>1, <1>2, <1>8 DEF read, ToldAtTheEnd, QueueOK
<1>9. ASSUME NEW r \in Readers,
             Call(r) \/ Reader(r) \/ PollInterrupted(r) \/ ConsumeInterrupted(r)
      PROVE  ToldAtTheEnd'
  BY <1>2, <1>8, <1>9
     DEF Call, Reader, CallRead, CallReadBlocking, PollReady, PollInvalid,
         PollTimeout, PollInterrupted, Consume, ConsumeInterrupted, Pop,
         workerVars
<1>10. CASE UNCHANGED vars
  BY <1>2, <1>10 DEF vars, workerVars, readerVars
<1>11. QED
  BY <1>4, <1>5, <1>6, <1>7, <1>9, <1>10 DEF Next, Owner, Signal

(* PhaseInv is inductive.                                                  *)
LEMMA NextPhases == PhaseInv /\ [Next]_vars => PhaseInv'
BY NextType, WorkerPhasesStep, ObjectPhasesStep, PolledIsRegisteredStep,
   ToldAtTheEndStep
   DEF PhaseInv

(* PhaseInv holds in every reachable state.                                *)
LEMMA PhaseInvariant == Spec => []PhaseInv
BY InitPhases, NextPhases, PTL DEF Spec

(* The error never overtakes data: once a caller of read has been given    *)
(* last_ex, the condition's list is empty and the worker adds nothing to   *)
(* it any more.                                                            *)
THEOREM ErrorsAreFinal == Spec => []ErrorIsFinal
<1>1. PhaseInv => ErrorIsFinal
  BY DEF PhaseInv, WorkerPhases, ToldAtTheEnd, ErrorIsFinal
<1>2. QED
  BY <1>1, PhaseInvariant, PTL

-----------------------------------------------------------------------------
(* Events and segments.  Events(fd) counts the events that stand for       *)
(* something in the list of fd: in the eventfd, in the hands of a reader,  *)
(* or about to be posted.                                                  *)
Events(fd) == evfd[fd] + Cardinality(Holders(fd)) + PendingPost(fd)

(* A step adds e to the events of fd and s to its segments.                *)
Adds(fd, e, s) ==
  /\ Events(fd)' = Events(fd) + e
  /\ Len(received'[fd]) = Len(received[fd]) + s

(* What a step may do to one eventfd, and who does it.                     *)
Quiet(fd) ==      \* nothing
  /\ Adds(fd, 0, 0)
  /\ errSeen'[fd] = errSeen[fd]
  /\ (fd < note') <=> (fd < note)
Queued(fd) ==     \* the worker queues a segment
  Adds(fd, 1, 1) /\ errSeen'[fd] = errSeen[fd] /\ note' = note
Announced(fd) ==  \* the worker announces the end
  Adds(fd, 1, 0) /\ errSeen'[fd] = errSeen[fd] /\ note = fd /\ note' = fd + 1
Fetched(fd) ==    \* readBlocking returns a segment
  Adds(fd, -1, -1) /\ errSeen'[fd] = errSeen[fd] /\ note' = note
Woken(fd) ==      \* readBlocking finds the list empty
  /\ Adds(fd, -1, 0) /\ received[fd] = << >> /\ note' = note
  /\ \E r \in Readers : rpc[r] = "pop" /\ rfd[r] = fd
  /\ last_ex # "SOCKET_OK" => errSeen'[fd] = TRUE
  /\ last_ex = "SOCKET_OK" => errSeen'[fd] = errSeen[fd]
Bypassed(fd) ==   \* read is called without waiting for an event
  /\ "read" \in Uses
  /\ Adds(fd, 0, 0) \/ Adds(fd, 0, -1)
Invented(fd) ==   \* a signal ends the wait for an event
  "signals" \in Uses /\ Adds(fd, 1, 0)

(* Events, holders and pending posts are numbers.                          *)
LEMMA EventsType ==
  ASSUME TypeInv, NEW fd \in Fd
  PROVE  /\ IsFiniteSet(Holders(fd)) /\ Cardinality(Holders(fd)) \in Nat
         /\ evfd[fd] \in Nat /\ PendingPost(fd) \in {0, 1}
         /\ Events(fd) \in Nat
         /\ received[fd] \in Seq(Segment) /\ Len(received[fd]) \in Nat
<1>1. IsFiniteSet(Holders(fd))
  BY ReadersAssumption, FS_Subset DEF Holders
<1>2. Cardinality(Holders(fd)) \in Nat
  BY <1>1, FS_CardinalityType
<1>3. PendingPost(fd) \in {0, 1}
  BY DEF PendingPost
<1>4. evfd[fd] \in Nat /\ received[fd] \in Seq(Segment)
  BY DEF TypeInv, QueueOK
<1>5. Len(received[fd]) \in Nat
  BY <1>4, LenProperties
<1>6. QED
  BY <1>1, <1>2, <1>3, <1>4, <1>5 DEF Events

(* A step of one reader changes the holders by that reader at most.        *)
Held(r, fd) == IF rpc[r] = "pop" /\ rfd[r] = fd THEN 1 ELSE 0

(* One reader more or less that holds an event changes the count by one.   *)
LEMMA HoldersCount ==
  ASSUME TypeInv, NEW r \in Readers, NEW fd \in Fd,
         rpc' = [rpc EXCEPT ![r] = rpc'[r]],
         rfd' = [rfd EXCEPT ![r] = rfd'[r]]
  PROVE  Cardinality(Holders(fd)') + Held(r, fd)
           = Cardinality(Holders(fd)) + Held(r, fd)'
<1>1. IsFiniteSet(Holders(fd)) /\ Cardinality(Holders(fd)) \in Nat
  BY EventsType
<1>2. Held(r, fd) = IF r \in Holders(fd) THEN 1 ELSE 0
  BY DEF Holders, Held
<1>3. CASE rpc'[r] = "pop" /\ rfd'[r] = fd
  <2>1. Cardinality(Holders(fd) \cup {r})
          = IF r \in Holders(fd) THEN Cardinality(Holders(fd))
                                 ELSE Cardinality(Holders(fd)) + 1
    BY <1>1, FS_AddElement
  <2>2. Holders(fd)' = Holders(fd) \cup {r}
    BY <1>3 DEF Holders, TypeInv, ReaderOK
  <2>3. Held(r, fd)' = 1
    BY <1>3 DEF Held
  <2>4. QED
    BY <1>1, <1>2, <2>1, <2>2, <2>3
<1>4. CASE ~(rpc'[r] = "pop" /\ rfd'[r] = fd)
  <2>1. Cardinality(Holders(fd) \ {r})
          = IF r \in Holders(fd) THEN Cardinality(Holders(fd)) - 1
                                 ELSE Cardinality(Holders(fd))
    BY <1>1, FS_RemoveElement
  <2>2. Holders(fd)' = Holders(fd) \ {r}
    BY <1>4 DEF Holders, TypeInv, ReaderOK
  <2>3. Held(r, fd)' = 0
    BY <1>4 DEF Held
  <2>4. QED
    BY <1>1, <1>2, <2>1, <2>2, <2>3
<1>5. QED
  BY <1>3, <1>4

(* Holders depends on the place and the argument of the readers only.      *)
LEMMA HoldersFrame ==
  ASSUME NEW fd, UNCHANGED <<rpc, rfd>>
  PROVE  Holders(fd)' = Holders(fd)
BY DEF Holders

(* PendingPost depends on the worker and its stack only.                   *)
LEMMA PendingFrame ==
  ASSUME NEW fd, UNCHANGED <<worker, frames>>
  PROVE  PendingPost(fd)' = PendingPost(fd)
BY DEF PendingPost, Top

(* A step that touches none of it.                                         *)
LEMMA QuietFrame ==
  ASSUME TypeInv, NEW fd \in Fd,
         UNCHANGED <<rpc, rfd, evfd, received, errSeen>>,
         (fd < note') <=> (fd < note),
         PendingPost(fd)' = PendingPost(fd)
  PROVE  Quiet(fd)
<1>1. Holders(fd)' = Holders(fd)
  BY HoldersFrame
<1>2. Events(fd)' = Events(fd)
  BY <1>1 DEF Events
<1>3. QED
  BY <1>2, EventsType DEF Quiet, Adds

(* The worker's steps are Quiet, Queued or Announced on each eventfd.      *)
LEMMA WorkerEvents ==
  ASSUME PhaseInv, Worker \/ WorkerPollInterrupted, closed = 0, NEW fd \in Fd
  PROVE  Quiet(fd) \/ Queued(fd) \/ Announced(fd)
<1>1. TypeInv /\ WorkerPhases /\ note \in Nat
  BY DEF PhaseInv, TypeInv, WorkerOK
<1>2. fd \in Nat \ {0}
  BY MaxHandlersAssumption DEF Fd
<1>3. ASSUME worker \notin {"posting", "notifying", "done"},
             worker' # "posting",
             UNCHANGED <<rpc, rfd, evfd, received, errSeen>>,
             note' \in {note, 1}
      PROVE  Quiet(fd)
  <2>1. PendingPost(fd)' = PendingPost(fd)
    BY <1>3 DEF PendingPost
  <2>2. (fd < note') <=> (fd < note)
    BY <1>1, <1>2, <1>3 DEF WorkerPhases
  <2>3. QED
    BY <1>1, <1>3, <2>1, <2>2, QuietFrame
<1>4. ASSUME NEW n \in 1..BufferSize, WorkerRead(n)
      PROVE  Quiet(fd)
  BY <1>3, <1>4 DEF WorkerRead, readerVars
<1>5. ASSUME NEW ex \in ReadException, WorkerReadThrows(ex)
      PROVE  Quiet(fd)
  BY <1>3, <1>5 DEF WorkerReadThrows, Catch, readerVars
<1>6. CASE WorkerPollInterrupted
  <2>1. Quiet(fd)
    BY <1>3, <1>6 DEF WorkerPollInterrupted, Catch, readerVars
  <2>2. QED
    BY <2>1
<1>7. CASE ScanReturn \/ ScanNothing \/ ScanThrows \/ ScanDiscard
  <2>1. Quiet(fd)
    BY <1>3, <1>7
       DEF ScanReturn, ScanNothing, ScanThrows, ScanDiscard, AtHandler,
           readerVars, workerVars
  <2>2. QED
    BY <2>1
<1>8. CASE Notify
  <2>1. PendingPost(fd)' = PendingPost(fd)
    BY <1>8 DEF Notify, PendingPost
  <2>2. CASE UNCHANGED <<evfd, note>>
    BY <1>1, <1>8, <2>1, <2>2, QuietFrame DEF Notify, readerVars
  <2>3. CASE evfd' = [evfd EXCEPT ![note] = @ + 1] /\ note' = note + 1
    <3>1. Holders(fd)' = Holders(fd)
      BY <1>8, HoldersFrame DEF Notify, readerVars
    <3>2. /\ evfd[fd] \in Nat /\ Cardinality(Holders(fd)) \in Nat
          /\ PendingPost(fd) \in Nat /\ Len(received[fd]) \in Nat
      BY <1>1, EventsType
    <3>3. evfd'[fd] = IF fd = note THEN evfd[fd] + 1 ELSE evfd[fd]
      BY <1>1, <2>3 DEF TypeInv, QueueOK
    <3>4. received' = received /\ errSeen' = errSeen
      BY <1>8 DEF Notify, readerVars
    <3>5. CASE fd = note
      <4>1. Adds(fd, 1, 0)
        BY <2>1, <3>1, <3>2, <3>3, <3>4, <3>5 DEF Adds, Events
      <4>2. QED
        BY <2>3, <3>4, <3>5, <4>1 DEF Announced
    <3>6. CASE fd # note
      <4>1. Adds(fd, 0, 0)
        BY <2>1, <3>1, <3>2, <3>3, <3>4, <3>6 DEF Adds, Events
      <4>2. (fd < note') <=> (fd < note)
        BY <1>1, <1>2, <2>3, <3>6
      <4>3. QED
        BY <3>4, <4>1, <4>2 DEF Quiet
    <3>7. QED
      BY <3>5, <3>6
  <2>4. QED
    BY <1>8, <2>2, <2>3 DEF Notify
<1>9. CASE NotifyDone
  <2>1. PendingPost(fd)' = PendingPost(fd)
    BY <1>9 DEF NotifyDone, PendingPost
  <2>2. QED
    BY <1>1, <1>9, <2>1, QuietFrame DEF NotifyDone, readerVars
<1>10. CASE ScanMatch
  <2>1. /\ received' = [received EXCEPT ![Top.i] =
                         Append(@, SubSeq(buffer, 1, Answer))]
        /\ worker = "scanning" /\ worker' = "posting" /\ frames' = frames
        /\ UNCHANGED <<rpc, rfd, evfd, errSeen, note>>
    BY <1>10 DEF ScanMatch, AtHandler, readerVars
  <2>2. /\ PendingPost(fd) = 0
        /\ PendingPost(fd)' = IF Top.i = fd THEN 1 ELSE 0
    BY <2>1 DEF PendingPost, Top
  <2>3. Holders(fd)' = Holders(fd)
    BY <2>1, HoldersFrame
  <2>4. /\ evfd[fd] \in Nat /\ Cardinality(Holders(fd)) \in Nat
        /\ received[fd] \in Seq(Segment) /\ Len(received[fd]) \in Nat
    BY <1>1, EventsType
  <2>5. Events(fd)' = Events(fd) + (IF Top.i = fd THEN 1 ELSE 0)
    BY <2>1, <2>2, <2>3, <2>4 DEF Events
  <2>6. received'[fd] = IF Top.i = fd
                          THEN Append(received[fd], SubSeq(buffer, 1, Answer))
                          ELSE received[fd]
    BY <1>1, <2>1 DEF TypeInv, QueueOK
  <2>7. CASE Top.i = fd
    <3>1. SubSeq(buffer, 1, Answer) \in Segment
      <4>1. Answer \in Int
        BY <1>1, <1>10, AnswerType DEF ScanMatch
      <4>2. buffer \in Seq(Byte) /\ Answer \in 0..Len(buffer)
        BY <1>1, <1>10, <4>1, LenProperties
           DEF ScanMatch, PopFromBuffer, TypeInv, BufferInv, BufferTypeOK
      <4>3. QED
        BY <4>2, Cut DEF Segment
    <3>2. Len(received'[fd]) = Len(received[fd]) + 1
      BY <2>4, <2>6, <2>7, <3>1, AppendProperties
    <3>3. QED
      BY <2>1, <2>5, <2>7, <3>2 DEF Queued, Adds
  <2>8. CASE Top.i # fd
    BY <2>1, <2>4, <2>5, <2>6, <2>8 DEF Quiet, Adds
  <2>9. QED
    BY <2>7, <2>8
<1>11. CASE Post
  <2>1. worker = "posting" /\ Top.i \in Nat \ {0}
    BY <1>1, <1>11, TopType DEF Post
  <2>2. ~Closed(Top.i)
    BY <2>1 DEF Closed
  <2>3. /\ evfd' = [evfd EXCEPT ![Top.i] = @ + 1]
        /\ worker' = "scanning"
        /\ UNCHANGED <<rpc, rfd, received, errSeen, note>>
    BY <1>11, <2>2 DEF Post, readerVars
  <2>4. /\ PendingPost(fd) = IF Top.i = fd THEN 1 ELSE 0
        /\ PendingPost(fd)' = 0
    BY <2>1, <2>3 DEF PendingPost
  <2>5. Holders(fd)' = Holders(fd)
    BY <2>3, HoldersFrame
  <2>6. /\ evfd[fd] \in Nat /\ Cardinality(Holders(fd)) \in Nat
        /\ Len(received[fd]) \in Nat
    BY <1>1, EventsType
  <2>7. evfd'[fd] = IF Top.i = fd THEN evfd[fd] + 1 ELSE evfd[fd]
    BY <1>1, <2>3 DEF TypeInv, QueueOK
  <2>8. Events(fd)' = Events(fd)
    BY <2>4, <2>5, <2>6, <2>7 DEF Events
  <2>9. QED
    BY <2>3, <2>6, <2>8, EventsType, <1>1 DEF Quiet, Adds
<1>12. QED
  BY <1>4, <1>5, <1>6, <1>7, <1>8, <1>9, <1>10, <1>11 DEF Worker

(* Events of a reader's step, from where the reader was and is.            *)
LEMMA EventsChange ==
  ASSUME TypeInv, NEW r \in Readers, NEW fd \in Fd,
         rpc' = [rpc EXCEPT ![r] = rpc'[r]],
         rfd' = [rfd EXCEPT ![r] = rfd'[r]],
         UNCHANGED <<worker, frames>>,
         evfd'[fd] \in Int
  PROVE  Events(fd)' = Events(fd) + (evfd'[fd] - evfd[fd])
                                  + (Held(r, fd)' - Held(r, fd))
<1>1. Cardinality(Holders(fd)') + Held(r, fd)
        = Cardinality(Holders(fd)) + Held(r, fd)'
  BY HoldersCount
<1>2. Cardinality(Holders(fd)') \in Nat
  <2>1. IsFiniteSet(Holders(fd)')
    BY ReadersAssumption, FS_Subset DEF Holders
  <2>2. QED
    BY <2>1, FS_CardinalityType
<1>3. /\ evfd[fd] \in Nat /\ Cardinality(Holders(fd)) \in Nat
      /\ PendingPost(fd) \in Nat
  BY EventsType
<1>4. PendingPost(fd)' = PendingPost(fd)
  BY PendingFrame
<1>5. Held(r, fd) \in {0, 1} /\ Held(r, fd)' \in {0, 1}
  BY DEF Held
<1>6. Cardinality(Holders(fd)')
        = Cardinality(Holders(fd)) + (Held(r, fd)' - Held(r, fd))
  BY <1>1, <1>2, <1>3, <1>5
<1>7. QED
  BY <1>3, <1>4, <1>5, <1>6 DEF Events

(* The readers' steps are Quiet, Fetched, Woken, Bypassed or Invented.     *)
LEMMA ReaderEvents ==
  ASSUME PhaseInv, NEW r \in Readers, NEW fd \in Fd,
         Call(r) \/ Reader(r) \/ PollInterrupted(r) \/ ConsumeInterrupted(r)
  PROVE  Quiet(fd) \/ Fetched(fd) \/ Woken(fd) \/ Bypassed(fd) \/ Invented(fd)
<1>1. TypeInv /\ ReaderOK /\ QueueOK /\ PolledIsRegistered
  BY DEF PhaseInv, TypeInv
<1>2. /\ evfd[fd] \in Nat /\ Len(received[fd]) \in Nat
      /\ received[fd] \in Seq(Segment) /\ Events(fd) \in Nat
  BY <1>1, EventsType
<1>3. UNCHANGED <<worker, frames, note>>
  BY DEF Call, Reader, CallRead, CallReadBlocking, PollReady, PollInvalid,
         PollTimeout, PollInterrupted, Consume, ConsumeInterrupted, Pop,
         workerVars
<1>4. rfd = [rfd EXCEPT ![r] = rfd[r]]
  BY <1>1 DEF ReaderOK
<1>5. ASSUME NEW place, NEW arg, place # "pop", rpc[r] # "pop",
             rpc' = [rpc EXCEPT ![r] = place], rfd' = [rfd EXCEPT ![r] = arg],
             evfd' = evfd
      PROVE  Events(fd)' = Events(fd)
  <2>1. rpc'[r] = place /\ rfd'[r] = arg
    BY <1>1, <1>5 DEF ReaderOK
  <2>2. Held(r, fd)' = 0 /\ Held(r, fd) = 0
    BY <1>5, <2>1 DEF Held
  <2>3. /\ rpc' = [rpc EXCEPT ![r] = rpc'[r]]
        /\ rfd' = [rfd EXCEPT ![r] = rfd'[r]]
        /\ evfd'[fd] = evfd[fd]
    BY <1>5, <2>1
  <2>4. Events(fd)' = Events(fd) + (evfd'[fd] - evfd[fd])
                                 + (Held(r, fd)' - Held(r, fd))
    BY <1>1, <1>2, <1>3, <2>3, EventsChange
  <2>5. QED
    BY <1>2, <2>2, <2>3, <2>4
<1>6. ASSUME Events(fd)' = Events(fd), UNCHANGED <<received, errSeen>>
      PROVE  Quiet(fd)
  BY <1>2, <1>3, <1>6 DEF Quiet, Adds
<1>7. ASSUME NEW f \in Fd, CallRead(r, f)
      PROVE  Bypassed(fd)
  <2>1. /\ "read" \in Uses /\ rpc[r] = "idle" /\ read(r, f) /\ evfd' = evfd
    BY <1>7 DEF CallRead
  <2>2. \E res : Return(r, res)
    BY <2>1 DEF read
  <2>3. Events(fd)' = Events(fd)
    BY <1>5, <2>1, <2>2 DEF Return
  <2>4. \/ received'[fd] = received[fd]
        \/ received[fd] # << >> /\ received'[fd] = Tail(received[fd])
    BY <1>1, <2>1 DEF read, QueueOK
  <2>5. CASE received'[fd] = received[fd]
    BY <1>2, <2>1, <2>3, <2>5 DEF Bypassed, Adds
  <2>6. CASE received[fd] # << >> /\ received'[fd] = Tail(received[fd])
    <3>1. Len(received'[fd]) = Len(received[fd]) - 1
      BY <1>2, <2>6, HeadTailProperties
    <3>2. QED
      BY <1>2, <2>1, <2>3, <3>1 DEF Bypassed, Adds
  <2>7. QED
    BY <2>4, <2>5, <2>6
<1>8. ASSUME NEW f, NEW timed, CallReadBlocking(r, f, timed)
      PROVE  Quiet(fd)
  BY <1>5, <1>6, <1>8 DEF CallReadBlocking
<1>9. CASE PollReady(r)
  <2>1. Events(fd)' = Events(fd)
    BY <1>4, <1>5, <1>9 DEF PollReady, Polling
  <2>2. QED
    BY <1>6, <1>9, <2>1 DEF PollReady
<1>10. CASE PollInvalid(r) \/ PollTimeout(r) \/ PollInterrupted(r)
  <2>1. /\ rpc[r] = "poll" /\ evfd' = evfd /\ UNCHANGED <<received, errSeen>>
        /\ \E res : Return(r, res)
    BY <1>10 DEF PollInvalid, PollTimeout, PollInterrupted, Polling
  <2>2. Events(fd)' = Events(fd)
    BY <1>5, <2>1 DEF Return
  <2>3. QED
    BY <1>6, <2>1, <2>2
<1>11. CASE Consume(r)
  <2>1. /\ rpc[r] = "consume" /\ rpc' = [rpc EXCEPT ![r] = rpc'[r]]
        /\ rpc'[r] = "pop"
        /\ rfd' = [rfd EXCEPT ![r] = rfd'[r]] /\ rfd'[r] = rfd[r]
        /\ evfd' = [evfd EXCEPT ![rfd[r]] = @ - 1]
        /\ UNCHANGED <<received, errSeen>>
    BY <1>1, <1>4, <1>11 DEF Consume, ReaderOK
  <2>2. evfd'[fd] = IF rfd[r] = fd THEN evfd[fd] - 1 ELSE evfd[fd]
    BY <1>1, <2>1 DEF QueueOK
  <2>3. Held(r, fd) = 0 /\ Held(r, fd)' = IF rfd[r] = fd THEN 1 ELSE 0
    BY <2>1 DEF Held
  <2>4. Events(fd)' = Events(fd) + (evfd'[fd] - evfd[fd])
                                 + (Held(r, fd)' - Held(r, fd))
    BY <1>1, <1>2, <1>3, <2>1, <2>2, EventsChange
  <2>5. Events(fd)' = Events(fd)
    BY <1>2, <2>2, <2>3, <2>4
  <2>6. QED
    BY <1>6, <2>1, <2>5
<1>12. CASE ConsumeInterrupted(r)
  <2>1. /\ rpc[r] = "consume" /\ rpc' = [rpc EXCEPT ![r] = rpc'[r]]
        /\ rpc'[r] = "pop"
        /\ rfd' = [rfd EXCEPT ![r] = rfd'[r]] /\ rfd'[r] = rfd[r]
        /\ UNCHANGED <<evfd, received, errSeen>> /\ "signals" \in Uses
    BY <1>1, <1>4, <1>12 DEF ConsumeInterrupted, ReaderOK
  <2>2. Held(r, fd) = 0 /\ Held(r, fd)' = IF rfd[r] = fd THEN 1 ELSE 0
    BY <2>1 DEF Held
  <2>3. Events(fd)' = Events(fd) + (evfd'[fd] - evfd[fd])
                                 + (Held(r, fd)' - Held(r, fd))
    BY <1>1, <1>2, <1>3, <2>1, EventsChange
  <2>4. CASE rfd[r] = fd
    BY <1>2, <2>1, <2>2, <2>3, <2>4 DEF Invented, Adds
  <2>5. CASE rfd[r] # fd
    BY <1>2, <1>6, <2>1, <2>2, <2>3, <2>5
  <2>6. QED
    BY <2>4, <2>5
<1>13. CASE Pop(r)
  <2>1. rpc[r] = "pop" /\ read(r, rfd[r]) /\ evfd' = evfd
    BY <1>13 DEF Pop
  <2>2. Registered(rfd[r])
    BY <1>1, <2>1 DEF PolledIsRegistered
  <2>3. /\ rpc' = [rpc EXCEPT ![r] = rpc'[r]] /\ rpc'[r] = "idle"
        /\ rfd' = [rfd EXCEPT ![r] = rfd'[r]]
    <3>1. rpc' = [rpc EXCEPT ![r] = "idle"] /\ rfd' = [rfd EXCEPT ![r] = 1]
      BY <2>1 DEF read, Return
    <3>2. QED
      BY <1>1, <3>1 DEF ReaderOK
  <2>4. /\ Held(r, fd)' = 0 /\ Held(r, fd) = IF rfd[r] = fd THEN 1 ELSE 0
        /\ Events(fd)' = Events(fd) + (evfd'[fd] - evfd[fd])
                                     + (Held(r, fd)' - Held(r, fd))
    <3>1. Held(r, fd)' = 0 /\ Held(r, fd) = IF rfd[r] = fd THEN 1 ELSE 0
      BY <2>1, <2>3 DEF Held
    <3>2. QED
      BY <1>1, <1>2, <1>3, <2>1, <2>3, <3>1, EventsChange
  <2>5. CASE rfd[r] # fd
    <3>1. Events(fd)' = Events(fd)
      BY <1>2, <2>1, <2>4, <2>5
    <3>2. received'[fd] = received[fd] /\ errSeen'[fd] = errSeen[fd]
      BY <1>1, <2>1, <2>5 DEF read, QueueOK
    <3>3. QED
      BY <1>2, <1>3, <3>1, <3>2 DEF Quiet, Adds
  <2>6. CASE rfd[r] = fd
    <3>1. Events(fd)' = Events(fd) - 1
      BY <1>2, <2>1, <2>4, <2>6
    <3>2. CASE received[fd] # << >>
      <4>1. received'[fd] = Tail(received[fd]) /\ errSeen'[fd] = errSeen[fd]
        BY <1>1, <2>1, <2>2, <2>6, <3>2 DEF read, QueueOK
      <4>2. Len(received'[fd]) = Len(received[fd]) - 1
        BY <1>2, <3>2, <4>1, HeadTailProperties
      <4>3. QED
        BY <1>2, <1>3, <3>1, <4>1, <4>2 DEF Fetched, Adds
    <3>3. CASE received[fd] = << >>
      <4>1. received' = received
        BY <2>1, <2>2, <2>6, <3>3 DEF read
      <4>2. /\ last_ex # "SOCKET_OK" => errSeen'[fd] = TRUE
            /\ last_ex = "SOCKET_OK" => errSeen'[fd] = errSeen[fd]
        BY <1>1, <2>1, <2>2, <2>6, <3>3 DEF read, QueueOK
      <4>3. Adds(fd, -1, 0)
        BY <1>2, <3>1, <4>1 DEF Adds
      <4>4. QED
        BY <1>3, <2>1, <2>6, <3>3, <4>2, <4>3 DEF Woken
    <3>4. QED
      BY <3>2, <3>3
  <2>7. QED
    BY <2>5, <2>6
<1>14. QED
  BY <1>7, <1>8, <1>9, <1>10, <1>11, <1>12, <1>13 DEF Call, Reader

(* Every step, seen from one eventfd, as long as the object is alive.      *)
LEMMA StepEvents ==
  ASSUME PhaseInv, [Next]_vars, life' = "alive", NEW fd \in Fd
  PROVE  /\ life = "alive"
         /\ \/ Quiet(fd) \/ Queued(fd) \/ Announced(fd) \/ Fetched(fd)
            \/ Woken(fd) \/ Bypassed(fd) \/ Invented(fd)
<1>1. TypeInv /\ ObjectPhases
  BY DEF PhaseInv
<1>2. ASSUME UNCHANGED <<rpc, rfd, evfd, received, errSeen, note, worker, frames>>
      PROVE  Quiet(fd)
  BY <1>1, <1>2, PendingFrame, QuietFrame
<1>3. CASE PeerStep \/ stopReads \/ StopReadsStream \/ UNCHANGED vars
  <2>1. life = "alive"
    BY <1>3 DEF PeerStep, stopReads, StopReadsStream, vars, ownerVars
  <2>2. Quiet(fd)
    BY <1>2, <1>3 DEF PeerStep, stopReads,
                      StopReadsStream, vars, readerVars, workerVars
  <2>3. QED
    BY <2>1, <2>2
<1>4. CASE Destroy \/ Destructor
  BY <1>4 DEF Destroy, Destructor, DestroyClose, DestroyStop, DestroyJoin
<1>5. CASE start
  <2>1. PendingPost(fd)' = PendingPost(fd)
    BY <1>5 DEF start, PendingPost
  <2>2. Quiet(fd)
    BY <1>1, <1>5, <2>1, QuietFrame DEF start, readerVars
  <2>3. QED
    BY <1>5, <2>2 DEF start
<1>6. ASSUME NEW c \in Conditions, createEventfdOnCondition(c)
      PROVE  life = "alive" /\ Quiet(fd)
  BY <1>2, <1>6 DEF createEventfdOnCondition, readerVars, workerVars
<1>7. CASE Worker \/ WorkerPollInterrupted
  <2>1. life = "alive"
    BY <1>7
       DEF Worker, WorkerPollInterrupted, WorkerRead, WorkerReadThrows, Notify,
           NotifyDone, ScanReturn, ScanNothing, ScanThrows, ScanDiscard,
           ScanMatch, Post, ownerVars
  <2>2. closed = 0
    BY <1>1, <2>1 DEF ObjectPhases
  <2>3. QED
    BY <1>7, <2>1, <2>2, WorkerEvents
<1>8. ASSUME NEW r \in Readers,
             Call(r) \/ Reader(r) \/ PollInterrupted(r) \/ ConsumeInterrupted(r)
      PROVE  /\ life = "alive"
             /\ \/ Quiet(fd) \/ Fetched(fd) \/ Woken(fd) \/ Bypassed(fd)
                \/ Invented(fd)
  <2>1. life = "alive"
    BY <1>8
       DEF Call, Reader, CallRead, CallReadBlocking, PollReady, PollInvalid,
           PollTimeout, PollInterrupted, Consume, ConsumeInterrupted, Pop,
           ownerVars
  <2>2. QED
    BY <1>8, <2>1, ReaderEvents
<1>9. QED
  BY <1>3, <1>4, <1>5, <1>6, <1>7, <1>8 DEF Next, Owner, Signal

EventsAreNat == \A fd \in Fd : Events(fd) \in Nat

(* The quantities compared are natural numbers.                            *)
LEMMA EventsNat == TypeInv => EventsAreNat
BY EventsType DEF EventsAreNat

(* Each kind of step keeps the inequality of NoStrandedSegment.            *)
LEMMA NextNoStranded ==
  PhaseInv /\ NoStrandedSegment /\ [Next]_vars => NoStrandedSegment'
<1> SUFFICES ASSUME PhaseInv, NoStrandedSegment, [Next]_vars,
                    life' = "alive", NEW fd \in Fd
             PROVE  (Len(received[fd]) <= Events(fd))'
  BY DEF NoStrandedSegment, Events
<1>1. TypeInv /\ TypeInv'
  BY NextPhases DEF PhaseInv
<1>2. /\ Len(received[fd]) \in Nat /\ Events(fd) \in Nat
      /\ received[fd] \in Seq(Segment)
  BY <1>1, EventsType
<1>3. EventsAreNat'
  BY <1>1, EventsNat, PTL
<1>4. Events(fd)' \in Nat
  BY <1>3 DEF EventsAreNat
<1>5. life = "alive"
  BY StepEvents
<1>6. Len(received[fd]) <= Events(fd)
  BY <1>5 DEF NoStrandedSegment, Events
<1>7. \/ Quiet(fd) \/ Queued(fd) \/ Announced(fd) \/ Fetched(fd)
      \/ Woken(fd) \/ Bypassed(fd) \/ Invented(fd)
  BY StepEvents
<1>8. CASE Woken(fd)
  <2>1. Len(received[fd]) = 0
    BY <1>8, EmptySeq DEF Woken
  <2>2. QED
    BY <1>4, <1>8, <2>1 DEF Woken, Adds
<1>9. CASE ~Woken(fd)
  BY <1>2, <1>4, <1>6, <1>7, <1>9
     DEF Quiet, Queued, Announced, Fetched, Bypassed, Invented, Adds
<1>10. QED
  BY <1>8, <1>9

(* NoStrandedSegment holds initially.                                      *)
LEMMA InitNoStranded == Init => NoStrandedSegment
<1> SUFFICES ASSUME Init, NEW fd \in Fd
             PROVE  Len(received[fd]) <= Events(fd)
  BY DEF NoStrandedSegment, Events
<1>1. TypeInv
  BY InitType
<1>2. received[fd] = << >>
  BY DEF Init
<1>3. Len(received[fd]) = 0 /\ Events(fd) \in Nat
  BY <1>1, <1>2, EmptySeq, EventsType
<1>4. QED
  BY <1>3

(* As long as the object is alive, every queued segment is announced: a    *)
(* caller that polls the eventfd does not wait beside data, whatever       *)
(* readers, signals and the worker do in between, for any number of        *)
(* readers and conditions.                                                 *)
THEOREM SegmentsAreAnnounced == Spec => []NoStrandedSegment
BY InitPhases, InitNoStranded, NextPhases, NextNoStranded, PTL DEF Spec

-----------------------------------------------------------------------------
(* When only readBlocking consumes events, the count is exact.             *)

OnlyBlocking == Uses \cap {"read", "signals"} = {}

(* Nobody is told of the end before the eventfd was notified of it.        *)
ToldAfterNotice ==
  OnlyBlocking => \A fd \in Fd : errSeen[fd] => fd < note

(* The count of events, stated for the object alive only, is carried along *)
(* with the order of the notice and the telling.                           *)
CountInv == PhaseInv /\ EventsMatchSegments /\ ToldAfterNotice

(* EndPosts is 0 or 1.                                                     *)
LEMMA EndPostsType == \A fd \in Fd : EndPosts(fd) \in {0, 1}
BY DEF EndPosts

(* The exact count holds initially.                                        *)
LEMMA InitCount == Init => EventsMatchSegments /\ ToldAfterNotice
<1> SUFFICES ASSUME Init PROVE EventsMatchSegments /\ ToldAfterNotice
  OBVIOUS
<1>1. ToldAfterNotice
  BY DEF Init, ToldAfterNotice
<1>2. ASSUME NEW fd \in Fd
      PROVE  Events(fd) = Len(received[fd]) + EndPosts(fd)
  <2>1. received[fd] = << >> /\ evfd[fd] = 0 /\ note = 0 /\ worker = "new"
    BY DEF Init
  <2>2. fd \in Nat \ {0}
    BY MaxHandlersAssumption DEF Fd
  <2>3. Holders(fd) = {}
    BY DEF Init, Holders
  <2>4. Cardinality(Holders(fd)) = 0
    BY <2>3, FS_EmptySet
  <2>5. PendingPost(fd) = 0 /\ EndPosts(fd) = 0
    BY <2>1, <2>2 DEF PendingPost, EndPosts
  <2>6. Len(received[fd]) = 0
    BY <2>1, EmptySeq
  <2>7. QED
    BY <2>1, <2>4, <2>5, <2>6 DEF Events
<1>3. QED
  BY <1>1, <1>2 DEF EventsMatchSegments, Events

(* Each kind of step keeps the exact count.                                *)
LEMMA NextCount ==
  ASSUME CountInv, [Next]_vars, OnlyBlocking, life' = "alive", NEW fd \in Fd
  PROVE  /\ Events(fd)' = Len(received'[fd]) + EndPosts(fd)'
         /\ errSeen'[fd] => fd < note'
<1>1. TypeInv /\ TypeInv' /\ WorkerPhases
  BY NextPhases DEF CountInv, PhaseInv
<1>2. /\ Len(received[fd]) \in Nat /\ Events(fd) \in Nat
      /\ EndPosts(fd) \in {0, 1}
  BY <1>1, EventsType, EndPostsType
<1>3. EventsAreNat'
  BY <1>1, EventsNat, PTL
<1>4. Events(fd)' \in Nat
  BY <1>3 DEF EventsAreNat
<1>5. life = "alive"
  BY StepEvents DEF CountInv
<1>6. Events(fd) = Len(received[fd]) + EndPosts(fd)
  BY <1>5 DEF CountInv, EventsMatchSegments, Events, OnlyBlocking
<1>7. errSeen[fd] => fd < note
  BY DEF CountInv, ToldAfterNotice
<1>8. note \in Nat /\ fd \in Nat \ {0} /\ errSeen[fd] \in BOOLEAN
  BY <1>1, MaxHandlersAssumption DEF TypeInv, WorkerOK, QueueOK, Fd
<1>9. Quiet(fd) \/ Queued(fd) \/ Announced(fd) \/ Fetched(fd) \/ Woken(fd)
  <2>1. ~Bypassed(fd) /\ ~Invented(fd)
    BY DEF OnlyBlocking, Bypassed, Invented
  <2>2. QED
    BY <2>1, StepEvents DEF CountInv
<1>10. CASE Quiet(fd)
  <2>1. EndPosts(fd)' = EndPosts(fd)
    BY <1>10 DEF Quiet, EndPosts
  <2>2. QED
    BY <1>2, <1>6, <1>7, <1>10, <2>1 DEF Quiet, Adds
<1>11. CASE Queued(fd)
  <2>1. EndPosts(fd)' = EndPosts(fd)
    BY <1>11 DEF Queued, EndPosts
  <2>2. QED
    BY <1>2, <1>6, <1>7, <1>11, <2>1 DEF Queued, Adds
<1>12. CASE Fetched(fd)
  <2>1. EndPosts(fd)' = EndPosts(fd)
    BY <1>12 DEF Fetched, EndPosts
  <2>2. QED
    BY <1>2, <1>6, <1>7, <1>12, <2>1 DEF Fetched, Adds
<1>13. CASE Announced(fd)
  <2>1. ~(fd < note) /\ fd < note'
    BY <1>8, <1>13 DEF Announced
  <2>2. ~errSeen[fd] /\ ~errSeen'[fd]
    BY <1>7, <1>13, <2>1 DEF Announced
  <2>3. EndPosts(fd) = 0 /\ EndPosts(fd)' = 1
    BY <2>1, <2>2 DEF EndPosts
  <2>4. QED
    BY <1>2, <1>6, <1>13, <2>1, <2>3 DEF Announced, Adds
<1>14. CASE Woken(fd)
  <2>1. Len(received[fd]) = 0
    BY <1>14, EmptySeq DEF Woken
  <2>2. EndPosts(fd) = 1
    BY <1>2, <1>4, <1>6, <1>14, <2>1 DEF Woken, Adds
  <2>3. fd < note
    BY <2>2 DEF EndPosts
  <2>4. last_ex # "SOCKET_OK"
    BY <1>1, <1>8, <2>3 DEF WorkerPhases
  <2>5. EndPosts(fd)' = 0
    BY <1>14, <2>4 DEF Woken, EndPosts
  <2>6. QED
    BY <1>2, <1>6, <1>14, <2>1, <2>2, <2>3, <2>5 DEF Woken, Adds
<1>15. QED
  BY <1>9, <1>10, <1>11, <1>12, <1>13, <1>14

(* Once the destructor runs, nobody reads; the notifications only advance. *)
LEMMA NoteAdvances ==
  ASSUME PhaseInv, [Next]_vars, life' # "alive", NEW fd \in Fd
  PROVE  errSeen'[fd] = errSeen[fd] /\ (fd < note => fd < note')
<1>1. /\ WorkerPhases /\ ObjectPhases /\ note \in Nat
  BY DEF PhaseInv, TypeInv, WorkerOK
<1>2. fd \in Nat \ {0}
  BY MaxHandlersAssumption DEF Fd
<1>3. CASE UNCHANGED <<errSeen, note>>
  BY <1>3
<1>4. ASSUME worker \notin {"notifying", "done"}, errSeen' = errSeen
      PROVE  errSeen'[fd] = errSeen[fd] /\ (fd < note => fd < note')
  BY <1>1, <1>2, <1>4 DEF WorkerPhases
<1>5. CASE Worker
  <2>1. CASE Notify
    BY <1>1, <1>2, <2>1 DEF Notify, readerVars
  <2>2. CASE NotifyDone
    BY <1>3, <2>2 DEF NotifyDone, readerVars
  <2>3. CASE ~(Notify \/ NotifyDone)
    BY <1>4, <1>5, <2>3
       DEF Worker, WorkerRead, WorkerReadThrows, ScanReturn, ScanNothing,
           ScanThrows, ScanDiscard, ScanMatch, Post, AtHandler, readerVars
  <2>4. QED
    BY <2>1, <2>2, <2>3
<1>6. CASE WorkerPollInterrupted
  BY <1>4, <1>6 DEF WorkerPollInterrupted, readerVars
<1>7. CASE PeerStep \/ Destructor \/ start \/ stopReads
           \/ StopReadsStream \/ Destroy
             \/ UNCHANGED vars
  BY <1>3, <1>7
     DEF PeerStep, Destructor, DestroyClose, DestroyStop, DestroyJoin, start,
         stopReads, StopReadsStream, Destroy, vars, workerVars, readerVars
<1>8. ASSUME NEW c \in Conditions, createEventfdOnCondition(c)
      PROVE  UNCHANGED <<errSeen, note>>
  BY <1>8 DEF createEventfdOnCondition, workerVars, readerVars
<1>9. ASSUME NEW r \in Readers,
             Call(r) \/ Reader(r) \/ PollInterrupted(r) \/ ConsumeInterrupted(r)
      PROVE  FALSE
  <2>1. life' = life
    BY <1>9
       DEF Call, Reader, CallRead, CallReadBlocking, PollReady, PollInvalid,
           PollTimeout, PollInterrupted, Consume, ConsumeInterrupted, Pop,
           ownerVars
  <2>2. life = "alive" \/ rpc[r] # "idle"
    BY <1>9
       DEF Call, Reader, CallRead, CallReadBlocking, PollReady, PollInvalid,
           PollTimeout, PollInterrupted, Consume, ConsumeInterrupted, Pop,
           Polling
  <2>3. QED
    BY <1>1, <2>1, <2>2 DEF ObjectPhases, ReadersIdle
<1>10. QED
  BY <1>3, <1>5, <1>6, <1>7, <1>8, <1>9 DEF Next, Owner, Signal

(* CountInv is inductive.                                                  *)
LEMMA CountStep == CountInv /\ [Next]_vars => CountInv'
<1> SUFFICES ASSUME CountInv, [Next]_vars PROVE CountInv'
  OBVIOUS
<1>1. PhaseInv'
  BY NextPhases DEF CountInv
<1>2. EventsMatchSegments'
  BY NextCount DEF EventsMatchSegments, OnlyBlocking, Events
<1>3. ToldAfterNotice'
  <2> SUFFICES ASSUME OnlyBlocking, NEW fd \in Fd, errSeen'[fd]
               PROVE  fd < note'
    BY DEF ToldAfterNotice, OnlyBlocking
  <2>1. CASE life' = "alive"
    BY <2>1, NextCount
  <2>2. CASE life' # "alive"
    BY <2>2, NoteAdvances DEF CountInv, ToldAfterNotice
  <2>3. QED
    BY <2>1, <2>2
<1>4. QED
  BY <1>1, <1>2, <1>3 DEF CountInv

(* CountInv holds in every reachable state.                                *)
LEMMA CountInvariant == Spec => []CountInv
<1>1. Init => CountInv
  BY InitPhases, InitCount DEF CountInv
<1>2. QED
  BY <1>1, CountStep, PTL DEF Spec

(* With readBlocking alone, events and segments correspond one to one, but *)
(* for the one event that announces the end of the stream and is there     *)
(* until a caller has been told.                                           *)
THEOREM EventsAreExact == Spec => []EventsMatchSegments
<1>1. CountInv => EventsMatchSegments
  BY DEF CountInv
<1>2. QED
  BY <1>1, CountInvariant, PTL

(* The reader that has consumed an event finds what it stands for.         *)
LEMMA HolderFindsSomething ==
  ASSUME CountInv, OnlyBlocking, NEW r \in Readers, rpc[r] = "pop"
  PROVE  /\ Registered(rfd[r])
         /\ received[rfd[r]] # << >> \/ last_ex # "SOCKET_OK"
<1>1. /\ TypeInv /\ WorkerPhases /\ ObjectPhases /\ PolledIsRegistered
  BY DEF CountInv, PhaseInv
<1>2. Registered(rfd[r])
  BY <1>1 DEF PolledIsRegistered
<1>3. rfd[r] \in Fd
  BY <1>1, <1>2, RegisteredFd
<1>4. life = "alive"
  BY <1>1 DEF ObjectPhases, ReadersIdle
<1>5. SUFFICES ASSUME received[rfd[r]] = << >>
               PROVE  last_ex # "SOCKET_OK"
  BY <1>2
<1>6. r \in Holders(rfd[r])
  BY DEF Holders
<1>7. /\ IsFiniteSet(Holders(rfd[r])) /\ Cardinality(Holders(rfd[r])) \in Nat
      /\ evfd[rfd[r]] \in Nat /\ PendingPost(rfd[r]) \in {0, 1}
  BY <1>1, <1>3, EventsType
<1>8. Cardinality(Holders(rfd[r])) # 0
  BY <1>6, <1>7, FS_EmptySet
<1>9. Len(received[rfd[r]]) = 0
  BY <1>5, EmptySeq
<1>10. evfd[rfd[r]] + Cardinality(Holders(rfd[r])) + PendingPost(rfd[r])
         = Len(received[rfd[r]]) + EndPosts(rfd[r])
  BY <1>3, <1>4 DEF CountInv, EventsMatchSegments, OnlyBlocking
<1>11. EndPosts(rfd[r]) \in {0, 1}
  BY <1>3, EndPostsType
<1>12. EndPosts(rfd[r]) = 1
  BY <1>7, <1>8, <1>9, <1>10, <1>11
<1>13. rfd[r] < note
  BY <1>12 DEF EndPosts
<1>14. note \in Nat /\ rfd[r] \in Nat \ {0}
  BY <1>1, <1>3, MaxHandlersAssumption DEF TypeInv, WorkerOK, Fd
<1>15. QED
  BY <1>1, <1>13, <1>14 DEF WorkerPhases

(* No step makes readBlocking throw std::out_of_range.                     *)
LEMMA NextNoSpurious ==
  CountInv /\ NoSpuriousWakeup /\ [Next]_vars => NoSpuriousWakeup'
<1> SUFFICES ASSUME CountInv, NoSpuriousWakeup, [Next]_vars, OnlyBlocking,
                    NEW q \in Readers
             PROVE  rresult'[q] # "std::out_of_range"
  BY DEF NoSpuriousWakeup, OnlyBlocking
<1>1. rresult[q] # "std::out_of_range"
  BY DEF NoSpuriousWakeup, OnlyBlocking
<1>2. ReaderOK /\ "read" \notin Uses /\ last_ex \in LastEx
  BY DEF CountInv, PhaseInv, TypeInv, WorkerOK, OnlyBlocking
<1>3. CASE UNCHANGED rresult
  BY <1>1, <1>3
<1>4. ASSUME NEW r \in Readers, NEW res, Return(r, res),
             res # "std::out_of_range"
      PROVE  rresult'[q] # "std::out_of_range"
  BY <1>1, <1>2, <1>4 DEF Return, ReaderOK
<1>5. ASSUME NEW r \in Readers,
             Call(r) \/ Reader(r) \/ PollInterrupted(r) \/ ConsumeInterrupted(r)
      PROVE  rresult'[q] # "std::out_of_range"
  <2>1. ASSUME NEW fd, NEW timed, CallReadBlocking(r, fd, timed)
        PROVE  rresult'[q] # "std::out_of_range"
    BY <1>1, <1>2, <2>1 DEF CallReadBlocking, ReaderOK
  <2>2. CASE PollReady(r) \/ Consume(r) \/ ConsumeInterrupted(r)
    BY <1>3, <2>2 DEF PollReady, Consume, ConsumeInterrupted
  <2>3. CASE PollInvalid(r) \/ PollTimeout(r) \/ PollInterrupted(r)
    BY <1>4, <2>3 DEF PollInvalid, PollTimeout, PollInterrupted
  <2>4. CASE Pop(r)
    <3>1. rpc[r] = "pop" /\ read(r, rfd[r])
      BY <2>4 DEF Pop
    <3>2. /\ Registered(rfd[r])
          /\ received[rfd[r]] # << >> \/ last_ex # "SOCKET_OK"
      BY <3>1, HolderFindsSomething
    <3>3. last_ex # "std::out_of_range"
      BY <1>2 DEF LastEx, ReadException
    <3>4. Return(r, "data") \/ Return(r, last_ex)
      BY <3>1, <3>2 DEF read
    <3>5. QED
      BY <1>4, <3>3, <3>4
  <2>5. QED
    BY <1>2, <1>5, <2>1, <2>2, <2>3, <2>4 DEF Call, Reader, CallRead
<1>6. CASE PeerStep \/ Owner \/ Destructor \/ Worker \/ WorkerPollInterrupted
             \/ UNCHANGED vars
  <2>1. CASE Worker \/ WorkerPollInterrupted
    BY <1>3, <2>1
       DEF Worker, WorkerPollInterrupted, WorkerRead, WorkerReadThrows, Notify,
           NotifyDone, ScanReturn, ScanNothing, ScanThrows, ScanDiscard,
           ScanMatch, Post, readerVars
  <2>2. CASE Owner \/ Destructor
    BY <1>3, <2>2
       DEF Owner, createEventfdOnCondition, start, stopReads,
           StopReadsStream, Destroy,
           Destructor, DestroyClose, DestroyStop, DestroyJoin, readerVars
  <2>3. CASE PeerStep \/ UNCHANGED vars
    BY <1>3, <2>3 DEF PeerStep, vars, readerVars
  <2>4. QED
    BY <1>6, <2>1, <2>2, <2>3
<1>7. QED
  BY <1>5, <1>6 DEF Next, Signal

(* With readBlocking alone, a woken reader never gets std::out_of_range    *)
(* ("no data present yet"), however many readers share the condition.      *)
THEOREM WakeupsAreReal == Spec => []NoSpuriousWakeup
<1>1. Init => NoSpuriousWakeup
  BY DEF Init, NoSpuriousWakeup
<1>2. Init => CountInv
  BY InitPhases, InitCount DEF CountInv
<1>3. QED
  BY <1>1, <1>2, CountStep, NextNoSpurious, PTL DEF Spec

-----------------------------------------------------------------------------
(* Why the worker gives up.                                                *)

(* A peer that is gone stays gone.                                         *)
LEMMA PeerStaysGone ==
  ASSUME [Next]_vars, peer # "open"
  PROVE  peer' # "open"
<1>1. CASE UNCHANGED socketVars
  BY <1>1 DEF socketVars
<1>2. CASE PeerStep
  BY <1>2 DEF PeerStep, Peer, PeerSend, PeerClose, PeerReset
<1>3. CASE Owner \/ Destructor
  BY <1>1, <1>3
     DEF Owner, Destructor, createEventfdOnCondition, start, stopReads,
         StopReadsStream, Destroy,
         DestroyClose, DestroyStop, DestroyJoin, StreamStopReads
<1>4. ASSUME NEW n, WorkerRead(n)
      PROVE  peer' # "open"
  BY <1>4 DEF WorkerRead, readAvailableDataIntoBuffer
<1>5. CASE Worker \/ WorkerPollInterrupted
  BY <1>1, <1>4, <1>5
     DEF Worker, WorkerReadThrows, Notify, NotifyDone, ScanReturn, ScanNothing,
         ScanThrows, ScanDiscard, ScanMatch, Post, PopFromBuffer,
         WorkerPollInterrupted
<1>6. ASSUME NEW r \in Readers,
             Call(r) \/ Reader(r) \/ PollInterrupted(r) \/ ConsumeInterrupted(r)
      PROVE  peer' # "open"
  BY <1>1, <1>6
     DEF Call, Reader, CallRead, CallReadBlocking, PollReady, PollInvalid,
         PollTimeout, PollInterrupted, Consume, ConsumeInterrupted, Pop
<1>7. CASE UNCHANGED vars
  BY <1>1, <1>7 DEF vars
<1>8. QED
  BY <1>2, <1>3, <1>5, <1>6, <1>7 DEF Next, Signal

(* Once the worker has caught an exception the buffer keeps its bytes, and *)
(* it catches SOCKET_CLOSED only from a ::read that returned 0.            *)
LEMMA ClosedStep ==
  ASSUME PhaseInv, ClosedIsEndOrFull, [Next]_vars
  PROVE  ClosedIsEndOrFull'
<1>1. PhaseInv' /\ (peer # "open" => peer' # "open")
  BY NextPhases, PeerStaysGone
<1>2. CASE UNCHANGED <<last_ex, buffer>>
  BY <1>1, <1>2 DEF ClosedIsEndOrFull
<1>3. CASE worker' \notin {"notifying", "done"}
  BY <1>1, <1>3 DEF PhaseInv, WorkerPhases, ClosedIsEndOrFull
<1>4. CASE worker = "reading" /\ buffer' = buffer /\ last_ex' # "SOCKET_CLOSED"
  BY <1>4 DEF ClosedIsEndOrFull
<1>5. ASSUME NEW ex \in ReadException, WorkerReadThrows(ex)
      PROVE  ClosedIsEndOrFull'
  <2>1. buffer' = buffer /\ peer' = peer
    BY <1>5 DEF WorkerReadThrows, bufferVars, socketVars
  <2>2. last_ex = "SOCKET_OK"
    BY <1>5 DEF WorkerReadThrows, PhaseInv, WorkerPhases
  <2>3. last_ex' \in {last_ex, ex}
    BY <1>5 DEF WorkerReadThrows, Catch
  <2>4. CASE ex = "SOCKET_CLOSED"
    <3>1. Readable /\ (Space = 0 \/ inflight = << >>)
      BY <1>5, <2>4 DEF WorkerReadThrows, ReadThrows
    <3>2. Len(buffer) \in Nat /\ BufferSize \in Nat
      BY LenProperties, BufferSizeAssumption
         DEF PhaseInv, TypeInv, BufferInv, BufferTypeOK
    <3>3. peer # "open" \/ Len(buffer) = BufferSize
      BY <3>1, <3>2 DEF Readable, Space
    <3>4. QED
      BY <2>1, <3>3 DEF ClosedIsEndOrFull
  <2>5. CASE ex # "SOCKET_CLOSED"
    BY <2>2, <2>3, <2>5 DEF ClosedIsEndOrFull
  <2>6. QED
    BY <2>4, <2>5
<1>6. CASE WorkerPollInterrupted
  BY <1>6 DEF WorkerPollInterrupted, Catch, ClosedIsEndOrFull
<1>7. CASE Post
  <2>1. CASE Closed(Top.i)
    BY <1>7, <2>1 DEF Post, Catch, ClosedIsEndOrFull
  <2>2. CASE ~Closed(Top.i)
    BY <1>3, <1>7, <2>2 DEF Post
  <2>3. QED
    BY <2>1, <2>2
<1>8. CASE \/ \E n \in 1..BufferSize : WorkerRead(n)
           \/ ScanReturn \/ ScanNothing \/ ScanDiscard \/ ScanMatch
  BY <1>3, <1>8
     DEF WorkerRead, ScanReturn, ScanNothing, ScanDiscard, ScanMatch, AtHandler
<1>9. CASE Notify \/ NotifyDone \/ ScanThrows
  BY <1>2, <1>9 DEF Notify, NotifyDone, ScanThrows, workerVars, bufferVars
<1>10. CASE Owner \/ Destructor \/ PeerStep
  BY <1>2, <1>10
     DEF Owner, Destructor, createEventfdOnCondition, start, stopReads,
         StopReadsStream, Destroy,
         DestroyClose, DestroyStop, DestroyJoin, PeerStep, workerVars, bufferVars
<1>11. ASSUME NEW r \in Readers,
              Call(r) \/ Reader(r) \/ PollInterrupted(r) \/ ConsumeInterrupted(r)
       PROVE  ClosedIsEndOrFull'
  BY <1>2, <1>11
     DEF Call, Reader, CallRead, CallReadBlocking, PollReady, PollInvalid,
         PollTimeout, PollInterrupted, Consume, ConsumeInterrupted, Pop,
         workerVars, bufferVars
<1>12. CASE UNCHANGED vars
  BY <1>2, <1>12 DEF vars, workerVars, bufferVars
<1>13. QED
  BY <1>5, <1>6, <1>7, <1>8, <1>9, <1>10, <1>11, <1>12 DEF Next, Worker, Signal

(* The worker ends with SOCKET_CLOSED only when the peer is gone or the    *)
(* buffer is full, and never with room in it beside an open connection.    *)
THEOREM ClosedHasACause == Spec => []ClosedIsEndOrFull
<1>1. Init => ClosedIsEndOrFull
  BY DEF Init, ClosedIsEndOrFull
<1>2. PhaseInv /\ ClosedIsEndOrFull /\ [Next]_vars => ClosedIsEndOrFull'
  BY ClosedStep
<1>3. QED
  BY <1>1, <1>2, PhaseInvariant, PTL DEF Spec

-----------------------------------------------------------------------------
(* With one condition the scan looks at the buffer.                        *)

(* The activation that runs was passed what the buffer holds, as long as   *)
(* its loop is at a handler.  With two conditions this is wrong: see the   *)
(* run cbs_two_segments.                                                   *)
ScansTheBuffer ==
  Len(handlers) <= 1 =>
    /\ worker = "scanning" /\ Top.i <= Len(handlers) => Top.data = buffer
    /\ worker = "posting" => Rest(Top.data, popped) = buffer

(* The conditions of the program keep to their data.                       *)
KeepsToData ==
  \A c \in Conditions, n \in 0..BufferSize :
    \A data \in [1..n -> Byte] : Abs(Condition(c, data)) <= n

(* Advance moves the innermost activation past the first handler.          *)
LEMMA AdvanceTop ==
  ASSUME NEW fs, GoodFrames(fs), fs # << >>
  PROVE  /\ Len(Advance(fs)) = Len(fs)
         /\ Advance(fs)[Len(fs)].i > 1
<1> DEFINE n == Len(fs)
           top == [fs[n] EXCEPT !.i = @ + 1]
<1>1. fs \in Seq(Frame) /\ n \in 1..Len(fs)
  BY EmptySeq, LenProperties DEF GoodFrames
<1>2. fs[n] \in Frame /\ fs[n].i >= 1
  BY <1>1, ElementOfSeq DEF GoodFrames
<1>3. top \in Frame /\ top.i > 1
  BY <1>2 DEF Frame
<1>4. Advance(fs) = [fs EXCEPT ![n] = top]
  BY <1>1, LenProperties DEF Advance
<1> HIDE DEF n, top
<1>5. /\ Len(Advance(fs)) = Len(fs)
      /\ \A j \in 1..Len(fs) : Advance(fs)[j] = IF j = n THEN top ELSE fs[j]
  BY <1>1, <1>3, <1>4, ExceptSeq
<1>6. QED
  BY <1>1, <1>3, <1>5 DEF n

(* A recursive call that is passed what the buffer holds afterwards leaves *)
(* an innermost activation that scans the buffer, or has no handler left.  *)
LEMMA RecurseScans ==
  ASSUME GoodFrames(frames), frames # << >>, NEW rest, Recurse(rest),
         rest = buffer', Len(handlers) <= 1, handlers' = handlers,
         Len(handlers) \in Nat
  PROVE  Top'.i <= Len(handlers') => Top'.data = buffer'
<1>1. CASE rest = << >>
  <2>1. frames' = Advance(frames)
    BY <1>1 DEF Recurse
  <2>2. Len(frames') = Len(frames) /\ frames'[Len(frames)].i > 1
    BY <2>1, AdvanceTop
  <2>3. Top'.i > 1
    BY <2>2 DEF Top
  <2>4. Top' \in Frame
    <3>1. GoodFrames(frames') /\ frames' # << >>
      BY <2>1, AdvanceGood
    <3>2. Len(frames') \in 1..Len(frames')
      BY <3>1, EmptySeq, LenProperties DEF GoodFrames
    <3>3. QED
      BY <3>1, <3>2, ElementOfSeq DEF GoodFrames, Top
  <2>5. Top'.i \in Nat
    BY <2>4 DEF Frame
  <2>6. QED
    BY <2>3, <2>5
<1>2. CASE rest # << >>
  <2> DEFINE f == [data |-> rest, i |-> 1]
  <2>1. frames' = Append(frames, f)
    BY <1>2 DEF Recurse
  <2>2. frames \in Seq(Frame)
    BY DEF GoodFrames
  <2>3. frames'[Len(frames')] = f
    <3> HIDE DEF f
    <3>1. frames \in Seq(Frame \cup {f}) /\ f \in Frame \cup {f}
      BY <2>2
    <3>2. Len(frames') = Len(frames) + 1 /\ frames'[Len(frames) + 1] = f
      BY <2>1, <3>1, AppendProperties
    <3>3. QED
      BY <3>2
  <2>4. QED
    BY <2>3 DEF Top
<1>3. QED
  BY <1>1, <1>2

(* Initially nothing is scanned.                                           *)
LEMMA InitScans == Init => ScansTheBuffer
BY DEF Init, ScansTheBuffer

(* ScansTheBuffer speaks of the stack, the buffer and the handlers only.   *)
LEMMA ScansFrame ==
  ScansTheBuffer /\ UNCHANGED <<handlers, worker, frames, popped, buffer>>
    => ScansTheBuffer'
BY DEF ScansTheBuffer, Top

(* The steps of processDataSendSignals keep ScansTheBuffer: a segment that *)
(* is cut from the buffer is cut from the data too, and an activation that *)
(* goes on after its recursive call has no second handler to ask.          *)
LEMMA ScanStepScans ==
  ASSUME TypeInv, ScansTheBuffer,
         ScanReturn \/ ScanNothing \/ ScanDiscard \/ ScanMatch \/ Post
  PROVE  ScansTheBuffer'
<1> SUFFICES ASSUME Len(handlers') <= 1
             PROVE  /\ worker' = "scanning" /\ Top'.i <= Len(handlers')
                         => Top'.data = buffer'
                    /\ worker' = "posting" => Rest(Top'.data, popped') = buffer'
  BY DEF ScansTheBuffer
<1>1. handlers' = handlers /\ Len(handlers) \in Nat /\ Len(handlers) <= 1
  <2>1. handlers' = handlers
    BY DEF ScanReturn, ScanNothing, ScanDiscard, ScanMatch, Post, ownerVars
  <2>2. QED
    BY <2>1, LenProperties DEF TypeInv, OwnerOK
<1>2. TypeInv'
  BY WorkerType DEF Worker
<1>3. /\ worker \in {"scanning", "posting"}
      /\ GoodFrames(frames) /\ frames # << >>
      /\ Top.data \in Seq(Byte) /\ Top.i \in Nat \ {0}
  <2>1. worker \in {"scanning", "posting"}
    BY DEF ScanReturn, ScanNothing, ScanDiscard, ScanMatch, Post, AtHandler
  <2>2. QED
    BY <2>1, TopType, FramesAreGood
<1>4. ASSUME NEW fs, GoodFrames(fs), fs # << >>, frames' = Advance(fs),
             worker' = "scanning"
      PROVE  ~(Top'.i <= Len(handlers'))
  <2>1. Top'.i > 1
    BY <1>4, AdvanceTop DEF Top
  <2>2. Top'.i \in Nat
    <3>1. GoodFrames(frames') /\ frames' # << >>
      BY <1>4, AdvanceGood
    <3>2. Len(frames') \in 1..Len(frames')
      BY <3>1, EmptySeq, LenProperties DEF GoodFrames
    <3>3. Top' \in Frame
      BY <3>1, <3>2, ElementOfSeq DEF GoodFrames, Top
    <3>4. QED
      BY <3>3 DEF Frame
  <2>3. QED
    BY <1>1, <2>1, <2>2
<1>5. CASE ScanReturn
  <2>1. CASE Len(frames) = 1
    BY <1>5, <2>1 DEF ScanReturn
  <2>2. CASE Len(frames) # 1
    <3> DEFINE n == Len(frames) - 1
               caller == SubSeq(frames, 1, n)
    <3>1. worker' = "scanning" /\ frames' = Advance(caller)
      BY <1>5, <2>2 DEF ScanReturn
    <3>2. n \in Nat \ {0} /\ n <= Len(frames)
      BY <1>3, <2>2, EmptySeq DEF GoodFrames
    <3> HIDE DEF n
    <3>3. /\ caller \in Seq(Frame) /\ Len(caller) = n
          /\ \A k \in 1..n : caller[k] = frames[k]
      <4>1. 1 \in Int /\ n \in Int /\ 1 <= n /\ n - 1 + 1 = n
        BY <3>2
      <4>2. \A k \in 1..n : 1 + k - 1 = k
        BY <3>2
      <4>3. \A k \in 1..n : frames[k] \in Frame
        <5>1. Len(frames) \in Nat
          BY <1>3, LenProperties DEF GoodFrames
        <5>2. QED
          BY <1>3, <3>2, <5>1, ElementOfSeq DEF GoodFrames
      <4>4. /\ caller \in Seq(Frame)
            /\ Len(caller) = n - 1 + 1
            /\ \A k \in 1..(n - 1 + 1) : caller[k] = frames[1 + k - 1]
        BY <4>1, <4>3, SubSeqProperties
      <4>5. QED
        BY <4>1, <4>2, <4>4
    <3> HIDE DEF caller
    <3>4. GoodFrames(caller) /\ caller # << >>
      <4>1. Len(frames) \in Nat
        BY <1>3, LenProperties DEF GoodFrames
      <4>2. QED
        BY <1>3, <3>2, <3>3, <4>1, EmptySeq DEF GoodFrames
    <3>5. QED
      BY <1>4, <3>1, <3>4
  <2>3. QED
    BY <2>1, <2>2
<1>6. CASE ScanNothing
  <2>1. worker' = "scanning" /\ frames' = Advance(frames)
    BY <1>6 DEF ScanNothing, AtHandler
  <2>2. QED
    BY <1>3, <1>4, <2>1
<1>7. CASE ScanDiscard
  <2>1. Top.data = buffer
    BY <1>1, <1>7 DEF ScanDiscard, AtHandler, ScansTheBuffer
  <2>2. buffer' = SubSeq(buffer, -Answer + 1, Len(buffer))
    BY <1>7 DEF ScanDiscard, PopFromBuffer
  <2>3. Rest(Top.data, -Answer) = buffer'
    BY <2>1, <2>2 DEF Rest
  <2>4. Recurse(Rest(Top.data, -Answer)) /\ worker' = "scanning"
    BY <1>7 DEF ScanDiscard, AtHandler
  <2>5. QED
    BY <1>1, <1>3, <2>3, <2>4, RecurseScans
<1>8. CASE ScanMatch
  <2>1. Top.data = buffer
    BY <1>1, <1>8 DEF ScanMatch, AtHandler, ScansTheBuffer
  <2>2. /\ buffer' = SubSeq(buffer, Answer + 1, Len(buffer))
        /\ popped' = Answer /\ worker' = "posting" /\ frames' = frames
    BY <1>8 DEF ScanMatch, PopFromBuffer
  <2>3. Top' = Top
    BY <2>2 DEF Top
  <2>4. QED
    BY <2>1, <2>2, <2>3 DEF Rest
<1>9. CASE Post
  <2>1. CASE Closed(Top.i)
    BY <1>9, <2>1 DEF Post, Catch
  <2>2. CASE ~Closed(Top.i)
    <3>1. /\ Recurse(Rest(Top.data, popped)) /\ worker' = "scanning"
          /\ buffer' = buffer
      BY <1>9, <2>2 DEF Post, bufferVars
    <3>2. Rest(Top.data, popped) = buffer
      BY <1>1, <1>9 DEF Post, ScansTheBuffer
    <3>3. QED
      BY <1>1, <1>3, <3>1, <3>2, RecurseScans
  <2>3. QED
    BY <2>1, <2>2
<1>10. QED
  BY <1>5, <1>6, <1>7, <1>8, <1>9

(* Every step keeps ScansTheBuffer.                                        *)
LEMMA NextScans ==
  ASSUME TypeInv, ScansTheBuffer, [Next]_vars
  PROVE  ScansTheBuffer'
<1>1. CASE worker' \notin {"scanning", "posting"}
  BY <1>1 DEF ScansTheBuffer
<1>2. ASSUME NEW n \in 1..BufferSize, WorkerRead(n)
      PROVE  ScansTheBuffer'
  <2>1. Top' = [data |-> buffer', i |-> 1] /\ worker' = "scanning"
    BY <1>2 DEF WorkerRead, Top
  <2>2. QED
    BY <2>1 DEF ScansTheBuffer
<1>3. CASE ScanReturn \/ ScanNothing \/ ScanDiscard \/ ScanMatch \/ Post
  BY <1>3, ScanStepScans
<1>4. CASE Worker
  BY <1>1, <1>2, <1>3, <1>4, ScansFrame
     DEF Worker, WorkerReadThrows, Catch, Notify, NotifyDone, ScanThrows,
         ownerVars, workerVars, bufferVars
<1>5. CASE WorkerPollInterrupted \/ start
  BY <1>1, <1>5 DEF WorkerPollInterrupted, Catch, start
<1>6. ASSUME NEW c \in Conditions, createEventfdOnCondition(c)
      PROVE  ScansTheBuffer'
  BY <1>1, <1>6 DEF createEventfdOnCondition, workerVars
<1>7. CASE stopReads \/ StopReadsStream \/ Destroy \/ Destructor \/ PeerStep
  BY <1>7, ScansFrame
     DEF stopReads,
         StopReadsStream, Destroy, Destructor, DestroyClose, DestroyStop, DestroyJoin,
         PeerStep, ownerVars, workerVars, bufferVars
<1>8. ASSUME NEW r \in Readers,
             Call(r) \/ Reader(r) \/ PollInterrupted(r) \/ ConsumeInterrupted(r)
      PROVE  ScansTheBuffer'
  BY <1>8, ScansFrame
     DEF Call, Reader, CallRead, CallReadBlocking, PollReady, PollInvalid,
         PollTimeout, PollInterrupted, Consume, ConsumeInterrupted, Pop,
         ownerVars, workerVars, bufferVars
<1>9. CASE UNCHANGED vars
  BY <1>9, ScansFrame DEF vars, ownerVars, workerVars, bufferVars
<1>10. QED
  BY <1>4, <1>5, <1>6, <1>7, <1>8, <1>9 DEF Next, Owner, Signal

(* ScansTheBuffer holds in every reachable state.                          *)
LEMMA ScansInvariant == Spec => []ScansTheBuffer
<1>1. TypeInv /\ ScansTheBuffer /\ [Next]_vars => ScansTheBuffer'
  BY NextScans
<1>2. QED
  BY <1>1, InitScans, TypeInvariant, PTL DEF Spec

-----------------------------------------------------------------------------
(* How the process may end.                                                *)

(* The notifications start at the first handler.                           *)
NoticeStarts == worker = "notifying" => note > 0

(* Every step keeps NoticeStarts.                                          *)
LEMMA NoticeStep ==
  ASSUME TypeInv, NoticeStarts, [Next]_vars
  PROVE  NoticeStarts'
<1>1. note \in Nat
  BY DEF TypeInv, WorkerOK
<1>2. CASE worker' # "notifying"
  BY <1>2 DEF NoticeStarts
<1>3. CASE UNCHANGED <<worker, note>>
  BY <1>3 DEF NoticeStarts
<1>4. ASSUME NEW ex, Catch(ex)
      PROVE  NoticeStarts'
  BY <1>4 DEF Catch, NoticeStarts
<1>5. CASE Notify
  BY <1>1, <1>5 DEF Notify, NoticeStarts
<1>6. CASE Post
  BY <1>2, <1>4, <1>6 DEF Post
<1>7. CASE Worker
  BY <1>2, <1>3, <1>4, <1>5, <1>6, <1>7
     DEF Worker, WorkerRead, WorkerReadThrows, NotifyDone, ScanReturn,
         ScanNothing, ScanThrows, ScanDiscard, ScanMatch, AtHandler, workerVars
<1>8. CASE Owner \/ Destructor \/ PeerStep \/ WorkerPollInterrupted
  BY <1>2, <1>3, <1>4, <1>8
     DEF Owner, Destructor, createEventfdOnCondition, start, stopReads,
         StopReadsStream, Destroy,
         DestroyClose, DestroyStop, DestroyJoin, PeerStep, WorkerPollInterrupted,
         workerVars
<1>9. ASSUME NEW r \in Readers,
             Call(r) \/ Reader(r) \/ PollInterrupted(r) \/ ConsumeInterrupted(r)
      PROVE  NoticeStarts'
  BY <1>3, <1>9
     DEF Call, Reader, CallRead, CallReadBlocking, PollReady, PollInvalid,
         PollTimeout, PollInterrupted, Consume, ConsumeInterrupted, Pop,
         workerVars
<1>10. CASE UNCHANGED vars
  BY <1>3, <1>10 DEF vars, workerVars
<1>11. QED
  BY <1>7, <1>8, <1>9, <1>10 DEF Next, Signal

(* A condition that keeps to its data makes no scan of the buffer throw.   *)
LEMMA ScanDoesNotThrow ==
  ASSUME TypeInv, ScansTheBuffer, KeepsToData, Len(handlers) <= 1
  PROVE  ~ScanThrows
<1> SUFFICES ASSUME ScanThrows PROVE FALSE
  OBVIOUS
<1>1. AtHandler
  BY DEF ScanThrows
<1>2. Top.data = buffer
  BY <1>1 DEF AtHandler, ScansTheBuffer
<1>3. /\ Answer \in Int /\ Top.i \in 1..Len(handlers)
      /\ Top.data \in Seq(Byte) /\ Len(Top.data) \in Nat
      /\ Len(Top.data) <= BufferSize
  BY <1>1, AnswerType, TopType DEF AtHandler
<1>4. handlers[Top.i] \in Conditions
  BY <1>3, ElementOfSeq DEF TypeInv, OwnerOK
<1>5. Len(Top.data) \in 0..BufferSize /\ Top.data \in [1..Len(Top.data) -> Byte]
  BY <1>3, LenProperties, BufferSizeAssumption
<1>6. Abs(Answer) <= Len(Top.data)
  BY <1>4, <1>5 DEF KeepsToData, Answer
<1>7. Abs(Answer) \in Int
  BY <1>3 DEF Abs
<1>8. QED
  BY <1>2, <1>3, <1>6, <1>7 DEF ScanThrows

(* Every step keeps AbortOnlyInDestructor.                                 *)
LEMMA AbortStep ==
  ASSUME PhaseInv, ScansTheBuffer, NoticeStarts, AbortOnlyInDestructor,
         KeepsToData, [Next]_vars
  PROVE  AbortOnlyInDestructor'
<1>1. TypeInv /\ ObjectPhases /\ Len(handlers) \in Nat
  BY LenProperties DEF PhaseInv, TypeInv, OwnerOK
<1>2. CASE UNCHANGED <<abort, handlers, life>>
  BY <1>2 DEF AbortOnlyInDestructor
<1>3. ASSUME NEW c \in Conditions, createEventfdOnCondition(c)
      PROVE  AbortOnlyInDestructor'
  <2>1. Len(handlers') = Len(handlers) + 1 /\ abort' = abort /\ life' = life
    BY <1>1, <1>3, AppendProperties
       DEF createEventfdOnCondition, TypeInv, OwnerOK
  <2>2. QED
    BY <1>1, <2>1 DEF AbortOnlyInDestructor
<1>4. CASE Destroy \/ Destructor
  BY <1>4
     DEF Destroy, Destructor, DestroyClose, DestroyStop, DestroyJoin,
         AbortOnlyInDestructor
<1>5. CASE Notify
  <2>1. handlers' = handlers /\ life' = life
    BY <1>5 DEF Notify, ownerVars
  <2>2. CASE Closed(note)
    <3>1. note \in Nat /\ note > 0 /\ closed \in Nat /\ note <= closed
      BY <1>1, <1>5, <2>2, MaxHandlersAssumption
         DEF Notify, NoticeStarts, TypeInv, WorkerOK, OwnerOK, Closed
    <3>2. closed # 0
      BY <3>1
    <3>3. life # "alive"
      BY <1>1, <3>2 DEF ObjectPhases
    <3>4. QED
      BY <2>1, <3>3 DEF AbortOnlyInDestructor
  <2>3. CASE ~Closed(note)
    BY <1>2, <1>5, <2>1, <2>3 DEF Notify
  <2>4. QED
    BY <2>2, <2>3
<1>6. CASE ScanThrows
  <2>1. ~(Len(handlers) <= 1)
    BY <1>1, <1>6, ScanDoesNotThrow
  <2>2. handlers' = handlers
    BY <1>6 DEF ScanThrows, ownerVars
  <2>3. QED
    BY <2>1, <2>2 DEF AbortOnlyInDestructor
<1>7. CASE Worker \/ WorkerPollInterrupted
  BY <1>2, <1>5, <1>6, <1>7
     DEF Worker, WorkerRead, WorkerReadThrows, NotifyDone, ScanReturn,
         ScanNothing, ScanDiscard, ScanMatch, Post, WorkerPollInterrupted,
         ownerVars
<1>8. CASE start \/ stopReads \/ StopReadsStream \/ PeerStep
  BY <1>2, <1>8 DEF start, stopReads, StopReadsStream, PeerStep, ownerVars
<1>9. ASSUME NEW r \in Readers,
             Call(r) \/ Reader(r) \/ PollInterrupted(r) \/ ConsumeInterrupted(r)
      PROVE  AbortOnlyInDestructor'
  BY <1>2, <1>9
     DEF Call, Reader, CallRead, CallReadBlocking, PollReady, PollInvalid,
         PollTimeout, PollInterrupted, Consume, ConsumeInterrupted, Pop,
         ownerVars
<1>10. CASE UNCHANGED vars
  BY <1>2, <1>10 DEF vars, ownerVars
<1>11. QED
  BY <1>3, <1>4, <1>7, <1>8, <1>9, <1>10 DEF Next, Owner, Signal

(* With one condition that keeps to its data nothing but the destructor    *)
(* takes the process down: no exception leaves processDataSendSignals, and *)
(* the worker posts on no closed eventfd while the object is alive.        *)
THEOREM AbortsAreDestructions ==
  ASSUME KeepsToData
  PROVE  Spec => []AbortOnlyInDestructor
<1>1. Init => NoticeStarts /\ AbortOnlyInDestructor
  BY DEF Init, NoticeStarts, AbortOnlyInDestructor
<1>2. PhaseInv => TypeInv
  BY DEF PhaseInv
<1>3. TypeInv /\ NoticeStarts /\ [Next]_vars => NoticeStarts'
  BY NoticeStep
<1>4. /\ PhaseInv /\ ScansTheBuffer /\ NoticeStarts /\ AbortOnlyInDestructor
      /\ [Next]_vars
      => AbortOnlyInDestructor'
  BY AbortStep
<1>5. QED
  BY <1>1, <1>2, <1>3, <1>4, PhaseInvariant, ScansInvariant, PTL DEF Spec

-----------------------------------------------------------------------------
(* Segments are whole.                                                     *)

(* A segment that a condition has cut off the data is one by itself.       *)
SegmentsStand ==
  \A c \in Conditions, n \in 0..BufferSize :
    \A data \in [1..n -> Byte] :
      LET k == Condition(c, data)
      IN k \in 1..n => Condition(c, SubSeq(data, 1, k)) = k

Whole(c, segments) ==
  \A k \in 1..Len(segments) : Condition(c, segments[k]) = Len(segments[k])

(* SegmentsComplete, said of the two lists separately.                     *)
ListsAreWhole ==
  \A fd \in 1..Len(handlers) :
    Whole(handlers[fd], delivered[fd]) /\ Whole(handlers[fd], received[fd])

(* Before the worker is started there is nothing in the lists.             *)
NothingYet ==
  worker = "new" =>
    \A fd \in Fd : received[fd] = << >> /\ delivered[fd] = << >>

WholeInv == NothingYet /\ ListsAreWhole

(* The empty list is whole, also for a condition just registered.          *)
LEMMA WholeEmpty == \A c : Whole(c, << >>)
BY DEF Whole

(* Appending a segment that the condition accepts.                         *)
LEMMA WholeAppend ==
  ASSUME NEW c, NEW s \in Seq(Segment), Whole(c, s), NEW e \in Segment,
         Condition(c, e) = Len(e)
  PROVE  Whole(c, Append(s, e))
<1>1. /\ Len(s) \in Nat /\ Len(Append(s, e)) = Len(s) + 1
      /\ \A k \in 1..Len(s) : Append(s, e)[k] = s[k]
      /\ Append(s, e)[Len(s) + 1] = e
  BY AppendProperties, LenProperties
<1>2. \A k \in 1..(Len(s) + 1) : k \in 1..Len(s) \/ k = Len(s) + 1
  BY <1>1
<1>3. QED
  BY <1>1, <1>2 DEF Whole

(* Taking a segment off a list.                                            *)
LEMMA WholeTail ==
  ASSUME NEW c, NEW s \in Seq(Segment), s # << >>, Whole(c, s)
  PROVE  Whole(c, Tail(s)) /\ Condition(c, Head(s)) = Len(Head(s))
<1>1. Len(s) \in Nat \ {0} /\ Head(s) = s[1]
  BY EmptySeq
<1>2. /\ Len(Tail(s)) = Len(s) - 1
      /\ \A k \in 1..Len(Tail(s)) : Tail(s)[k] = s[k + 1]
  BY HeadTailProperties
<1>3. \A k \in 1..(Len(s) - 1) : k + 1 \in 1..Len(s)
  BY <1>1
<1>4. QED
  BY <1>1, <1>2, <1>3 DEF Whole

(* What is whole separately is whole together.                             *)
LEMMA WholeConcat ==
  ASSUME NEW c, NEW s \in Seq(Segment), NEW t \in Seq(Segment),
         Whole(c, s), Whole(c, t)
  PROVE  \A k \in DOMAIN (s \o t) : Condition(c, (s \o t)[k]) = Len((s \o t)[k])
<1>1. Len(s) \in Nat /\ Len(t) \in Nat
  BY LenProperties
<1>2. /\ s \o t \in Seq(Segment) /\ Len(s \o t) = Len(s) + Len(t)
      /\ \A i \in 1..(Len(s) + Len(t)) :
           (s \o t)[i] = IF i <= Len(s) THEN s[i] ELSE t[i - Len(s)]
  BY ConcatProperties
<1>3. DOMAIN (s \o t) = 1..(Len(s) + Len(t))
  BY <1>2, LenProperties
<1>4. \A i \in 1..(Len(s) + Len(t)) :
        \/ i \in 1..Len(s) /\ i <= Len(s)
        \/ ~(i <= Len(s)) /\ i - Len(s) \in 1..Len(t)
  BY <1>1
<1>5. ASSUME NEW i \in 1..(Len(s) + Len(t))
      PROVE  \/ \E j \in 1..Len(s) : (s \o t)[i] = s[j]
             \/ \E j \in 1..Len(t) : (s \o t)[i] = t[j]
  <2>1. CASE i \in 1..Len(s) /\ i <= Len(s)
    <3>1. (s \o t)[i] = s[i]
      BY <1>2, <2>1, Zenon
    <3>2. QED
      BY <2>1, <3>1, Zenon
  <2>2. CASE ~(i <= Len(s)) /\ i - Len(s) \in 1..Len(t)
    <3>1. (s \o t)[i] = t[i - Len(s)]
      BY <1>2, <2>2, Zenon
    <3>2. QED
      BY <2>2, <3>1, Zenon
  <2>3. QED
    BY <1>4, <2>1, <2>2, Zenon
<1>6. QED
  BY <1>3, <1>5, Zenon DEF Whole

(* WholeInv is what SegmentsComplete says.                                 *)
LEMMA WholeIsComplete == TypeInv /\ ListsAreWhole => SegmentsComplete
<1> SUFFICES ASSUME TypeInv, ListsAreWhole, NEW fd \in DOMAIN handlers
             PROVE  LET segments == delivered[fd] \o received[fd]
                    IN \A k \in DOMAIN segments :
                         Condition(handlers[fd], segments[k]) = Len(segments[k])
  BY DEF SegmentsComplete
<1>1. fd \in 1..Len(handlers) /\ fd \in Fd
  BY RegisteredFd, LenProperties DEF Registered, TypeInv, OwnerOK
<1>2. delivered[fd] \in Seq(Segment) /\ received[fd] \in Seq(Segment)
  BY <1>1 DEF TypeInv, QueueOK
<1>3. Whole(handlers[fd], delivered[fd]) /\ Whole(handlers[fd], received[fd])
  BY <1>1 DEF ListsAreWhole
<1>4. QED
  BY <1>2, <1>3, WholeConcat

(* Initially there are no segments.                                        *)
LEMMA InitWhole == Init => WholeInv
BY EmptySeq DEF Init, WholeInv, NothingYet, ListsAreWhole, Whole

(* WholeInv speaks of the lists, the handlers and the start of the worker. *)
LEMMA WholeFrame ==
  ASSUME WholeInv, UNCHANGED <<handlers, received, delivered>>,
         worker' = "new" => worker = "new"
  PROVE  WholeInv'
BY DEF WholeInv, NothingYet, ListsAreWhole

(* A caller that picks up a segment keeps WholeInv.                        *)
LEMMA ReadWhole ==
  ASSUME TypeInv, WholeInv, NEW r \in Readers, NEW fd, read(r, fd),
         UNCHANGED <<handlers, worker>>
  PROVE  WholeInv'
<1>1. CASE UNCHANGED <<received, delivered>>
  BY <1>1, WholeFrame
<1>2. CASE /\ Registered(fd) /\ received[fd] # << >>
           /\ received' = [received EXCEPT ![fd] = Tail(@)]
           /\ delivered' = [delivered EXCEPT ![fd] =
                              Append(@, Head(received[fd]))]
  <2>1. fd \in Fd /\ fd \in 1..Len(handlers)
    BY <1>2, RegisteredFd, LenProperties DEF Registered, TypeInv, OwnerOK
  <2>2. /\ received \in [Fd -> Seq(Segment)] /\ delivered \in [Fd -> Seq(Segment)]
        /\ received[fd] \in Seq(Segment) /\ delivered[fd] \in Seq(Segment)
    BY <2>1 DEF TypeInv, QueueOK
  <2>3. worker # "new"
    BY <1>2, <2>1 DEF WholeInv, NothingYet
  <2>4. \A i \in 1..Len(handlers) : i \in Fd
    BY RegisteredFd, LenProperties DEF Registered, TypeInv, OwnerOK
  <2>5. /\ Whole(handlers[fd], delivered[fd])
        /\ Whole(handlers[fd], received[fd])
    BY <2>1 DEF WholeInv, ListsAreWhole
  <2>6. Head(received[fd]) \in Segment
    BY <1>2, <2>2, HeadTailProperties
  <2>7. /\ Whole(handlers[fd], Tail(received[fd]))
        /\ Condition(handlers[fd], Head(received[fd])) = Len(Head(received[fd]))
    BY <1>2, <2>2, <2>5, WholeTail
  <2>8. Whole(handlers[fd], Append(delivered[fd], Head(received[fd])))
    BY <2>2, <2>5, <2>6, <2>7, WholeAppend
  <2>9. /\ received'[fd] = Tail(received[fd])
        /\ delivered'[fd] = Append(delivered[fd], Head(received[fd]))
        /\ \A i \in Fd : i # fd =>
             received'[i] = received[i] /\ delivered'[i] = delivered[i]
    BY <1>2, <2>1, <2>2
  <2>10. ASSUME NEW i \in 1..Len(handlers)
         PROVE  /\ Whole(handlers[i], delivered'[i])
                /\ Whole(handlers[i], received'[i])
    <3>1. CASE i = fd
      BY <2>7, <2>8, <2>9, <3>1
    <3>2. CASE i # fd
      BY <2>4, <2>9, <3>2 DEF WholeInv, ListsAreWhole
    <3>3. QED
      BY <3>1, <3>2
  <2>11. ListsAreWhole'
    BY <2>10 DEF ListsAreWhole
  <2>12. QED
    BY <2>3, <2>11 DEF WholeInv, NothingYet
<1>3. QED
  BY <1>1, <1>2 DEF read

(* The worker queues what its condition has just cut off the buffer, which *)
(* is the data the condition was asked about.                              *)
LEMMA MatchWhole ==
  ASSUME TypeInv, ScansTheBuffer, WholeInv, SegmentsStand, MaxHandlers <= 1,
         ScanMatch
  PROVE  WholeInv'
<1>1. /\ handlers' = handlers /\ delivered' = delivered
      /\ worker = "scanning" /\ worker' = "posting"
      /\ AtHandler /\ Answer > 0 /\ Answer <= Len(Top.data)
      /\ received' = [received EXCEPT ![Top.i] =
                        Append(@, SubSeq(buffer, 1, Answer))]
  BY DEF ScanMatch, AtHandler, ownerVars, readerVars
<1>2. /\ Answer \in Int /\ Top.i \in 1..Len(handlers) /\ Top.i \in Fd
      /\ Top.data \in Seq(Byte) /\ Len(Top.data) \in Nat
      /\ Len(Top.data) <= BufferSize
  BY <1>1, AnswerType, TopType
<1>3. handlers \in Seq(Conditions) /\ Len(handlers) \in Nat /\ Len(handlers) <= 1
  BY LenProperties, MaxHandlersAssumption DEF TypeInv, OwnerOK
<1>4. Top.data = buffer
  BY <1>1, <1>3 DEF AtHandler, ScansTheBuffer
<1>5. PICK h \in Conditions : h = handlers[Top.i]
  BY <1>2, <1>3, ElementOfSeq
<1>6. PICK k \in 1..Len(buffer) : k = Answer
  BY <1>1, <1>2, <1>4
<1>7. /\ Len(buffer) \in 0..BufferSize /\ buffer \in [1..Len(buffer) -> Byte]
      /\ buffer \in Seq(Byte) /\ Len(buffer) \in Nat
  BY <1>2, <1>4, LenProperties, BufferSizeAssumption
<1>8. Condition(h, buffer) = k
  BY <1>4, <1>5, <1>6 DEF Answer
<1>9. PICK e : e = SubSeq(buffer, 1, k)
  OBVIOUS
<1>10. Condition(h, e) = k
  BY <1>6, <1>7, <1>8, <1>9 DEF SegmentsStand
<1>11. e \in Segment /\ Len(e) = k
  <2>1. k \in 0..Len(buffer)
    BY <1>6, <1>7
  <2>2. QED
    BY <1>7, <1>9, <2>1, Cut DEF Segment
<1>12. PICK j \in 1..Len(handlers) : j = Top.i
  BY <1>2
<1>13. received \in [Fd -> Seq(Segment)] /\ j \in Fd /\ received[j] \in Seq(Segment)
  BY <1>2, <1>12 DEF TypeInv, QueueOK
<1>14. received' = [received EXCEPT ![j] = Append(received[j], e)]
  BY <1>1, <1>6, <1>9, <1>12
<1>15. Whole(h, Append(received[j], e))
  <2>1. Whole(h, received[j])
    BY <1>5, <1>12 DEF WholeInv, ListsAreWhole
  <2>2. QED
    BY <1>10, <1>11, <1>13, <2>1, WholeAppend
<1>16. ASSUME NEW i \in 1..Len(handlers)
       PROVE  Whole(handlers[i], delivered[i]) /\ Whole(handlers[i], received'[i])
  <2>1. i = j
    BY <1>3, <1>12
  <2>2. received'[i] = Append(received[j], e)
    BY <1>13, <1>14, <2>1
  <2>3. Whole(handlers[i], delivered[i])
    BY DEF WholeInv, ListsAreWhole
  <2>4. QED
    BY <1>5, <1>12, <1>15, <2>1, <2>2, <2>3
<1>17. ListsAreWhole'
  BY <1>1, <1>16 DEF ListsAreWhole
<1>18. QED
  BY <1>1, <1>17 DEF WholeInv, NothingYet

(* Every step keeps WholeInv.                                              *)
LEMMA NextWhole ==
  ASSUME TypeInv, ScansTheBuffer, WholeInv, SegmentsStand, MaxHandlers <= 1,
         [Next]_vars
  PROVE  WholeInv'
<1>1. CASE UNCHANGED <<handlers, received, delivered>>
             /\ (worker' = "new" => worker = "new")
  BY <1>1, WholeFrame
<1>2. ASSUME NEW c \in Conditions, createEventfdOnCondition(c)
      PROVE  WholeInv'
  <2>1. /\ worker = "new" /\ worker' = "new" /\ handlers' = Append(handlers, c)
        /\ received' = received /\ delivered' = delivered
        /\ Len(handlers) < MaxHandlers
    BY <1>2 DEF createEventfdOnCondition, workerVars, readerVars
  <2>2. Len(handlers') = Len(handlers) + 1 /\ Len(handlers) \in Nat
    BY <2>1, AppendProperties, LenProperties DEF TypeInv, OwnerOK
  <2>3. \A fd \in 1..Len(handlers') : fd \in Fd
    BY <2>1, <2>2, MaxHandlersAssumption DEF Fd
  <2>4. \A fd \in Fd : received[fd] = << >> /\ delivered[fd] = << >>
    BY <2>1 DEF WholeInv, NothingYet
  <2>5. ListsAreWhole'
    BY <2>1, <2>3, <2>4, WholeEmpty DEF ListsAreWhole
  <2>6. QED
    BY <2>1, <2>4, <2>5 DEF WholeInv, NothingYet
<1>3. CASE start \/ stopReads
           \/ StopReadsStream \/ Destroy \/ Destructor \/ PeerStep
             \/ WorkerPollInterrupted
  BY <1>1, <1>3
     DEF start, stopReads,
         StopReadsStream, Destroy, Destructor, DestroyClose, DestroyStop,
         DestroyJoin, PeerStep, WorkerPollInterrupted, Catch, ownerVars,
         workerVars, readerVars
<1>4. CASE Worker
  <2>1. CASE ScanMatch
    BY <2>1, MatchWhole
  <2>2. CASE Post
    BY <1>1, <2>2 DEF Post, Catch, ownerVars, readerVars
  <2>3. QED
    BY <1>1, <1>4, <2>1, <2>2
       DEF Worker, WorkerRead, WorkerReadThrows, Catch, Notify, NotifyDone,
           ScanReturn, ScanNothing, ScanThrows, ScanDiscard, ownerVars,
           workerVars, readerVars
<1>5. ASSUME NEW r \in Readers,
             Call(r) \/ Reader(r) \/ PollInterrupted(r) \/ ConsumeInterrupted(r)
      PROVE  WholeInv'
  <2>1. UNCHANGED <<handlers, worker>>
    BY <1>5
       DEF Call, Reader, CallRead, CallReadBlocking, PollReady, PollInvalid,
           PollTimeout, PollInterrupted, Consume, ConsumeInterrupted, Pop,
           ownerVars, workerVars
  <2>2. ASSUME NEW fd, read(r, fd)
        PROVE  WholeInv'
    BY <2>1, <2>2, ReadWhole
  <2>3. QED
    BY <1>1, <1>5, <2>1, <2>2
       DEF Call, Reader, CallRead, CallReadBlocking, PollReady, PollInvalid,
           PollTimeout, PollInterrupted, Consume, ConsumeInterrupted, Pop
<1>6. CASE UNCHANGED vars
  BY <1>1, <1>6 DEF vars, ownerVars, workerVars, readerVars
<1>7. QED
  BY <1>2, <1>3, <1>4, <1>5, <1>6 DEF Next, Owner, Signal

(* With one condition, every segment queued or handed out is one that the  *)
(* condition accepts as a whole: the worker scans what it then pops,       *)
(* whatever the fragmentation of the stream.                               *)
THEOREM SegmentsAreWhole ==
  ASSUME MaxHandlers <= 1, SegmentsStand
  PROVE  Spec => []SegmentsComplete
<1>1. TypeInv /\ ScansTheBuffer /\ WholeInv /\ [Next]_vars => WholeInv'
  BY NextWhole
<1>2. TypeInv /\ WholeInv => SegmentsComplete
  BY WholeIsComplete DEF WholeInv
<1>3. QED
  BY <1>1, <1>2, InitWhole, TypeInvariant, ScansInvariant, PTL DEF Spec

-----------------------------------------------------------------------------
(* Delimiter conditions meet what the theorems ask of a condition.         *)

(* A delimiter condition answers 0 or the place of the first delimiter.    *)
LEMMA DelimiterAnswers ==
  ASSUME NEW d, NEW data \in Seq(Byte)
  PROVE  LET n == getDelimiterCondition(d, data) IN
         \/ n = 0 /\ \A k \in 1..Len(data) : data[k] # d
         \/ /\ n \in 1..Len(data) /\ data[n] = d
            /\ \A k \in 1..Len(data) : data[k] = d => n <= k
<1> DEFINE D == {k \in DOMAIN data : data[k] = d}
           R == {p \in Nat \X Nat : p[1] < p[2]}
<1>1. D \subseteq 1..Len(data) /\ Len(data) \in Nat /\ DOMAIN data = 1..Len(data)
  BY LenProperties
<1>2. D \subseteq Nat
  BY <1>1
<1>3. IsWellFoundedOn(R, Nat)
  BY NatLessThanWellFounded, Zenon DEF OpToRel
<1>4. \A x, y \in Nat : y < x => <<y, x>> \in R
  OBVIOUS
<1>5. CASE D = {}
  <2>1. getDelimiterCondition(d, data) = 0
    BY <1>5 DEF getDelimiterCondition
  <2>2. QED
    BY <1>1, <1>5, <2>1
<1>6. CASE D # {}
  <2> HIDE DEF D, R
  <2>1. PICK k \in D : \A j \in D : ~(<<j, k>> \in R)
    BY <1>2, <1>3, <1>6, WFMin
  <2>2. ASSUME NEW j \in D PROVE k <= j
    <3>1. j \in Nat /\ k \in Nat
      BY <1>2
    <3>2. ~(j < k)
      BY <1>4, <2>1, <3>1
    <3>3. QED
      BY <3>1, <3>2
  <2>3. PICK n : n = CHOOSE i \in D : \A j \in D : i <= j
    OBVIOUS
  <2>4. n \in D /\ \A j \in D : n <= j
    BY <2>2, <2>3
  <2>5. getDelimiterCondition(d, data) = n
    BY <1>6, <2>3 DEF getDelimiterCondition, D
  <2>6. QED
    BY <1>1, <2>4, <2>5 DEF D
<1>7. QED
  BY <1>5, <1>6

(* The program registers delimiter conditions only.                        *)
OnlyDelimiters ==
  \A c \in Conditions : \E d :
    \A n \in 0..BufferSize : \A data \in [1..n -> Byte] :
      Condition(c, data) = getDelimiterCondition(d, data)

(* A delimiter condition keeps to its data, and finds the delimiter of a   *)
(* segment at its end.                                                     *)
LEMMA DelimitersQualify == OnlyDelimiters => KeepsToData /\ SegmentsStand
<1> SUFFICES ASSUME OnlyDelimiters, NEW c \in Conditions,
                    NEW n \in 0..BufferSize, NEW data \in [1..n -> Byte]
             PROVE  /\ Abs(Condition(c, data)) <= n
                    /\ Condition(c, data) \in 1..n =>
                         Condition(c, SubSeq(data, 1, Condition(c, data)))
                           = Condition(c, data)
  BY DEF KeepsToData, SegmentsStand
<1>1. n \in Nat /\ n <= BufferSize /\ data \in Seq(Byte) /\ Len(data) = n
  BY BufferSizeAssumption
<1>2. PICK d : \A m \in 0..BufferSize : \A s \in [1..m -> Byte] :
                 Condition(c, s) = getDelimiterCondition(d, s)
  BY DEF OnlyDelimiters
<1>3. PICK k : k = Condition(c, data)
  OBVIOUS
<1>4. k = getDelimiterCondition(d, data)
  BY <1>2, <1>3
<1>5. \/ k = 0
      \/ k \in 1..n /\ data[k] = d /\ \A i \in 1..n : data[i] = d => k <= i
  BY <1>1, <1>4, DelimiterAnswers
<1>6. Abs(k) <= n
  BY <1>1, <1>5 DEF Abs
<1>7. ASSUME k \in 1..n
      PROVE  Condition(c, SubSeq(data, 1, k)) = k
  <2>1. PICK s : s = SubSeq(data, 1, k)
    OBVIOUS
  <2>2. s \in Seq(Byte) /\ Len(s) = k /\ \A i \in 1..k : s[i] = data[i]
    <3>1. /\ k \in Nat /\ 1 <= k /\ k - 1 + 1 = k
          /\ \A i \in 1..k : i \in 1..n /\ 1 + i - 1 = i
      BY <1>1, <1>7
    <3>2. \A i \in 1..k : data[i] \in Byte
      BY <3>1
    <3>3. /\ s \in Seq(Byte) /\ Len(s) = k - 1 + 1
          /\ \A i \in 1..(k - 1 + 1) : s[i] = data[1 + i - 1]
      BY <2>1, <3>1, <3>2, SubSeqProperties
    <3>4. QED
      BY <3>1, <3>3
  <2>3. k \in 0..BufferSize /\ s \in [1..k -> Byte]
    <3>1. k \in 0..BufferSize
      BY <1>1, <1>7, BufferSizeAssumption
    <3>2. s \in [1..Len(s) -> Byte]
      BY <2>2, LenProperties
    <3>3. QED
      BY <2>2, <3>1, <3>2
  <2>4. Condition(c, s) = getDelimiterCondition(d, s)
    BY <1>2, <2>3
  <2>5. k \in 1..n /\ data[k] = d /\ \A i \in 1..n : data[i] = d => k <= i
    BY <1>5, <1>7
  <2>6. s[k] = d /\ k \in 1..Len(s)
    BY <1>1, <2>2, <2>5
  <2>7. PICK m : m = getDelimiterCondition(d, s)
    OBVIOUS
  <2>8. m \in 1..k /\ s[m] = d
    BY <2>2, <2>6, <2>7, DelimiterAnswers
  <2>9. m \in 1..n /\ data[m] = d
    BY <1>1, <2>2, <2>5, <2>8
  <2>10. k <= m
    BY <2>5, <2>9
  <2>11. m = k
    BY <2>5, <2>8, <2>10
  <2>12. QED
    BY <2>1, <2>4, <2>7, <2>11
<1>8. QED
  BY <1>3, <1>6, <1>7

(* One delimiter condition: segments are whole and only the destructor     *)
(* ends the process, for every delimiter, buffer size and set of readers.  *)
THEOREM DelimitedSegments ==
  ASSUME MaxHandlers <= 1, OnlyDelimiters
  PROVE  Spec => [](SegmentsComplete /\ AbortOnlyInDestructor)
<1>1. KeepsToData /\ SegmentsStand
  BY DelimitersQualify
<1>2. Spec => []SegmentsComplete
  BY <1>1, SegmentsAreWhole
<1>3. Spec => []AbortOnlyInDestructor
  BY <1>1, AbortsAreDestructions
<1>4. QED
  BY <1>2, <1>3, PTL

-----------------------------------------------------------------------------
(* The refinement of SegmentedStream.                                      *)

(* The program's conditions are one delimiter condition, for data of any   *)
(* length.                                                                 *)
OneDelimiter ==
  /\ Conditions # {}
  /\ \E d : \A c \in Conditions : \A data \in Seq(Byte) :
       Condition(c, data) = getDelimiterCondition(d, data)

(* It is one of the delimiter conditions considered above.                 *)
LEMMA OneDelimiterIsOne == OneDelimiter => OnlyDelimiters
<1> SUFFICES ASSUME OneDelimiter PROVE OnlyDelimiters
  OBVIOUS
<1>1. PICK d : \A c \in Conditions : \A data \in Seq(Byte) :
                 Condition(c, data) = getDelimiterCondition(d, data)
  BY DEF OneDelimiter
<1>2. \A n \in 0..BufferSize : \A data \in [1..n -> Byte] : data \in Seq(Byte)
  BY BufferSizeAssumption
<1>3. QED
  BY <1>1, <1>2 DEF OnlyDelimiters

(* Bytes that come later do not move the first delimiter.                  *)
LEMMA DelimiterStays ==
  ASSUME NEW d, NEW s \in Seq(Byte), NEW t \in Seq(Byte),
         getDelimiterCondition(d, s) > 0
  PROVE  getDelimiterCondition(d, s \o t) = getDelimiterCondition(d, s)
<1>1. PICK n : n = getDelimiterCondition(d, s)
  OBVIOUS
<1>2. PICK m : m = getDelimiterCondition(d, s \o t)
  OBVIOUS
<1>3. /\ Len(s) \in Nat /\ Len(t) \in Nat /\ s \o t \in Seq(Byte)
      /\ Len(s \o t) = Len(s) + Len(t)
      /\ \A i \in 1..(Len(s) + Len(t)) :
           (s \o t)[i] = IF i <= Len(s) THEN s[i] ELSE t[i - Len(s)]
  BY LenProperties, ConcatProperties
<1>4. /\ n \in 1..Len(s) /\ s[n] = d
      /\ \A k \in 1..Len(s) : s[k] = d => n <= k
  BY <1>1, DelimiterAnswers
<1>5. n \in 1..Len(s \o t) /\ (s \o t)[n] = d
  BY <1>3, <1>4
<1>6. /\ m \in 1..Len(s \o t) /\ (s \o t)[m] = d
      /\ \A k \in 1..Len(s \o t) : (s \o t)[k] = d => m <= k
  BY <1>2, <1>3, <1>5, DelimiterAnswers
<1>7. m <= n
  BY <1>5, <1>6
<1>8. m \in 1..Len(s) /\ s[m] = d
  BY <1>3, <1>4, <1>6, <1>7
<1>9. n <= m
  BY <1>4, <1>8
<1>10. m = n
  BY <1>3, <1>4, <1>8, <1>7, <1>9
<1>11. QED
  BY <1>1, <1>2, <1>10

(* What has not been taken begins with the buffer.                         *)
LEMMA RestOfStream ==
  ASSUME BufferInv
  PROVE  \E t \in Seq(Byte) :
           /\ SubSeq(sent, Len(taken) + 1, Len(sent)) = buffer \o t
           /\ \A k \in 1..Len(buffer) :
                SubSeq(sent, Len(taken) + 1, Len(taken) + k)
                  = SubSeq(buffer, 1, k)
<1>1. /\ taken \in Seq(Byte) /\ buffer \in Seq(Byte) /\ inflight \in Seq(Byte)
      /\ lost \in Seq(Byte) /\ sent \in Seq(Byte)
  BY DEF BufferInv, BufferTypeOK, SocketTypeOK
<1>2. PICK t \in Seq(Byte) : t = inflight \o lost
  BY <1>1, ConcatType
<1>3. PICK u \in Seq(Byte) : u = buffer \o t
  BY <1>1, ConcatType
<1>4. sent = taken \o u
  <2>1. PICK b \in Seq(Byte) : b = taken \o buffer
    BY <1>1, ConcatType
  <2>2. ((taken \o buffer) \o inflight) \o lost = (taken \o buffer) \o t
    <3>1. \A v \in Seq(Byte), w \in Seq(Byte) : (b \o v) \o w = b \o (v \o w)
      BY Assoc, Zenon
    <3>2. (b \o inflight) \o lost = b \o (inflight \o lost)
      BY <1>1, <3>1, Zenon
    <3>3. QED
      BY <1>2, <2>1, <3>2, Zenon
  <2>3. (taken \o buffer) \o t = taken \o u
    <3>1. \A w \in Seq(Byte) : (taken \o buffer) \o w = taken \o (buffer \o w)
      BY <1>1, Assoc, Zenon
    <3>2. (taken \o buffer) \o t = taken \o (buffer \o t)
      BY <3>1, Zenon
    <3>3. QED
      BY <1>3, <3>2, Zenon
  <2>4. QED
    BY <2>2, <2>3, Zenon DEF BufferInv, BytesConserved
<1>5. /\ Len(taken) \in Nat /\ Len(u) \in Nat /\ Len(buffer) \in Nat
      /\ Len(t) \in Nat /\ Len(u) = Len(buffer) + Len(t)
      /\ Len(sent) = Len(taken) + Len(u)
      /\ \A i \in 1..(Len(taken) + Len(u)) :
           sent[i] = IF i <= Len(taken) THEN taken[i] ELSE u[i - Len(taken)]
      /\ \A i \in 1..(Len(buffer) + Len(t)) :
           u[i] = IF i <= Len(buffer) THEN buffer[i] ELSE t[i - Len(buffer)]
  BY <1>1, <1>3, <1>4, LenProperties, ConcatProperties
<1>6. PICK n \in Nat : n = Len(taken)
  BY <1>5
<1>7. ASSUME NEW k \in 0..Len(u)
      PROVE  /\ SubSeq(sent, n + 1, n + k) \in Seq(Byte)
             /\ Len(SubSeq(sent, n + 1, n + k)) = k
             /\ \A i \in 1..k : SubSeq(sent, n + 1, n + k)[i] = u[i]
  <2>1. n + 1 \in Int /\ n + k \in Int /\ (n + k) - (n + 1) + 1 = k
    BY <1>5
  <2>2. \A i \in (n + 1)..(n + k) : i \in 1..Len(sent)
    BY <1>5, <1>6
  <2>3. \A i \in (n + 1)..(n + k) : sent[i] \in Byte
    BY <1>1, <2>2, ElementOfSeq
  <2>4. /\ SubSeq(sent, n + 1, n + k) \in Seq(Byte)
        /\ Len(SubSeq(sent, n + 1, n + k))
             = IF n + 1 <= n + k THEN (n + k) - (n + 1) + 1 ELSE 0
        /\ \A i \in 1..((n + k) - (n + 1) + 1) :
             SubSeq(sent, n + 1, n + k)[i] = sent[(n + 1) + i - 1]
    BY <2>1, <2>3, SubSeqProperties
  <2>5. \A i \in 1..k :
          /\ (n + 1) + i - 1 \in 1..(n + Len(u)) /\ (n + 1) + i - 1 > n
          /\ (n + 1) + i - 1 - n = i
    BY <1>5
  <2>6. ASSUME NEW i \in 1..k
        PROVE  sent[(n + 1) + i - 1] = u[i]
    <3>1. PICK j \in 1..(n + Len(u)) : /\ j = (n + 1) + i - 1
                                       /\ ~(j <= n) /\ j - n = i
      BY <1>5, <2>5
    <3>2. sent[j] = u[j - n]
      BY <1>5, <1>6, <3>1, Zenon
    <3>3. QED
      BY <3>1, <3>2, Zenon
  <2>7. (IF n + 1 <= n + k THEN (n + k) - (n + 1) + 1 ELSE 0) = k
    BY <1>5
  <2>8. QED
    BY <2>1, <2>4, <2>6, <2>7
<1>8. SubSeq(sent, n + 1, n + Len(u)) = u
  <2>1. Len(u) \in 0..Len(u)
    BY <1>5
  <2>2. QED
    BY <1>7, <2>1, SeqEqual
<1>9. ASSUME NEW k \in 1..Len(buffer)
      PROVE  SubSeq(sent, n + 1, n + k) = SubSeq(buffer, 1, k)
  <2>1. k \in 0..Len(u) /\ k \in 0..Len(buffer)
    BY <1>5
  <2>2. /\ SubSeq(buffer, 1, k) \in Seq(Byte) /\ Len(SubSeq(buffer, 1, k)) = k
    BY <1>1, <2>1, Cut
  <2>3. \A i \in 1..k : SubSeq(buffer, 1, k)[i] = buffer[i]
    <3>1. /\ k \in Int /\ k - 1 + 1 = k
          /\ \A i \in 1..k : i \in 1..Len(buffer) /\ 1 + i - 1 = i
      BY <1>5
    <3>2. \A i \in 1..k : buffer[i] \in Byte
      BY <1>1, <3>1, ElementOfSeq
    <3>3. \A i \in 1..(k - 1 + 1) : SubSeq(buffer, 1, k)[i] = buffer[1 + i - 1]
      BY <3>1, <3>2, SubSeqProperties
    <3>4. QED
      BY <3>1, <3>3
  <2>4. \A i \in 1..k : u[i] = buffer[i]
    BY <1>5
  <2>5. /\ SubSeq(sent, n + 1, n + k) \in Seq(Byte)
        /\ Len(SubSeq(sent, n + 1, n + k)) = k
        /\ \A i \in 1..k : SubSeq(sent, n + 1, n + k)[i] = u[i]
    BY <1>7, <2>1
  <2>6. QED
    BY <2>2, <2>3, <2>4, <2>5, SeqEqual
<1>10. Len(sent) = n + Len(u)
  BY <1>5, <1>6
<1>11. QED
  BY <1>3, <1>6, <1>8, <1>9, <1>10

(* The worker that queues a segment cuts the next one off the stream.      *)
LEMMA MatchCuts ==
  ASSUME PhaseInv, ScansTheBuffer, MaxHandlers = 1, OneDelimiter, ScanMatch
  PROVE  Segments!CutSegment
<1>1. /\ TypeInv /\ BufferInv /\ buffer \in Seq(Byte) /\ taken \in Seq(Byte)
      /\ Len(buffer) \in Nat /\ Len(taken) \in Nat
  BY LenProperties DEF PhaseInv, TypeInv, BufferInv, BufferTypeOK
<1>2. /\ worker = "scanning" /\ AtHandler /\ Answer > 0
      /\ Answer <= Len(Top.data)
      /\ taken' = taken \o SubSeq(buffer, 1, Answer)
      /\ received' = [received EXCEPT ![Top.i] =
                        Append(@, SubSeq(buffer, 1, Answer))]
      /\ sent' = sent /\ delivered' = delivered /\ errSeen' = errSeen
  BY DEF ScanMatch, AtHandler, PopFromBuffer, socketVars, readerVars
<1>3. /\ Answer \in Int /\ Top.i \in 1..Len(handlers)
      /\ handlers \in Seq(Conditions) /\ Len(handlers) \in Nat
      /\ Len(handlers) <= 1
  BY <1>1, <1>2, AnswerType, LenProperties DEF TypeInv, OwnerOK
<1>4. Top.i = 1 /\ Top.data = buffer
  BY <1>2, <1>3 DEF AtHandler, ScansTheBuffer
<1>5. PICK n \in 1..Len(buffer) : n = Answer
  BY <1>1, <1>2, <1>3, <1>4
<1>6. PICK d : \A c \in Conditions : \A data \in Seq(Byte) :
                 Condition(c, data) = getDelimiterCondition(d, data)
  BY DEF OneDelimiter
<1>7. getDelimiterCondition(d, buffer) = n
  <2>1. handlers[Top.i] \in Conditions
    BY <1>3, ElementOfSeq
  <2>2. QED
    BY <1>1, <1>4, <1>5, <1>6, <2>1 DEF Answer
<1>8. PICK t \in Seq(Byte) :
        /\ SubSeq(sent, Len(taken) + 1, Len(sent)) = buffer \o t
        /\ \A k \in 1..Len(buffer) :
             SubSeq(sent, Len(taken) + 1, Len(taken) + k) = SubSeq(buffer, 1, k)
  BY <1>1, RestOfStream
<1>9. FirstSegment(SubSeq(sent, Len(taken) + 1, Len(sent))) = n
  <2>1. (CHOOSE c \in Conditions : TRUE) \in Conditions
    BY DEF OneDelimiter
  <2>2. buffer \o t \in Seq(Byte)
    BY <1>1, ConcatType
  <2>3. FirstSegment(buffer \o t) = getDelimiterCondition(d, buffer \o t)
    BY <1>6, <2>1, <2>2 DEF FirstSegment
  <2>4. getDelimiterCondition(d, buffer) > 0
    BY <1>7
  <2>5. getDelimiterCondition(d, buffer \o t) = n
    BY <1>1, <1>7, <2>4, DelimiterStays
  <2>6. QED
    BY <1>8, <2>3, <2>5
<1>10. Len(taken') = Len(taken) + n
  <2>1. n \in 0..Len(buffer)
    BY <1>1
  <2>2. SubSeq(buffer, 1, n) \in Seq(Byte) /\ Len(SubSeq(buffer, 1, n)) = n
    BY <1>1, <2>1, Cut
  <2>3. QED
    BY <1>1, <1>2, <1>5, <2>2, ConcatProperties
<1>11. received'[1] = Append(received[1],
                             SubSeq(sent, Len(taken) + 1, Len(taken) + n))
  <2>1. received \in [Fd -> Seq(Segment)] /\ 1 \in Fd
    BY <1>1 DEF TypeInv, QueueOK, Fd
  <2>2. received'[1] = Append(received[1], SubSeq(buffer, 1, n))
    BY <1>2, <1>4, <1>5, <2>1
  <2>3. QED
    BY <1>8, <2>2
<1>12. ~errSeen[1]
  <2>1. 1 \in Fd
    BY DEF Fd
  <2>2. QED
    BY <1>2, <2>1 DEF PhaseInv, WorkerPhases, ToldAtTheEnd
<1>13. n > 0
  BY <1>1
<1>14. UNCHANGED <<sent, delivered[1], errSeen[1]>>
  BY <1>2
<1>15. QED
  BY <1>9, <1>10, <1>11, <1>12, <1>13, <1>14 DEF Segments!CutSegment

(* A delimiter condition discards nothing.                                 *)
LEMMA NothingDiscarded ==
  ASSUME TypeInv, OneDelimiter
  PROVE  ~ScanDiscard
<1> SUFFICES ASSUME ScanDiscard PROVE FALSE
  OBVIOUS
<1>1. AtHandler /\ Answer < 0
  BY DEF ScanDiscard
<1>2. Top.i \in 1..Len(handlers) /\ Top.data \in Seq(Byte)
  BY <1>1, AnswerType, TopType DEF AtHandler
<1>3. handlers[Top.i] \in Conditions
  BY <1>2, ElementOfSeq DEF TypeInv, OwnerOK
<1>4. PICK d : \A c \in Conditions : \A data \in Seq(Byte) :
                 Condition(c, data) = getDelimiterCondition(d, data)
  BY DEF OneDelimiter
<1>5. Answer = getDelimiterCondition(d, Top.data)
  BY <1>2, <1>3, <1>4 DEF Answer
<1>6. Answer \in Nat
  <2>1. Answer = 0 \/ Answer \in 1..Len(Top.data)
    BY <1>2, <1>5, DelimiterAnswers
  <2>2. QED
    BY <2>1
<1>7. QED
  BY <1>1, <1>6

(* A call of read hands out the first segment, reports the end when there  *)
(* is none, or leaves the lists alone.                                     *)
LEMMA ReadDelivers ==
  ASSUME TypeInv, MaxHandlers = 1, NEW r \in Readers, NEW fd, read(r, fd),
         UNCHANGED <<sent, taken>>
  PROVE  Segments!Deliver \/ Segments!Fail \/ UNCHANGED Segments!vars
<1>1. CASE UNCHANGED <<received, delivered, errSeen>>
  BY <1>1 DEF Segments!vars
<1>2. ASSUME Registered(fd) PROVE fd = 1 /\ 1 \in Fd
  BY <1>2, RegisteredFd DEF Fd
<1>3. QueueOK
  BY DEF TypeInv
<1>4. CASE /\ Registered(fd) /\ received[fd] # << >>
           /\ received' = [received EXCEPT ![fd] = Tail(@)]
           /\ delivered' = [delivered EXCEPT ![fd] =
                              Append(@, Head(received[fd]))]
           /\ errSeen' = errSeen
  <2>1. /\ received[1] # << >> /\ received'[1] = Tail(received[1])
        /\ delivered'[1] = Append(delivered[1], Head(received[1]))
    BY <1>2, <1>3, <1>4 DEF QueueOK
  <2>2. QED
    BY <1>4, <2>1 DEF Segments!Deliver
<1>5. CASE /\ Registered(fd) /\ received[fd] = << >>
           /\ errSeen' = [errSeen EXCEPT ![fd] = TRUE]
           /\ UNCHANGED <<received, delivered>>
  <2>1. received[1] = << >> /\ errSeen'[1] = TRUE
    BY <1>2, <1>3, <1>5 DEF QueueOK
  <2>2. QED
    BY <1>5, <2>1 DEF Segments!Fail
<1>6. QED
  BY <1>1, <1>4, <1>5 DEF read

(* Every step is a step of the abstract stream or changes nothing there.   *)
LEMMA StepSegments ==
  ASSUME PhaseInv, ScansTheBuffer, MaxHandlers = 1, OneDelimiter, [Next]_vars
  PROVE  [Segments!Next]_(Segments!vars)
<1>1. TypeInv
  BY DEF PhaseInv
<1>2. CASE UNCHANGED <<sent, taken, received, delivered, errSeen>>
  BY <1>2 DEF Segments!vars
<1>3. CASE PeerStep
  <2>1. UNCHANGED <<taken, received, delivered, errSeen>>
    BY <1>3 DEF PeerStep, bufferVars, readerVars
  <2>2. ASSUME NEW b \in Byte, PeerSend(b)
        PROVE  Segments!Send
    BY <2>1, <2>2 DEF PeerSend, Segments!Send
  <2>3. CASE PeerClose \/ PeerReset
    BY <1>2, <2>1, <2>3 DEF PeerClose, PeerReset
  <2>4. QED
    BY <1>3, <2>2, <2>3 DEF PeerStep, Peer, Segments!Next
<1>4. CASE Owner \/ Destructor \/ WorkerPollInterrupted
  BY <1>2, <1>4
     DEF Owner, Destructor, createEventfdOnCondition, start, stopReads,
         StopReadsStream, Destroy,
         DestroyClose, DestroyStop, DestroyJoin, StreamStopReads,
         WorkerPollInterrupted, socketVars, bufferVars, readerVars
<1>5. CASE Worker
  <2>1. CASE ScanMatch
    BY <2>1, MatchCuts DEF Segments!Next
  <2>2. ~ScanDiscard
    BY <1>1, NothingDiscarded
  <2>3. ASSUME NEW n, WorkerRead(n)
        PROVE  UNCHANGED <<sent, taken, received, delivered, errSeen>>
    BY <2>3 DEF WorkerRead, readAvailableDataIntoBuffer, readerVars
  <2>4. QED
    BY <1>2, <1>5, <2>1, <2>2, <2>3
       DEF Worker, WorkerReadThrows, Notify, NotifyDone, ScanReturn,
           ScanNothing, ScanThrows, Post, socketVars, bufferVars, readerVars
<1>6. ASSUME NEW r \in Readers,
             Call(r) \/ Reader(r) \/ PollInterrupted(r) \/ ConsumeInterrupted(r)
      PROVE  [Segments!Next]_(Segments!vars)
  <2>1. UNCHANGED <<sent, taken>>
    BY <1>6
       DEF Call, Reader, CallRead, CallReadBlocking, PollReady, PollInvalid,
           PollTimeout, PollInterrupted, Consume, ConsumeInterrupted, Pop,
           socketVars, bufferVars
  <2>2. ASSUME NEW fd, read(r, fd)
        PROVE  [Segments!Next]_(Segments!vars)
    BY <1>1, <2>1, <2>2, ReadDelivers DEF Segments!Next
  <2>3. QED
    BY <1>2, <1>6, <2>1, <2>2
       DEF Call, Reader, CallRead, CallReadBlocking, PollReady, PollInvalid,
           PollTimeout, PollInterrupted, Consume, ConsumeInterrupted, Pop
<1>7. CASE UNCHANGED vars
  BY <1>2, <1>7 DEF vars, socketVars, bufferVars, readerVars
<1>8. QED
  BY <1>3, <1>4, <1>5, <1>6, <1>7 DEF Next, Signal

(* With one delimiter condition ConditionalBufferedStream implements the   *)
(* segmented stream: for every delimiter, buffer size, fragmentation and   *)
(* set of readers the lines come out whole, once, in order, and the error  *)
(* after the last of them.                                                 *)
THEOREM SegmentedStreamIsImplemented ==
  ASSUME MaxHandlers = 1, OneDelimiter
  PROVE  Spec => ImplementsSegmentedStream
<1>1. Init => Segments!Init
  <2>1. 1 \in Fd
    BY DEF Fd
  <2>2. QED
    BY <2>1, EmptySeq DEF Init, SocketInit, BufferInit, Segments!Init
<1>2. PhaseInv /\ ScansTheBuffer /\ [Next]_vars => [Segments!Next]_(Segments!vars)
  BY StepSegments
<1>3. QED
  BY <1>1, <1>2, PhaseInvariant, ScansInvariant, PTL
     DEF Spec, ImplementsSegmentedStream, Segments!Spec
=============================================================================
