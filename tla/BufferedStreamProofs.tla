------------------------ MODULE BufferedStreamProofs ------------------------
(***************************************************************************)
(* Proofs about BufferedStream used by several threads, for every set of   *)
(* callers and operations, every buffer size and all lengths asked for.    *)
(***************************************************************************)
EXTENDS BufferedStream, StreamBufferProofs, WellFoundedInduction

Places == {"idle", "check", "lock", "fill", "pop", "scan"}

(* The types of the callers' state.                                        *)
CallersOK ==
  /\ lock \in {{}} \cup {{c} : c \in Callers}
  /\ pc \in [Callers -> Places]
  /\ args \in [Callers -> Args]
  /\ at \in [Callers -> 0..BufferSize]
  /\ result \in [Callers -> Outcome]
  /\ overtaken \in [Callers -> SUBSET Operations]
  /\ spoilt \in BOOLEAN /\ overlap \in BOOLEAN

(* The callers that own buffer_lock, by where they are.                    *)
HoldsLock(c) ==
  pc[c] = "fill" \/ (pc[c] = "pop" /\ args[c].op = "readInto")

(* Where a call of each kind can be; read(n) asks for exactly n bytes.     *)
PlaceOfCall(c) ==
  /\ pc[c] = "check" => args[c].op = "read"
  /\ pc[c] \in {"lock", "fill", "pop"} => args[c].op \in {"read", "readInto"}
  /\ pc[c] = "scan" => args[c].op = "readUntilDelimiter"
  /\ args[c].op = "read" => args[c].max = args[c].min

(* Without overlap nobody else is in a call while readUntilDelimiter runs, *)
(* and the offset a caller has loaded is that of the buffer.               *)
UsesOffset(c) == pc[c] = "scan" \/ HoldsLock(c)

ScansAlone ==
  ~overlap =>
    \A c, d \in Callers : pc[c] = "scan" /\ d # c => pc[d] = "idle"

OffsetIsCurrent ==
  ~overlap => \A c \in Callers : UsesOffset(c) => at[c] = Len(buffer)

(* What a caller about to pop has waited for is still there, or somebody   *)
(* has overtaken it.                                                       *)
DataWaitsFor(c) ==
  IF args[c].op = "read"
    THEN Len(buffer) < args[c].min => overtaken[c] # {}
    ELSE /\ at[c] >= args[c].min
         /\ Len(buffer) < at[c] => "readUntilDelimiter" \in overtaken[c]

DataWaits == \A c \in Callers : pc[c] = "pop" => DataWaitsFor(c)

IInv ==
  /\ BufferInv /\ CallersOK /\ given \in Seq(Byte)
  /\ LockDiscipline /\ SpoiltByOverlap
  /\ ScansAlone /\ OffsetIsCurrent /\ DataWaits
  /\ \A c \in Callers : PlaceOfCall(c)

-----------------------------------------------------------------------------
(* A call of c returns.                                                    *)
LEMMA ReturnGives ==
  ASSUME CallersOK, NEW c \in Callers, NEW type \in Outcome, Return(c, type)
  PROVE  /\ pc' \in [Callers -> Places] /\ args' \in [Callers -> Args]
         /\ at' \in [Callers -> 0..BufferSize]
         /\ result' \in [Callers -> Outcome]
         /\ pc'[c] = "idle" /\ result'[c] = type
         /\ ~HoldsLock(c)' /\ PlaceOfCall(c)'
         /\ \A d \in Callers \ {c} :
              pc'[d] = pc[d] /\ args'[d] = args[d] /\ at'[d] = at[d]
<1>1. NoArgs \in Args /\ NoArgs.max = NoArgs.min
  BY DEF NoArgs, Args, Operations
<1>2. /\ pc' = [pc EXCEPT ![c] = "idle"]
      /\ args' = [args EXCEPT ![c] = NoArgs]
      /\ at' = [at EXCEPT ![c] = 0]
      /\ result' = [result EXCEPT ![c] = type]
  BY DEF Return, Goto, Load
<1>3. 0 \in 0..BufferSize /\ "idle" \in Places
  BY BufferSizeAssumption DEF Places
<1>4. /\ pc' \in [Callers -> Places] /\ args' \in [Callers -> Args]
      /\ at' \in [Callers -> 0..BufferSize]
      /\ result' \in [Callers -> Outcome]
      /\ pc'[c] = "idle" /\ result'[c] = type /\ args'[c] = NoArgs
      /\ \A d \in Callers \ {c} :
           pc'[d] = pc[d] /\ args'[d] = args[d] /\ at'[d] = at[d]
  BY <1>1, <1>2, <1>3 DEF CallersOK
<1>5. ~HoldsLock(c)' /\ PlaceOfCall(c)'
  BY <1>1, <1>4 DEF HoldsLock, PlaceOfCall
<1>6. QED
  BY <1>4, <1>5

(* A call of c begins.                                                     *)
LEMMA BeginGives ==
  ASSUME CallersOK, NEW c \in Callers, NEW place \in {"check", "lock", "scan"},
         NEW op \in Operations, NEW max \in Nat, NEW min \in Nat,
         NEW timed \in BOOLEAN, Begin(c, place, op, max, min, timed),
         Len(buffer) \in 0..BufferSize
  PROVE  /\ pc' \in [Callers -> Places] /\ args' \in [Callers -> Args]
         /\ at' \in [Callers -> 0..BufferSize]
         /\ result' \in [Callers -> Outcome]
         /\ pc'[c] = place /\ args'[c].op = op
         /\ args'[c].max = max /\ args'[c].min = min
         /\ place = "scan" => at'[c] = Len(buffer)
         /\ \A d \in Callers \ {c} :
              pc'[d] = pc[d] /\ args'[d] = args[d] /\ at'[d] = at[d]
<1> DEFINE a == [op |-> op, max |-> max, min |-> min, timed |-> timed]
           o == IF place = "scan" THEN Len(buffer) ELSE 0
<1>1. a \in Args /\ a.op = op /\ a.max = max /\ a.min = min
  BY DEF Args
<1>2. /\ pc' = [pc EXCEPT ![c] = place] /\ args' = [args EXCEPT ![c] = a]
      /\ at' = [at EXCEPT ![c] = o]
      /\ result' = [result EXCEPT ![c] = "none"]
  BY DEF Begin, Goto, Load
<1>3. /\ "none" \in Outcome /\ place \in Places
      /\ o \in 0..BufferSize /\ (place = "scan" => o = Len(buffer))
  BY BufferSizeAssumption DEF Outcome, Places
<1> HIDE DEF a, o
<1>4. /\ pc' \in [Callers -> Places] /\ args' \in [Callers -> Args]
      /\ at' \in [Callers -> 0..BufferSize]
      /\ result' \in [Callers -> Outcome]
      /\ pc'[c] = place /\ args'[c] = a /\ at'[c] = o
      /\ \A d \in Callers \ {c} :
           pc'[d] = pc[d] /\ args'[d] = args[d] /\ at'[d] = at[d]
  BY <1>1, <1>2, <1>3 DEF CallersOK
<1>5. QED
  BY <1>1, <1>3, <1>4

(* A call of c goes on to another place with the arguments it has.         *)
LEMMA GotoGives ==
  ASSUME CallersOK, NEW c \in Callers, NEW place \in Places, Goto(c, place)
  PROVE  /\ pc' \in [Callers -> Places]
         /\ pc'[c] = place
         /\ \A d \in Callers \ {c} : pc'[d] = pc[d]
BY DEF CallersOK, Goto

(* The same of the offset.                                                 *)
LEMMA LoadGives ==
  ASSUME CallersOK, NEW c \in Callers, NEW offset \in 0..BufferSize,
         Load(c, offset)
  PROVE  /\ at' \in [Callers -> 0..BufferSize]
         /\ at'[c] = offset
         /\ \A d \in Callers \ {c} : at'[d] = at[d]
BY DEF CallersOK, Load

(* The length of the buffer, now and after a step.                         *)
LEMMA BufferLength ==
  ASSUME BufferInv
  PROVE  Len(buffer) \in Nat /\ Len(buffer) \in 0..BufferSize
BY LenProperties, BufferSizeAssumption DEF BufferInv, BufferTypeOK

LEMMA NextBufferLength ==
  ASSUME BufferInv'
  PROVE  Len(buffer') \in Nat /\ Len(buffer') \in 0..BufferSize
<1>1. buffer' \in Seq(Byte) /\ Len(buffer') <= BufferSize
  BY DEF BufferInv, BufferTypeOK
<1>2. QED
  BY <1>1, LenProperties, BufferSizeAssumption

(* Facts about a caller in the middle of a call.                           *)
LEMMA InCall ==
  ASSUME IInv, NEW c \in Callers
  PROVE  /\ CallersOK /\ BufferInv /\ PlaceOfCall(c)
         /\ Len(buffer) \in Nat /\ at[c] \in Nat /\ at[c] \in 0..BufferSize
         /\ args[c].min \in Nat /\ args[c].max \in Nat
         /\ (lock = {c}) <=> HoldsLock(c)
<1>1. /\ args[c].min \in Nat /\ args[c].max \in Nat /\ at[c] \in 0..BufferSize
  BY DEF IInv, CallersOK, Args
<1>2. at[c] \in Nat
  BY <1>1, BufferSizeAssumption
<1>3. QED
  BY <1>1, <1>2, BufferLength DEF IInv, LockDiscipline, HoldsLock

(* Without overlap a caller that nobody keeps from the lock is the only    *)
(* one that uses the offset.                                               *)
LEMMA OthersKeepOff ==
  ASSUME IInv, ~overlap, NEW c \in Callers, pc[c] # "idle",
         lock \subseteq {c}
  PROVE  \A d \in Callers \ {c} : ~UsesOffset(d)
<1> SUFFICES ASSUME NEW d \in Callers \ {c} PROVE ~UsesOffset(d)
  OBVIOUS
<1>1. pc[d] # "scan"
  BY DEF IInv, ScansAlone
<1>2. ~HoldsLock(d)
  BY InCall
<1>3. QED
  BY <1>1, <1>2 DEF UsesOffset

(* What a step of c has to grant the other callers: those that use the     *)
(* offset find it unchanged, unless calls overlap, and those about to pop  *)
(* are marked when the buffer shrinks.                                     *)
SparesOthers(c) ==
  \A d \in Callers \ {c} :
    /\ pc'[d] = pc[d] /\ args'[d] = args[d] /\ at'[d] = at[d]
    /\ ~overlap /\ UsesOffset(d) => Len(buffer') = Len(buffer)
    /\ pc[d] = "pop" =>
         /\ overtaken[d] \subseteq overtaken'[d]
         /\ Len(buffer') < Len(buffer) =>
              IF args[d].op = "read"
                THEN overtaken'[d] # {}
                ELSE "readUntilDelimiter" \in overtaken'[d]

(* How a step of c may change the lock.                                    *)
LockStep(c) ==
  \/ lock' = lock /\ (HoldsLock(c)' <=> HoldsLock(c))
  \/ lock \subseteq {c} /\ lock' = {c} /\ HoldsLock(c)'
  \/ lock \subseteq {c} /\ lock' = {} /\ ~HoldsLock(c)'

(* A step of c keeps the invariant if it goes by these rules and c itself  *)
(* is where it may be.                                                     *)
LEMMA LocalStep ==
  ASSUME IInv, NEW c \in Callers, BufferInv', CallersOK', given' \in Seq(Byte),
         SparesOthers(c), LockStep(c), PlaceOfCall(c)',
         overlap => overlap', SpoiltByOverlap',
         ~overlap' /\ pc'[c] = "scan" =>
           \A d \in Callers \ {c} : pc[d] = "idle",
         ~overlap' /\ pc'[c] # "idle" =>
           \A d \in Callers \ {c} : pc[d] # "scan",
         ~overlap' /\ UsesOffset(c)' => at'[c] = Len(buffer'),
         pc'[c] = "pop" => DataWaitsFor(c)'
  PROVE  IInv'
<1>1. LockDiscipline'
  <2>1. \A d \in Callers : (lock = {d}) <=> HoldsLock(d)
    BY DEF IInv, LockDiscipline, HoldsLock
  <2>2. \A d \in Callers \ {c} : HoldsLock(d)' <=> HoldsLock(d)
    BY DEF HoldsLock, SparesOthers
  <2>3. ASSUME NEW d \in Callers
        PROVE  (lock' = {d}) <=> HoldsLock(d)'
    <3>1. CASE d = c
      BY <2>1, <3>1 DEF LockStep
    <3>2. CASE d # c
      BY <2>1, <2>2, <3>2 DEF LockStep
    <3>3. QED
      BY <3>1, <3>2
  <2>4. QED
    BY <2>3 DEF LockDiscipline, HoldsLock
<1>2. \A d \in Callers : PlaceOfCall(d)'
  BY DEF IInv, PlaceOfCall, SparesOthers
<1>3. ScansAlone'
  BY DEF IInv, ScansAlone, SparesOthers
<1>4. OffsetIsCurrent'
  <2>1. ASSUME ~overlap', NEW d \in Callers, UsesOffset(d)', d # c
        PROVE  at'[d] = Len(buffer')
    <3>1. UsesOffset(d) /\ at'[d] = at[d] /\ ~overlap
      BY <2>1 DEF UsesOffset, HoldsLock, SparesOthers
    <3>2. at[d] = Len(buffer) /\ Len(buffer') = Len(buffer)
      BY <2>1, <3>1 DEF IInv, OffsetIsCurrent, SparesOthers
    <3>3. QED
      BY <3>1, <3>2
  <2>2. QED
    BY <2>1 DEF OffsetIsCurrent
<1>5. DataWaits'
  <2>1. ASSUME NEW d \in Callers, pc'[d] = "pop", d # c
        PROVE  DataWaitsFor(d)'
    <3>1. /\ pc[d] = "pop" /\ args'[d] = args[d] /\ at'[d] = at[d]
          /\ overtaken[d] \subseteq overtaken'[d]
      BY <2>1 DEF SparesOthers
    <3>2. DataWaitsFor(d)
      BY <3>1 DEF IInv, DataWaits
    <3>3. /\ Len(buffer) \in Nat /\ Len(buffer') \in Nat
          /\ args[d].min \in Nat /\ at[d] \in Nat
      BY InCall, NextBufferLength
    <3>4. CASE Len(buffer') < Len(buffer)
      BY <2>1, <3>1, <3>2, <3>4 DEF DataWaitsFor, SparesOthers
    <3>5. CASE ~(Len(buffer') < Len(buffer))
      <4>1. \A k \in Nat : Len(buffer') < k => Len(buffer) < k
        BY <3>3, <3>5
      <4>2. QED
        BY <3>1, <3>2, <3>3, <4>1 DEF DataWaitsFor
    <3>6. QED
      BY <3>4, <3>5
  <2>2. QED
    BY <2>1 DEF DataWaits
<1>6. QED
  BY <1>1, <1>2, <1>3, <1>4, <1>5 DEF IInv

(* A call of c returns.                                                    *)
LEMMA Returns ==
  ASSUME IInv, NEW c \in Callers, NEW type \in Outcome, Return(c, type),
         BufferInv', given' \in Seq(Byte),
         UNCHANGED <<spoilt, overlap>>,
         overtaken' \in [Callers -> SUBSET Operations],
         \A d \in Callers \ {c} :
           /\ ~overlap /\ UsesOffset(d) => Len(buffer') = Len(buffer)
           /\ pc[d] = "pop" =>
                /\ overtaken[d] \subseteq overtaken'[d]
                /\ Len(buffer') < Len(buffer) =>
                     IF args[d].op = "read"
                       THEN overtaken'[d] # {}
                       ELSE "readUntilDelimiter" \in overtaken'[d],
         \/ lock' = {} /\ lock \subseteq {c}
         \/ lock' = lock /\ ~HoldsLock(c)
  PROVE  IInv'
<1>1. CallersOK
  BY InCall
<1>2. /\ pc' \in [Callers -> Places] /\ args' \in [Callers -> Args]
      /\ at' \in [Callers -> 0..BufferSize]
      /\ result' \in [Callers -> Outcome]
      /\ pc'[c] = "idle" /\ ~HoldsLock(c)' /\ PlaceOfCall(c)'
      /\ \A d \in Callers \ {c} :
           pc'[d] = pc[d] /\ args'[d] = args[d] /\ at'[d] = at[d]
  BY <1>1, ReturnGives
<1>3. CallersOK'
  <2>1. lock' \in {{}} \cup {{d} : d \in Callers}
    BY <1>1 DEF CallersOK
  <2>2. QED
    BY <1>1, <1>2, <2>1 DEF CallersOK
<1>4. SparesOthers(c) /\ LockStep(c)
  BY <1>2 DEF SparesOthers, LockStep
<1>5. SpoiltByOverlap'
  BY DEF IInv, SpoiltByOverlap
<1>6. ~UsesOffset(c)'
  BY <1>2 DEF UsesOffset, HoldsLock
<1>7. QED
  BY <1>2, <1>3, <1>4, <1>5, <1>6, LocalStep

(* A call of c returns and leaves the buffer as it is.                     *)
LEMMA ReturnsOnly ==
  ASSUME IInv, NEW c \in Callers, NEW type \in Outcome, Return(c, type),
         UNCHANGED <<socketVars, bufferVars, spoilt, given, overlap>>,
         overtaken' \in [Callers -> SUBSET Operations],
         \A d \in Callers \ {c} : overtaken'[d] = overtaken[d],
         \/ lock' = {} /\ lock \subseteq {c}
         \/ lock' = lock /\ ~HoldsLock(c)
  PROVE  IInv'
<1>1. BufferInv' /\ buffer' = buffer /\ given' \in Seq(Byte)
  BY StutterPreserves DEF IInv, bufferVars
<1>2. ~(Len(buffer') < Len(buffer))
  BY <1>1, NextBufferLength
<1>3. QED
  BY <1>1, <1>2, Returns

-----------------------------------------------------------------------------
(* A set of naturals that is not empty has a least element, so that the    *)
(* first delimiter is one.                                                 *)
LEMMA FirstDelimiterExists ==
  ASSUME NEW data \in Seq(Byte), Delimiters(data) # {}
  PROVE  /\ FirstDelimiter(data) \in 1..Len(data)
         /\ data[FirstDelimiter(data)] = Delimiter
         /\ \A j \in 1..Len(data) :
              data[j] = Delimiter => FirstDelimiter(data) <= j
<1> DEFINE D == Delimiters(data)
           R == {p \in Nat \X Nat : p[1] < p[2]}
<1>1. D \subseteq 1..Len(data) /\ Len(data) \in Nat
  BY LenProperties DEF Delimiters
<1>2. D \subseteq Nat /\ D # {}
  BY <1>1
<1>3. IsWellFoundedOn(R, Nat)
  BY NatLessThanWellFounded, Zenon DEF OpToRel
<1>4. \A x, y \in Nat : y < x => <<y, x>> \in R
  OBVIOUS
<1> HIDE DEF D, R
<1>5. PICK k \in D : \A j \in D : ~(<<j, k>> \in R)
  BY <1>2, <1>3, WFMin
<1>6. ASSUME NEW j \in D PROVE k <= j
  <2>1. j \in Nat /\ k \in Nat
    BY <1>2
  <2>2. ~(j < k)
    BY <1>4, <1>5, <2>1
  <2>3. QED
    BY <2>1, <2>2
<1>7. \E i \in D : \A j \in D : i <= j
  BY <1>6
<1>8. /\ FirstDelimiter(data) \in D
      /\ \A j \in D : FirstDelimiter(data) <= j
  BY <1>7 DEF D, FirstDelimiter
<1>9. QED
  BY <1>1, <1>8, LenProperties DEF D, Delimiters

(* Bytes that go from the kernel to the end of the buffer keep their       *)
(* place in the stream.                                                    *)
LEMMA ReadMoves ==
  ASSUME BufferInv, NEW n \in 0..Len(inflight)
  PROVE  (taken \o buffer) \o inflight
           = (taken \o (buffer \o SubSeq(inflight, 1, n)))
               \o SubSeq(inflight, n + 1, Len(inflight))
<1>1. taken \in Seq(Byte) /\ buffer \in Seq(Byte) /\ inflight \in Seq(Byte)
  BY DEF BufferInv, BufferTypeOK, SocketTypeOK
<1>2. QED
  BY <1>1, MoveToBuffer

(* A turn of readUntilDelimiter moves bytes to the end of the buffer and,  *)
(* when it finds a delimiter, a prefix of the buffer to the caller.        *)
LEMMA ScanPreserves ==
  ASSUME BufferInv, given \in Seq(Byte), NEW c \in Callers, NEW n, Scan(c, n)
  PROVE  /\ BufferInv' /\ given' \in Seq(Byte) /\ sent' = sent
         /\ Delimiters(buffer \o SubSeq(inflight, 1, n)) = {} =>
              Len(buffer) <= Len(buffer')
<1> DEFINE h == SubSeq(inflight, 1, n)
           data == buffer \o h
<1>1. /\ inflight \in Seq(Byte) /\ buffer \in Seq(Byte)
      /\ taken \in Seq(Byte) /\ Len(taken) \in Nat
  BY LenProperties DEF BufferInv, SocketTypeOK, BufferTypeOK
<1>2. /\ n \in 0..Len(inflight) /\ n + Len(buffer) <= BufferSize
  <2>1. Len(buffer) \in Nat /\ Len(inflight) \in Nat
    BY <1>1, LenProperties
  <2>2. QED
    BY <2>1, BufferSizeAssumption DEF Scan, ReadReturns, Space
<1>3. /\ inflight' = SubSeq(inflight, n + 1, Len(inflight))
      /\ sent' = sent /\ lost' = lost /\ peer' = peer /\ stop' = stop
  BY DEF Scan
<1>4. h \in Seq(Byte) /\ Len(h) = n /\ inflight' \in Seq(Byte)
  BY <1>1, <1>2, <1>3, Cut
<1>5. data \in Seq(Byte) /\ Len(data) = Len(buffer) + n
  BY <1>1, <1>4, ConcatProperties
<1>6. Len(data) \in Nat /\ Len(data) <= BufferSize
  BY <1>1, <1>2, <1>5, LenProperties
<1>7. (taken \o data) \o inflight' = (taken \o buffer) \o inflight
  BY <1>2, <1>3, ReadMoves
<1>8. \/ \E k \in 0..Len(data) :
           /\ buffer' = SubSeq(data, k + 1, Len(data))
           /\ taken' = taken \o SubSeq(data, 1, k)
      \/ buffer' = data /\ taken' = taken
  <2>1. CASE Delimiters(data) # {}
    <3>1. FirstDelimiter(data) \in 0..Len(data)
      <4>1. FirstDelimiter(data) \in 1..Len(data)
        BY <1>5, <2>1, FirstDelimiterExists
      <4>2. \A m \in Nat : 1..m \subseteq 0..m
        OBVIOUS
      <4>3. QED
        BY <1>6, <4>1, <4>2, Zenon
    <3>2. /\ buffer' = SubSeq(data, FirstDelimiter(data) + 1, Len(data))
          /\ taken' = taken \o SubSeq(data, 1, FirstDelimiter(data))
      BY <2>1 DEF Scan
    <3>3. QED
      BY <3>1, <3>2
  <2>2. CASE Delimiters(data) = {}
    BY <2>2 DEF Scan
  <2>3. QED
    BY <2>1, <2>2
<1> HIDE DEF data, h
<1>9. /\ buffer' \in Seq(Byte) /\ Len(buffer') <= BufferSize
      /\ taken' \in Seq(Byte) /\ Len(taken) <= Len(taken')
      /\ taken' \o buffer' = taken \o data
  <2>1. ASSUME NEW k \in 0..Len(data),
               buffer' = SubSeq(data, k + 1, Len(data)),
               taken' = taken \o SubSeq(data, 1, k)
        PROVE  /\ buffer' \in Seq(Byte) /\ Len(buffer') <= BufferSize
               /\ taken' \in Seq(Byte) /\ Len(taken) <= Len(taken')
               /\ taken' \o buffer' = taken \o data
    <3>1. /\ SubSeq(data, 1, k) \in Seq(Byte) /\ Len(SubSeq(data, 1, k)) = k
          /\ buffer' \in Seq(Byte) /\ Len(buffer') = Len(data) - k
      BY <1>5, <2>1, Cut
    <3>2. /\ taken' \in Seq(Byte) /\ Len(taken') = Len(taken) + k
      BY <1>1, <2>1, <3>1, ConcatProperties
    <3>3. taken' \o buffer' = taken \o data
      BY <1>1, <1>5, <2>1, MoveToTaken
    <3>4. Len(buffer') <= BufferSize /\ Len(taken) <= Len(taken')
      BY <1>1, <1>6, <3>1, <3>2, BufferSizeAssumption
    <3>5. QED
      BY <3>1, <3>2, <3>3, <3>4
  <2>2. CASE buffer' = data /\ taken' = taken
    BY <1>1, <1>5, <1>6, <2>2
  <2>3. QED
    BY <1>8, <2>1, <2>2
<1>10. SocketTypeOK' /\ LostByReset'
  BY <1>3, <1>4 DEF BufferInv, SocketTypeOK, LostByReset
<1>11. BytesConserved'
  <2>1. sent = ((taken \o buffer) \o inflight) \o lost
    BY DEF BufferInv, BytesConserved
  <2>2. QED
    BY <1>3, <1>7, <1>9, <2>1, Zenon DEF BytesConserved
<1>12. given' \in Seq(Byte)
  <2>1. CASE Delimiters(data) # {}
    <3>1. FirstDelimiter(data) \in 1..Len(data)
      BY <1>5, <2>1, FirstDelimiterExists
    <3>2. FirstDelimiter(data) - 1 \in 0..Len(data)
      BY <1>6, <3>1
    <3>3. given' = given \o SubSeq(data, 1, FirstDelimiter(data) - 1)
      BY <2>1 DEF Scan, data, h
    <3>4. QED
      BY <1>5, <3>2, <3>3, Cut, ConcatType
  <2>2. CASE Delimiters(data) = {}
    BY <2>2 DEF Scan, data, h
  <2>3. QED
    BY <2>1, <2>2
<1>13. Delimiters(data) = {} => Len(buffer) <= Len(buffer')
  <2>1. Delimiters(data) = {} => buffer' = data
    BY DEF Scan, data, h
  <2>2. Len(buffer) \in Nat /\ n \in Nat
    BY <1>1, <1>2, LenProperties
  <2>3. QED
    BY <1>5, <2>1, <2>2
<1>14. QED
  BY <1>3, <1>9, <1>10, <1>11, <1>12, <1>13
     DEF BufferInv, BufferTypeOK, data, h

(* PopFromBuffer gives the caller as many bytes as it says.                *)
LEMMA PopCounts ==
  ASSUME BufferInv, NEW n \in Nat, PopFromBuffer(n)
  PROVE  /\ BufferInv' /\ sent' = sent
         /\ Len(taken) \in Nat /\ Len(taken') = Len(taken) + n
         /\ Len(buffer) \in Nat /\ Len(buffer') = Len(buffer) - n
<1>1. buffer \in Seq(Byte) /\ taken \in Seq(Byte)
  BY DEF BufferInv, BufferTypeOK
<1>2. n \in 0..Len(buffer) /\ Len(buffer) \in Nat /\ Len(taken) \in Nat
  BY <1>1, LenProperties DEF PopFromBuffer
<1>3. /\ taken' = taken \o SubSeq(buffer, 1, n)
      /\ buffer' = SubSeq(buffer, n + 1, Len(buffer)) /\ sent' = sent
  BY DEF PopFromBuffer, socketVars
<1>4. /\ SubSeq(buffer, 1, n) \in Seq(Byte) /\ Len(SubSeq(buffer, 1, n)) = n
      /\ Len(buffer') = Len(buffer) - n
  BY <1>1, <1>2, <1>3, Cut
<1>5. Len(taken') = Len(taken) + n
  BY <1>1, <1>3, <1>4, ConcatProperties
<1>6. QED
  BY <1>2, <1>3, <1>4, <1>5, PopPreserves

(* The callers' calls.                                                     *)
LEMMA CallInv ==
  ASSUME IInv, NEW c \in Callers, Call(c)
  PROVE  IInv'
<1> USE LengthsAssumption
<1>1. CallersOK /\ BufferInv /\ pc[c] = "idle"
  BY DEF IInv, Call, CallRead, CallReadInto, CallReadUntilDelimiter, MayCall,
         Runs
<1>2. UNCHANGED <<socketVars, bufferVars, lock, spoilt, given, overtaken>>
  BY DEF Call, CallRead, CallReadInto, CallReadUntilDelimiter
<1>3. /\ BufferInv' /\ buffer' = buffer /\ Len(buffer) \in Nat
      /\ Len(buffer) \in 0..BufferSize /\ given' \in Seq(Byte)
  BY <1>1, <1>2, StutterPreserves, BufferLength DEF IInv, bufferVars
<1>4. ~HoldsLock(c)
  BY <1>1 DEF HoldsLock
<1>5. ASSUME Refuse(c) PROVE IInv'
  <2>1. Return(c, "std::logic_error") /\ overlap' = overlap
    BY <1>5 DEF Refuse
  <2>2. "std::logic_error" \in Outcome
    BY DEF Outcome
  <2>3. overtaken' \in [Callers -> SUBSET Operations] /\ overtaken' = overtaken
    BY <1>1, <1>2 DEF CallersOK
  <2>4. QED
    BY <1>2, <1>4, <2>1, <2>2, <2>3, ReturnsOnly
<1>6. ASSUME NEW place \in {"check", "lock", "scan"}, NEW op \in Operations,
             NEW max \in Nat, NEW min \in Nat, NEW timed \in BOOLEAN,
             Begin(c, place, op, max, min, timed),
             place = "check" => op = "read",
             place = "lock" => op = "readInto",
             place = "scan" => op = "readUntilDelimiter",
             op = "read" => max = min
      PROVE  IInv'
  <2>1. /\ pc' \in [Callers -> Places] /\ args' \in [Callers -> Args]
        /\ at' \in [Callers -> 0..BufferSize]
        /\ result' \in [Callers -> Outcome]
        /\ pc'[c] = place /\ args'[c].op = op
        /\ args'[c].max = max /\ args'[c].min = min
        /\ place = "scan" => at'[c] = Len(buffer)
        /\ \A d \in Callers \ {c} :
             pc'[d] = pc[d] /\ args'[d] = args[d] /\ at'[d] = at[d]
    BY <1>1, <1>3, <1>6, BeginGives
  <2>2. overlap' = \/ overlap
                   \/ \E d \in Callers \ {c} :
                        IF place = "scan" THEN pc[d] # "idle"
                                          ELSE pc[d] = "scan"
    BY <1>6 DEF Begin
  <2>3. overlap' \in BOOLEAN /\ (overlap => overlap')
    BY <1>1, <2>2 DEF CallersOK
  <2>4. CallersOK'
    BY <1>1, <1>2, <2>1, <2>3 DEF CallersOK
  <2>5. ~HoldsLock(c)' /\ PlaceOfCall(c)' /\ (UsesOffset(c)' => place = "scan")
    BY <1>6, <2>1 DEF HoldsLock, PlaceOfCall, UsesOffset
  <2>6. SparesOthers(c) /\ LockStep(c)
    <3>1. \A d \in Callers \ {c} : ~(Len(buffer') < Len(buffer))
      BY <1>3
    <3>2. QED
      BY <1>2, <1>3, <1>4, <2>1, <2>5, <3>1 DEF SparesOthers, LockStep
  <2>7. SpoiltByOverlap'
    BY <1>2, <2>3 DEF IInv, SpoiltByOverlap
  <2>8. ASSUME ~overlap'
        PROVE  /\ pc'[c] = "scan" => \A d \in Callers \ {c} : pc[d] = "idle"
               /\ \A d \in Callers \ {c} : pc[d] # "scan"
    BY <2>1, <2>2, <2>8
  <2>9. pc'[c] # "pop" /\ (UsesOffset(c)' => at'[c] = Len(buffer'))
    BY <1>3, <2>1, <2>5
  <2>10. QED
    BY <1>3, <2>3, <2>4, <2>5, <2>6, <2>7, <2>8, <2>9, LocalStep
<1>7. Operations = {"read", "readInto", "readUntilDelimiter"}
  BY DEF Operations
<1>8. ASSUME NEW timed \in BOOLEAN, NEW n \in Lengths, CallRead(c, n, timed)
      PROVE  IInv'
  <2>1. n \in Nat
    OBVIOUS
  <2>2. Refuse(c) \/ Begin(c, "check", "read", n, n, timed)
    BY <1>8 DEF CallRead
  <2>3. QED
    BY <1>5, <1>6, <1>7, <2>1, <2>2
<1>9. ASSUME NEW timed \in BOOLEAN, NEW n \in Lengths, NEW min \in Lengths,
             CallReadInto(c, n, min, timed)
      PROVE  IInv'
  <2>1. n \in Nat /\ min \in Nat
    OBVIOUS
  <2>2. Begin(c, "lock", "readInto", n, min, timed)
    BY <1>9 DEF CallReadInto
  <2>3. QED
    BY <1>6, <1>7, <2>1, <2>2
<1>10. CASE CallReadUntilDelimiter(c)
  <2>1. Refuse(c) \/ Begin(c, "scan", "readUntilDelimiter", 0, 0, FALSE)
    BY <1>10 DEF CallReadUntilDelimiter
  <2>2. QED
    BY <1>5, <1>6, <1>7, <2>1
<1>11. QED
  BY <1>8, <1>9, <1>10 DEF Call

(* A step of c that leaves its arguments alone and takes nothing from the  *)
(* buffer.                                                                 *)
LEMMA GoesOn ==
  ASSUME IInv, NEW c \in Callers,
         NEW place \in {"check", "lock", "fill", "pop"}, Goto(c, place),
         NEW offset \in 0..BufferSize, Load(c, offset),
         pc[c] \notin {"idle", "scan"}, BufferInv',
         Len(buffer) <= Len(buffer'),
         Len(buffer) = Len(buffer') \/ lock \subseteq {c},
         UNCHANGED <<args, result, spoilt, given, overtaken, overlap>>,
         place = "check" => args[c].op = "read",
         ~overlap /\ HoldsLock(c)' => offset = Len(buffer'),
         place = "pop" /\ args[c].op = "read" => Len(buffer') >= args[c].min,
         place = "pop" /\ args[c].op # "read" =>
           offset = Len(buffer') /\ Len(buffer') >= args[c].min,
         LockStep(c)
  PROVE  IInv'
<1>1. /\ CallersOK /\ PlaceOfCall(c) /\ BufferInv /\ given' \in Seq(Byte)
      /\ args[c].min \in Nat
  BY InCall DEF IInv
<1>2. place \in Places
  BY DEF Places
<1>3. /\ pc' \in [Callers -> Places] /\ pc'[c] = place
      /\ \A d \in Callers \ {c} : pc'[d] = pc[d]
  BY <1>1, <1>2, GotoGives
<1>4. /\ at' \in [Callers -> 0..BufferSize] /\ at'[c] = offset
      /\ \A d \in Callers \ {c} : at'[d] = at[d]
  BY <1>1, LoadGives
<1>5. CallersOK'
  <2>1. lock' \in {{}} \cup {{d} : d \in Callers}
    BY <1>1 DEF CallersOK, LockStep
  <2>2. QED
    BY <1>1, <1>3, <1>4, <2>1 DEF CallersOK
<1>6. PlaceOfCall(c)'
  <2>1. pc[c] \in {"check", "lock", "fill", "pop"}
    BY <1>1 DEF CallersOK, Places
  <2>2. args[c].op \in {"read", "readInto"}
    BY <1>1, <2>1 DEF PlaceOfCall
  <2>3. QED
    BY <1>1, <1>3, <2>2 DEF PlaceOfCall
<1>7. Len(buffer) \in Nat /\ Len(buffer') \in Nat
  BY <1>1, BufferLength, NextBufferLength
<1>8. SparesOthers(c)
  <2>1. ASSUME NEW d \in Callers \ {c}, ~overlap, UsesOffset(d)
        PROVE  Len(buffer') = Len(buffer)
    BY <2>1, OthersKeepOff
  <2>2. ~(Len(buffer') < Len(buffer))
    BY <1>7
  <2>3. QED
    BY <1>3, <1>4, <2>1, <2>2 DEF SparesOthers
<1>9. SpoiltByOverlap'
  BY DEF IInv, SpoiltByOverlap
<1>10. ~overlap => \A d \in Callers \ {c} : pc[d] # "scan"
  BY DEF IInv, ScansAlone
<1>11. pc'[c] # "scan" /\ (UsesOffset(c)' => HoldsLock(c)')
  BY <1>3 DEF UsesOffset
<1>12. pc'[c] = "pop" => DataWaitsFor(c)'
  BY <1>1, <1>3, <1>4, <1>7 DEF DataWaitsFor
<1>13. ~overlap' /\ UsesOffset(c)' => at'[c] = Len(buffer')
  BY <1>4, <1>11
<1>14. QED
  BY <1>1, <1>5, <1>6, <1>8, <1>9, <1>10, <1>11, <1>12, <1>13, LocalStep

(* The stream returns data to readAvailableDataIntoBuffer.                 *)
LEMMA FillInv ==
  ASSUME IInv, NEW c \in Callers, NEW n, Fill(c, n)
  PROVE  IInv'
<1>1. pc[c] = "fill" /\ readAvailableDataIntoBuffer(n)
  BY DEF Fill, Runs
<1>2. /\ PlaceOfCall(c) /\ args[c].min \in Nat /\ lock = {c}
      /\ HoldsLock(c) /\ BufferInv /\ CallersOK
  BY <1>1, InCall DEF HoldsLock
<1>3. BufferInv'
  BY <1>1, <1>2, FillPreserves
<1>4. /\ Len(buffer) \in Nat /\ Len(buffer') \in Nat
      /\ Len(buffer) <= Len(buffer') /\ Len(buffer') \in 0..BufferSize
  <2>1. buffer \in Seq(Byte) /\ inflight \in Seq(Byte)
    BY <1>2 DEF BufferInv, BufferTypeOK, SocketTypeOK
  <2>2. /\ Len(buffer) \in Nat /\ Len(inflight) \in Nat /\ Len(buffer') \in Nat
        /\ Len(buffer') \in 0..BufferSize
    BY <1>2, <1>3, <2>1, LenProperties, NextBufferLength
  <2>3. n \in 0..Len(inflight)
    BY <1>1, <2>2, BufferSizeAssumption
       DEF readAvailableDataIntoBuffer, ReadReturns, Space
  <2>4. SubSeq(inflight, 1, n) \in Seq(Byte) /\ Len(SubSeq(inflight, 1, n)) = n
    BY <2>1, <2>3, Cut
  <2>5. buffer' = buffer \o SubSeq(inflight, 1, n)
    BY <1>1 DEF readAvailableDataIntoBuffer
  <2>6. Len(buffer') = Len(buffer) + n
    BY <2>1, <2>4, <2>5, ConcatProperties
  <2>7. QED
    BY <2>2, <2>3, <2>6
<1>5. UNCHANGED <<args, result, spoilt, given, overtaken, overlap>>
  BY DEF Fill, historyVars
<1>6. CASE args[c].op = "read"
  <2>1. lock' = {} /\ Goto(c, "check") /\ Load(c, 0)
    BY <1>6 DEF Fill
  <2>2. pc'[c] = "check"
    BY <1>2, <2>1, GotoGives DEF Places
  <2>3. ~HoldsLock(c)' /\ LockStep(c)
    BY <1>2, <2>1, <2>2 DEF HoldsLock, LockStep
  <2>4. 0 \in 0..BufferSize
    BY BufferSizeAssumption
  <2>5. QED
    BY <1>1, <1>2, <1>3, <1>4, <1>5, <1>6, <2>1, <2>3, <2>4, GoesOn
<1>7. CASE args[c].op # "read"
  <2>1. args[c].op = "readInto"
    BY <1>1, <1>2, <1>7 DEF PlaceOfCall
  <2>2. lock' = lock /\ Load(c, Len(buffer'))
    BY <1>7 DEF Fill
  <2>3. PICK place \in {"fill", "pop"} :
          /\ Goto(c, place)
          /\ place = "pop" => ~(Len(buffer') < args[c].min)
    BY <1>7 DEF Fill
  <2>4. pc'[c] = place
    BY <1>2, <2>3, GotoGives DEF Places
  <2>5. HoldsLock(c)' /\ LockStep(c)
    BY <1>2, <1>5, <2>1, <2>2, <2>3, <2>4 DEF HoldsLock, LockStep
  <2>6. place = "pop" => Len(buffer') >= args[c].min
    BY <1>2, <1>4, <2>3
  <2>7. QED
    BY <1>1, <1>2, <1>3, <1>4, <1>5, <2>1, <2>2, <2>3, <2>5, <2>6, GoesOn
<1>8. QED
  BY <1>6, <1>7

(* How a step that pops marks the other callers.                           *)
LEMMA OvertakeGives ==
  ASSUME CallersOK, NEW c \in Callers, Overtake(c)
  PROVE  /\ overtaken' \in [Callers -> SUBSET Operations]
         /\ \A d \in Callers \ {c} : pc[d] = "pop" =>
              /\ overtaken[d] \subseteq overtaken'[d]
              /\ Len(buffer') < Len(buffer) => args[c].op \in overtaken'[d]
<1>1. args[c].op \in Operations
  BY DEF CallersOK, Args
<1>2. QED
  BY <1>1 DEF CallersOK, Overtake

(* A turn of readUntilDelimiter.                                           *)
LEMMA ScanInv ==
  ASSUME IInv, NEW c \in Callers, NEW n, Scan(c, n)
  PROVE  IInv'
<1>1. pc[c] = "scan" /\ UNCHANGED <<lock, spoilt, overlap>>
  BY DEF Scan, Runs
<1>2. /\ CallersOK /\ BufferInv /\ PlaceOfCall(c) /\ ~HoldsLock(c)
      /\ args[c].op = "readUntilDelimiter"
  BY <1>1, InCall DEF HoldsLock, PlaceOfCall
<1>3. ~overlap => \A d \in Callers \ {c} : pc[d] = "idle" /\ ~UsesOffset(d)
  BY <1>1 DEF IInv, ScansAlone, UsesOffset, HoldsLock
<1>4. /\ BufferInv' /\ given' \in Seq(Byte)
      /\ Len(buffer) \in Nat /\ Len(buffer') \in Nat
      /\ Len(buffer') \in 0..BufferSize
  BY <1>2, ScanPreserves, BufferLength, NextBufferLength DEF IInv
<1>5. CASE Delimiters(buffer \o SubSeq(inflight, 1, n)) # {}
  <2>1. Return(c, "data") /\ Overtake(c) /\ "data" \in Outcome
    BY <1>5 DEF Scan, Outcome
  <2>2. /\ overtaken' \in [Callers -> SUBSET Operations]
        /\ \A d \in Callers \ {c} : pc[d] = "pop" =>
             /\ overtaken[d] \subseteq overtaken'[d]
             /\ Len(buffer') < Len(buffer) =>
                  "readUntilDelimiter" \in overtaken'[d]
    BY <1>2, <2>1, OvertakeGives
  <2>3. \A d \in Callers \ {c} : ~overlap /\ UsesOffset(d) =>
          Len(buffer') = Len(buffer)
    BY <1>3
  <2>4. QED
    BY <1>1, <1>2, <1>4, <2>1, <2>2, <2>3, Returns
<1>6. CASE Delimiters(buffer \o SubSeq(inflight, 1, n)) = {}
  <2>1. /\ buffer' = buffer \o SubSeq(inflight, 1, n)
        /\ overtaken' = overtaken
    BY <1>6 DEF Scan
  <2>2. ~(Len(buffer') < Len(buffer))
    BY <1>2, <1>4, <1>6, ScanPreserves DEF IInv
  <2>3. overtaken \in [Callers -> SUBSET Operations]
    BY <1>2 DEF CallersOK
  <2>4. \/ Return(c, "std::logic_error")
        \/ Load(c, Len(buffer')) /\ UNCHANGED <<pc, args, result>>
    BY <1>6 DEF Scan
  <2>5. CASE Return(c, "std::logic_error")
    <3>1. "std::logic_error" \in Outcome
      BY DEF Outcome
    <3>2. QED
      BY <1>1, <1>2, <1>3, <1>4, <2>1, <2>2, <2>3, <2>5, <3>1, Returns
  <2>6. CASE Load(c, Len(buffer')) /\ UNCHANGED <<pc, args, result>>
    <3>1. /\ at' \in [Callers -> 0..BufferSize] /\ at'[c] = Len(buffer')
          /\ \A d \in Callers \ {c} : at'[d] = at[d]
      BY <1>2, <1>4, <2>6, LoadGives
    <3>2. CallersOK' /\ PlaceOfCall(c)' /\ ~HoldsLock(c)'
      BY <1>1, <1>2, <2>1, <2>6, <3>1 DEF CallersOK, PlaceOfCall, HoldsLock
    <3>3. SparesOthers(c) /\ LockStep(c)
      BY <1>1, <1>2, <1>3, <2>1, <2>2, <2>6, <3>1, <3>2
         DEF SparesOthers, LockStep
    <3>4. SpoiltByOverlap'
      BY <1>1 DEF IInv, SpoiltByOverlap
    <3>5. pc'[c] # "pop" /\ (~overlap' => \A d \in Callers \ {c} : pc[d] = "idle")
      BY <1>1, <1>3, <2>6
    <3>6. ~overlap' => \A d \in Callers \ {c} : pc[d] # "scan"
      BY <3>5
    <3>7. QED
      BY <1>1, <1>4, <3>1, <3>2, <3>3, <3>4, <3>5, <3>6, LocalStep
  <2>7. QED
    BY <2>4, <2>5, <2>6
<1>7. QED
  BY <1>5, <1>6

(* What a caller takes, and how that is counted.                           *)
LEMMA PopTakes ==
  ASSUME IInv, NEW c \in Callers, Pop(c)
  PROVE  /\ PopLength(c) \in Nat /\ PopFromBuffer(PopLength(c)) /\ BufferInv'
         /\ Popped = PopLength(c)
         /\ Len(buffer) \in Nat /\ Len(buffer') = Len(buffer) - PopLength(c)
         /\ PopLength(c) <= Len(buffer)
         /\ sent' = sent /\ Len(taken) <= Len(taken')
<1>1. pc[c] = "pop" /\ PopFromBuffer(PopLength(c))
  BY DEF Pop, Runs
<1>2. Len(buffer) \in Nat /\ args[c].max \in Nat /\ at[c] \in Nat /\ BufferInv
  BY <1>1, InCall
<1>3. PopLength(c) \in Nat
  BY <1>2 DEF PopLength
<1>4. PICK k \in Nat : k = PopLength(c)
  BY <1>3
<1>5. /\ BufferInv' /\ sent' = sent
      /\ Len(taken) \in Nat /\ Len(taken') = Len(taken) + k
      /\ Len(buffer') = Len(buffer) - k
  BY <1>1, <1>2, <1>4, PopCounts
<1>6. Popped = k /\ Len(taken) <= Len(taken')
  BY <1>5 DEF Popped
<1>7. PopLength(c) <= Len(buffer)
  BY <1>1 DEF PopFromBuffer
<1>8. QED
  BY <1>1, <1>2, <1>3, <1>4, <1>5, <1>6, <1>7

(* A caller takes its data from the buffer.  Those it takes data from      *)
(* under have no lock, and are overtaken.                                  *)
LEMMA PopInv ==
  ASSUME IInv, NEW c \in Callers, Pop(c)
  PROVE  IInv'
<1>1. /\ pc[c] = "pop" /\ lock \subseteq {c} /\ lock' = {} /\ Return(c, "data")
      /\ Overtake(c) /\ UNCHANGED <<spoilt, overlap>>
      /\ given' = given \o SubSeq(buffer, 1, PopLength(c))
  BY DEF Pop, Free, Runs
<1>2. CallersOK /\ BufferInv /\ "data" \in Outcome
  BY InCall DEF Outcome
<1>3. /\ PopLength(c) \in Nat /\ BufferInv' /\ Len(buffer) \in Nat
      /\ PopLength(c) <= Len(buffer)
  BY PopTakes
<1>4. given' \in Seq(Byte)
  <2>1. buffer \in Seq(Byte) /\ PopLength(c) \in 0..Len(buffer)
    BY <1>2, <1>3 DEF BufferInv, BufferTypeOK
  <2>2. SubSeq(buffer, 1, PopLength(c)) \in Seq(Byte)
    BY <2>1, Cut
  <2>3. QED
    BY <1>1, <2>2, ConcatType DEF IInv
<1>5. /\ overtaken' \in [Callers -> SUBSET Operations]
      /\ \A d \in Callers \ {c} : pc[d] = "pop" =>
           /\ overtaken[d] \subseteq overtaken'[d]
           /\ Len(buffer') < Len(buffer) => overtaken'[d] # {}
  BY <1>1, <1>2, OvertakeGives
<1>6. \A d \in Callers \ {c} : pc[d] = "pop" => args[d].op = "read"
  <2>1. ASSUME NEW d \in Callers \ {c}, pc[d] = "pop"
        PROVE  args[d].op = "read"
    <3>1. PlaceOfCall(d) /\ ~HoldsLock(d)
      BY <1>1, InCall
    <3>2. QED
      BY <2>1, <3>1 DEF PlaceOfCall, HoldsLock
  <2>2. QED
    BY <2>1
<1>7. ~overlap => \A d \in Callers \ {c} : ~UsesOffset(d)
  BY <1>1, OthersKeepOff
<1>8. QED
  BY <1>1, <1>2, <1>3, <1>4, <1>5, <1>6, <1>7, Returns

(* The object is spoilt only when calls overlap: otherwise the offset of   *)
(* the call is that of the buffer, and readUntilDelimiter is alone.        *)
LEMMA SpoilInv ==
  ASSUME IInv, NEW c \in Callers, Spoil(c)
  PROVE  IInv'
<1>1. /\ spoilt' /\ UNCHANGED <<socketVars, bufferVars, callerVars, historyVars>>
      /\ pc[c] \in {"fill", "scan"}
      /\ \/ at[c] # Len(buffer)
         \/ pc[c] = "scan" /\ \E d \in Callers \ {c} : pc[d] # "idle"
  BY DEF Spoil, Runs
<1>2. overlap
  BY <1>1 DEF IInv, ScansAlone, OffsetIsCurrent, UsesOffset, HoldsLock
<1>3. BufferInv'
  BY <1>1, StutterPreserves DEF IInv
<1>4. spoilt' \in BOOLEAN
  BY DEF Spoil
<1>5. QED
  BY <1>1, <1>2, <1>3, <1>4
     DEF IInv, CallersOK, LockDiscipline, SpoiltByOverlap, ScansAlone,
         OffsetIsCurrent, DataWaits, DataWaitsFor, UsesOffset, HoldsLock,
         PlaceOfCall, callerVars, historyVars, bufferVars

(* The other steps of a call.                                              *)
LEMMA StepInv ==
  ASSUME IInv, NEW c \in Callers, Step(c) \/ PollInterrupted(c)
  PROVE  IInv'
<1>1. /\ CallersOK /\ BufferInv /\ Len(buffer) \in Nat
      /\ Len(buffer) \in 0..BufferSize
      /\ overtaken \in [Callers -> SUBSET Operations]
  BY BufferLength DEF IInv, CallersOK
<1>2. ASSUME UNCHANGED <<socketVars, bufferVars>>
      PROVE  BufferInv' /\ buffer' = buffer /\ Len(buffer) <= Len(buffer')
  BY <1>1, <1>2, StutterPreserves DEF bufferVars
<1>3. CASE Check(c)
  <2>1. PICK place \in {"lock", "pop"} :
          /\ Goto(c, place)
          /\ place = "pop" => ~(Len(buffer) < args[c].min)
    BY <1>3 DEF Check
  <2>2. /\ pc[c] = "check" /\ lock' = lock /\ at' = at
        /\ UNCHANGED <<socketVars, bufferVars>>
        /\ UNCHANGED <<args, result, spoilt, given, overtaken, overlap>>
    BY <1>3 DEF Check, Runs, historyVars
  <2>3. args[c].op = "read" /\ args[c].min \in Nat /\ at[c] \in 0..BufferSize
    BY <2>2, InCall DEF PlaceOfCall
  <2>4. ~HoldsLock(c)' /\ LockStep(c)
    <3>1. pc'[c] = place
      BY <1>1, <2>1, GotoGives DEF Places
    <3>2. QED
      BY <2>1, <2>2, <2>3, <3>1 DEF HoldsLock, LockStep
  <2>5. Load(c, at[c])
    BY <1>1, <2>2 DEF Load, CallersOK
  <2>6. place = "pop" => Len(buffer') >= args[c].min
    BY <1>1, <1>2, <2>1, <2>2, <2>3
  <2>7. QED
    BY <1>2, <2>1, <2>2, <2>3, <2>4, <2>5, <2>6, GoesOn
<1>4. CASE Lock(c)
  <2>1. /\ pc[c] = "lock" /\ lock \subseteq {c} /\ lock' = {c}
        /\ Goto(c, "fill") /\ Load(c, Len(buffer))
        /\ UNCHANGED <<socketVars, bufferVars>>
        /\ UNCHANGED <<args, result, spoilt, given, overtaken, overlap>>
    BY <1>4 DEF Lock, Free, Runs, historyVars
  <2>2. HoldsLock(c)' /\ LockStep(c)
    BY <1>1, <2>1, GotoGives DEF HoldsLock, LockStep, Places
  <2>3. QED
    BY <1>1, <1>2, <2>1, <2>2, GoesOn
<1>5. CASE PopThrows(c)
  <2>1. /\ pc[c] = "pop" /\ lock \subseteq {c} /\ lock' = {}
        /\ Return(c, "std::out_of_range")
        /\ UNCHANGED <<socketVars, bufferVars, spoilt, given, overlap>>
        /\ overtaken' = [overtaken EXCEPT ![c] = {}]
    BY <1>5 DEF PopThrows, Free, Runs
  <2>2. "std::out_of_range" \in Outcome
    BY DEF Outcome
  <2>3. /\ overtaken' \in [Callers -> SUBSET Operations]
        /\ \A d \in Callers \ {c} : overtaken'[d] = overtaken[d]
    BY <1>1, <2>1
  <2>4. QED
    BY <2>1, <2>2, <2>3, ReturnsOnly
<1>6. ASSUME pc[c] \in {"fill", "scan"}, Return(c, "SocketException"),
             UNCHANGED <<socketVars, bufferVars, spoilt, historyVars>>,
             \/ pc[c] = "fill" /\ lock' = {}
             \/ pc[c] = "scan" /\ lock' = lock
             \/ lock' = lock \ {c}
      PROVE  IInv'
  <2>1. /\ pc[c] = "fill" => lock = {c}
        /\ pc[c] = "scan" => lock # {c} /\ ~HoldsLock(c)
    BY <1>6, InCall DEF HoldsLock
  <2>2. \/ lock' = {} /\ lock \subseteq {c}
        \/ lock' = lock /\ ~HoldsLock(c)
    BY <1>1, <1>6, <2>1 DEF CallersOK
  <2>3. "SocketException" \in Outcome
    BY DEF Outcome
  <2>4. overtaken' = overtaken /\ UNCHANGED <<given, overlap>>
    BY <1>6 DEF historyVars
  <2>5. QED
    BY <1>1, <1>6, <2>2, <2>3, <2>4, ReturnsOnly
<1>7. ASSUME NEW ex, FillThrows(c, ex) \/ ScanThrows(c, ex)
      PROVE  IInv'
  BY <1>6, <1>7 DEF FillThrows, ScanThrows, Runs
<1>8. CASE PollInterrupted(c)
  BY <1>6, <1>8 DEF PollInterrupted, Runs
<1>9. QED
  BY <1>3, <1>4, <1>5, <1>7, <1>8, FillInv, ScanInv, PopInv, SpoilInv DEF Step

(* Steps of the peer, of stopReads, and stuttering: the callers and the    *)
(* buffer stay as they are.                                                *)
LEMMA OutsideInv ==
  ASSUME IInv, PeerStep \/ stopReads \/ UNCHANGED vars
  PROVE  IInv'
<1>1. UNCHANGED <<bufferVars, callerVars, spoilt, historyVars>>
  BY DEF PeerStep, stopReads, vars
<1>2. BufferInv'
  <2>1. CASE PeerStep
    BY <1>1, <2>1, PeerPreserves DEF PeerStep, IInv
  <2>2. CASE stopReads
    BY <1>1, <2>2, StopPreserves DEF stopReads, IInv
  <2>3. CASE UNCHANGED vars
    BY <2>3, StutterPreserves DEF vars, IInv
  <2>4. QED
    BY <2>1, <2>2, <2>3
<1>3. QED
  BY <1>1, <1>2
     DEF IInv, CallersOK, LockDiscipline, SpoiltByOverlap, ScansAlone,
         OffsetIsCurrent, DataWaits, DataWaitsFor, UsesOffset, HoldsLock,
         PlaceOfCall, callerVars, historyVars, bufferVars

(* The initial states satisfy the invariant.                               *)
LEMMA InitInv == Init => IInv
<1> SUFFICES ASSUME Init PROVE IInv
  OBVIOUS
<1>1. BufferInv
  BY InitEstablishes DEF Init
<1>2. NoArgs \in Args /\ "none" \in Outcome /\ NoArgs.max = NoArgs.min
  BY DEF NoArgs, Args, Operations, Outcome
<1>3. CallersOK /\ given \in Seq(Byte)
  <2>1. 0 \in 0..BufferSize /\ "idle" \in Places
    BY BufferSizeAssumption DEF Places
  <2>2. CallersOK
    BY <1>2, <2>1 DEF Init, CallersOK
  <2>3. given \in Seq(Byte)
    BY <1>1 DEF Init, BufferInit, BufferInv, BufferTypeOK
  <2>4. QED
    BY <2>2, <2>3
<1>4. LockDiscipline /\ SpoiltByOverlap /\ ScansAlone /\ OffsetIsCurrent
      /\ DataWaits
  BY DEF Init, LockDiscipline, SpoiltByOverlap, ScansAlone, OffsetIsCurrent,
         UsesOffset, HoldsLock, DataWaits
<1>5. \A c \in Callers : PlaceOfCall(c)
  BY <1>2 DEF Init, PlaceOfCall
<1>6. QED
  BY <1>1, <1>3, <1>4, <1>5 DEF IInv

(* The invariant is inductive.                                             *)
LEMMA Inductive == Spec => []IInv
<1>1. IInv /\ [Next]_vars => IInv'
  BY CallInv, StepInv, OutsideInv DEF Next
<1>2. QED
  BY InitInv, <1>1, PTL DEF Spec

-----------------------------------------------------------------------------
(* Every variable keeps its type; in particular stream_buffer never        *)
(* overflows.                                                              *)
THEOREM TypeCorrect == Spec => []TypeOK
<1>1. IInv => TypeOK
  BY DEF IInv, BufferInv, CallersOK, Places, TypeOK
<1>2. QED
  BY <1>1, Inductive, PTL

(* buffer_lock is held exactly by the caller that fills the buffer or pops *)
(* in read(buffer, max, min), on the exception paths too.                  *)
THEOREM LockIsHeldRight == Spec => []LockDiscipline
BY Inductive, PTL DEF IInv

(* The stream is read to an out-of-date place of the buffer only if a      *)
(* readUntilDelimiter has run at the time of another call.                 *)
THEOREM SpoilingTakesOverlap == Spec => []SpoiltByOverlap
BY Inductive, PTL DEF IInv

(* A read that succeeds pops as many bytes as were asked for;              *)
(* std::out_of_range takes another caller that popped in between, and for  *)
(* read(buffer, max, min) one in readUntilDelimiter.                       *)
THEOREM LengthsAreAsAsked == Spec => LengthAsAsked
<1> DEFINE Asked(c) ==
      pc[c] = "pop" /\ pc'[c] = "idle" =>
        IF result'[c] = "data"
          THEN \/ Popped \in args[c].min .. args[c].max
               \/ Popped = args[c].max
          ELSE \/ args[c].op = "read" /\ overtaken[c] # {}
               \/ "readUntilDelimiter" \in overtaken[c]
<1>1. ASSUME IInv, NEW c \in Callers, Pop(c)
      PROVE  Asked(c)
  <2>1. pc[c] = "pop" /\ PopLength(c) \in Nat /\ Popped = PopLength(c)
    BY <1>1, PopTakes DEF Pop, Runs
  <2>2. result'[c] = "data"
    BY <1>1, ReturnGives DEF Pop, IInv, Outcome
  <2>3. /\ at[c] \in Nat /\ args[c].min \in Nat /\ args[c].max \in Nat
        /\ DataWaitsFor(c)
    BY <1>1, <2>1, InCall DEF IInv, DataWaits
  <2>4. CASE args[c].op = "read" \/ args[c].max < at[c]
    BY <2>1, <2>2, <2>4 DEF PopLength
  <2>5. CASE ~(args[c].op = "read" \/ args[c].max < at[c])
    <3>1. Popped = at[c] /\ at[c] >= args[c].min
      BY <2>1, <2>3, <2>5 DEF PopLength, DataWaitsFor
    <3>2. QED
      BY <2>2, <2>3, <2>5, <3>1
  <2>6. QED
    BY <2>4, <2>5
<1>2. ASSUME IInv, NEW c \in Callers, PopThrows(c)
      PROVE  Asked(c)
  <2>1. pc[c] = "pop" /\ PopLength(c) > Len(buffer)
    BY <1>2 DEF PopThrows, Runs
  <2>2. result'[c] # "data"
    BY <1>2, ReturnGives DEF PopThrows, IInv, Outcome
  <2>3. /\ Len(buffer) \in Nat /\ args[c].min \in Nat /\ args[c].max \in Nat
        /\ at[c] \in Nat /\ PlaceOfCall(c) /\ DataWaitsFor(c)
    BY <1>2, <2>1, InCall DEF IInv, DataWaits
  <2>4. CASE args[c].op = "read"
    <3>1. Len(buffer) < args[c].min
      BY <2>1, <2>3, <2>4 DEF PlaceOfCall, PopLength
    <3>2. QED
      BY <2>2, <2>3, <2>4, <3>1 DEF DataWaitsFor
  <2>5. CASE args[c].op # "read"
    <3>1. PopLength(c) <= at[c] /\ PopLength(c) \in Nat
      BY <2>3, <2>5 DEF PopLength
    <3>2. Len(buffer) < at[c]
      BY <2>1, <2>3, <3>1
    <3>3. QED
      BY <2>2, <2>3, <2>5, <3>2 DEF DataWaitsFor
  <2>6. QED
    BY <2>4, <2>5
<1>3. ASSUME IInv, NEW c \in Callers, NEW d \in Callers \ {c},
             Call(d) \/ Step(d) \/ PollInterrupted(d)
      PROVE  pc'[c] = pc[c]
  BY <1>3 DEF IInv, CallersOK, Call, Step, PollInterrupted, CallRead,
              CallReadInto, CallReadUntilDelimiter, Check, Lock, Pop,
              PopThrows, Fill, Scan, FillThrows, ScanThrows, Spoil, Refuse,
              Return, Begin, Goto, callerVars
<1>4. ASSUME IInv, NEW c \in Callers, pc[c] = "pop",
             Call(c) \/ Step(c) \/ PollInterrupted(c)
      PROVE  Pop(c) \/ PopThrows(c)
  BY <1>4 DEF Call, Step, PollInterrupted, CallRead, CallReadInto,
              CallReadUntilDelimiter, MayCall, Check, Lock, Fill, Scan,
              FillThrows, ScanThrows, Spoil, Runs
<1>5. ASSUME IInv, [Next]_vars, NEW c \in Callers
      PROVE  Asked(c)
  <2>1. CASE PeerStep \/ stopReads \/ UNCHANGED vars
    <3>1. pc' = pc
      BY <2>1 DEF PeerStep, stopReads, vars, callerVars
    <3>2. QED
      BY <3>1
  <2>2. ASSUME NEW d \in Callers, Call(d) \/ Step(d) \/ PollInterrupted(d)
        PROVE  Asked(c)
    <3>1. CASE d = c
      BY <1>1, <1>2, <1>4, <1>5, <2>2, <3>1
    <3>2. CASE d # c
      BY <1>3, <1>5, <2>2, <3>2
    <3>3. QED
      BY <3>1, <3>2
  <2>3. QED
    BY <1>5, <2>1, <2>2 DEF Next
<1>6. IInv /\ [Next]_vars => \A c \in Callers : Asked(c)
  BY <1>5
<1>7. QED
  BY <1>6, Inductive, PTL DEF Spec, LengthAsAsked

-----------------------------------------------------------------------------
(* A part of a sequence of bytes.                                          *)
LEMMA SubSeqOfBytes ==
  ASSUME NEW s, NEW m \in Int, NEW e \in Int, \A i \in m..e : s[i] \in Byte
  PROVE  /\ SubSeq(s, m, e) \in Seq(Byte)
         /\ Len(SubSeq(s, m, e)) = IF m <= e THEN e - m + 1 ELSE 0
         /\ \A i \in 1..(e - m + 1) : SubSeq(s, m, e)[i] = s[m + i - 1]
BY SubSeqProperties

(* What follows t in s is d, as a function and cut anywhere.               *)
LEMMA Slice ==
  ASSUME NEW t \in Seq(Byte), NEW d \in Seq(Byte), NEW r \in Seq(Byte),
         NEW l \in Seq(Byte), NEW s, s = ((t \o d) \o r) \o l
  PROVE  /\ Len(t) \in Nat /\ Len(d) \in Nat /\ Len(s) \in Nat
         /\ Len(t) + Len(d) <= Len(s)
         /\ \A i \in 1..Len(d) : s[Len(t) + i] = d[i]
         /\ \A k \in 0..Len(d) :
              SubSeq(d, 1, k) = SubSeq(s, Len(t) + 1, Len(t) + k)
<1>1. PICK a \in Seq(Byte) : a = t \o d
  BY ConcatType
<1>2. PICK b \in Seq(Byte) : b = a \o r
  BY ConcatType
<1>3. s \in Seq(Byte) /\ s = b \o l
  BY <1>1, <1>2, ConcatType
<1>4. /\ Len(t) \in Nat /\ Len(d) \in Nat /\ Len(r) \in Nat /\ Len(l) \in Nat
      /\ Len(a) \in Nat /\ Len(b) \in Nat /\ Len(s) \in Nat
  BY <1>3, LenProperties
<1>5. /\ Len(a) = Len(t) + Len(d) /\ Len(b) = Len(a) + Len(r)
      /\ Len(s) = Len(b) + Len(l)
  BY <1>1, <1>2, <1>3, ConcatProperties
<1>6. ASSUME NEW i \in 1..Len(d)
      PROVE  s[Len(t) + i] = d[i]
  <2>1. a[Len(t) + i] = d[i]
    <3>1. /\ Len(t) + i \in 1..(Len(t) + Len(d)) /\ ~(Len(t) + i <= Len(t))
          /\ Len(t) + i - Len(t) = i
      BY <1>4
    <3>2. QED
      BY <1>1, <3>1, ConcatProperties
  <2>2. b[Len(t) + i] = a[Len(t) + i]
    <3>1. Len(t) + i \in 1..(Len(a) + Len(r)) /\ Len(t) + i <= Len(a)
      BY <1>4, <1>5
    <3>2. QED
      BY <1>2, <3>1, ConcatProperties
  <2>3. s[Len(t) + i] = b[Len(t) + i]
    <3>1. Len(t) + i \in 1..(Len(b) + Len(l)) /\ Len(t) + i <= Len(b)
      BY <1>4, <1>5
    <3>2. QED
      BY <1>3, <3>1, ConcatProperties
  <2>4. QED
    BY <2>1, <2>2, <2>3
<1>7. ASSUME NEW k \in 0..Len(d)
      PROVE  SubSeq(d, 1, k) = SubSeq(s, Len(t) + 1, Len(t) + k)
  <2> DEFINE u == SubSeq(s, Len(t) + 1, Len(t) + k)
             p == SubSeq(d, 1, k)
  <2>1. \A i \in (Len(t) + 1)..(Len(t) + k) : s[i] \in Byte
    <3>1. \A i \in (Len(t) + 1)..(Len(t) + k) : i \in 1..Len(s)
      BY <1>4, <1>5
    <3>2. QED
      BY <1>3, <3>1, ElementOfSeq
  <2>2. \A i \in 1..k : d[i] \in Byte
    <3>1. \A i \in 1..k : i \in 1..Len(d)
      BY <1>4
    <3>2. QED
      BY <3>1, ElementOfSeq
  <2>3. k \in Int
    BY <1>4
  <2>4. /\ u \in Seq(Byte)
        /\ Len(u) = IF Len(t) + 1 <= Len(t) + k
                      THEN (Len(t) + k) - (Len(t) + 1) + 1 ELSE 0
        /\ \A i \in 1..((Len(t) + k) - (Len(t) + 1) + 1) :
             u[i] = s[Len(t) + 1 + i - 1]
    <3>1. PICK m \in Int : m = Len(t) + 1
      BY <1>4
    <3>2. PICK e \in Int : e = Len(t) + k
      BY <1>4, <2>3
    <3>3. \A i \in m..e : s[i] \in Byte
      BY <2>1, <3>1, <3>2
    <3>4. /\ SubSeq(s, m, e) \in Seq(Byte)
          /\ Len(SubSeq(s, m, e)) = IF m <= e THEN e - m + 1 ELSE 0
          /\ \A i \in 1..(e - m + 1) : SubSeq(s, m, e)[i] = s[m + i - 1]
      BY <3>3, SubSeqOfBytes
    <3>5. QED
      BY <3>1, <3>2, <3>4, Zenon
  <2>5. /\ p \in Seq(Byte) /\ Len(p) = (IF 1 <= k THEN k - 1 + 1 ELSE 0)
        /\ \A i \in 1..(k - 1 + 1) : p[i] = d[1 + i - 1]
    BY <2>2, <2>3, SubSeqProperties
  <2> HIDE DEF u, p
  <2>6. Len(u) = k /\ Len(p) = k
    BY <1>4, <2>4, <2>5
  <2>7. ASSUME NEW i \in 1..k PROVE p[i] = u[i]
    <3>1. /\ i \in 1..((Len(t) + k) - (Len(t) + 1) + 1)
          /\ i \in 1..(k - 1 + 1) /\ i \in 1..Len(d)
          /\ Len(t) + 1 + i - 1 = Len(t) + i /\ 1 + i - 1 = i
      BY <1>4
    <3>2. QED
      BY <1>6, <2>4, <2>5, <3>1
  <2>8. p = u
    <3>1. Len(p) = Len(u) /\ \A i \in 1..Len(p) : p[i] = u[i]
      BY <2>6, <2>7
    <3>2. p \in Seq(Byte) /\ u \in Seq(Byte)
      BY <2>4, <2>5
    <3>3. QED
      BY <3>1, <3>2, SeqEqual
  <2>9. QED
    BY <2>8 DEF u, p
<1>8. Len(t) + Len(d) <= Len(s)
  BY <1>4, <1>5
<1>9. QED
  BY <1>4, <1>6, <1>7, <1>8, Zenon

(* A caller that pops takes the next bytes of the stream.                  *)
LEMMA PopIsTake ==
  ASSUME IInv, NEW c \in Callers, Pop(c)
  PROVE  ByteLayer!Take
<1> DEFINE k == PopLength(c)
<1>1. /\ k \in Nat /\ PopFromBuffer(k) /\ BufferInv' /\ sent' = sent
      /\ k <= Len(buffer)
  BY PopTakes
<1>2. given' = given \o SubSeq(buffer, 1, k)
  BY DEF Pop
<1> HIDE DEF k
<1>3. Len(taken) \in Nat /\ Len(taken') = Len(taken) + k
  BY <1>1, PopCounts DEF IInv
<1>4. /\ taken \in Seq(Byte) /\ buffer \in Seq(Byte) /\ inflight \in Seq(Byte)
      /\ lost \in Seq(Byte)
      /\ sent = ((taken \o buffer) \o inflight) \o lost
  BY DEF IInv, BufferInv, BufferTypeOK, SocketTypeOK, BytesConserved
<1>5. /\ Len(buffer) \in Nat /\ Len(sent) \in Nat
      /\ Len(taken) + Len(buffer) <= Len(sent)
      /\ \A i \in 0..Len(buffer) :
           SubSeq(buffer, 1, i) = SubSeq(sent, Len(taken) + 1, Len(taken) + i)
  BY <1>4, Slice
<1>6. SubSeq(buffer, 1, k) = SubSeq(sent, Len(taken) + 1, Len(taken) + k)
  BY <1>1, <1>5
<1>7. Len(taken') \in Len(taken)..Len(sent)
  BY <1>1, <1>3, <1>5
<1>8. QED
  BY <1>1, <1>2, <1>3, <1>6, <1>7 DEF ByteLayer!Take

(* A turn of readUntilDelimiter that finds a delimiter takes the next line *)
(* of the stream; one that does not hands out nothing.                     *)
LEMMA ScanIsTakeLine ==
  ASSUME IInv, NEW c \in Callers, NEW n, Scan(c, n)
  PROVE  ByteLayer!TakeLine \/ UNCHANGED ByteLayer!vars
<1> DEFINE h == SubSeq(inflight, 1, n)
           r == SubSeq(inflight, n + 1, Len(inflight))
           data == buffer \o h
           k == FirstDelimiter(data)
<1>1. /\ taken \in Seq(Byte) /\ buffer \in Seq(Byte) /\ inflight \in Seq(Byte)
      /\ lost \in Seq(Byte)
      /\ sent = ((taken \o buffer) \o inflight) \o lost
  BY DEF IInv, BufferInv, BufferTypeOK, SocketTypeOK, BytesConserved
<1>2. n \in 0..Len(inflight)
  <2>1. Len(buffer) \in Nat /\ Len(inflight) \in Nat
    BY <1>1, LenProperties
  <2>2. QED
    BY <2>1, BufferSizeAssumption DEF Scan, ReadReturns, Space
<1>3. h \in Seq(Byte) /\ r \in Seq(Byte)
  BY <1>1, <1>2, Cut
<1>4. data \in Seq(Byte)
  BY <1>1, <1>3, ConcatType
<1>5. (taken \o buffer) \o inflight = (taken \o data) \o r
  BY <1>2, ReadMoves DEF IInv
<1>6. sent' = sent
  BY DEF Scan
<1>7. CASE Delimiters(data) = {}
  BY <1>6, <1>7 DEF Scan, ByteLayer!vars
<1>8. CASE Delimiters(data) # {}
  <2>1. /\ taken' = taken \o SubSeq(data, 1, k)
        /\ given' = given \o SubSeq(data, 1, k - 1)
    BY <1>8 DEF Scan
  <2>2. /\ k \in 1..Len(data) /\ data[k] = Delimiter
        /\ \A j \in 1..Len(data) : data[j] = Delimiter => k <= j
    BY <1>4, <1>8, FirstDelimiterExists
  <2> HIDE DEF k, data, h, r
  <2>3. sent = ((taken \o data) \o r) \o lost
    BY <1>1, <1>5, Zenon
  <2>4. /\ Len(taken) \in Nat /\ Len(data) \in Nat /\ Len(sent) \in Nat
        /\ Len(taken) + Len(data) <= Len(sent)
        /\ \A i \in 1..Len(data) : sent[Len(taken) + i] = data[i]
        /\ \A i \in 0..Len(data) :
             SubSeq(data, 1, i) = SubSeq(sent, Len(taken) + 1, Len(taken) + i)
    <3>1. taken \in Seq(Byte) /\ lost \in Seq(Byte)
      BY <1>1
    <3>2. PICK w \in Seq(Byte) : w = r
      BY <1>3
    <3>3. PICK v \in Seq(Byte) : v = data
      BY <1>4
    <3>4. sent = ((taken \o v) \o w) \o lost
      BY <2>3, <3>2, <3>3
    <3>5. /\ Len(taken) \in Nat /\ Len(v) \in Nat /\ Len(sent) \in Nat
          /\ Len(taken) + Len(v) <= Len(sent)
          /\ \A i \in 1..Len(v) : sent[Len(taken) + i] = v[i]
          /\ \A i \in 0..Len(v) :
               SubSeq(v, 1, i) = SubSeq(sent, Len(taken) + 1, Len(taken) + i)
      BY <3>1, <3>4, Slice
    <3>6. QED
      BY <3>3, <3>5
  <2>5. k \in 0..Len(data) /\ k - 1 \in 0..Len(data) /\ k \in Nat
    BY <2>2, <2>4
  <2>6. Len(taken') = Len(taken) + k
    <3>1. SubSeq(data, 1, k) \in Seq(Byte) /\ Len(SubSeq(data, 1, k)) = k
      BY <1>4, <2>5, Cut
    <3>2. QED
      BY <1>1, <2>1, <3>1, ConcatProperties
  <2>7. Len(taken') \in (Len(taken) + 1)..Len(sent)
    BY <2>2, <2>4, <2>5, <2>6
  <2>8. Len(taken') - 1 = Len(taken) + (k - 1)
    BY <2>4, <2>5, <2>6
  <2>9. given' = given \o SubSeq(sent, Len(taken) + 1, Len(taken') - 1)
    BY <2>1, <2>4, <2>5, <2>8
  <2>10. ASSUME NEW i \in (Len(taken) + 1)..Len(taken')
         PROVE  sent[i] = Delimiter <=> i = Len(taken')
    <3>1. PICK j \in 1..k : i = Len(taken) + j
      <4>1. i - Len(taken) \in 1..k /\ i = Len(taken) + (i - Len(taken))
        BY <2>4, <2>5, <2>6
      <4>2. QED
        BY <4>1
    <3>2. j \in 1..Len(data) /\ j \in Nat /\ j <= k
      BY <2>4, <2>5
    <3>3. sent[i] = data[j]
      BY <2>4, <3>1, <3>2
    <3>4. data[j] = Delimiter <=> j = k
      BY <2>2, <2>5, <3>2
    <3>5. i = Len(taken') <=> j = k
      <4>1. Len(taken) \in Nat /\ k \in Nat
        BY <2>4, <2>5
      <4>2. QED
        BY <2>6, <3>1, <3>2, <4>1
    <3>6. QED
      BY <3>3, <3>4, <3>5
  <2>11. ByteLayer!TakeLine
    BY <1>6, <2>7, <2>9, <2>10 DEF ByteLayer!TakeLine
  <2>12. QED
    BY <2>11
<1>9. QED
  BY <1>7, <1>8

(* The buffer implements the abstract byte stream, also when calls         *)
(* overlap: a byte the peer sends is Send, a call of read that pops is     *)
(* Take, a readUntilDelimiter that finds a delimiter is TakeLine, and      *)
(* every other step changes nothing there.                                 *)
THEOREM ByteStreamIsImplemented == Spec => ImplementsByteStream
<1>1. Init => ByteLayer!Init
  BY EmptySeq DEF Init, SocketInit, BufferInit, ByteLayer!Init
<1>2. ASSUME IInv, [Next]_vars
      PROVE  [ByteLayer!Next]_(ByteLayer!vars)
  <2>1. ASSUME NEW b \in Byte, PeerSend(b), taken' = taken, given' = given
        PROVE  ByteLayer!Send
    BY <2>1 DEF PeerSend, ByteLayer!Send
  <2>2. CASE PeerStep
    <3>1. taken' = taken /\ given' = given
      BY <2>2 DEF PeerStep, bufferVars, historyVars
    <3>2. CASE PeerClose \/ PeerReset
      BY <3>1, <3>2 DEF PeerClose, PeerReset, ByteLayer!vars
    <3>3. QED
      BY <2>1, <2>2, <3>1, <3>2 DEF PeerStep, Peer, ByteLayer!Next
  <2>3. CASE stopReads \/ UNCHANGED vars
    BY <2>3 DEF stopReads, StreamStopReads, vars, socketVars, bufferVars,
                historyVars, ByteLayer!vars
  <2>4. ASSUME NEW c \in Callers, Call(c) \/ Step(c) \/ PollInterrupted(c)
        PROVE  \/ UNCHANGED ByteLayer!vars
               \/ Pop(c) \/ \E n \in 1..BufferSize : Scan(c, n)
    <3>1. CASE Call(c)
      BY <3>1 DEF Call, CallRead, CallReadInto, CallReadUntilDelimiter,
                  socketVars, bufferVars, ByteLayer!vars
    <3>2. CASE Check(c) \/ Lock(c) \/ PopThrows(c) \/ Spoil(c)
               \/ PollInterrupted(c)
      BY <3>2 DEF Check, Lock, PopThrows, Spoil, PollInterrupted, socketVars,
                  bufferVars, historyVars, ByteLayer!vars
    <3>3. ASSUME NEW n, Fill(c, n)
          PROVE  UNCHANGED ByteLayer!vars
      BY <3>3 DEF Fill, readAvailableDataIntoBuffer, historyVars,
                  ByteLayer!vars
    <3>4. ASSUME NEW ex, FillThrows(c, ex) \/ ScanThrows(c, ex)
          PROVE  UNCHANGED ByteLayer!vars
      BY <3>4 DEF FillThrows, ScanThrows, socketVars, bufferVars,
                  historyVars, ByteLayer!vars
    <3>5. QED
      BY <2>4, <3>1, <3>2, <3>3, <3>4 DEF Step
  <2>5. QED
    BY <1>2, <2>2, <2>3, <2>4, PopIsTake, ScanIsTakeLine
       DEF Next, ByteLayer!Next
<1>3. QED
  BY <1>1, <1>2, Inductive, PTL
     DEF Spec, ImplementsByteStream, ByteLayer!Spec
=============================================================================
