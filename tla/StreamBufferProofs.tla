------------------------- MODULE StreamBufferProofs -------------------------
(***************************************************************************)
(* What every step on the socket and the buffer preserves, for every set   *)
(* of bytes and every buffer size.  The two users of the buffer,           *)
(* BufferedStream and ConditionalBufferedStream, cite these lemmas.        *)
(***************************************************************************)
EXTENDS StreamBuffer, SequenceTheorems, TLAPS

(* Sequences of bytes: concatenation is associative, and cutting a         *)
(* sequence in two loses nothing.                                          *)
LEMMA Assoc == \A x, y, z \in Seq(Byte) : (x \o y) \o z = x \o (y \o z)
BY ConcatAssociative

(* Concatenation stays within sequences of bytes.                          *)
LEMMA ConcatType == \A x, y \in Seq(Byte) : x \o y \in Seq(Byte)
BY ConcatProperties

(* The empty sequence is neutral on the right.                             *)
LEMMA ConcatEmpty == \A s \in Seq(Byte) : s \o << >> = s
BY ConcatEmptySeq

(* A sequence is the concatenation of its first n elements and the rest.   *)
LEMMA Cut ==
  ASSUME NEW s \in Seq(Byte), NEW k \in 0..Len(s)
  PROVE  /\ SubSeq(s, 1, k) \in Seq(Byte)
         /\ SubSeq(s, k + 1, Len(s)) \in Seq(Byte)
         /\ Len(SubSeq(s, 1, k)) = k
         /\ Len(SubSeq(s, k + 1, Len(s))) = Len(s) - k
         /\ SubSeq(s, 1, k) \o SubSeq(s, k + 1, Len(s)) = s
<1>1. Len(s) \in Nat /\ \A i \in 1..Len(s) : s[i] \in Byte
  BY LenProperties, ElementOfSeq
<1>2. /\ SubSeq(s, 1, k) \in Seq(Byte)
      /\ Len(SubSeq(s, 1, k)) = k
  <2>1. \A i \in 1..k : s[i] \in Byte
    BY <1>1
  <2>2. QED
    BY <1>1, <2>1, SubSeqProperties
<1>3. /\ SubSeq(s, k + 1, Len(s)) \in Seq(Byte)
      /\ Len(SubSeq(s, k + 1, Len(s))) = Len(s) - k
  <2>1. \A i \in (k + 1)..Len(s) : s[i] \in Byte
    BY <1>1
  <2>2. k + 1 \in Int /\ Len(s) \in Int
    BY <1>1
  <2>3. QED
    BY <1>1, <2>1, <2>2, SubSeqProperties
<1>4. SubSeq(s, 1, k) \o SubSeq(s, k + 1, Len(s)) = s
  <2>1. /\ 1 \in 1..(Len(s) + 1)
        /\ k \in (1 - 1)..Len(s)
        /\ Len(s) \in k..Len(s)
    BY <1>1
  <2>2. SubSeq(s, 1, k) \o SubSeq(s, k + 1, Len(s)) = SubSeq(s, 1, Len(s))
    BY <2>1, ConcatAdjacentSubSeq
  <2>3. QED
    BY <2>2, SubSeqFull
<1>5. QED
  BY <1>2, <1>3, <1>4

(* The four places of a byte, and the runs of bytes that move from one to  *)
(* the next: queue to buffer, buffer to caller, queue to lost, and a byte  *)
(* that enters the queue while nothing is lost.                            *)
LEMMA MoveToBuffer ==
  ASSUME NEW t \in Seq(Byte), NEW b \in Seq(Byte), NEW i \in Seq(Byte),
         NEW n \in 0..Len(i)
  PROVE  (t \o b) \o i
           = (t \o (b \o SubSeq(i, 1, n))) \o SubSeq(i, n + 1, Len(i))
<1> DEFINE h == SubSeq(i, 1, n)
           r == SubSeq(i, n + 1, Len(i))
<1>1. h \in Seq(Byte) /\ r \in Seq(Byte)
  BY Cut
<1>2. h \o r = i
  BY Cut
<1> HIDE DEF h, r
<1>3. t \o b \in Seq(Byte)
  BY ConcatType, Zenon
<1>4. (t \o b) \o (h \o r) = ((t \o b) \o h) \o r
  BY <1>1, <1>3, Assoc, Zenon
<1>5. (t \o b) \o h = t \o (b \o h)
  BY <1>1, Assoc, Zenon
<1>6. (t \o b) \o i = (t \o (b \o h)) \o r
  BY <1>2, <1>4, <1>5, Zenon
<1>7. QED
  BY <1>6 DEF h, r

(* Bytes popped from the buffer move to the end of taken.                  *)
LEMMA MoveToTaken ==
  ASSUME NEW t \in Seq(Byte), NEW b \in Seq(Byte), NEW n \in 0..Len(b)
  PROVE  t \o b = (t \o SubSeq(b, 1, n)) \o SubSeq(b, n + 1, Len(b))
<1> DEFINE h == SubSeq(b, 1, n)
           r == SubSeq(b, n + 1, Len(b))
<1>1. h \in Seq(Byte) /\ r \in Seq(Byte)
  BY Cut
<1>2. h \o r = b
  BY Cut
<1> HIDE DEF h, r
<1>3. t \o (h \o r) = (t \o h) \o r
  BY <1>1, Assoc, Zenon
<1>4. t \o b = (t \o h) \o r
  BY <1>2, <1>3, Zenon
<1>5. QED
  BY <1>4 DEF h, r

(* Bytes in flight that a reset drops move to lost.                        *)
LEMMA MoveToLost ==
  ASSUME NEW t \in Seq(Byte), NEW b \in Seq(Byte), NEW i \in Seq(Byte),
         NEW n \in 0..Len(i)
  PROVE  ((t \o b) \o i) \o << >>
           = ((t \o b) \o SubSeq(i, 1, n)) \o SubSeq(i, n + 1, Len(i))
<1> DEFINE h == SubSeq(i, 1, n)
           r == SubSeq(i, n + 1, Len(i))
<1>1. h \in Seq(Byte) /\ r \in Seq(Byte)
  BY Cut
<1>2. h \o r = i
  BY Cut
<1> HIDE DEF h, r
<1>3. t \o b \in Seq(Byte)
  BY ConcatType, Zenon
<1>4. (t \o b) \o i \in Seq(Byte)
  BY <1>3, ConcatType, Zenon
<1>5. ((t \o b) \o i) \o << >> = (t \o b) \o i
  BY <1>4, ConcatEmpty, Zenon
<1>6. (t \o b) \o (h \o r) = ((t \o b) \o h) \o r
  BY <1>1, <1>3, Assoc, Zenon
<1>7. ((t \o b) \o i) \o << >> = ((t \o b) \o h) \o r
  BY <1>2, <1>5, <1>6, Zenon
<1>8. QED
  BY <1>7 DEF h, r

(* A byte the peer sends is appended both to sent and to inflight.         *)
LEMMA SendAppends ==
  ASSUME NEW t \in Seq(Byte), NEW b \in Seq(Byte), NEW i \in Seq(Byte),
         NEW x \in Byte
  PROVE  Append(((t \o b) \o i) \o << >>, x)
           = ((t \o b) \o Append(i, x)) \o << >>
<1>1. t \o b \in Seq(Byte)
  BY ConcatType, Zenon
<1>2. Append(i, x) \in Seq(Byte)
  BY AppendProperties
<1>3. <<x>> \in Seq(Byte)
  OBVIOUS
<1>4. (t \o b) \o i \in Seq(Byte)
  BY <1>1, ConcatType, Zenon
<1>5. (t \o b) \o Append(i, x) \in Seq(Byte)
  BY <1>1, <1>2, ConcatType, Zenon
<1>6. /\ ((t \o b) \o i) \o << >> = (t \o b) \o i
      /\ ((t \o b) \o Append(i, x)) \o << >> = (t \o b) \o Append(i, x)
  BY <1>4, <1>5, ConcatEmpty, Zenon
<1>7. \A s \in Seq(Byte) : Append(s, x) = s \o <<x>>
  BY AppendIsConcat
<1>8. ((t \o b) \o i) \o <<x>> = (t \o b) \o (i \o <<x>>)
  BY <1>1, <1>3, Assoc, Zenon
<1>9. QED
  BY <1>4, <1>6, <1>7, <1>8, Zenon

-----------------------------------------------------------------------------
(* Only a reset loses bytes, and nothing is sent after one.                *)
LostByReset == lost # << >> => peer = "reset"

(* The types, the buffer bound and the conservation of bytes: inductive    *)
(* together with LostByReset.                                              *)
BufferInv == SocketTypeOK /\ BufferTypeOK /\ BytesConserved /\ LostByReset

(* Stream::read returns bytes to readAvailableDataIntoBuffer: they go to   *)
(* the end of the buffer, which does not overflow.                         *)
LEMMA FillPreserves ==
  ASSUME BufferInv, NEW n, readAvailableDataIntoBuffer(n)
  PROVE  BufferInv'
<1>1. /\ inflight \in Seq(Byte) /\ buffer \in Seq(Byte)
      /\ taken \in Seq(Byte)
  BY DEF BufferInv, SocketTypeOK, BufferTypeOK
<1>2. /\ n \in 0..Len(inflight) /\ n + Len(buffer) <= BufferSize
  <2>1. Len(buffer) \in Nat /\ Len(inflight) \in Nat
    BY <1>1, LenProperties
  <2>2. QED
    BY <2>1, BufferSizeAssumption
       DEF readAvailableDataIntoBuffer, ReadReturns, Space
<1>3. /\ buffer' = buffer \o SubSeq(inflight, 1, n)
      /\ inflight' = SubSeq(inflight, n + 1, Len(inflight))
      /\ sent' = sent /\ lost' = lost /\ taken' = taken
      /\ peer' = peer /\ stop' = stop
  BY DEF readAvailableDataIntoBuffer
<1>4. /\ SubSeq(inflight, 1, n) \in Seq(Byte)
      /\ Len(SubSeq(inflight, 1, n)) = n
      /\ inflight' \in Seq(Byte)
  BY <1>1, <1>2, <1>3, Cut
<1>5. buffer' \in Seq(Byte) /\ Len(buffer') = Len(buffer) + n
  BY <1>1, <1>3, <1>4, ConcatProperties
<1>6. SocketTypeOK'
  BY <1>3, <1>4 DEF BufferInv, SocketTypeOK
<1>7. BufferTypeOK'
  <2>1. Len(buffer') <= BufferSize
    BY <1>1, <1>2, <1>5, LenProperties
  <2>2. QED
    BY <1>3, <1>5, <2>1 DEF BufferInv, BufferTypeOK
<1>8. BytesConserved'
  <2>1. (taken \o buffer) \o inflight = (taken \o buffer') \o inflight'
    BY <1>1, <1>2, <1>3, MoveToBuffer, Zenon
  <2>2. sent = ((taken \o buffer) \o inflight) \o lost
    BY DEF BufferInv, BytesConserved
  <2>3. QED
    BY <1>3, <2>1, <2>2, Zenon DEF BytesConserved
<1>9. LostByReset'
  BY <1>3 DEF BufferInv, LostByReset
<1>10. QED
  BY <1>6, <1>7, <1>8, <1>9 DEF BufferInv

(* PopFromBuffer moves a prefix of the buffer to the caller.               *)
LEMMA PopPreserves ==
  ASSUME BufferInv, NEW n \in Nat, PopFromBuffer(n)
  PROVE  BufferInv'
<1>1. buffer \in Seq(Byte) /\ taken \in Seq(Byte)
  BY DEF BufferInv, BufferTypeOK
<1>2. n \in 0..Len(buffer)
  BY <1>1, LenProperties DEF PopFromBuffer
<1>3. /\ taken' = taken \o SubSeq(buffer, 1, n)
      /\ buffer' = SubSeq(buffer, n + 1, Len(buffer))
      /\ sent' = sent /\ lost' = lost /\ inflight' = inflight
      /\ peer' = peer /\ stop' = stop
  BY DEF PopFromBuffer, socketVars
<1>4. /\ SubSeq(buffer, 1, n) \in Seq(Byte)
      /\ buffer' \in Seq(Byte)
      /\ Len(buffer') = Len(buffer) - n
  BY <1>1, <1>2, <1>3, Cut
<1>5. taken' \in Seq(Byte)
  BY <1>1, <1>3, <1>4, ConcatType
<1>6. SocketTypeOK'
  BY <1>3 DEF BufferInv, SocketTypeOK
<1>7. BufferTypeOK'
  <2>1. Len(buffer') <= BufferSize
    BY <1>1, <1>2, <1>4, LenProperties, BufferSizeAssumption
       DEF BufferInv, BufferTypeOK
  <2>2. QED
    BY <1>4, <1>5, <2>1 DEF BufferTypeOK
<1>8. BytesConserved'
  <2>1. taken \o buffer = taken' \o buffer'
    BY <1>1, <1>2, <1>3, MoveToTaken, Zenon
  <2>2. sent = ((taken \o buffer) \o inflight) \o lost
    BY DEF BufferInv, BytesConserved
  <2>3. QED
    BY <1>3, <2>1, <2>2, Zenon DEF BytesConserved
<1>9. LostByReset'
  BY <1>3 DEF BufferInv, LostByReset
<1>10. QED
  BY <1>6, <1>7, <1>8, <1>9 DEF BufferInv

(* The peer sends, closes or resets; a reset turns a suffix of the queue   *)
(* into lost bytes.                                                        *)
LEMMA PeerPreserves ==
  ASSUME BufferInv, Peer, UNCHANGED bufferVars
  PROVE  BufferInv'
<1>1. /\ inflight \in Seq(Byte) /\ buffer \in Seq(Byte)
      /\ taken \in Seq(Byte)
  BY DEF BufferInv, SocketTypeOK, BufferTypeOK
<1>2. /\ buffer' = buffer /\ taken' = taken
      /\ BufferTypeOK'
  BY DEF BufferInv, BufferTypeOK, bufferVars
<1>3. sent = ((taken \o buffer) \o inflight) \o lost
  BY DEF BufferInv, BytesConserved
<1>4. ASSUME peer = "open" PROVE lost = << >>
  BY <1>4 DEF BufferInv, LostByReset
<1>5. ASSUME NEW x \in Byte, PeerSend(x)
      PROVE  BufferInv'
  <2>1. /\ sent' = Append(sent, x) /\ inflight' = Append(inflight, x)
        /\ lost' = << >> /\ lost = << >> /\ peer' = peer /\ stop' = stop
    BY <1>4, <1>5 DEF PeerSend
  <2>2. sent' \in Seq(Byte) /\ inflight' \in Seq(Byte)
    BY <1>1, <2>1, AppendProperties DEF BufferInv, SocketTypeOK
  <2>3. SocketTypeOK'
    BY <2>1, <2>2 DEF BufferInv, SocketTypeOK
  <2>4. Append(((taken \o buffer) \o inflight) \o << >>, x)
          = ((taken \o buffer) \o Append(inflight, x)) \o << >>
    BY <1>1, SendAppends, Zenon
  <2>5. BytesConserved'
    BY <1>2, <1>3, <2>1, <2>4, Zenon DEF BytesConserved
  <2>6. LostByReset'
    BY <2>1 DEF LostByReset
  <2>7. QED
    BY <1>2, <2>3, <2>5, <2>6 DEF BufferInv
<1>6. CASE PeerClose
  <2>1. /\ sent' = sent /\ inflight' = inflight /\ lost' = lost
        /\ stop' = stop /\ peer' = "closed" /\ lost = << >>
    BY <1>4, <1>6 DEF PeerClose
  <2>2. SocketTypeOK'
    BY <2>1 DEF BufferInv, SocketTypeOK, PeerStates
  <2>3. BytesConserved' /\ LostByReset'
    BY <1>2, <1>3, <2>1, Zenon DEF BytesConserved, LostByReset
  <2>4. QED
    BY <1>2, <2>2, <2>3 DEF BufferInv
<1>7. CASE PeerReset
  <2>1. PICK k \in 0..Len(inflight) :
          /\ inflight' = SubSeq(inflight, 1, k)
          /\ lost' = SubSeq(inflight, k + 1, Len(inflight))
    BY <1>7 DEF PeerReset
  <2>2. /\ sent' = sent /\ stop' = stop /\ peer' = "reset" /\ lost = << >>
    BY <1>4, <1>7 DEF PeerReset
  <2>3. inflight' \in Seq(Byte) /\ lost' \in Seq(Byte)
    BY <1>1, <2>1, Cut
  <2>4. SocketTypeOK'
    BY <2>2, <2>3 DEF BufferInv, SocketTypeOK, PeerStates
  <2>5. ((taken \o buffer) \o inflight) \o << >>
          = ((taken \o buffer) \o inflight') \o lost'
    BY <1>1, <2>1, MoveToLost, Zenon
  <2>6. BytesConserved'
    BY <1>2, <1>3, <2>2, <2>5, Zenon DEF BytesConserved
  <2>7. LostByReset'
    BY <2>2 DEF LostByReset
  <2>8. QED
    BY <1>2, <2>4, <2>6, <2>7 DEF BufferInv
<1>8. QED
  BY <1>5, <1>6, <1>7 DEF Peer

(* stopReads writes the stop event only.                                   *)
LEMMA StopPreserves ==
  ASSUME BufferInv, StreamStopReads, UNCHANGED bufferVars
  PROVE  BufferInv'
BY DEF BufferInv, SocketTypeOK, BufferTypeOK, BytesConserved, LostByReset,
       StreamStopReads, bufferVars

(* A step that leaves the buffer and the socket alone keeps BufferInv.     *)
LEMMA StutterPreserves ==
  ASSUME BufferInv, UNCHANGED <<socketVars, bufferVars>>
  PROVE  BufferInv'
BY DEF BufferInv, SocketTypeOK, BufferTypeOK, BytesConserved, LostByReset,
       socketVars, bufferVars

(* BufferInv holds initially.                                              *)
LEMMA InitEstablishes ==
  ASSUME SocketInit, BufferInit
  PROVE  BufferInv
<1>1. /\ << >> \in Seq(Byte) /\ Len(<< >>) = 0
      /\ ((<< >> \o << >>) \o << >>) \o << >> = << >>
  BY EmptySeq, ConcatEmpty
<1>2. SocketTypeOK
  BY <1>1 DEF SocketTypeOK, SocketInit, PeerStates
<1>3. BufferTypeOK
  BY <1>1, BufferSizeAssumption DEF BufferTypeOK, BufferInit
<1>4. BytesConserved /\ LostByReset
  BY <1>1, Zenon DEF BytesConserved, LostByReset, SocketInit, BufferInit
<1>5. QED
  BY <1>2, <1>3, <1>4 DEF BufferInv
=============================================================================
