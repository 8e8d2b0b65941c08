-------------------------- MODULE StreamReadProofs --------------------------
(***************************************************************************)
(* Proofs about Stream::read for every set of threads, every set of bytes  *)
(* and lengths, and every number of calls.                                 *)
(***************************************************************************)
EXTENDS StreamRead, SequenceTheorems, FiniteSetTheorems, TLAPS

InTurn(t) == pc[t] \in {"poll", "receive"}

(* The mutex is held by the thread that polls or reads, and by no other.   *)
MutexHeld == \A t \in Threads : InTurn(t) => mtx = {t}

(* A call in progress has less than its minimum and no outcome yet.        *)
InProgress ==
  \A t \in Threads :
    pc[t] # "idle" => result[t] = "none" /\ Len(got[t]) < args[t].min

(* The queue holds the bytes of the stream that follow those received.     *)
QueueFollows ==
  /\ Len(sent) = Len(owner) + Len(inflight) + Len(lost)
  /\ \A i \in 1..Len(inflight) : inflight[i] = sent[Len(owner) + i]
  /\ peer = "open" => lost = << >>

IInv ==
  /\ TypeOK
  /\ MutexHeld /\ ReadNeverBlocks
  /\ InProgress /\ ExceptionsAreDue
  /\ QueueFollows /\ BufferHoldsStream

-----------------------------------------------------------------------------
(* Cutting a sequence in two.                                              *)
LEMMA CutProperties ==
  ASSUME NEW S, NEW s \in Seq(S), NEW n \in 0..Len(s)
  PROVE  /\ SubSeq(s, 1, n) \in Seq(S) /\ Len(SubSeq(s, 1, n)) = n
         /\ \A i \in 1..n : SubSeq(s, 1, n)[i] = s[i]
         /\ SubSeq(s, n + 1, Len(s)) \in Seq(S)
         /\ Len(SubSeq(s, n + 1, Len(s))) = Len(s) - n
         /\ \A i \in 1..(Len(s) - n) :
              SubSeq(s, n + 1, Len(s))[i] = s[n + i]
<1>1. Len(s) \in Nat /\ \A i \in 1..Len(s) : s[i] \in S
  BY LenProperties, ElementOfSeq
<1>2. /\ SubSeq(s, 1, n) \in Seq(S) /\ Len(SubSeq(s, 1, n)) = n
      /\ \A i \in 1..n : SubSeq(s, 1, n)[i] = s[i]
  <2>1. \A i \in 1..n : s[i] \in S
    BY <1>1
  <2>2. QED
    BY <1>1, <2>1, SubSeqProperties
<1>3. /\ SubSeq(s, n + 1, Len(s)) \in Seq(S)
      /\ Len(SubSeq(s, n + 1, Len(s))) = Len(s) - n
      /\ \A i \in 1..(Len(s) - n) : SubSeq(s, n + 1, Len(s))[i] = s[n + i]
  <2>1. \A i \in (n + 1)..Len(s) : s[i] \in S
    BY <1>1
  <2>2. n + 1 \in Int /\ Len(s) \in Int
    BY <1>1
  <2>3. QED
    BY <1>1, <2>1, <2>2, SubSeqProperties
<1>4. QED
  BY <1>2, <1>3

(* The elements of a concatenation, by their places in it.                 *)
LEMMA JoinProperties ==
  ASSUME NEW S, NEW a \in Seq(S), NEW b \in Seq(S)
  PROVE  /\ a \o b \in Seq(S) /\ Len(a \o b) = Len(a) + Len(b)
         /\ \A i \in 1..Len(a) : (a \o b)[i] = a[i]
         /\ \A i \in (Len(a) + 1)..(Len(a) + Len(b)) :
              (a \o b)[i] = b[i - Len(a)]
<1>1. Len(a) \in Nat /\ Len(b) \in Nat
  BY LenProperties
<1>2. /\ a \o b \in Seq(S) /\ Len(a \o b) = Len(a) + Len(b)
      /\ \A i \in 1..(Len(a) + Len(b)) :
           (a \o b)[i] = IF i <= Len(a) THEN a[i] ELSE b[i - Len(a)]
  BY ConcatProperties
<1>3. QED
  BY <1>1, <1>2

(* A thread is not affected by what other threads and the peer do: its     *)
(* buffer, its outcome and its place stay, bytes that others receive are   *)
(* not its own, and bytes are only added at the end of the stream.         *)
LEMMA BufferFrame ==
  ASSUME IInv, NEW t \in Threads,
         got'[t] = got[t], args'[t].max = args[t].max,
         Mine(t)' = Mine(t),
         \A k \in DOMAIN owner : sent'[k] = sent[k]
  PROVE  /\ Len(got'[t]) <= args'[t].max
         /\ \A j \in DOMAIN got'[t] :
              \E k \in Mine(t)' :
                /\ Len(got'[t]) - j = Cardinality(Behind(t, k)')
                /\ got'[t][j] = sent'[k]
<1>1. \A k : Behind(t, k)' = Behind(t, k)
  BY DEF Behind
<1>2. \A k \in Mine(t) : sent'[k] = sent[k]
  BY DEF Mine
<1>3. QED
  BY <1>1, <1>2 DEF IInv, BufferHoldsStream

(* When neither the caller's buffers nor the bytes received change.        *)
LEMMA BufferKept ==
  ASSUME IInv, UNCHANGED <<got, owner>>,
         \A t \in Threads : args'[t].max = args[t].max,
         \A k \in DOMAIN owner : sent'[k] = sent[k]
  PROVE  BufferHoldsStream'
<1>1. \A t \in Threads : Mine(t)' = Mine(t)
  BY DEF Mine
<1>2. QED
  BY <1>1, BufferFrame DEF BufferHoldsStream

-----------------------------------------------------------------------------
(* ::read returns n bytes: what becomes of the queue and of the buffer of  *)
(* the caller.                                                             *)
LEMMA ReceiveFacts ==
  ASSUME IInv, NEW t \in Threads, NEW n \in 1..MaxSent, Receive(t, n)
  PROVE  /\ n \in 1..Len(inflight) /\ n <= args[t].max - Len(got[t])
         /\ inflight' \in Seq(Byte) /\ Len(inflight') = Len(inflight) - n
         /\ \A i \in 1..(Len(inflight) - n) : inflight'[i] = inflight[n + i]
         /\ got' \in [Threads -> Seq(Byte)]
         /\ \A u \in Threads \ {t} : got'[u] = got[u]
         /\ Len(got'[t]) = Len(got[t]) + n
         /\ \A i \in 1..Len(got[t]) : got'[t][i] = got[t][i]
         /\ \A i \in (Len(got[t]) + 1)..(Len(got[t]) + n) :
              got'[t][i] = inflight[i - Len(got[t])]
<1>1. /\ inflight \in Seq(Byte)
      /\ got \in [Threads -> Seq(Byte)] /\ args[t].max \in Nat
  BY DEF IInv, TypeOK, SocketTypeOK
<1>2. Len(inflight) \in Nat /\ Len(got[t]) \in Nat
  BY <1>1, LenProperties
<1>3. n \in 1..Len(inflight) /\ n <= args[t].max - Len(got[t])
  BY <1>1, <1>2, MaxSentAssumption DEF Receive, ReadReturns, Room
<1>4. /\ inflight' \in Seq(Byte) /\ Len(inflight') = Len(inflight) - n
      /\ \A i \in 1..(Len(inflight) - n) : inflight'[i] = inflight[n + i]
  BY <1>1, <1>2, <1>3, CutProperties DEF Receive
<1>5. /\ got'[t] \in Seq(Byte) /\ Len(got'[t]) = Len(got[t]) + n
      /\ \A i \in 1..Len(got[t]) : got'[t][i] = got[t][i]
      /\ \A i \in (Len(got[t]) + 1)..(Len(got[t]) + n) :
           got'[t][i] = inflight[i - Len(got[t])]
  <2> DEFINE h == SubSeq(inflight, 1, n)
             g == got[t]
             g2 == got'[t]
  <2>1. h \in Seq(Byte) /\ Len(h) = n /\ \A i \in 1..n : h[i] = inflight[i]
    BY <1>1, <1>2, <1>3, CutProperties
  <2>2. g2 = g \o h /\ g \in Seq(Byte) /\ Len(g) \in Nat
    BY <1>1, <1>2 DEF Receive
  <2> HIDE DEF h, g, g2
  <2>3. /\ g2 \in Seq(Byte) /\ Len(g2) = Len(g) + Len(h)
        /\ \A i \in 1..Len(g) : g2[i] = g[i]
        /\ \A i \in (Len(g) + 1)..(Len(g) + Len(h)) : g2[i] = h[i - Len(g)]
    BY <2>1, <2>2, JoinProperties
  <2>4. \A i \in (Len(g) + 1)..(Len(g) + n) : i - Len(g) \in 1..n
    BY <1>3, <2>2
  <2>5. \A i \in (Len(g) + 1)..(Len(g) + n) : g2[i] = inflight[i - Len(g)]
    BY <2>1, <2>3, <2>4
  <2>6. QED
    BY <2>1, <2>3, <2>5 DEF g, g2
<1>6. /\ got' \in [Threads -> Seq(Byte)]
      /\ \A u \in Threads \ {t} : got'[u] = got[u]
  BY <1>1, <1>5 DEF Receive
<1>7. QED
  BY <1>3, <1>4, <1>5, <1>6

(* ::read returns n bytes: the bytes received so far, and whose they are.  *)
LEMMA ReceiveOwners ==
  ASSUME IInv, NEW t \in Threads, NEW n \in 1..MaxSent, Receive(t, n)
  PROVE  /\ owner' \in Seq(Threads) /\ Len(owner') = Len(owner) + n
         /\ Mine(t) \subseteq 1..Len(owner)
         /\ Mine(t)' = Mine(t) \cup (Len(owner) + 1)..(Len(owner) + n)
         /\ \A u \in Threads \ {t} : Mine(u)' = Mine(u)
<1> DEFINE ts == [k \in 1..n |-> t]
           L == Len(owner)
<1>1. owner \in Seq(Threads) /\ L \in Nat /\ n \in Nat
  BY MaxSentAssumption, LenProperties DEF IInv, TypeOK
<1>2. ts \in Seq(Threads) /\ Len(ts) = n /\ \A i \in 1..n : ts[i] = t
  BY <1>1
<1>3. owner' = owner \o ts
  BY DEF Receive
<1> HIDE DEF ts
<1>4. /\ owner' \in Seq(Threads) /\ Len(owner') = L + n
      /\ \A i \in 1..L : owner'[i] = owner[i]
      /\ \A i \in (L + 1)..(L + n) : owner'[i] = ts[i - L]
  BY <1>1, <1>2, <1>3, JoinProperties
<1> HIDE DEF L
<1>5. \A i \in (L + 1)..(L + n) : i - L \in 1..n
  BY <1>1
<1>6. \A i \in (L + 1)..(L + n) : owner'[i] = t
  BY <1>2, <1>4, <1>5
<1>7. DOMAIN owner = 1..L /\ DOMAIN owner' = 1..(L + n)
  BY <1>1, <1>4, LenProperties DEF L
<1>8. 1..(L + n) = (1..L) \cup (L + 1)..(L + n)
  BY <1>1
<1>9. Mine(t) \subseteq 1..L /\ Mine(t)' = Mine(t) \cup (L + 1)..(L + n)
  BY <1>4, <1>6, <1>7, <1>8 DEF Mine
<1>10. \A u \in Threads \ {t} : Mine(u)' = Mine(u)
  BY <1>4, <1>6, <1>7, <1>8 DEF Mine
<1>11. QED
  BY <1>4, <1>9, <1>10 DEF L

(* The bytes received last are the last ones of the thread that received   *)
(* them; those it had before have n more behind them.                      *)
LEMMA ReceiveKeepsOrder ==
  ASSUME IInv, NEW t \in Threads, NEW n \in 1..MaxSent, Receive(t, n)
  PROVE  BufferHoldsStream'
<1> DEFINE L == Len(owner)
           N == Len(got[t])
           New == (L + 1)..(L + n)
<1>1. L \in Nat /\ N \in Nat /\ n \in Nat /\ n > 0
  BY MaxSentAssumption, LenProperties DEF IInv, TypeOK
<1>2. /\ got'[t] \in Seq(Byte) /\ Len(got'[t]) = N + n
      /\ \A i \in 1..N : got'[t][i] = got[t][i]
      /\ \A i \in (N + 1)..(N + n) : got'[t][i] = inflight[i - N]
      /\ n \in 1..Len(inflight) /\ n <= args[t].max - N
      /\ Len(inflight) \in Nat
  BY ReceiveFacts, LenProperties DEF IInv, TypeOK, SocketTypeOK
<1>3. Mine(t) \subseteq 1..L /\ Mine(t)' = Mine(t) \cup New
  BY ReceiveOwners
<1>4. \A u \in Threads \ {t} : Mine(u)' = Mine(u) /\ got'[u] = got[u]
  BY ReceiveFacts, ReceiveOwners
<1>5. UNCHANGED <<sent, args>>
  BY DEF Receive
<1>6. ASSUME NEW u \in Threads, u # t
      PROVE  /\ Len(got'[u]) <= args'[u].max
             /\ \A j \in DOMAIN got'[u] :
                  \E k \in Mine(u)' :
                    /\ Len(got'[u]) - j = Cardinality(Behind(u, k)')
                    /\ got'[u][j] = sent'[k]
  BY <1>4, <1>5, <1>6, BufferFrame
<1>7. Len(got'[t]) <= args'[t].max
  BY <1>1, <1>2, <1>5 DEF IInv, TypeOK
<1>8. ASSUME NEW j \in DOMAIN got'[t]
      PROVE  \E k \in Mine(t)' :
               /\ Len(got'[t]) - j = Cardinality(Behind(t, k)')
               /\ got'[t][j] = sent'[k]
  <2>1. j \in 1..(N + n)
    BY <1>2, LenProperties
  <2>2. CASE j <= N
    <3>1. j \in DOMAIN got[t]
      BY <2>1, <2>2, LenProperties DEF IInv, TypeOK
    <3>2. PICK k \in Mine(t) : /\ N - j = Cardinality(Behind(t, k))
                               /\ got[t][j] = sent[k]
      BY <3>1 DEF IInv, BufferHoldsStream
    <3> DEFINE B == Behind(t, k)
    <3>3. B' = B \cup New /\ B \subseteq 1..L
      BY <1>1, <1>3 DEF Behind
    <3>4. IsFiniteSet(New) /\ Cardinality(New) = n
      <4>1. /\ L + 1 \in Int /\ L + n \in Int /\ ~(L + 1 > L + n)
            /\ (L + n) - (L + 1) + 1 = n
        BY <1>1
      <4>2. QED
        BY <4>1, FS_Interval
    <3>5. IsFiniteSet(B) /\ Cardinality(B) \in Nat
      <4>1. IsFiniteSet(1..L)
        BY <1>1, FS_Interval
      <4>2. IsFiniteSet(B)
        BY <3>3, <4>1, FS_Subset
      <4>3. QED
        BY <4>2, FS_CardinalityType
    <3>6. Cardinality(B \cap New) = 0
      <4>1. B \cap New = {}
        BY <1>1, <3>3
      <4>2. QED
        BY <4>1, FS_EmptySet
    <3> HIDE DEF New
    <3>7. Cardinality(B \cup New)
            = Cardinality(B) + Cardinality(New) - Cardinality(B \cap New)
      BY <3>4, <3>5, FS_Union, Zenon
    <3>8. Cardinality(B \cup New) = Cardinality(B) + n
      BY <1>1, <3>4, <3>5, <3>6, <3>7
    <3>9. (N + n) - j = Cardinality(B')
      BY <1>1, <2>1, <3>2, <3>3, <3>8
    <3>10. got'[t][j] = sent'[k]
      BY <1>2, <1>5, <2>1, <2>2, <3>2
    <3>11. QED
      BY <1>2, <1>3, <3>9, <3>10
  <2>3. CASE j > N
    <3>1. PICK k \in Nat : k = L + (j - N)
      BY <1>1, <2>1, <2>3
    <3> HIDE DEF L, N
    <3>2. j - N \in 1..n /\ j \in (N + 1)..(N + n)
      BY <1>1, <2>1, <2>3
    <3>3. j - N \in 1..Len(inflight)
      BY <1>1, <1>2, <3>2
    <3>4. k \in (L + 1)..(L + n)
      BY <1>1, <3>1, <3>2
    <3>5. Behind(t, k)' = (k + 1)..(L + n)
      <4>1. \A i \in Mine(t) : ~(i > k)
        BY <1>1, <1>3, <3>4
      <4>2. \A i : i \in New /\ i > k <=> i \in (k + 1)..(L + n)
        BY <1>1, <3>4
      <4>3. QED
        BY <1>3, <4>1, <4>2 DEF Behind
    <3>6. Cardinality((k + 1)..(L + n)) = (N + n) - j
      <4>1. k + 1 \in Int /\ L + n \in Int
        BY <1>1, <3>1
      <4>2. Cardinality((k + 1)..(L + n))
              = IF k + 1 > L + n THEN 0 ELSE (L + n) - (k + 1) + 1
        BY <4>1, FS_Interval
      <4>3. QED
        BY <1>1, <2>1, <3>1, <3>2, <4>2
    <3>7. got'[t][j] = sent'[k]
      <4>1. got'[t][j] = inflight[j - N]
        BY <1>2, <3>2
      <4>2. inflight[j - N] = sent[L + (j - N)]
        BY <3>3 DEF IInv, QueueFollows, L
      <4>3. QED
        BY <1>5, <3>1, <4>1, <4>2
    <3>8. k \in Mine(t)'
      BY <1>3, <3>4
    <3>9. QED
      BY <1>2, <3>5, <3>6, <3>7, <3>8
  <2>4. QED
    BY <1>1, <2>1, <2>2, <2>3
<1>9. QED
  BY <1>6, <1>7, <1>8 DEF BufferHoldsStream

-----------------------------------------------------------------------------
(* The control part of the invariant, which does not look at the bytes.    *)
Control == TypeOK /\ MutexHeld /\ ReadNeverBlocks /\ InProgress
             /\ ExceptionsAreDue

(* The initial states satisfy the invariant.                               *)
LEMMA InitInv == Init => IInv
<1> SUFFICES ASSUME Init PROVE IInv
  OBVIOUS
<1> USE DEF Init, SocketInit
<1>1. TypeOK
  <2>1. 0 \in 0..MaxCalls
    BY MaxCallsAssumption
  <2>2. calls \in [Threads -> 0..MaxCalls]
    BY <2>1
  <2>3. args \in [Threads -> [max : Nat, min : Nat, timed : BOOLEAN]]
    OBVIOUS
  <2>4. QED
    BY <2>2, <2>3, EmptySeq DEF TypeOK, SocketTypeOK, PeerStates, Outcome
<1>2. MutexHeld /\ ReadNeverBlocks /\ InProgress /\ ExceptionsAreDue
  BY DEF MutexHeld, InTurn, ReadNeverBlocks, InProgress, ExceptionsAreDue,
         ReadException
<1>3. QueueFollows
  BY EmptySeq DEF QueueFollows
<1>4. BufferHoldsStream
  BY EmptySeq DEF BufferHoldsStream
<1>5. QED
  BY <1>1, <1>2, <1>3, <1>4 DEF IInv

(* The bytes stay where they are when only threads without bytes move.     *)
LEMMA BytesKept ==
  ASSUME IInv, UNCHANGED <<sent, inflight, lost, peer, got, owner>>,
         \A t \in Threads : args'[t].max = args[t].max
  PROVE  QueueFollows' /\ BufferHoldsStream'
BY BufferKept DEF IInv, QueueFollows

(* A call begins.                                                          *)
LEMMA CallInv ==
  ASSUME IInv, NEW t \in Threads, NEW max \in Lengths, NEW min \in Lengths,
         NEW timed \in BOOLEAN, Call(t, max, min, timed)
  PROVE  IInv'
<1>1. max \in Nat /\ min \in Nat
  BY LengthsAssumption
<1>2. got'[t] = << >> /\ Len(<< >>) = 0 /\ DOMAIN << >> = {}
  BY EmptySeq DEF IInv, TypeOK, Call
<1>3. TypeOK'
  <2>1. SocketTypeOK' /\ mtx' = mtx /\ owner' = owner
    BY DEF IInv, TypeOK, SocketTypeOK, Call, socketVars
  <2>2. calls' \in [Threads -> 0..MaxCalls]
    BY MaxCallsAssumption DEF IInv, TypeOK, Call
  <2>3. args' \in [Threads -> [max : Nat, min : Nat, timed : BOOLEAN]]
    BY <1>1 DEF IInv, TypeOK, Call
  <2>4. got' \in [Threads -> Seq(Byte)]
    BY EmptySeq DEF IInv, TypeOK, Call
  <2>5. QED
    BY <2>1, <2>2, <2>3, <2>4 DEF IInv, TypeOK, Call, Goto, Outcome
<1>4. MutexHeld' /\ ReadNeverBlocks'
  BY DEF IInv, TypeOK, Call, Goto, socketVars, MutexHeld, InTurn,
         ReadNeverBlocks, Readable
<1>5. InProgress'
  BY <1>1, <1>2 DEF IInv, TypeOK, Call, Goto, InProgress
<1>6. ExceptionsAreDue'
  BY <1>1, <1>2 DEF IInv, TypeOK, Call, socketVars, ExceptionsAreDue,
                    ReadException
<1>7. QueueFollows'
  BY DEF IInv, Call, socketVars, QueueFollows
<1>8. BufferHoldsStream'
  <2>1. ASSUME NEW u \in Threads, u # t
        PROVE  /\ got'[u] = got[u] /\ args'[u].max = args[u].max
               /\ Mine(u)' = Mine(u)
    BY <2>1 DEF IInv, TypeOK, Call, Mine
  <2>2. \A k \in DOMAIN owner : sent'[k] = sent[k]
    BY DEF Call, socketVars
  <2>3. args'[t].max = max
    BY DEF IInv, TypeOK, Call
  <2>4. QED
    BY <1>1, <1>2, <2>1, <2>2, <2>3, BufferFrame DEF BufferHoldsStream
<1>9. QED
  BY <1>3, <1>4, <1>5, <1>6, <1>7, <1>8 DEF IInv

(* A call ends in an exception: the thread holds the mutex, has less than  *)
(* its minimum, and SOCKET_CLOSED has a reason.                            *)
LEMMA ThrowInv ==
  ASSUME IInv, NEW t \in Threads, NEW ex \in ReadException, Throw(t, ex),
         InTurn(t),
         ex = "SOCKET_CLOSED" => peer # "open" \/ args[t].max < args[t].min
  PROVE  IInv'
<1> USE DEF Throw, Finish, Goto, socketVars
<1>1. mtx = {t}
  BY DEF IInv, MutexHeld
<1>2. TypeOK'
  BY DEF IInv, TypeOK, SocketTypeOK, Outcome
<1>3. MutexHeld' /\ ReadNeverBlocks'
  BY <1>1 DEF IInv, TypeOK, MutexHeld, InTurn, ReadNeverBlocks, Readable
<1>4. InProgress'
  BY DEF IInv, TypeOK, InProgress
<1>5. ExceptionsAreDue'
  BY DEF IInv, TypeOK, InTurn, InProgress, ExceptionsAreDue
<1>6. QueueFollows' /\ BufferHoldsStream'
  BY BytesKept
<1>7. QED
  BY <1>2, <1>3, <1>4, <1>5, <1>6 DEF IInv

(* The mutex is taken, and poll reports something on the socket.           *)
LEMMA TurnInv ==
  ASSUME IInv, NEW t \in Threads, Lock(t) \/ PollSocket(t)
  PROVE  IInv'
<1> USE DEF Lock, PollSocket, Goto, socketVars
<1>1. TypeOK'
  BY DEF IInv, TypeOK, SocketTypeOK
<1>2. MutexHeld' /\ ReadNeverBlocks'
  BY DEF IInv, TypeOK, MutexHeld, InTurn, ReadNeverBlocks, Readable
<1>3. InProgress' /\ ExceptionsAreDue'
  BY DEF IInv, TypeOK, InProgress, ExceptionsAreDue
<1>4. QueueFollows' /\ BufferHoldsStream'
  BY BytesKept
<1>5. QED
  BY <1>1, <1>2, <1>3, <1>4 DEF IInv

(* ::read returns bytes.                                                   *)
LEMMA ReceiveInv ==
  ASSUME IInv, NEW t \in Threads, NEW n \in 1..MaxSent, Receive(t, n)
  PROVE  IInv'
<1>1. mtx = {t} /\ pc[t] = "receive"
  BY DEF IInv, MutexHeld, InTurn, Receive
<1>2. /\ got' \in [Threads -> Seq(Byte)] /\ inflight' \in Seq(Byte)
      /\ Len(got'[t]) = Len(got[t]) + n
      /\ \A u \in Threads \ {t} : got'[u] = got[u]
  BY ReceiveFacts
<1>3. TypeOK'
  <2>1. owner' \in Seq(Threads)
    BY ReceiveOwners
  <2>2. QED
    BY <1>2, <2>1 DEF IInv, TypeOK, SocketTypeOK, Receive, Goto, Finish,
                      Outcome
<1>4. MutexHeld' /\ ReadNeverBlocks'
  <2>1. \A u \in Threads \ {t} : pc[u] \notin {"poll", "receive"}
    BY <1>1 DEF IInv, MutexHeld, InTurn
  <2>2. /\ pc'[t] \in {"lock", "idle"}
        /\ \A u \in Threads \ {t} : pc'[u] = pc[u]
    BY DEF IInv, TypeOK, Receive, Goto, Finish
  <2>3. \A u \in Threads : pc'[u] \notin {"poll", "receive"}
    BY <2>1, <2>2
  <2>4. QED
    BY <2>3 DEF MutexHeld, InTurn, ReadNeverBlocks
<1>5. InProgress'
  BY <1>1, <1>2 DEF IInv, TypeOK, InProgress, Receive, Goto, Finish
<1>6. ExceptionsAreDue'
  <2>1. result[t] = "none"
    BY <1>1 DEF IInv, InProgress
  <2>2. result'[t] \in {"none", "data"}
    BY <2>1 DEF IInv, TypeOK, Receive, Finish
  <2>3. \A u \in Threads \ {t} : result'[u] = result[u]
    BY DEF IInv, TypeOK, Receive, Finish
  <2>4. QED
    BY <1>2, <2>2, <2>3 DEF IInv, ExceptionsAreDue, Receive, ReadException
<1>7. QueueFollows'
  <2> DEFINE L == Len(owner)
             M == Len(inflight)
  <2>1. /\ n \in 1..M /\ Len(inflight') = M - n
        /\ \A i \in 1..(M - n) : inflight'[i] = inflight[n + i]
    BY ReceiveFacts
  <2>2. Len(owner') = L + n
    BY ReceiveOwners
  <2>3. L \in Nat /\ M \in Nat /\ Len(lost) \in Nat
    BY LenProperties DEF IInv, TypeOK, SocketTypeOK
  <2>4. UNCHANGED <<sent, lost, peer>>
    BY DEF Receive
  <2>5. /\ Len(sent) = L + M + Len(lost)
        /\ \A i \in 1..M : inflight[i] = sent[L + i]
        /\ peer = "open" => lost = << >>
    BY DEF IInv, QueueFollows
  <2> HIDE DEF L, M
  <2>6. \A i \in 1..(M - n) : n + i \in 1..M /\ L + (n + i) = (L + n) + i
    BY <2>1, <2>3
  <2>7. \A i \in 1..(M - n) : inflight'[i] = sent[(L + n) + i]
    BY <2>1, <2>5, <2>6
  <2>8. Len(sent) = (L + n) + (M - n) + Len(lost)
    BY <2>1, <2>3, <2>5
  <2>9. QED
    BY <2>1, <2>2, <2>4, <2>5, <2>7, <2>8 DEF QueueFollows
<1>8. QED
  BY <1>3, <1>4, <1>5, <1>6, <1>7, ReceiveKeepsOrder DEF IInv

(* The steps of a thread inside a call.                                    *)
LEMMA StepInv ==
  ASSUME IInv, NEW t \in Threads, Step(t) \/ PollInterrupted(t)
  PROVE  IInv'
<1>1. CASE Lock(t) \/ PollSocket(t)
  BY <1>1, TurnInv
<1>2. CASE PollStop(t)
  BY <1>2, ThrowInv DEF PollStop, InTurn, ReadException
<1>3. CASE PollTimeout(t)
  BY <1>3, ThrowInv DEF PollTimeout, InTurn, ReadException
<1>4. CASE PollInterrupted(t)
  BY <1>4, ThrowInv DEF PollInterrupted, InTurn, ReadException
<1>5. CASE ReceiveSome(t)
  BY <1>5, ReceiveInv DEF ReceiveSome
<1>6. CASE ReceiveThrows(t)
  <2>1. InTurn(t) /\ Len(got[t]) < args[t].min
    BY <1>6 DEF IInv, InProgress, ReceiveThrows, InTurn
  <2>2. args[t].max \in Nat /\ Len(got[t]) \in Nat
    BY LenProperties DEF IInv, TypeOK
  <2>3. Room(t) = 0 => args[t].max < args[t].min
    BY <2>1, <2>2 DEF Room, IInv, TypeOK
  <2>4. CASE Throw(t, "SOCKET_CLOSED")
             /\ (Room(t) = 0 \/ (inflight = << >> /\ peer # "open"))
    BY <2>1, <2>3, <2>4, ThrowInv DEF ReadException
  <2>5. CASE Throw(t, "SOCKET_READ")
    BY <2>1, <2>5, ThrowInv DEF ReadException
  <2>6. QED
    BY <1>6, <2>4, <2>5 DEF ReceiveThrows
<1>7. QED
  BY <1>1, <1>2, <1>3, <1>4, <1>5, <1>6 DEF Step

(* The peer and stopReads.                                                 *)
LEMMA OutsideInv ==
  ASSUME IInv, PeerStep \/ stopReads
  PROVE  IInv'
<1>1. ASSUME Control, UNCHANGED callVars, SocketTypeOK',
             Readable => Readable', peer' = "open" => peer = "open"
      PROVE  Control'
  BY <1>1 DEF Control, TypeOK, MutexHeld, InTurn, ReadNeverBlocks,
              InProgress, ExceptionsAreDue, callVars
<1>2. Control /\ SocketTypeOK
  BY DEF IInv, Control, TypeOK
<1>3. /\ Len(sent) \in Nat /\ Len(owner) \in Nat /\ Len(inflight) \in Nat
      /\ Len(lost) \in Nat /\ DOMAIN owner = 1..Len(owner)
  BY LenProperties DEF IInv, TypeOK, SocketTypeOK
<1>4. CASE stopReads
  <2>1. UNCHANGED <<sent, inflight, lost, peer, callVars>> /\ stop' = TRUE
    BY <1>4 DEF stopReads, StreamStopReads
  <2>2. Control'
    BY <1>1, <1>2, <2>1 DEF SocketTypeOK, Readable
  <2>3. QED
    BY <2>1, <2>2, BytesKept DEF callVars, Control, IInv
<1>5. CASE PeerStep /\ PeerClose
  <2>1. UNCHANGED <<sent, inflight, lost, stop, callVars>> /\ peer' = "closed"
    BY <1>5 DEF PeerStep, PeerClose
  <2>2. Control'
    BY <1>1, <1>2, <2>1 DEF SocketTypeOK, Readable, PeerStates
  <2>3. QueueFollows' /\ BufferHoldsStream'
    BY <2>1, BufferKept DEF callVars, IInv, QueueFollows
  <2>4. QED
    BY <2>2, <2>3 DEF Control, IInv
<1>6. CASE PeerStep /\ PeerReset
  <2>1. PICK k \in 0..Len(inflight) :
          /\ inflight' = SubSeq(inflight, 1, k)
          /\ lost' = SubSeq(inflight, k + 1, Len(inflight))
    BY <1>6 DEF PeerReset
  <2>2. UNCHANGED <<sent, stop, callVars>> /\ peer' = "reset" /\ peer = "open"
    BY <1>6 DEF PeerStep, PeerReset
  <2>3. /\ inflight' \in Seq(Byte) /\ Len(inflight') = k
        /\ \A i \in 1..k : inflight'[i] = inflight[i]
        /\ lost' \in Seq(Byte) /\ Len(lost') = Len(inflight) - k
    BY <1>2, <2>1, CutProperties DEF SocketTypeOK
  <2>4. Control'
    BY <1>1, <1>2, <2>2, <2>3 DEF SocketTypeOK, Readable, PeerStates
  <2>5. QueueFollows'
    <3>1. lost = << >> /\ Len(lost) = 0
      BY <2>2, EmptySeq DEF IInv, QueueFollows
    <3>2. /\ Len(sent) = Len(owner) + Len(inflight) + 0
          /\ \A i \in 1..Len(inflight) : inflight[i] = sent[Len(owner) + i]
      BY <3>1 DEF IInv, QueueFollows
    <3>3. UNCHANGED <<sent, owner>>
      BY <2>2 DEF callVars
    <3>4. \A i \in 1..k : i \in 1..Len(inflight)
      BY <1>3
    <3>5. \A i \in 1..Len(inflight') : inflight'[i] = sent'[Len(owner') + i]
      BY <2>3, <3>2, <3>3, <3>4
    <3>6. Len(sent') = Len(owner') + Len(inflight') + Len(lost')
      <4>1. Len(owner) + Len(inflight) + 0
              = Len(owner) + k + (Len(inflight) - k)
        BY <1>3
      <4>2. QED
        BY <2>3, <3>2, <3>3, <4>1
    <3>7. QED
      BY <2>2, <3>5, <3>6 DEF QueueFollows
  <2>6. BufferHoldsStream'
    BY <2>2, BufferKept DEF callVars
  <2>7. QED
    BY <2>4, <2>5, <2>6 DEF Control, IInv
<1>7. ASSUME NEW b \in Byte, PeerStep /\ PeerSend(b)
      PROVE  IInv'
  <2>1. /\ sent' = Append(sent, b) /\ inflight' = Append(inflight, b)
        /\ UNCHANGED <<lost, peer, stop, callVars>> /\ peer = "open"
    BY <1>7 DEF PeerStep, PeerSend
  <2>2. /\ sent' \in Seq(Byte) /\ Len(sent') = Len(sent) + 1
        /\ \A i \in 1..Len(sent) : sent'[i] = sent[i]
        /\ sent'[Len(sent) + 1] = b
    BY <1>2, <2>1, AppendProperties DEF SocketTypeOK
  <2>3. /\ inflight' \in Seq(Byte) /\ Len(inflight') = Len(inflight) + 1
        /\ \A i \in 1..Len(inflight) : inflight'[i] = inflight[i]
        /\ inflight'[Len(inflight) + 1] = b
    BY <1>2, <2>1, AppendProperties DEF SocketTypeOK
  <2>4. inflight' # << >>
    BY <1>3, <2>3, EmptySeq
  <2>5. Control'
    BY <1>1, <1>2, <2>1, <2>2, <2>3, <2>4 DEF SocketTypeOK, Readable
  <2>6. /\ lost = << >> /\ Len(lost) = 0
        /\ Len(sent) = Len(owner) + Len(inflight)
        /\ \A i \in 1..Len(inflight) : inflight[i] = sent[Len(owner) + i]
    BY <1>3, <2>1, EmptySeq DEF IInv, QueueFollows
  <2>7. QueueFollows'
    <3>1. \A i \in 1..Len(inflight) : Len(owner) + i \in 1..Len(sent)
      BY <1>3, <2>6
    <3>2. \A i \in 1..Len(inflight) : inflight'[i] = sent'[Len(owner) + i]
      BY <2>2, <2>3, <2>6, <3>1
    <3>3. Len(sent) + 1 = Len(owner) + (Len(inflight) + 1)
      BY <1>3, <2>6
    <3>4. \A i \in 1..(Len(inflight) + 1) :
            i \in 1..Len(inflight) \/ i = Len(inflight) + 1
      BY <1>3
    <3>5. \A i \in 1..Len(inflight') : inflight'[i] = sent'[Len(owner) + i]
      <4>1. Len(owner) + (Len(inflight) + 1) = Len(sent) + 1
        BY <3>3
      <4>2. inflight'[Len(inflight) + 1] = sent'[Len(owner) + (Len(inflight) + 1)]
        BY <2>2, <2>3, <4>1
      <4>3. QED
        BY <2>3, <3>2, <3>4, <4>2
    <3>6. QED
      BY <1>3, <2>1, <2>2, <2>3, <2>6, <3>5 DEF QueueFollows, callVars
  <2>8. \A k \in DOMAIN owner : sent'[k] = sent[k]
    BY <1>3, <2>2, <2>6
  <2>9. BufferHoldsStream'
    BY <2>1, <2>8, BufferKept DEF callVars
  <2>10. QED
    BY <2>5, <2>7, <2>9 DEF Control, IInv
<1>8. QED
  BY <1>4, <1>5, <1>6, <1>7 DEF PeerStep, Peer

(* The invariant is inductive.                                             *)
LEMMA Inductive == Spec => []IInv
<1>1. IInv /\ UNCHANGED vars => IInv'
  <2> SUFFICES ASSUME IInv, UNCHANGED vars PROVE IInv'
    OBVIOUS
  <2>1. QueueFollows' /\ BufferHoldsStream'
    BY BytesKept DEF vars, socketVars, callVars
  <2>2. QED
    BY <2>1 DEF IInv, TypeOK, SocketTypeOK, MutexHeld, InTurn,
                ReadNeverBlocks, Readable, InProgress, ExceptionsAreDue,
                vars, socketVars, callVars
<1>2. IInv /\ [Next]_vars => IInv'
  BY <1>1, CallInv, StepInv, OutsideInv DEF Next
<1>3. QED
  BY InitInv, <1>2, PTL DEF Spec

(* Every variable keeps its type, in particular the mutex has at most one  *)
(* holder.                                                                 *)
THEOREM TypeCorrect == Spec => []TypeOK
BY Inductive, PTL DEF IInv

(* No thread is ever left in a blocking ::read.                            *)
THEOREM NoBlockedRead == Spec => []ReadNeverBlocks
BY Inductive, PTL DEF IInv

(* The caller's buffer holds the bytes of the stream that its thread has   *)
(* received last, in order, and is never overrun.                          *)
THEOREM BuffersHoldTheStream == Spec => []BufferHoldsStream
BY Inductive, PTL DEF IInv

(* An exception is thrown only before the minimum is reached, and          *)
(* SOCKET_CLOSED only when the peer is gone or the buffer too small.       *)
THEOREM ExceptionsHaveACause == Spec => []ExceptionsAreDue
BY Inductive, PTL DEF IInv
=============================================================================
