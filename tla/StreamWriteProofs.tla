------------------------- MODULE StreamWriteProofs -------------------------
(***************************************************************************)
(* Proofs about Stream::write for every set of writers and sizes and every *)
(* number of attempts.                                                     *)
(***************************************************************************)
EXTENDS StreamWrite, SequenceTheorems, FiniteSetTheorems, TLAPS

(* total_written_bytes counts the bytes on the wire.                       *)
TotalIsOnWire ==
  \A w \in Writers : OnWire(w) = total[w] /\ total[w] <= size[w]

(* Attempts are used up one by one: those made, the one in progress and    *)
(* those left never exceed what was passed; bytes are there only after an  *)
(* attempt.                                                                *)
AttemptsLeft ==
  \A w \in Writers :
    /\ tries[w] + attempts[w] + (IF pc[w] = "attempt" THEN 1 ELSE 0)
         <= MaxAttempts
    /\ total[w] > 0 => tries[w] > 0
    /\ pc[w] = "new" => total[w] = 0 /\ tries[w] = 0

(* A call that goes on is not complete, unless it has nothing to send.     *)
Unfinished ==
  \A w \in Writers :
    pc[w] # "done" => /\ result[w].type = "none"
                      /\ total[w] < size[w] \/ total[w] = 0

(* Every byte on the wire carries its rank among the bytes of its writer.  *)
RankedBytes ==
  \A w \in Writers :
    \A i \in Places(w) : wire[i].at = Cardinality({k \in Places(w) : k <= i})

IInv ==
  /\ TypeOK
  /\ TotalIsOnWire /\ AttemptsLeft /\ Unfinished
  /\ RankedBytes /\ OutcomeMatchesWire /\ TornOnlyByRetry

-----------------------------------------------------------------------------
(* The wire after k bytes of w have been added to it.                      *)
LEMMA WireGrows ==
  ASSUME TypeOK, NEW w \in Writers, NEW k \in Nat,
         wire' = wire \o Bytes(w, k)
  PROVE  LET L == Len(wire) IN
         /\ L \in Nat /\ DOMAIN wire = 1..L /\ DOMAIN wire' = 1..(L + k)
         /\ wire' \in Seq([by : Writers, at : Nat])
         /\ \A i \in 1..L : wire'[i] = wire[i]
         /\ \A i \in (L + 1)..(L + k) :
              wire'[i] = [by |-> w, at |-> total[w] + (i - L)]
<1> DEFINE B == Bytes(w, k)
           E == [by : Writers, at : Nat]
           L == Len(wire)
<1>1. wire \in Seq(E) /\ total[w] \in Nat
  BY DEF TypeOK
<1>2. L \in Nat /\ DOMAIN wire = 1..L
  BY <1>1, LenProperties
<1>3. /\ B \in Seq(E) /\ Len(B) = k
      /\ \A j \in 1..k : B[j] = [by |-> w, at |-> total[w] + j]
  <2>1. \A j \in 1..k : [by |-> w, at |-> total[w] + j] \in E
    BY <1>1
  <2>2. B = [j \in 1..k |-> [by |-> w, at |-> total[w] + j]]
    BY DEF Bytes
  <2> HIDE DEF E
  <2>3. /\ B \in Seq(E) /\ Len(B) = k
        /\ \A j \in 1..k : B[j] = [by |-> w, at |-> total[w] + j]
    BY <2>1, <2>2
  <2>4. QED
    BY <2>3
<1> HIDE DEF B, E, L
<1>4. wire' = wire \o B
  BY DEF B
<1>5. /\ wire' \in Seq(E) /\ Len(wire') = L + k
      /\ \A i \in 1..(L + k) : wire'[i] = IF i <= L THEN wire[i] ELSE B[i - L]
  BY <1>1, <1>3, <1>4, ConcatProperties DEF L
<1>6. DOMAIN wire' = 1..(L + k)
  BY <1>5, LenProperties
<1>7. \A i \in 1..L : wire'[i] = wire[i]
  BY <1>2, <1>5
<1>8. \A i \in (L + 1)..(L + k) : i - L \in 1..k /\ i \in 1..(L + k) /\ ~(i <= L)
  BY <1>2
<1>9. \A i \in (L + 1)..(L + k) :
        wire'[i] = [by |-> w, at |-> total[w] + (i - L)]
  BY <1>3, <1>5, <1>8
<1>10. QED
  BY <1>2, <1>5, <1>6, <1>7, <1>9 DEF L, E

(* Where the bytes of each writer are then.                                *)
LEMMA PlacesGrow ==
  ASSUME TypeOK, NEW w \in Writers, NEW k \in Nat,
         wire' = wire \o Bytes(w, k)
  PROVE  LET L == Len(wire) IN
         /\ Places(w)' = Places(w) \cup (L + 1)..(L + k)
         /\ \A v \in Writers : Places(v) \subseteq 1..L
         /\ \A v \in Writers \ {w} : Places(v)' = Places(v)
<1> DEFINE L == Len(wire)
<1>1. /\ L \in Nat /\ DOMAIN wire = 1..L /\ DOMAIN wire' = 1..(L + k)
      /\ \A i \in 1..L : wire'[i] = wire[i]
      /\ \A i \in (L + 1)..(L + k) :
           wire'[i] = [by |-> w, at |-> total[w] + (i - L)]
  BY WireGrows
<1>10. L \in Nat
  BY <1>1
<1> HIDE DEF L
<1>2. 1..(L + k) = (1..L) \cup (L + 1)..(L + k)
  BY <1>10
<1>3. \A i \in (L + 1)..(L + k) : wire'[i].by = w
  <2>1. \A i : [by |-> w, at |-> total[w] + (i - L)].by = w
    OBVIOUS
  <2>2. QED
    BY <1>1, <2>1, Zenon
<1>4. Places(w)' = Places(w) \cup (L + 1)..(L + k)
  BY <1>1, <1>2, <1>3 DEF Places
<1>5. \A v \in Writers : Places(v) \subseteq 1..L
  BY <1>1 DEF Places
<1>6. \A v \in Writers \ {w} : Places(v)' = Places(v)
  BY <1>1, <1>2, <1>3 DEF Places
<1>7. QED
  BY <1>4, <1>5, <1>6 DEF L

(* Counting: a set of places within the wire, and m more behind it.        *)
LEMMA CountMore ==
  ASSUME NEW L \in Nat, NEW m \in Nat, NEW P \in SUBSET (1..L)
  PROVE  /\ IsFiniteSet(P) /\ Cardinality(P) \in Nat
         /\ Cardinality(P \cup (L + 1)..(L + m)) = Cardinality(P) + m
<1> DEFINE N == (L + 1)..(L + m)
<1>1. IsFiniteSet(P) /\ Cardinality(P) \in Nat
  <2>1. IsFiniteSet(1..L)
    BY FS_Interval
  <2>2. IsFiniteSet(P)
    BY <2>1, FS_Subset
  <2>3. QED
    BY <2>2, FS_CardinalityType
<1>2. IsFiniteSet(N) /\ Cardinality(N) = m
  <2>1. L + 1 \in Int /\ L + m \in Int
    OBVIOUS
  <2>2. /\ IsFiniteSet(N)
        /\ Cardinality(N) = IF L + 1 > L + m THEN 0 ELSE (L + m) - (L + 1) + 1
    BY <2>1, FS_Interval
  <2>3. QED
    BY <2>2
<1>3. P \cap N = {}
  OBVIOUS
<1>4. Cardinality(P \cap N) = 0
  BY <1>3, FS_EmptySet
<1> HIDE DEF N
<1>5. Cardinality(P \cup N) = Cardinality(P) + Cardinality(N)
                                - Cardinality(P \cap N)
  BY <1>1, <1>2, FS_Union, Zenon
<1>6. Cardinality(P \cup N) = Cardinality(P) + m
  BY <1>1, <1>2, <1>4, <1>5
<1>7. QED
  BY <1>1, <1>6 DEF N

(* The bytes of w that are on the wire after a write of k bytes, and of    *)
(* anybody else: how many, and of which rank.                              *)
LEMMA RanksGrow ==
  ASSUME TypeOK, TotalIsOnWire, RankedBytes, NEW w \in Writers, NEW k \in Nat,
         wire' = wire \o Bytes(w, k)
  PROVE  /\ OnWire(w)' = total[w] + k
         /\ \A v \in Writers \ {w} : OnWire(v)' = OnWire(v)
         /\ RankedBytes'
<1> DEFINE L == Len(wire)
           Upto(v, i) == {j \in Places(v) : j <= i}
<1>1. /\ L \in Nat
      /\ \A i \in 1..L : wire'[i] = wire[i]
      /\ \A i \in (L + 1)..(L + k) :
           wire'[i] = [by |-> w, at |-> total[w] + (i - L)]
  BY WireGrows
<1>2. /\ Places(w)' = Places(w) \cup (L + 1)..(L + k)
      /\ \A v \in Writers : Places(v) \subseteq 1..L
      /\ \A v \in Writers \ {w} : Places(v)' = Places(v)
  BY PlacesGrow
<1>3. L \in Nat /\ total[w] \in Nat /\ Cardinality(Places(w)) = total[w]
  BY <1>1 DEF TypeOK, TotalIsOnWire, OnWire
<1> HIDE DEF L
<1>4. OnWire(w)' = total[w] + k
  <2>1. Places(w) \in SUBSET (1..L)
    BY <1>2
  <2>2. Cardinality(Places(w) \cup (L + 1)..(L + k))
          = Cardinality(Places(w)) + k
    BY <1>3, <2>1, CountMore
  <2>3. QED
    BY <1>2, <1>3, <2>2 DEF OnWire
<1>5. \A v \in Writers \ {w} : OnWire(v)' = OnWire(v)
  BY <1>2 DEF OnWire
<1>6. ASSUME NEW v \in Writers, NEW i \in Places(v)', i <= L
      PROVE  wire'[i].at = Cardinality(Upto(v, i)')
  <2>1. i \in Places(v) /\ i \in 1..L
    BY <1>2, <1>3, <1>6
  <2>2. Upto(v, i)' = Upto(v, i)
    <3>1. CASE v # w
      BY <1>2, <3>1
    <3>2. CASE v = w
      <4>1. \A j \in (L + 1)..(L + k) : ~(j <= i)
        BY <1>3, <2>1
      <4>2. QED
        BY <1>2, <3>2, <4>1
    <3>3. QED
      BY <3>1, <3>2
  <2>3. wire[i].at = Cardinality(Upto(v, i))
    BY <2>1 DEF RankedBytes
  <2>4. QED
    BY <1>1, <2>1, <2>2, <2>3
<1>7. ASSUME NEW v \in Writers, NEW i \in Places(v)', ~(i <= L)
      PROVE  wire'[i].at = Cardinality(Upto(v, i)')
  <2>1. v = w /\ i \in (L + 1)..(L + k)
    BY <1>2, <1>3, <1>7
  <2>2. PICK m \in Nat : i = L + m /\ m \in 1..k
    <3>1. i - L \in Nat /\ i = L + (i - L) /\ i - L \in 1..k
      BY <1>3, <2>1
    <3>2. QED
      BY <3>1
  <2>3. Upto(v, i)' = Places(w) \cup (L + 1)..(L + m)
    <3>1. \A j \in Places(w) : j <= i
      BY <1>2, <1>3, <2>1
    <3>2. \A j : j \in (L + 1)..(L + k) /\ j <= i <=> j \in (L + 1)..(L + m)
      BY <1>3, <2>2
    <3>3. QED
      BY <1>2, <2>1, <3>1, <3>2
  <2>4. Cardinality(Upto(v, i)') = total[w] + m
    <3>1. Places(w) \in SUBSET (1..L)
      BY <1>2
    <3>2. Cardinality(Places(w) \cup (L + 1)..(L + m))
            = Cardinality(Places(w)) + m
      BY <1>3, <2>2, <3>1, CountMore
    <3>3. QED
      BY <1>3, <2>3, <3>2
  <2>5. wire'[i].at = total[w] + m
    <3>1. wire'[i] = [by |-> w, at |-> total[w] + (i - L)]
      BY <1>1, <2>1, Zenon
    <3>2. i - L = m
      BY <1>3, <2>2
    <3>3. QED
      BY <3>1, <3>2
  <2>6. QED
    BY <2>4, <2>5
<1>8. RankedBytes'
  BY <1>6, <1>7 DEF RankedBytes
<1>9. QED
  BY <1>4, <1>5, <1>8

(* Bytes added at the end tear apart only the data of the writer that adds *)
(* them, and only if it has bytes on the wire already.                     *)
LEMMA TearingNeedsBytes ==
  ASSUME TypeOK, NEW w \in Writers, NEW k \in Nat,
         wire' = wire \o Bytes(w, k), NEW v \in Writers, Torn(v)'
  PROVE  Torn(v) \/ (v = w /\ Places(w) # {})
<1> DEFINE L == Len(wire)
<1>1. /\ L \in Nat /\ DOMAIN wire = 1..L /\ DOMAIN wire' = 1..(L + k)
      /\ \A i \in 1..L : wire'[i] = wire[i]
      /\ \A i \in (L + 1)..(L + k) :
           wire'[i] = [by |-> w, at |-> total[w] + (i - L)]
  BY WireGrows
<1>2. L \in Nat
  BY <1>1
<1> HIDE DEF L
<1>3. \A i \in (L + 1)..(L + k) : wire'[i].by = w
  <2>1. \A i : [by |-> w, at |-> total[w] + (i - L)].by = w
    OBVIOUS
  <2>2. QED
    BY <1>1, <2>1, Zenon
<1>4. PICK a \in 1..(L + k), b \in 1..(L + k), c \in 1..(L + k) :
        a < b /\ b < c /\ wire'[a].by = v /\ wire'[c].by = v /\ wire'[b].by # v
  BY <1>1 DEF Torn
<1>5. CASE c <= L
  <2>1. a \in 1..L /\ b \in 1..L /\ c \in 1..L
    BY <1>2, <1>4, <1>5
  <2>2. wire'[a] = wire[a] /\ wire'[b] = wire[b] /\ wire'[c] = wire[c]
    BY <1>1, <2>1, Zenon
  <2>3. Torn(v)
    <3>1. a \in DOMAIN wire /\ b \in DOMAIN wire /\ c \in DOMAIN wire
      BY <1>1, <2>1, Zenon
    <3>2. wire[a].by = v /\ wire[c].by = v /\ wire[b].by # v
      BY <1>4, <2>2, Zenon
    <3>3. QED
      BY <1>4, <3>1, <3>2, Zenon DEF Torn
  <2>4. QED
    BY <2>3
<1>6. CASE ~(c <= L)
  <2>1. c \in (L + 1)..(L + k)
    BY <1>2, <1>6
  <2>2. v = w
    BY <1>3, <1>4, <2>1
  <2>3. b \in 1..L
    <3>1. b \notin (L + 1)..(L + k)
      BY <1>3, <1>4, <2>2
    <3>2. QED
      BY <1>2, <3>1
  <2>4. a \in 1..L
    BY <1>2, <1>4, <2>3
  <2>5. a \in Places(w)
    BY <1>1, <1>4, <2>2, <2>4 DEF Places
  <2>6. QED
    BY <2>2, <2>5
<1>7. QED
  BY <1>5, <1>6

-----------------------------------------------------------------------------
(* A step that adds nothing to the wire.                                   *)
LEMMA WireKept ==
  ASSUME IInv, wire' = wire
  PROVE  /\ RankedBytes'
         /\ \A w \in Writers : OnWire(w)' = OnWire(w) /\ Torn(w)' = Torn(w)
<1>1. \A w \in Writers : Places(w)' = Places(w)
  BY DEF Places
<1>2. RankedBytes'
  BY <1>1 DEF IInv, RankedBytes
<1>3. \A w \in Writers : OnWire(w)' = OnWire(w) /\ Torn(w)' = Torn(w)
  BY <1>1 DEF OnWire, Torn
<1>4. QED
  BY <1>2, <1>3

(* A call ends: its outcome is recorded, the other calls are as before.    *)
LEMMA FinishGives ==
  ASSUME TypeOK, NEW w \in Writers, NEW type \in WriteOutcome,
         NEW processed \in Int, Finish(w, type, processed)
  PROVE  /\ pc' \in [Writers -> {"new", "attempt", "test", "done"}]
         /\ result' \in [Writers -> [type : WriteOutcome, processed : Int]]
         /\ pc'[w] = "done"
         /\ result'[w] = [type |-> type, processed |-> processed]
         /\ \A v \in Writers \ {w} : pc'[v] = pc[v] /\ result'[v] = result[v]
<1> DEFINE R == [type : WriteOutcome, processed : Int]
           r == [type |-> type, processed |-> processed]
<1>1. r \in R
  OBVIOUS
<1>2. /\ result \in [Writers -> R]
      /\ pc \in [Writers -> {"new", "attempt", "test", "done"}]
  BY DEF TypeOK
<1>3. /\ result' = [result EXCEPT ![w] = r]
      /\ pc' = [pc EXCEPT ![w] = "done"]
  BY DEF Finish, Goto
<1> HIDE DEF R, r
<1>4. /\ result' \in [Writers -> R] /\ result'[w] = r
      /\ \A v \in Writers \ {w} : result'[v] = result[v]
  BY <1>1, <1>2, <1>3
<1>5. /\ pc' \in [Writers -> {"new", "attempt", "test", "done"}]
      /\ pc'[w] = "done"
      /\ \A v \in Writers \ {w} : pc'[v] = pc[v]
  BY <1>2, <1>3
<1>6. QED
  BY <1>4, <1>5 DEF R, r

(* The initial states satisfy the invariant.                               *)
LEMMA InitInv == Init => IInv
<1> SUFFICES ASSUME Init PROVE IInv
  OBVIOUS
<1>1. TypeOK
  <2>1. 0 \in 0..MaxAttempts
    BY MaxAttemptsAssumption
  <2>2. attempts \in [Writers -> 0..MaxAttempts]
        /\ tries \in [Writers -> 0..MaxAttempts]
    BY <2>1 DEF Init
  <2>3. wire \in Seq([by : Writers, at : Nat])
    BY EmptySeq DEF Init
  <2>4. result \in [Writers -> [type : WriteOutcome, processed : Int]]
    BY DEF Init, WriteOutcome
  <2>5. QED
    BY <2>2, <2>3, <2>4 DEF Init, TypeOK
<1>2. \A w \in Writers : Places(w) = {} /\ OnWire(w) = 0 /\ ~Torn(w)
  BY EmptySeq, FS_EmptySet DEF Init, Places, OnWire, Torn
<1>3. TotalIsOnWire /\ RankedBytes /\ TornOnlyByRetry
  BY <1>2 DEF Init, TotalIsOnWire, RankedBytes, TornOnlyByRetry
<1>4. AttemptsLeft /\ Unfinished
  BY MaxAttemptsAssumption DEF Init, AttemptsLeft, Unfinished
<1>5. OutcomeMatchesWire
  BY DEF Init, OutcomeMatchesWire
<1>6. QED
  BY <1>1, <1>3, <1>4, <1>5 DEF IInv

(* The steps that do not reach ::write.                                    *)
LEMMA ControlInv ==
  ASSUME IInv, NEW w \in Writers,
         \/ \E n \in Sizes, a \in 0..MaxAttempts : Call(w, n, a)
         \/ Test(w) \/ GiveUp(w) \/ WriteFails(w)
  PROVE  IInv'
<1> USE SizesAssumption, MaxAttemptsAssumption
<1>1. /\ wire' = wire /\ total' = total /\ RankedBytes'
      /\ \A v \in Writers : OnWire(v)' = OnWire(v) /\ Torn(v)' = Torn(v)
  BY WireKept DEF Call, Test, GiveUp, WriteFails
<1>2. \A v \in Writers : OnWire(v) = total[v]
  BY DEF IInv, TotalIsOnWire
<1>3. ASSUME NEW n \in Sizes, NEW a \in 0..MaxAttempts, Call(w, n, a)
      PROVE  IInv'
  <2>1. TypeOK'
    BY <1>3 DEF IInv, TypeOK, Call, Goto
  <2>2. TotalIsOnWire'
    BY <1>1, <1>3 DEF IInv, TypeOK, TotalIsOnWire, AttemptsLeft, Call
  <2>3. AttemptsLeft' /\ Unfinished'
    <3>1. /\ pc[w] = "new" /\ pc'[w] = "test" /\ attempts'[w] = a
          /\ tries' = tries /\ result' = result
          /\ \A v \in Writers \ {w} :
               pc'[v] = pc[v] /\ attempts'[v] = attempts[v] /\ size'[v] = size[v]
      BY <1>3 DEF IInv, TypeOK, Call, Goto
    <3>2. total[w] = 0 /\ tries[w] = 0 /\ a <= MaxAttempts
      BY <3>1 DEF IInv, AttemptsLeft
    <3>3. AttemptsLeft'
      BY <1>1, <3>1, <3>2 DEF IInv, AttemptsLeft
    <3>4. Unfinished'
      BY <1>1, <3>1, <3>2 DEF IInv, Unfinished
    <3>5. QED
      BY <3>3, <3>4
  <2>4. OutcomeMatchesWire' /\ TornOnlyByRetry'
    BY <1>1, <1>3 DEF IInv, TypeOK, OutcomeMatchesWire, TornOnlyByRetry,
                      Unfinished, Call
  <2>5. QED
    BY <1>1, <2>1, <2>2, <2>3, <2>4 DEF IInv
<1>4. CASE Test(w)
  <2>1. TypeOK'
    BY <1>4 DEF IInv, TypeOK, Test, Goto
  <2>2. TotalIsOnWire' /\ OutcomeMatchesWire' /\ TornOnlyByRetry'
    BY <1>1, <1>4 DEF IInv, TotalIsOnWire, OutcomeMatchesWire,
                      TornOnlyByRetry, Test
  <2>3. AttemptsLeft' /\ Unfinished'
    <3>1. /\ pc[w] = "test" /\ pc'[w] = "attempt" /\ attempts[w] > 0
          /\ attempts'[w] = attempts[w] - 1
          /\ tries' = tries /\ result' = result /\ size' = size
          /\ \A v \in Writers \ {w} : pc'[v] = pc[v] /\ attempts'[v] = attempts[v]
      BY <1>4 DEF IInv, TypeOK, Test, Goto
    <3>2. /\ attempts[w] \in Nat /\ tries[w] \in Nat
          /\ tries[w] + attempts[w] + 0 <= MaxAttempts
      <4>1. attempts[w] \in Nat /\ tries[w] \in Nat
        BY DEF IInv, TypeOK
      <4>2. tries[w] + attempts[w] + (IF pc[w] = "attempt" THEN 1 ELSE 0)
              <= MaxAttempts
        BY DEF IInv, AttemptsLeft
      <4>3. pc[w] # "attempt"
        BY <3>1
      <4>4. QED
        BY <4>1, <4>2, <4>3
    <3>3. tries[w] + attempts'[w] + 1 <= MaxAttempts
      BY <3>1, <3>2
    <3>4. AttemptsLeft'
      <4>1. /\ tries'[w] + attempts'[w] + (IF pc'[w] = "attempt" THEN 1 ELSE 0)
                 <= MaxAttempts
            /\ total'[w] > 0 => tries'[w] > 0
            /\ pc'[w] # "new"
        BY <1>1, <3>1, <3>3 DEF IInv, AttemptsLeft
      <4>2. QED
        BY <1>1, <3>1, <4>1 DEF IInv, AttemptsLeft
    <3>5. Unfinished'
      BY <1>1, <3>1 DEF IInv, Unfinished
    <3>6. QED
      BY <3>4, <3>5
  <2>4. QED
    BY <1>1, <2>1, <2>2, <2>3 DEF IInv
<1>5. CASE GiveUp(w)
  <2>2. TotalIsOnWire' /\ TornOnlyByRetry'
    BY <1>1, <1>5 DEF IInv, TotalIsOnWire, TornOnlyByRetry, GiveUp
  <2>3. PICK type \in WriteOutcome, n \in Int :
          /\ Finish(w, type, n)
          /\ \/ type = "ok" /\ total[w] = size[w]
             \/ type = "SOCKET_WRITE_PARTIAL" /\ n = total[w]
                /\ total[w] # size[w]
    <3>1. total[w] \in Int /\ -1 \in Int
      BY DEF IInv, TypeOK
    <3>2. {"ok", "SOCKET_WRITE_PARTIAL"} \subseteq WriteOutcome
      BY DEF WriteOutcome
    <3>3. CASE total[w] = size[w]
      <4>1. Finish(w, "ok", -1)
        BY <1>5, <3>3 DEF GiveUp
      <4>2. QED
        BY <3>1, <3>2, <3>3, <4>1
    <3>4. CASE total[w] # size[w]
      <4>1. Finish(w, "SOCKET_WRITE_PARTIAL", total[w])
        BY <1>5, <3>4 DEF GiveUp
      <4>2. QED
        BY <3>1, <3>2, <3>4, <4>1
    <3>5. QED
      BY <3>3, <3>4
  <2>4. /\ pc' \in [Writers -> {"new", "attempt", "test", "done"}]
        /\ result' \in [Writers -> [type : WriteOutcome, processed : Int]]
        /\ pc'[w] = "done" /\ result'[w] = [type |-> type, processed |-> n]
        /\ \A v \in Writers \ {w} : pc'[v] = pc[v] /\ result'[v] = result[v]
    BY <2>3, FinishGives DEF IInv
  <2>5. /\ size' = size /\ tries' = tries /\ attempts' = attempts
        /\ pc[w] = "test"
    BY <1>5 DEF GiveUp
  <2>1. TypeOK'
    BY <1>1, <2>4, <2>5 DEF IInv, TypeOK
  <2>6. AttemptsLeft'
    BY <1>1, <2>4, <2>5 DEF IInv, TypeOK, AttemptsLeft
  <2>7. Unfinished'
    BY <1>1, <2>4, <2>5 DEF IInv, Unfinished
  <2>8. OutcomeMatchesWire'
    <3>1. total[w] \in Nat /\ size[w] \in Nat /\ total[w] <= size[w]
      BY DEF IInv, TypeOK, TotalIsOnWire
    <3>2. result'[w].type = type /\ result'[w].processed = n
      BY <2>4
    <3>3. /\ OnWire(w)' = total[w] /\ size'[w] = size[w]
          /\ \A v \in Writers : OnWire(v)' = OnWire(v)
      BY <1>1, <1>2, <2>5
    <3>4. /\ type = "ok" => total[w] = size[w]
          /\ type = "SOCKET_WRITE_PARTIAL" => n = total[w] /\ total[w] < size[w]
          /\ type # "SOCKET_WRITE"
      BY <2>3, <3>1
    <3>5. ASSUME NEW v \in Writers \ {w}
          PROVE  /\ result'[v] = result[v] /\ size'[v] = size[v]
                 /\ tries'[v] = tries[v]
      BY <2>4, <2>5
    <3>6. QED
      BY <3>2, <3>3, <3>4, <3>5 DEF IInv, OutcomeMatchesWire
  <2>9. QED
    BY <1>1, <2>1, <2>2, <2>6, <2>7, <2>8 DEF IInv
<1>6. CASE WriteFails(w)
  <2>1. tries[w] + 1 \in 1..MaxAttempts
    BY <1>6 DEF IInv, TypeOK, AttemptsLeft, WriteFails
  <2>2. TypeOK'
    BY <1>6, <2>1 DEF IInv, TypeOK, WriteOutcome, WriteFails, Finish, Goto
  <2>3. TotalIsOnWire' /\ TornOnlyByRetry'
    BY <1>1, <1>6
       DEF IInv, TypeOK, TotalIsOnWire, TornOnlyByRetry, WriteFails
  <2>4. AttemptsLeft' /\ Unfinished'
    <3>1. /\ pc'[w] = "done" /\ tries'[w] = tries[w] + 1 /\ pc[w] = "attempt"
          /\ attempts' = attempts /\ size' = size /\ total' = total
          /\ \A v \in Writers \ {w} : /\ pc'[v] = pc[v] /\ tries'[v] = tries[v]
                                     /\ result'[v] = result[v]
      BY <1>6 DEF IInv, TypeOK, WriteFails, Finish, Goto
    <3>2. /\ tries[w] \in Nat /\ attempts[w] \in Nat
          /\ tries[w] + attempts[w] + 1 <= MaxAttempts
      <4>1. attempts[w] \in Nat /\ tries[w] \in Nat
        BY DEF IInv, TypeOK
      <4>2. tries[w] + attempts[w] + (IF pc[w] = "attempt" THEN 1 ELSE 0)
              <= MaxAttempts
        BY DEF IInv, AttemptsLeft
      <4>3. QED
        BY <3>1, <4>1, <4>2
    <3>3. /\ tries'[w] + attempts'[w] + 0 <= MaxAttempts /\ tries'[w] > 0
          /\ pc'[w] # "attempt" /\ pc'[w] # "new"
      BY <3>1, <3>2
    <3>4. AttemptsLeft'
      BY <3>1, <3>3 DEF IInv, AttemptsLeft
    <3>5. Unfinished'
      BY <3>1 DEF IInv, Unfinished
    <3>6. QED
      BY <3>4, <3>5
  <2>5. OutcomeMatchesWire'
    <3>1. /\ total[w] \in Nat /\ size[w] \in Nat /\ tries[w] \in Nat
          /\ total[w] > 0 => tries[w] > 0 /\ total[w] < size[w]
      <4>1. total[w] \in Nat /\ size[w] \in Nat /\ tries[w] \in Nat
        BY DEF IInv, TypeOK
      <4>2. pc[w] # "done"
        BY <1>6 DEF WriteFails
      <4>3. total[w] > 0 => tries[w] > 0
        BY DEF IInv, AttemptsLeft
      <4>4. total[w] < size[w] \/ total[w] = 0
        BY <4>2 DEF IInv, Unfinished
      <4>5. QED
        BY <4>1, <4>3, <4>4
    <3>2. /\ size' = size /\ Finish(w, "SOCKET_WRITE", -1)
          /\ tries'[w] = tries[w] + 1
          /\ \A v \in Writers \ {w} : tries'[v] = tries[v]
      BY <1>6 DEF IInv, TypeOK, WriteFails
    <3>3. /\ result'[w].type = "SOCKET_WRITE"
          /\ \A v \in Writers \ {w} : result'[v] = result[v]
      <4>1. "SOCKET_WRITE" \in WriteOutcome /\ -1 \in Int
        BY DEF WriteOutcome
      <4>2. /\ result'[w] = [type |-> "SOCKET_WRITE", processed |-> -1]
            /\ \A v \in Writers \ {w} : result'[v] = result[v]
        BY <3>2, <4>1, FinishGives DEF IInv
      <4>3. QED
        BY <4>2
    <3>4. QED
      <4>1. ASSUME NEW v \in Writers \ {w}
            PROVE  /\ OnWire(v)' = OnWire(v) /\ result'[v] = result[v]
                   /\ tries'[v] = tries[v] /\ size'[v] = size[v]
        BY <1>1, <3>2, <3>3
      <4>2. OnWire(w)' > 0 => tries'[w] > 1 /\ OnWire(w)' < size'[w]
        BY <1>1, <1>2, <3>1, <3>2
      <4>3. QED
        BY <3>3, <4>1, <4>2 DEF IInv, OutcomeMatchesWire
  <2>6. QED
    BY <1>1, <2>2, <2>3, <2>4, <2>5 DEF IInv
<1>7. QED
  BY <1>3, <1>4, <1>5, <1>6

(* ::write accepts k bytes.                                                *)
LEMMA WriteInv ==
  ASSUME IInv, NEW w \in Writers, NEW k \in 0..Left(w), Write(w, k)
  PROVE  IInv'
<1> USE MaxAttemptsAssumption
<1>1. /\ total[w] \in Nat /\ size[w] \in Nat /\ k \in Nat
      /\ total[w] + k <= size[w] /\ tries[w] \in Nat
      /\ k = 0 => total[w] = size[w]
  BY DEF IInv, TypeOK, TotalIsOnWire, Left, Write, Accepts
<1>2. /\ pc[w] = "attempt" /\ result[w].type = "none"
      /\ total[w] < size[w] \/ total[w] = 0
      /\ total[w] > 0 => tries[w] > 0
  BY DEF IInv, AttemptsLeft, Unfinished, Write
<1>3. wire' = wire \o Bytes(w, k)
  BY DEF Write
<1>4. /\ OnWire(w)' = total[w] + k
      /\ \A v \in Writers \ {w} : OnWire(v)' = OnWire(v)
      /\ RankedBytes'
  BY <1>1, <1>3, RanksGrow DEF IInv
<1>5. tries[w] + 1 \in 1..MaxAttempts
  BY <1>2 DEF IInv, TypeOK, AttemptsLeft
<1>6. /\ total'[w] = total[w] + k /\ tries'[w] = tries[w] + 1
      /\ size' = size /\ attempts' = attempts
      /\ \A v \in Writers \ {w} : total'[v] = total[v] /\ tries'[v] = tries[v]
  BY DEF IInv, TypeOK, Write
<1>61. /\ pc' \in [Writers -> {"new", "attempt", "test", "done"}]
       /\ result' \in [Writers -> [type : WriteOutcome, processed : Int]]
       /\ \A v \in Writers \ {w} : pc'[v] = pc[v] /\ result'[v] = result[v]
       /\ \/ /\ total[w] + k = size[w] /\ pc'[w] = "done"
             /\ result'[w].type = "ok"
          \/ /\ total[w] + k # size[w] /\ pc'[w] = "test"
             /\ result'[w].type = "none"
  <2>1. CASE total[w] + k = size[w]
    <3>1. Finish(w, "ok", -1)
      BY <2>1 DEF Write
    <3>2. "ok" \in WriteOutcome /\ -1 \in Int
      BY DEF WriteOutcome
    <3>3. /\ pc' \in [Writers -> {"new", "attempt", "test", "done"}]
          /\ result' \in [Writers -> [type : WriteOutcome, processed : Int]]
          /\ pc'[w] = "done"
          /\ result'[w] = [type |-> "ok", processed |-> -1]
          /\ \A v \in Writers \ {w} : pc'[v] = pc[v] /\ result'[v] = result[v]
      BY <3>1, <3>2, FinishGives DEF IInv
    <3>4. result'[w].type = "ok"
      BY <3>3
    <3>5. QED
      BY <2>1, <3>3, <3>4
  <2>2. CASE total[w] + k # size[w]
    <3>1. pc' = [pc EXCEPT ![w] = "test"] /\ result' = result
      BY <2>2 DEF Write, Goto
    <3>2. QED
      BY <1>2, <2>2, <3>1 DEF IInv, TypeOK
  <2>3. QED
    BY <2>1, <2>2
<1>62. TypeOK'
  <2>1. wire' \in Seq([by : Writers, at : Nat])
    BY <1>1, <1>3, WireGrows DEF IInv
  <2>2. total' \in [Writers -> Nat] /\ tries' \in [Writers -> 0..MaxAttempts]
    BY <1>1, <1>5 DEF IInv, TypeOK, Write
  <2>3. QED
    BY <1>6, <1>61, <2>1, <2>2 DEF IInv, TypeOK
<1>7. TotalIsOnWire'
  BY <1>1, <1>4 DEF IInv, TypeOK, TotalIsOnWire, Write
<1>8. AttemptsLeft'
  <2>1. /\ attempts[w] \in Nat
        /\ tries[w] + attempts[w] + 1 <= MaxAttempts
    BY <1>2 DEF IInv, TypeOK, AttemptsLeft
  <2>2. /\ tries'[w] + attempts'[w] + 0 <= MaxAttempts
        /\ tries'[w] > 0 /\ pc'[w] # "attempt" /\ pc'[w] # "new"
    BY <1>1, <1>6, <1>61, <2>1
  <2>3. QED
    BY <1>6, <1>61, <2>2 DEF IInv, AttemptsLeft
<1>9. Unfinished'
  <2>1. pc'[w] # "done" => /\ result'[w].type = "none"
                           /\ total'[w] < size'[w]
    <3>1. pc'[w] # "done" => /\ total[w] + k # size[w]
                             /\ result'[w].type = "none"
      BY <1>61
    <3>2. total[w] + k # size[w] => total[w] + k < size[w]
      BY <1>1
    <3>3. QED
      BY <1>6, <3>1, <3>2
  <2>2. QED
    BY <1>6, <1>61, <2>1 DEF IInv, Unfinished
<1>10. OutcomeMatchesWire'
  BY <1>4, <1>6, <1>61 DEF IInv, OutcomeMatchesWire
<1>11. TornOnlyByRetry'
  <2>1. tries' = [tries EXCEPT ![w] = tries[w] + 1]
    BY DEF Write
  <2>2. ASSUME NEW v \in Writers, Torn(v)'
        PROVE  tries'[v] > 1
    <3>1. CASE Torn(v)
      BY <1>1, <2>1, <3>1 DEF IInv, TypeOK, TornOnlyByRetry
    <3>2. CASE v = w /\ Places(w) # {}
      <4>1. IsFiniteSet(Places(w))
        <5>1. Places(w) \subseteq 1..Len(wire) /\ Len(wire) \in Nat
          BY <1>1, <1>3, PlacesGrow, WireGrows DEF IInv
        <5>2. QED
          BY <5>1, CountMore
      <4>2. total[w] # 0
        BY <3>2, <4>1, FS_EmptySet DEF IInv, TotalIsOnWire, OnWire
      <4>3. QED
        BY <1>1, <1>2, <2>1, <3>2, <4>2 DEF IInv, TypeOK
    <3>3. QED
      BY <1>1, <1>3, <2>2, <3>1, <3>2, TearingNeedsBytes DEF IInv
  <2>3. QED
    BY <2>2 DEF TornOnlyByRetry
<1>12. QED
  BY <1>4, <1>62, <1>7, <1>8, <1>9, <1>10, <1>11 DEF IInv

(* The invariant is inductive.                                             *)
LEMMA Inductive == Spec => []IInv
<1>1. ASSUME IInv, UNCHANGED vars
      PROVE  IInv'
  <2>1. /\ RankedBytes'
        /\ \A w \in Writers : OnWire(w)' = OnWire(w) /\ Torn(w)' = Torn(w)
    BY <1>1, WireKept DEF vars
  <2>2. QED
    BY <1>1, <2>1 DEF IInv, vars, TypeOK, TotalIsOnWire, AttemptsLeft,
                      Unfinished, OutcomeMatchesWire, TornOnlyByRetry
<1>2. ASSUME IInv, [Next]_vars
      PROVE  IInv'
  BY <1>1, <1>2, ControlInv, WriteInv DEF Next, Step
<1>3. QED
  BY InitInv, <1>2, PTL DEF Spec

(* Every variable keeps its type, in particular no call makes more         *)
(* attempts than it was passed.                                            *)
THEOREM TypeCorrect == Spec => []TypeOK
BY Inductive, PTL DEF IInv

(* What a call has put on the wire is a prefix of its buffer, whatever     *)
(* other writers send in between.                                          *)
THEOREM WireIsAPrefix == Spec => []WireHoldsPrefix
<1>1. IInv => WireHoldsPrefix
  BY DEF IInv, TotalIsOnWire, RankedBytes, WireHoldsPrefix
<1>2. QED
  BY <1>1, Inductive, PTL

(* What the caller is told agrees with what is on the wire.                *)
THEOREM OutcomesAreTrue == Spec => []OutcomeMatchesWire
BY Inductive, PTL DEF IInv

(* The data of a call that needed one ::write is never torn apart.         *)
THEOREM OneWriteIsWhole == Spec => []TornOnlyByRetry
BY Inductive, PTL DEF IInv
=============================================================================
