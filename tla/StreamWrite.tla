----------------------------- MODULE StreamWrite -----------------------------
(***************************************************************************)
(* Stream::write called by several threads: up to "attempts" calls of      *)
(* ::write, each under stream_file_descriptor_write_mtx, with the mutex    *)
(* free during the pause between two attempts.  A byte is named by the     *)
(* thread that writes it and its place in the buffer passed.               *)
(***************************************************************************)
EXTENDS Integers, Sequences, FiniteSets

CONSTANTS
  Writers,      \* the threads that call write
  Sizes,        \* the sizes written
  MaxAttempts   \* bound: attempts is 0..MaxAttempts (the code passes 1 or 2)

ASSUME SizesAssumption == Sizes \subseteq Nat
ASSUME MaxAttemptsAssumption == MaxAttempts \in Nat

VARIABLES
  wire,       \* the bytes the kernel has accepted, in order
  pc,
  size,
  attempts,   \* attempts left
  total,      \* total_written_bytes
  result,     \* outcome, and processed_bytes as SocketException reports it
  tries       \* history: ::write calls that the current call has made

vars == <<wire, pc, size, attempts, total, result, tries>>

WriteOutcome == {"none", "ok", "SOCKET_WRITE", "SOCKET_WRITE_PARTIAL"}

(* Type invariant.                                                         *)
TypeOK ==
  /\ wire \in Seq([by : Writers, at : Nat])
  /\ pc \in [Writers -> {"new", "attempt", "test", "done"}]
  /\ size \in [Writers -> Nat]
  /\ attempts \in [Writers -> 0..MaxAttempts]
  /\ total \in [Writers -> Nat]
  /\ result \in [Writers -> [type : WriteOutcome, processed : Int]]
  /\ tries \in [Writers -> 0..MaxAttempts]

Init ==
  /\ wire = << >>
  /\ pc = [w \in Writers |-> "new"]
  /\ size = [w \in Writers |-> 0]
  /\ attempts = [w \in Writers |-> 0]
  /\ total = [w \in Writers |-> 0]
  /\ result = [w \in Writers |-> [type |-> "none", processed |-> -1]]
  /\ tries = [w \in Writers |-> 0]

-----------------------------------------------------------------------------
Goto(w, place) == pc' = [pc EXCEPT ![w] = place]
Left(w) == size[w] - total[w]

Finish(w, type, processed) ==
  /\ Goto(w, "done")
  /\ result' = [result EXCEPT ![w] = [type |-> type, processed |-> processed]]

Call(w, n, a) ==
  /\ pc[w] = "new"
  /\ size' = [size EXCEPT ![w] = n]
  /\ attempts' = [attempts EXCEPT ![w] = a]
  /\ Goto(w, "test")
  /\ UNCHANGED <<wire, total, result, tries>>

(* while (attempts--): after the last attempt the call succeeds or reports *)
(* how much it has written.                                                *)
Test(w) ==
  /\ pc[w] = "test" /\ attempts[w] > 0
  /\ attempts' = [attempts EXCEPT ![w] = @ - 1]
  /\ Goto(w, "attempt")
  /\ UNCHANGED <<wire, size, total, result, tries>>

(* Mutant: the last attempt is not looked at again.                        *)
GiveUp_Ok(w) ==
  /\ pc[w] = "test" /\ attempts[w] = 0
  /\ Finish(w, "ok", -1)
  /\ UNCHANGED <<wire, size, attempts, total, tries>>

GiveUp(w) ==
  /\ pc[w] = "test" /\ attempts[w] = 0
  /\ IF total[w] = size[w] THEN Finish(w, "ok", -1)
                           ELSE Finish(w, "SOCKET_WRITE_PARTIAL", total[w])
  /\ UNCHANGED <<wire, size, attempts, total, tries>>

(* ::write accepts k bytes, possibly fewer than it was passed (a full send *)
(* queue of a non-blocking socket, or a signal); nothing only when it was  *)
(* passed nothing.                                                         *)
Accepts(w, k) == k \in 0..Left(w) /\ (k = 0 => Left(w) = 0)

(* Mutant: a retry starts at the beginning of the buffer.                  *)
Bytes_FromStart(w, k) == [j \in 1..k |-> [by |-> w, at |-> j]]

Bytes(w, k) == [j \in 1..k |-> [by |-> w, at |-> total[w] + j]]

(* Mutant: the bytes go out one by one without the mutex in between.       *)
Write_Unlocked(w, k) ==
  /\ pc[w] = "attempt"
  /\ Accepts(w, k)
  /\ wire' = IF k = 0 THEN wire ELSE Append(wire, Bytes(w, k)[1])
  /\ total' = [total EXCEPT ![w] = @ + (IF k = 0 THEN 0 ELSE 1)]
  /\ tries' = [tries EXCEPT ![w] = 1]
  /\ IF total[w] + k = size[w] /\ k <= 1
       THEN Finish(w, "ok", -1)
       ELSE result' = result /\ pc' = pc
  /\ UNCHANGED <<size, attempts>>

Write(w, k) ==
  /\ pc[w] = "attempt"
  /\ Accepts(w, k)
  /\ wire' = wire \o Bytes(w, k)
  /\ tries' = [tries EXCEPT ![w] = @ + 1]
  /\ total' = [total EXCEPT ![w] = @ + k]
  /\ IF total[w] + k = size[w] THEN Finish(w, "ok", -1)
                               ELSE Goto(w, "test") /\ result' = result
  /\ UNCHANGED <<size, attempts>>

(* ::write returns -1 (EAGAIN, EPIPE, ECONNRESET, EINTR...), at the first  *)
(* attempt or after part of the data has gone out.                         *)
WriteFails(w) ==
  /\ pc[w] = "attempt"
  /\ tries' = [tries EXCEPT ![w] = @ + 1]
  /\ Finish(w, "SOCKET_WRITE", -1)
  /\ UNCHANGED <<wire, size, attempts, total>>

Step(w) ==
  \/ Test(w) \/ GiveUp(w) \/ WriteFails(w)
  \/ \E k \in 0..Left(w) : Write(w, k)

Next ==
  \E w \in Writers :
    (\E n \in Sizes, a \in 0..MaxAttempts : Call(w, n, a)) \/ Step(w)

Spec == Init /\ [][Next]_vars

-----------------------------------------------------------------------------
(* The places on the wire of the bytes of w, and how many they are.        *)
Places(w) == {i \in DOMAIN wire : wire[i].by = w}
OnWire(w) == Cardinality(Places(w))

(* A retry goes on where the last ::write stopped: what is on the wire of  *)
(* a call is a prefix of its buffer (its n-th byte there is byte n of the  *)
(* buffer), nothing twice and nothing skipped, whatever other writers send *)
(* in between.                                                             *)
WireHoldsPrefix ==
  \A w \in Writers :
    /\ OnWire(w) <= size[w]
    /\ \A i \in Places(w) :
         wire[i].at = Cardinality({k \in Places(w) : k <= i})

(* What the caller is told agrees with the wire: a call that returns has   *)
(* sent everything, SOCKET_WRITE_PARTIAL carries the exact count and is    *)
(* never thrown for a complete write.  SOCKET_WRITE, which carries no      *)
(* count, leaves part of the data on the wire only if the call has made a  *)
(* second attempt, and never all of it: with one attempt it means that     *)
(* nothing was sent.                                                       *)
OutcomeMatchesWire ==
  \A w \in Writers :
    LET n == OnWire(w) IN
    /\ result[w].type = "ok" => n = size[w]
    /\ result[w].type = "SOCKET_WRITE_PARTIAL" =>
         result[w].processed = n /\ n < size[w]
    /\ result[w].type = "SOCKET_WRITE" /\ n > 0 =>
         tries[w] > 1 /\ n < size[w]

(* Bytes of another call are on the wire between bytes of w.               *)
Torn(w) ==
  \E i \in DOMAIN wire : \E j \in DOMAIN wire : \E k \in DOMAIN wire :
    i < j /\ j < k /\ wire[i].by = w /\ wire[k].by = w /\ wire[j].by # w

(* The data of a call is torn apart by another writer only if the call     *)
(* needed a second ::write.                                                *)
TornOnlyByRetry == \A w \in Writers : Torn(w) => tries[w] > 1
=============================================================================
