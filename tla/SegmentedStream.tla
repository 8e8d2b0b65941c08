--------------------------- MODULE SegmentedStream ---------------------------
(***************************************************************************)
(* What ConditionalBufferedStream promises the users of one condition: the *)
(* byte stream is cut into consecutive segments, each is handed to exactly *)
(* one caller, in stream order, and the end of the stream is reported only *)
(* after the last segment.                                                 *)
(***************************************************************************)
EXTENDS Integers, Sequences

CONSTANTS
  Byte,
  Cut(_)   \* the length of the first segment of the rest of the stream,
           \* 0 when the rest holds no complete one

VARIABLES
  stream,  \* what the peer has sent
  pos,     \* how much of it has been cut into segments
  queue,   \* segments waiting for a caller
  out,     \* segments handed out
  told     \* a caller has been told that the stream ended

vars == <<stream, pos, queue, out, told>>

Init ==
  /\ stream = << >> /\ pos = 0
  /\ queue = << >> /\ out = << >>
  /\ told = FALSE

Send ==
  /\ \E b \in Byte : stream' = Append(stream, b)
  /\ UNCHANGED <<pos, queue, out, told>>

CutSegment ==
  LET n == Cut(SubSeq(stream, pos + 1, Len(stream)))
  IN /\ ~told
     /\ n > 0
     /\ queue' = Append(queue, SubSeq(stream, pos + 1, pos + n))
     /\ pos' = pos + n
     /\ UNCHANGED <<stream, out, told>>

Deliver ==
  /\ queue # << >>
  /\ out' = Append(out, Head(queue))
  /\ queue' = Tail(queue)
  /\ UNCHANGED <<stream, pos, told>>

Fail ==
  /\ queue = << >>
  /\ told' = TRUE
  /\ UNCHANGED <<stream, pos, queue, out>>

Next == Send \/ CutSegment \/ Deliver \/ Fail

Spec == Init /\ [][Next]_vars
=============================================================================
