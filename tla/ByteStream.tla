----------------------------- MODULE ByteStream -----------------------------
(***************************************************************************)
(* What a buffered layer owes the byte stream below it: bytes are handed   *)
(* out in the order in which the peer sent them, none twice and none that  *)
(* was not sent; none is skipped, except that a line may be handed out     *)
(* without the delimiter that ends it.                                     *)
(***************************************************************************)
EXTENDS Integers, Sequences

CONSTANTS Byte, Delimiter

VARIABLES
  stream,  \* what the peer has sent
  pos,     \* how many bytes of it have been dealt with
  out      \* what has been handed out, in order

vars == <<stream, pos, out>>

Init == stream = << >> /\ pos = 0 /\ out = << >>

Send ==
  /\ \E b \in Byte : stream' = Append(stream, b)
  /\ UNCHANGED <<pos, out>>

Take ==
  /\ pos' \in pos..Len(stream)
  /\ out' = out \o SubSeq(stream, pos + 1, pos')
  /\ stream' = stream

(* The next line, without its delimiter.                                   *)
TakeLine ==
  /\ pos' \in (pos + 1)..Len(stream)
  /\ \A i \in (pos + 1)..pos' : stream[i] = Delimiter <=> i = pos'
  /\ out' = out \o SubSeq(stream, pos + 1, pos' - 1)
  /\ stream' = stream

Next == Send \/ Take \/ TakeLine

Spec == Init /\ [][Next]_vars
=============================================================================
