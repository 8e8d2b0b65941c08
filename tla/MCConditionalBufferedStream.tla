-------------------- MODULE MCConditionalBufferedStream --------------------
(***************************************************************************)
(* Instances of ConditionalBufferedStream for TLC: the bytes are one of    *)
(* two delimiters or an ordinary one, the conditions are the delimiter     *)
(* conditions and the condition of the DiscardData test.                   *)
(***************************************************************************)
EXTENDS ConditionalBufferedStream, TLC

(* The condition of test.cpp, DiscardData: nothing before a "Z" has come;  *)
(* then the bytes before the "Z" when the data starts with "A", otherwise  *)
(* everything up to the next "A" is discarded.                             *)
DiscardCondition(data) ==
  LET z == getDelimiterCondition("Z", data)
      a == getDelimiterCondition("A", data)
  IN CASE z = 0                            -> 0
       [] z # 0 /\ data[1] = "A"           -> z - 1
       [] z # 0 /\ data[1] # "A" /\ a # 0  -> -(a - 1)
       [] OTHER                            -> -Len(data)

MCCondition(c, data) ==
  CASE c = "newline"   -> getDelimiterCondition("nl", data)
    [] c = "semicolon" -> getDelimiterCondition(";", data)
    [] c = "discard"   -> DiscardCondition(data)

(* A line that has been sent and is not queued.                            *)
LineWaits ==
  \E k \in DOMAIN sent : sent[k] = "nl" /\ Len(taken) < k

(* Lines that have been sent do get queued, unless reads were stopped, the *)
(* connection was reset, the buffer is full or the object is being         *)
(* destroyed.                                                              *)
EveryLineIsQueued ==
  LineWaits /\ worker # "new" /\ handlers # << >>
    ~> (\/ ~LineWaits
        \/ stop \/ peer = "reset" \/ Len(buffer) = BufferSize
        \/ life # "alive")

ReaderSymmetry == Permutations(Readers)
=============================================================================
