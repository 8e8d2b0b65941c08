---------------------------- MODULE StreamBuffer ----------------------------
(***************************************************************************)
(* The private part of BufferedStream that both its own API and            *)
(* ConditionalBufferedStream (a friend class) use: stream_buffer filled    *)
(* from the Stream at its end and emptied at its front.                    *)
(*                                                                         *)
(* buffer stands for stream_buffer[0 .. buffer_write_offset).              *)
(***************************************************************************)
EXTENDS Socket

CONSTANT BufferSize   \* stream_buffer_size

ASSUME BufferSizeAssumption == BufferSize \in Nat

VARIABLES
  buffer,   \* the bytes currently buffered
  taken     \* history: every byte removed from the buffer, in order

bufferVars == <<buffer, taken>>

BufferTypeOK ==
  /\ buffer \in Seq(Byte)
  /\ Len(buffer) <= BufferSize
  /\ taken \in Seq(Byte)

BufferInit == buffer = << >> /\ taken = << >>

(* Mutant: one byte of the buffer is kept for a terminator.                *)
Space_OneLess == BufferSize - Len(buffer) - 1

(* The third argument of the stream.read call: room left in the buffer.    *)
Space == BufferSize - Len(buffer)

(* Mutant: the size of the buffer is passed instead of the room left.      *)
readAvailableDataIntoBuffer_Overrun(n) ==
  /\ ReadReturns(BufferSize, n)
  /\ buffer' = buffer \o SubSeq(inflight, 1, n)
  /\ inflight' = SubSeq(inflight, n + 1, Len(inflight))
  /\ UNCHANGED <<sent, lost, peer, stop, taken>>

(* readAvailableDataIntoBuffer, when Stream::read returns n bytes.         *)
readAvailableDataIntoBuffer(n) ==
  /\ ReadReturns(Space, n)
  /\ buffer' = buffer \o SubSeq(inflight, 1, n)
  /\ inflight' = SubSeq(inflight, n + 1, Len(inflight))
  /\ UNCHANGED <<sent, lost, peer, stop, taken>>

(* Mutant: memmove starts one byte too far.                                *)
PopFromBuffer_SkipsAByte(n) ==
  /\ n <= Len(buffer)
  /\ taken' = taken \o SubSeq(buffer, 1, n)
  /\ buffer' = SubSeq(buffer, n + 2, Len(buffer))
  /\ UNCHANGED socketVars

(* PopFromBuffer, when there are n bytes; it throws std::out_of_range      *)
(* otherwise.                                                              *)
PopFromBuffer(n) ==
  /\ n <= Len(buffer)
  /\ taken' = taken \o SubSeq(buffer, 1, n)
  /\ buffer' = SubSeq(buffer, n + 1, Len(buffer))
  /\ UNCHANGED socketVars

(* Every byte the peer sent is in exactly one place, in stream order:      *)
(* handed out, buffered, queued in the kernel or lost to a reset.          *)
BytesConserved == sent = taken \o buffer \o inflight \o lost
=============================================================================
