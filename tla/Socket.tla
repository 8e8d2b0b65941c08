------------------------------- MODULE Socket -------------------------------
(***************************************************************************)
(* The connected socket a socket_wrapper::Stream owns, seen from the       *)
(* reading side: the bytes the peer has sent, the kernel's receive queue,  *)
(* the state of the peer, and the eventfd with which reads are stopped.    *)
(* The module also says what one turn of the loop of Stream::read (poll,   *)
(* then ::read) can return or throw; the layers above are built on that.   *)
(***************************************************************************)
EXTENDS Integers, Sequences

CONSTANTS
  Byte,     \* the byte values the peer may send
  MaxSent   \* bound of the model: how many bytes the peer sends in a run

ASSUME MaxSentAssumption == MaxSent \in Nat

VARIABLES
  sent,      \* history: every byte the peer has sent, in order
  inflight,  \* bytes sent and not yet returned by ::read
  lost,      \* bytes dropped by a connection reset
  peer,      \* "open", "closed" (orderly) or "reset"
  stop       \* stop_all_operations_event_fd is readable; nothing ever reads
             \* it, so its counter (65535 per stopReads) is only zero or not

socketVars == <<sent, inflight, lost, peer, stop>>

PeerStates == {"open", "closed", "reset"}

(* SocketException::Type, the members a Stream or a reader can throw.      *)
ReadException ==
  {"SOCKET_CLOSED", "SOCKET_READ", "SOCKET_POLL", "SOCKET_READ_TIMEOUT",
   "SOCKET_TERMINATION_REQUEST"}

SocketTypeOK ==
  /\ sent \in Seq(Byte)
  /\ inflight \in Seq(Byte)
  /\ lost \in Seq(Byte)
  /\ peer \in PeerStates
  /\ stop \in BOOLEAN

SocketInit ==
  /\ sent = << >>
  /\ inflight = << >>
  /\ lost = << >>
  /\ peer = "open"
  /\ stop = FALSE

-----------------------------------------------------------------------------
(* The peer.  A byte at a time, so that every fragmentation of the stream  *)
(* is one of the interleavings.                                            *)

PeerSend(b) ==
  /\ peer = "open"
  /\ Len(sent) < MaxSent
  /\ sent' = Append(sent, b)
  /\ inflight' = Append(inflight, b)
  /\ UNCHANGED <<lost, peer, stop>>

PeerClose ==
  /\ peer = "open"
  /\ peer' = "closed"
  /\ UNCHANGED <<sent, inflight, lost, stop>>

(* A reset loses what has not been received: any suffix of the queue.      *)
PeerReset ==
  /\ peer = "open"
  /\ peer' = "reset"
  /\ \E k \in 0..Len(inflight) :
       /\ inflight' = SubSeq(inflight, 1, k)
       /\ lost' = SubSeq(inflight, k + 1, Len(inflight))
  /\ UNCHANGED <<sent, stop>>

Peer == (\E b \in Byte : PeerSend(b)) \/ PeerClose \/ PeerReset

-----------------------------------------------------------------------------
(* One turn of Stream::read's loop, asked for at most max bytes.           *)

(* poll reports something on the socket itself (data, hang-up or error).   *)
Readable == inflight # << >> \/ peer # "open"

(* ::read returns n > 0 bytes.                                             *)
ReadReturns(max, n) ==
  /\ inflight # << >>
  /\ n \in 1..max
  /\ n <= Len(inflight)

(* The turn ends in the exception ex.  The socket is looked at before the  *)
(* stop event; a ::read of zero bytes (max = 0) returns 0 whatever is      *)
(* queued.  timed: the caller passed a timeout.                            *)
ReadThrows(max, timed, ex) ==
  \/ /\ ex = "SOCKET_CLOSED"
     /\ Readable
     /\ max = 0 \/ inflight = << >>
  \/ /\ ex = "SOCKET_READ"
     /\ peer = "reset" /\ inflight = << >> /\ max > 0
  \/ /\ ex = "SOCKET_TERMINATION_REQUEST"
     /\ ~Readable /\ stop
  \/ /\ ex = "SOCKET_READ_TIMEOUT"
     /\ ~Readable /\ ~stop /\ timed

(* Stream::stopReads.                                                      *)
StreamStopReads ==
  /\ stop' = TRUE
  /\ UNCHANGED <<sent, inflight, lost, peer>>
=============================================================================
