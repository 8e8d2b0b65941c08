--------------------------- MODULE MCUdpDatagram ---------------------------
(* UdpDatagram for TLC.                                                    *)
EXTENDS UdpDatagram, TLC

(* No limit, and one that poll cannot return as a number of descriptors.   *)
MCTimeouts == {-1, 3}

(* The outcome of a call that is over decides nothing, nor do, once poll   *)
(* has returned, the timeout and the event.                                *)
View ==
  <<socketVars, objectVars, pc, on, got, disturbed, overwritten,
    [r \in Readers |->
       IF pc[r] \in {"load", "poll"} THEN <<timeout[r], fds[r].fd, fds[r].ev>>
                                     ELSE <<-1, fds[r].fd, Invalid>>]>>

Symmetry == Permutations(Objects) \cup Permutations(Readers)
=============================================================================
