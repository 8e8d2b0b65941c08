-------------------------- MODULE MCBufferedStream --------------------------
(* BufferedStream for TLC.                                                 *)
EXTENDS BufferedStream, TLC

CONSTANTS c1, c2

(* Both threads call readUntilDelimiter; beside it one makes each of the   *)
(* calls of read, the second with and without timeouts.                    *)
MCOps == (c1 :> {"readInto", "readUntilDelimiter"})
           @@ (c2 :> {"read", "readUntilDelimiter", "timeouts"})
=============================================================================
