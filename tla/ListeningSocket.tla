--------------------------- MODULE ListeningSocket ---------------------------
(***************************************************************************)
(* What ListenerBase and Listener have in common: the listening socket,    *)
(* the eventfd that ends waiting, their construction, and the clients that *)
(* connect.                                                                *)
(***************************************************************************)
EXTENDS Integers, FiniteSets

CONSTANT Clients   \* the clients; one that was served or is gone may come again

VARIABLES
  life,      \* "new", "failed" (the constructor threw), "alive", "dead"
  sock,      \* listener_socket_fd: "none", "open" or "closed"
  endfd,     \* listener_end_fd: "none" or "open"; no code closes it
  ending,    \* listener_end_fd is readable; nothing ever reads it
  stopped_accepting,
  closes,    \* history: how often the descriptor has been passed to close
  backlog    \* clients the kernel holds for accept

socketVars == <<life, sock, endfd, ending, stopped_accepting, closes, backlog>>

ListeningTypeOK ==
  /\ life \in {"new", "failed", "alive", "dead"}
  /\ sock \in {"none", "open", "closed"}
  /\ endfd \in {"none", "open"}
  /\ ending \in BOOLEAN
  /\ stopped_accepting \in BOOLEAN
  /\ closes \in Nat
  /\ backlog \subseteq Clients

ListeningInit ==
  /\ life = "new"
  /\ sock = "none" /\ endfd = "none"
  /\ ending = FALSE /\ stopped_accepting = FALSE
  /\ closes = 0
  /\ backlog = {}

-----------------------------------------------------------------------------
(* The constructors: eventfd, socket, setsockopt, bind, listen.  Whether   *)
(* the result of eventfd is looked at is up to the class.                  *)
Construct ==
  /\ life = "new"
  /\ life' = "alive" /\ sock' = "open"
  /\ endfd' \in {"none", "open"}
  /\ UNCHANGED <<ending, stopped_accepting, closes, backlog>>

(* A call fails and the constructor throws: no destructor runs, so the     *)
(* descriptors made so far stay open.                                      *)
ConstructThrows ==
  /\ life = "new"
  /\ life' = "failed"
  /\ endfd' \in {"none", "open"} /\ sock' \in {"none", "open"}
  /\ UNCHANGED <<ending, stopped_accepting, closes, backlog>>

(* A client connects; held says that a system call in progress still keeps *)
(* the closed socket alive.                                                *)
Connect(client, held) ==
  /\ client \notin backlog
  /\ sock = "open" \/ held
  /\ life # "failed"
  /\ backlog' = backlog \cup {client}
  /\ UNCHANGED <<life, sock, endfd, ending, stopped_accepting, closes>>

(* The kernel may drop a waiting client between poll and ::accept          *)
(* (accept(2), NOTES); a blocking ::accept then waits for the next one.    *)
Vanish ==
  /\ \E client \in backlog : backlog' = backlog \ {client}
  /\ UNCHANGED <<life, sock, endfd, ending, stopped_accepting, closes>>

(* Mutant: the end event is not written.                                   *)
PostEnd_NoWrite == UNCHANGED socketVars

(* Mutant: the flag is set when stopAccepting begins, not when it is done. *)
PostEnd_SetsStopped ==
  /\ ending' = (endfd = "open")
  /\ stopped_accepting' = TRUE
  /\ UNCHANGED <<life, sock, endfd, closes, backlog>>

PostEnd ==
  /\ ending' = (endfd = "open")
  /\ UNCHANGED <<life, sock, endfd, stopped_accepting, closes, backlog>>

(* Mutant: the socket is not closed.                                       *)
CloseSocket_Missing == UNCHANGED socketVars

CloseSocket ==
  /\ sock' = "closed"
  /\ closes' = closes + 1
  /\ UNCHANGED <<life, endfd, ending, stopped_accepting, backlog>>

(* Mutant: stopped_accepting is not set.                                   *)
SetStopped_Forgotten == UNCHANGED socketVars

SetStopped ==
  /\ stopped_accepting' = TRUE
  /\ UNCHANGED <<life, sock, endfd, ending, closes, backlog>>
=============================================================================
