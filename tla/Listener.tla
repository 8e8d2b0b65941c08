------------------------------ MODULE Listener ------------------------------
(***************************************************************************)
(* Listener: threads call accept, which polls the listening socket and the *)
(* end event and then calls a blocking ::accept; other threads call        *)
(* stopAccepting, which closes the socket under the threads that wait.     *)
(***************************************************************************)
EXTENDS ListeningSocket

CONSTANTS
  Threads,   \* the threads that call accept
  Stoppers   \* the threads that call stopAccepting

ASSUME StoppersAssumption == IsFiniteSet(Stoppers)

VARIABLES
  pc,       \* where each thread is in accept
  timed,    \* it passed a timeout
  late,     \* history: its call began after stopAccepting had returned
  result,   \* outcome of its last call
  stop,     \* where each stopping thread is in stopAccepting
  overlap   \* history: stopAccepting was entered while another thread was
            \* in it

callVars == <<pc, timed, late, result>>
stopVars == <<stop, overlap>>
vars == <<socketVars, callVars, stopVars>>

Outcome == {"none", "stream", "SOCKET_POLL", "SOCKET_ACCEPT",
            "SOCKET_TERMINATION_REQUEST", "std::runtime_error"}

(* Type invariant.                                                         *)
TypeOK ==
  /\ ListeningTypeOK
  /\ pc \in [Threads -> {"idle", "poll", "accept", "blocked"}]
  /\ timed \in [Threads -> BOOLEAN]
  /\ late \in [Threads -> BOOLEAN]
  /\ result \in [Threads -> Outcome]
  /\ stop \in [Stoppers -> {"idle", "close", "store"}]
  /\ overlap \in BOOLEAN

Init ==
  /\ ListeningInit
  /\ pc = [t \in Threads |-> "idle"]
  /\ timed = [t \in Threads |-> FALSE]
  /\ late = [t \in Threads |-> FALSE]
  /\ result = [t \in Threads |-> "none"]
  /\ stop = [s \in Stoppers |-> "idle"]
  /\ overlap = FALSE

-----------------------------------------------------------------------------
(* The result of eventfd is not checked: the object may be without one.    *)
Constructor ==
  /\ Construct \/ ConstructThrows
  /\ UNCHANGED <<callVars, stopVars>>

Goto(t, place) == pc' = [pc EXCEPT ![t] = place]

Return(t, outcome) ==
  /\ Goto(t, "idle")
  /\ result' = [result EXCEPT ![t] = outcome]
  /\ UNCHANGED <<timed, late, stopVars>>

(* poll of a closed descriptor returns at once (POLLNVAL).                 *)
CallAccept(t, timeout) ==
  /\ life = "alive" /\ pc[t] = "idle"
  /\ timed' = [timed EXCEPT ![t] = timeout]
  /\ late' = [late EXCEPT ![t] = stopped_accepting]
  /\ result' = [result EXCEPT ![t] = "none"]
  /\ Goto(t, IF sock = "open" THEN "poll" ELSE "accept")
  /\ UNCHANGED <<socketVars, stopVars>>

PollClient(t) ==
  /\ pc[t] = "poll" /\ backlog # {}
  /\ Goto(t, "accept")
  /\ UNCHANGED <<socketVars, timed, late, result, stopVars>>

(* Mutant: the end event is not among the descriptors polled.              *)
PollEnd_NotPolled(t) ==
  /\ FALSE
  /\ Return(t, "SOCKET_TERMINATION_REQUEST")
  /\ UNCHANGED socketVars

PollEnd(t) ==
  /\ pc[t] = "poll" /\ backlog = {} /\ ending
  /\ Return(t, "SOCKET_TERMINATION_REQUEST")
  /\ UNCHANGED socketVars

PollTimeout(t) ==
  /\ pc[t] = "poll" /\ backlog = {} /\ ~ending /\ timed[t]
  /\ Return(t, "SOCKET_ACCEPT")
  /\ UNCHANGED socketVars

PollInterrupted(t) ==
  /\ pc[t] = "poll" /\ backlog = {} /\ ~ending
  /\ Return(t, "SOCKET_POLL")
  /\ UNCHANGED socketVars

(* ::accept is called: it fails on a closed descriptor, and waits in the   *)
(* kernel when no client is there.                                         *)
AcceptOnClosed(t) ==
  /\ pc[t] = "accept" /\ sock = "closed"
  /\ Return(t, "SOCKET_ACCEPT")
  /\ UNCHANGED socketVars

AcceptBlocks(t) ==
  /\ pc[t] = "accept" /\ sock = "open" /\ backlog = {}
  /\ Goto(t, "blocked")
  /\ UNCHANGED <<socketVars, timed, late, result, stopVars>>

InAccept(t) ==
  \/ pc[t] = "accept" /\ sock = "open"
  \/ pc[t] = "blocked"

Accept(t, c) ==
  /\ InAccept(t)
  /\ c \in backlog
  /\ backlog' = backlog \ {c}
  /\ Return(t, "stream")
  /\ UNCHANGED <<life, sock, endfd, ending, stopped_accepting, closes>>

(* ::accept fails for want of descriptors or because of a signal.          *)
AcceptFails(t) ==
  /\ InAccept(t)
  /\ Return(t, "SOCKET_ACCEPT")
  /\ UNCHANGED socketVars

(* The constructor of Stream gets no event and throws: the client is lost. *)
StreamThrows(t, c) ==
  /\ InAccept(t)
  /\ c \in backlog
  /\ backlog' = backlog \ {c}
  /\ Return(t, "std::runtime_error")
  /\ UNCHANGED <<life, sock, endfd, ending, stopped_accepting, closes>>

-----------------------------------------------------------------------------
(* stopAccepting: the flag is tested here and set in the last step.        *)
Stopping(s) == stop[s] # "idle"

StopBegin(s) ==
  /\ life = "alive" /\ ~Stopping(s) /\ ~stopped_accepting
  /\ PostEnd
  /\ stop' = [stop EXCEPT ![s] = "close"]
  /\ overlap' = (overlap \/ \E r \in Stoppers : Stopping(r))
  /\ UNCHANGED callVars

StopClose(s) ==
  /\ stop[s] = "close"
  /\ CloseSocket
  /\ stop' = [stop EXCEPT ![s] = "store"]
  /\ UNCHANGED <<callVars, overlap>>

StopStore(s) ==
  /\ stop[s] = "store"
  /\ SetStopped
  /\ stop' = [stop EXCEPT ![s] = "idle"]
  /\ UNCHANGED <<callVars, overlap>>

(* ~Listener, once no thread is in a member function.                      *)
Destroy ==
  /\ life = "alive" /\ stopped_accepting
  /\ \A t \in Threads : pc[t] = "idle"
  /\ \A s \in Stoppers : ~Stopping(s)
  /\ life' = "dead"
  /\ UNCHANGED <<sock, endfd, ending, stopped_accepting, closes, backlog,
                 callVars, stopVars>>

ClientConnects ==
  /\ \E c \in Clients :
       Connect(c, \E t \in Threads : pc[t] \in {"poll", "blocked"})
  /\ UNCHANGED <<callVars, stopVars>>

ClientVanishes == Vanish /\ UNCHANGED <<callVars, stopVars>>

Step(t) ==
  \/ PollClient(t) \/ PollEnd(t) \/ PollTimeout(t)
  \/ AcceptOnClosed(t) \/ AcceptBlocks(t) \/ \E c \in Clients : Accept(t, c)

Failure(t) ==
  PollInterrupted(t) \/ AcceptFails(t) \/ \E c \in Clients : StreamThrows(t, c)

StopStep(s) == StopClose(s) \/ StopStore(s)

Next ==
  \/ Constructor \/ ClientConnects \/ ClientVanishes \/ Destroy
  \/ \E s \in Stoppers : StopBegin(s) \/ StopStep(s)
  \/ \E t \in Threads :
       \/ \E timeout \in BOOLEAN : CallAccept(t, timeout)
       \/ Step(t) \/ Failure(t)

Spec == Init /\ [][Next]_vars

(* Threads inside accept and stopAccepting run when they can.  No system   *)
(* call need ever fail, no client need ever come, stay or go.              *)
FairSpec ==
  /\ Spec
  /\ \A s \in Stoppers : WF_vars(StopStep(s))
  /\ \A t \in Threads : WF_vars(Step(t))

-----------------------------------------------------------------------------
(* A call of accept that begins after stopAccepting has returned never     *)
(* yields a Stream.                                                        *)
NoStreamAfterStop ==
  \A t \in Threads : late[t] => result[t] # "stream"

(* The thread waits where the end event does not reach it: in a blocking   *)
(* ::accept (the client it was woken for has gone, or another thread has   *)
(* taken it), or in poll without a timeout on an object whose constructor  *)
(* got no end event.                                                       *)
Unreachable(t) ==
  \/ pc[t] = "blocked"
  \/ pc[t] = "poll" /\ endfd = "none" /\ ~timed[t]

(* stopAccepting ends every accept in progress, also those waiting in poll *)
(* on the descriptor it closes, whatever the clients do.  The exception is *)
(* a thread that for ever waits where the end event does not reach it,     *)
(* while no client stays to be accepted.                                   *)
StopEndsAccept ==
  \A t \in Threads :
    pc[t] # "idle" /\ (stopped_accepting \/ \E s \in Stoppers : Stopping(s))
      ~> \/ pc[t] = "idle"
         \/ []Unreachable(t) /\ []<>(backlog = {})

(* The descriptor is passed to close once (a second close could hit one    *)
(* that by then is somebody else's), unless two threads were in            *)
(* stopAccepting at the same time, and then once for each at most.         *)
ClosedOnce ==
  closes <= IF overlap THEN Cardinality(Stoppers) ELSE 1
=============================================================================
