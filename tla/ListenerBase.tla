---------------------------- MODULE ListenerBase ----------------------------
(***************************************************************************)
(* ListenerBase: a thread that waits for clients and hands each to         *)
(* onIncomingStream, and an owner that starts and stops it.  A definition  *)
(* that Listener has too carries the prefix Base.                          *)
(***************************************************************************)
EXTENDS ListeningSocket

VARIABLES
  task,      \* handle_incoming_streams_task: where the thread is
  owner,     \* where the owning thread is in stopAccepting
  derived,   \* the derived object, which implements onIncomingStream, exists
  stopsFirst,  \* the derived class calls stopAccepting in its destructor
  abort      \* the process ended: a pure virtual function was called

taskVars == <<task, abort>>
ownVars == <<owner, derived, stopsFirst>>
baseVars == <<socketVars, taskVars, ownVars>>

(* Type invariant.                                                         *)
BaseTypeOK ==
  /\ ListeningTypeOK
  /\ task \in {"none", "poll", "accept", "callback", "done"}
  /\ owner \in {"idle", "join", "close", "store"}
  /\ derived \in BOOLEAN /\ stopsFirst \in BOOLEAN
  /\ abort \in BOOLEAN

BaseInit ==
  /\ ListeningInit
  /\ task = "none"
  /\ owner = "idle" /\ derived = TRUE /\ stopsFirst \in BOOLEAN
  /\ abort = FALSE

-----------------------------------------------------------------------------
(* A failed eventfd is noticed, before there is a socket.                  *)
BaseConstructor ==
  /\ Construct \/ ConstructThrows
  /\ endfd' = "none" => sock' = "none"
  /\ UNCHANGED <<taskVars, ownVars>>

startAccepting ==
  /\ life = "alive" /\ task = "none" /\ derived /\ owner = "idle"
  /\ ~stopped_accepting
  /\ task' = "poll"
  /\ UNCHANGED <<socketVars, ownVars, abort>>

-----------------------------------------------------------------------------
(* handleIncomingStreams.  Waiting clients are served before the end event *)
(* is looked at; an interrupted poll is repeated.                          *)
BasePollClient ==
  /\ task = "poll" /\ ~abort
  /\ backlog # {} \/ sock = "closed"
  /\ task' = "accept"
  /\ UNCHANGED <<socketVars, ownVars, abort>>

BasePollEnd ==
  /\ task = "poll" /\ ~abort
  /\ backlog = {} /\ sock # "closed" /\ ending
  /\ task' = "done"
  /\ UNCHANGED <<socketVars, ownVars, abort>>

(* The accepted client is handed to onIncomingStream, which is pure        *)
(* virtual once the derived object is gone.                                *)
BaseAccept(c) ==
  /\ task = "accept" /\ ~abort
  /\ c \in backlog /\ sock = "open"
  /\ backlog' = backlog \ {c}
  /\ IF derived THEN task' = "callback" /\ abort' = abort
                ELSE task' = task /\ abort' = TRUE
  /\ UNCHANGED <<life, sock, endfd, ending, stopped_accepting, closes, ownVars>>

(* ::accept fails (descriptors have run out, a signal) or the constructor  *)
(* of Stream throws, and then the client is gone.  Both are ignored, and   *)
(* may happen again and again.                                             *)
BaseAcceptFails ==
  /\ task = "accept" /\ ~abort
  /\ \/ backlog' = backlog
     \/ \E c \in backlog : backlog' = backlog \ {c}
  /\ task' = "poll"
  /\ UNCHANGED <<life, sock, endfd, ending, stopped_accepting, closes, ownVars,
                 abort>>

(* The callback returns or throws: both go on with the loop.               *)
CallbackReturns ==
  /\ task = "callback"
  /\ task' = "poll"
  /\ UNCHANGED <<socketVars, ownVars, abort>>

(* The callback calls stopAccepting: the end event is posted, then join of *)
(* the own thread throws, which handleIncomingStreams catches.             *)
CallbackStops ==
  /\ task = "callback" /\ ~stopped_accepting
  /\ PostEnd
  /\ task' = "poll"
  /\ UNCHANGED <<ownVars, abort>>

-----------------------------------------------------------------------------
(* The owner: stopAccepting, called by the program, by the destructor of   *)
(* the derived class (stopsFirst) and by ~ListenerBase.                    *)
BaseStopBegin ==
  /\ life = "alive" /\ owner = "idle" /\ ~abort
  /\ ~stopped_accepting
  /\ PostEnd
  /\ owner' = "join"
  /\ UNCHANGED <<taskVars, derived, stopsFirst>>

(* Mutant: the thread is not waited for.                                   *)
StopJoin_Detach ==
  /\ owner = "join" /\ ~abort
  /\ owner' = "close"
  /\ UNCHANGED <<socketVars, taskVars, derived, stopsFirst>>

StopJoin ==
  /\ owner = "join" /\ ~abort
  /\ task \in {"none", "done"}
  /\ owner' = "close"
  /\ UNCHANGED <<socketVars, taskVars, derived, stopsFirst>>

BaseStopClose ==
  /\ owner = "close" /\ ~abort
  /\ CloseSocket
  /\ owner' = "store"
  /\ UNCHANGED <<taskVars, derived, stopsFirst>>

BaseStopStore ==
  /\ owner = "store" /\ ~abort
  /\ SetStopped
  /\ owner' = "idle"
  /\ UNCHANGED <<taskVars, derived, stopsFirst>>

(* The derived part is destroyed first, then ~ListenerBase runs            *)
(* stopAccepting.                                                          *)
DestroyDerived ==
  /\ life = "alive" /\ owner = "idle" /\ derived
  /\ stopsFirst => stopped_accepting
  /\ derived' = FALSE
  /\ UNCHANGED <<socketVars, taskVars, owner, stopsFirst>>

DestroyBase ==
  /\ life = "alive" /\ owner = "idle" /\ ~derived /\ stopped_accepting
  /\ life' = "dead"
  /\ UNCHANGED <<sock, endfd, ending, stopped_accepting, closes, backlog,
                 taskVars, ownVars>>

BaseClientConnects ==
  /\ \E c \in Clients : Connect(c, FALSE)
  /\ UNCHANGED <<taskVars, ownVars>>

BaseClientVanishes == Vanish /\ UNCHANGED <<taskVars, ownVars>>

Task ==
  \/ BasePollClient \/ BasePollEnd \/ CallbackReturns
  \/ \E c \in Clients : BaseAccept(c)

BaseStopping == StopJoin \/ BaseStopClose \/ BaseStopStore

BaseNext ==
  \/ BaseConstructor \/ startAccepting
  \/ BaseClientConnects \/ BaseClientVanishes
  \/ Task \/ BaseAcceptFails \/ CallbackStops
  \/ BaseStopBegin \/ BaseStopping
  \/ DestroyDerived \/ DestroyBase

BaseSpec == BaseInit /\ [][BaseNext]_baseVars

(* The thread and the owner inside stopAccepting run when they can; in     *)
(* particular onIncomingStream returns.                                    *)
BaseFairSpec == BaseSpec /\ WF_baseVars(Task) /\ WF_baseVars(BaseStopping)

-----------------------------------------------------------------------------
(* "after this call onIncomingStream will no longer be called": once       *)
(* stopAccepting has returned the callback does not run and will not, and  *)
(* the thread is never polling or accepting on a descriptor that has been  *)
(* closed.                                                                 *)
NoCallbackAfterStop ==
  stopped_accepting \/ sock = "closed" => task \in {"none", "done"}

(* onIncomingStream is never called when its implementation is gone, if    *)
(* the derived class stops the thread in its own destructor, also when     *)
(* the callback itself has tried to stop it.  (If it does not, ~ListenerBase *)
(* stops the thread too late and a pure virtual function may be called.)   *)
CallbackHasObject == abort => ~stopsFirst

(* The thread waits in a blocking ::accept for a client that is gone.      *)
BaseCaught == task = "accept" /\ backlog = {}

(* stopAccepting returns, if at some time clients cease to come and        *)
(* ::accept to fail: the thread looks at the socket before the end event,  *)
(* so that a steady flow of clients, or a client it cannot accept, keeps   *)
(* it in its loop for ever.  The other exception is a thread caught for    *)
(* ever in ::accept, which does not look at the event.  Clients that wait  *)
(* already, or come later, and failures do not matter as long as they end. *)
StopReturns ==
  \/ []<><<BaseClientConnects \/ BaseAcceptFails>>_baseVars
  \/ owner = "join" ~> (stopped_accepting \/ abort \/ []BaseCaught)
=============================================================================
