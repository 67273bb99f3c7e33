------------------------ MODULE ConnectionLifecycle ------------------------
(***************************************************************************)
(* The authenticated chat connection of SignalTsClient (client.ts):        *)
(* connect, disconnect, the death of a socket and the keepalive.           *)
(*                                                                         *)
(* connect() numbers its attempt with connectionGeneration and awaits the  *)
(* connection factory; everything that belongs to an attempt - listener,   *)
(* keepalive ticks, incoming tasks - carries its number and is ignored     *)
(* once connectionGeneration has moved on.  Attempts, sockets and          *)
(* listeners are therefore identified by their generation.                 *)
(*                                                                         *)
(* A step is a run of synchronous code between two awaits.  A call that    *)
(* waited for close tasks resumes in the microtask that follows the last   *)
(* of them, before the network, a timer or a new call.                     *)
(***************************************************************************)
EXTENDS Naturals, FiniteSets

CONSTANTS
  MaxConnects,      \* bound on calls of connect()
  MaxDisconnects,   \* bound on calls of disconnect()
  MaxThrows,        \* bound on "connected" handlers that throw
  PatientHost       \* whether the host awaits its calls, see HostMayConnect

ASSUME LifecycleAssumption ==
  /\ MaxConnects \in Nat \ {0}
  /\ MaxDisconnects \in Nat
  /\ MaxThrows \in Nat
  /\ PatientHost \in BOOLEAN

(* Each attempt takes a generation and its end at most one more.           *)
Generations == 1 .. 2 * MaxConnects + MaxDisconnects

(* The calls of disconnect(), in the order in which they are made.         *)
Disconnects == 1 .. MaxDisconnects

VARIABLES
  generation,         \* connectionGeneration
  connection,         \* generation of this.connection, 0 if undefined
  acceptingIncoming,
  keepaliveTimer,     \* generation of the interval timer, 0 if stopped
  keepaliveInFlight,  \* keepaliveInFlightGeneration, 0 if undefined
  closeTasks,         \* connectionCloseTasks, by generation of the socket
  incomingTasks,      \* generations that have an incoming task under way
  ticks,              \* generation -> keepalive ticks awaiting their answer
  attempt,            \* generation -> where the connect() with it is
  waitingConnects,    \* connect() calls awaiting the close tasks
  disconnecting,      \* disconnect() call -> where it is
  closing,            \* disconnect() call -> the socket that it is closing
  open,               \* sockets the server has open
  deaf,               \* open sockets that no longer carry anything
  reported,           \* generation -> "disconnected" events it caused
  connects, disconnects, throws,   \* bounded counts
  quiet               \* disconnect() calls made since the last attempt began

clientVars == <<generation, connection, acceptingIncoming, keepaliveTimer,
                keepaliveInFlight, closeTasks>>
callVars   == <<attempt, waitingConnects, disconnecting, closing>>
netVars    == <<open, deaf>>
countVars  == <<connects, disconnects, throws>>

vars == <<clientVars, incomingTasks, ticks, callVars, netVars, reported,
          countVars, quiet>>

Init ==
  /\ generation = 0 /\ connection = 0 /\ acceptingIncoming = FALSE
  /\ keepaliveTimer = 0 /\ keepaliveInFlight = 0
  /\ closeTasks = {} /\ incomingTasks = {}
  /\ ticks = [g \in Generations |-> 0]
  /\ attempt = [g \in Generations |-> "none"]
  /\ waitingConnects = 0
  /\ disconnecting = [d \in Disconnects |-> "none"]
  /\ closing = [d \in Disconnects |-> 0]
  /\ open = {} /\ deaf = {}
  /\ reported = [g \in Generations |-> 0]
  /\ connects = 0 /\ disconnects = 0 /\ throws = 0
  /\ quiet = {}

-----------------------------------------------------------------------------
(* Helpers *)

(* Seeded fault: the in-flight mark of the dead generation is kept.        *)
InvalidateKeepsMark ==
  /\ generation' = generation + 1
  /\ acceptingIncoming' = FALSE
  /\ keepaliveTimer' = 0
  /\ UNCHANGED keepaliveInFlight

(* invalidateConnectionGeneration for the current generation               *)
Invalidate ==
  /\ generation' = generation + 1
  /\ acceptingIncoming' = FALSE
  /\ keepaliveTimer' = 0
  /\ keepaliveInFlight' = 0

(* Seeded fault: the dead connection is dropped without closing it.        *)
DeadSocketForgotten == closeTasks

DeadSocketClosed ==
  IF connection = 0 THEN closeTasks ELSE closeTasks \cup {connection}

DieAs(g) ==
  /\ Invalidate
  /\ connection' = 0
  /\ closeTasks' = DeadSocketClosed
  /\ reported' = [reported EXCEPT ![g] = @ + 1]

(* Seeded fault: whoever finds its socket dead declares the current one so.*)
handleDeadConnectionUnguarded(g) == DieAs(g)

(* A connection that is no longer current cannot die a second time.        *)
handleDeadConnection(g) ==
  IF g = generation
  THEN DieAs(g)
  ELSE UNCHANGED <<clientVars, reported>>

(* Microtasks run first: a connect() whose last close task is gone resumes.*)
ConnectReady == waitingConnects > 0 /\ closeTasks = {}

-----------------------------------------------------------------------------
(* connect() *)

BeginAttempt ==
  /\ generation' = generation + 1
  /\ acceptingIncoming' = TRUE
  /\ attempt' = [attempt EXCEPT ![generation + 1] = "dialing"]
  /\ quiet' = {}
  /\ UNCHANGED <<connection, keepaliveTimer, keepaliveInFlight, closeTasks>>

(* No disconnect() call is under way.                                      *)
NoDisconnect == \A d \in Disconnects : disconnecting[d] \in {"none", "returned"}

(* A patient host awaits disconnect(), and a connect() unless it has called*)
(* disconnect() to give it up.  Another host calls as it likes.            *)
HostMayConnect ==
  \/ ~PatientHost
  \/ /\ NoDisconnect
     /\ \/ quiet # {}
        \/ /\ waitingConnects = 0
           /\ \A g \in Generations : attempt[g] \in {"none", "over"}

(* A second call while the first is under way is not refused; a call while *)
(* this.connection is set returns at once.                                 *)
connect ==
  /\ ~ConnectReady
  /\ HostMayConnect
  /\ connects < MaxConnects
  /\ connects' = connects + 1
  /\ connection = 0
  /\ \/ /\ closeTasks = {}
        /\ BeginAttempt
        /\ UNCHANGED waitingConnects
     \/ /\ closeTasks # {}
        /\ waitingConnects' = waitingConnects + 1
        /\ UNCHANGED <<clientVars, attempt, quiet>>
  /\ UNCHANGED <<incomingTasks, ticks, disconnecting, closing, netVars,
                 reported, disconnects, throws>>

ConnectProceeds ==
  /\ ConnectReady
  /\ waitingConnects' = waitingConnects - 1
  /\ BeginAttempt
  /\ UNCHANGED <<incomingTasks, ticks, disconnecting, closing, netVars,
                 reported, countVars>>

(* The factory's promise settles.                                          *)
SocketOpens(g) ==
  /\ ~ConnectReady
  /\ attempt[g] = "dialing"
  /\ attempt' = [attempt EXCEPT ![g] = "dialed"]
  /\ open' = open \cup {g}
  /\ UNCHANGED <<clientVars, incomingTasks, ticks, waitingConnects,
                 disconnecting, closing, deaf, reported, countVars, quiet>>

DialFails(g) ==
  /\ ~ConnectReady
  /\ attempt[g] = "dialing"
  /\ attempt' = [attempt EXCEPT ![g] = "over"]
  /\ IF g = generation
     THEN Invalidate
     ELSE UNCHANGED <<generation, acceptingIncoming, keepaliveTimer,
                      keepaliveInFlight>>
  /\ UNCHANGED <<connection, closeTasks, incomingTasks, ticks,
                 waitingConnects, disconnecting, closing, netVars, reported,
                 countVars, quiet>>

(* Seeded fault: the generation is not checked again after the await.      *)
ConnectWinsUnchecked(g) ==
  /\ attempt[g] = "dialed"
  /\ attempt' = [attempt EXCEPT ![g] = "over"]
  /\ connection' = g
  /\ keepaliveTimer' = g
  /\ keepaliveInFlight' = 0
  /\ UNCHANGED <<generation, acceptingIncoming, closeTasks, incomingTasks,
                 ticks, waitingConnects, disconnecting, closing, netVars,
                 reported, countVars, quiet>>

(* connect() goes on with its socket and emits "connected".                *)
ConnectWins(g) ==
  /\ attempt[g] = "dialed"
  /\ g = generation
  /\ attempt' = [attempt EXCEPT ![g] = "over"]
  /\ connection' = g
  /\ keepaliveTimer' = g
  /\ keepaliveInFlight' = 0
  /\ UNCHANGED <<generation, acceptingIncoming, closeTasks, incomingTasks,
                 ticks, waitingConnects, disconnecting, closing, netVars,
                 reported, countVars, quiet>>

(* A "connected" handler throws: connect() rejects and the generation is   *)
(* over, but the connection stays set.                                     *)
ConnectedHandlerThrows(g) ==
  /\ throws < MaxThrows
  /\ throws' = throws + 1
  /\ attempt[g] = "dialed"
  /\ g = generation
  /\ attempt' = [attempt EXCEPT ![g] = "over"]
  /\ connection' = g
  /\ Invalidate
  /\ UNCHANGED <<closeTasks, incomingTasks, ticks, waitingConnects,
                 disconnecting, closing, netVars, reported, connects,
                 disconnects, quiet>>

(* Seeded fault: the late socket is not closed.                            *)
ConnectLosesKeepsSocket(g) ==
  /\ attempt[g] = "dialed"
  /\ g # generation
  /\ attempt' = [attempt EXCEPT ![g] = "over"]
  /\ UNCHANGED <<clientVars, incomingTasks, ticks, waitingConnects,
                 disconnecting, closing, netVars, reported, countVars, quiet>>

(* The attempt was overtaken: connect() closes its own socket, untracked.  *)
ConnectLoses(g) ==
  /\ attempt[g] = "dialed"
  /\ g # generation
  /\ attempt' = [attempt EXCEPT ![g] = "closing"]
  /\ UNCHANGED <<clientVars, incomingTasks, ticks, waitingConnects,
                 disconnecting, closing, netVars, reported, countVars, quiet>>

LateSocketCloses(g) ==
  /\ ~ConnectReady
  /\ attempt[g] = "closing"
  /\ attempt' = [attempt EXCEPT ![g] = "over"]
  /\ open' = open \ {g}
  /\ deaf' = deaf \ {g}
  /\ UNCHANGED <<clientVars, incomingTasks, ticks, waitingConnects,
                 disconnecting, closing, reported, countVars, quiet>>

-----------------------------------------------------------------------------
(* disconnect() *)

(* Every call moves the generation on.  The one that finds the connection  *)
(* closes it; one that comes meanwhile finds none and does not wait for it.*)
disconnect ==
  LET d == disconnects + 1 IN
  /\ ~ConnectReady
  /\ PatientHost => NoDisconnect
  /\ disconnects < MaxDisconnects
  /\ disconnects' = d
  /\ Invalidate
  /\ connection' = 0
  /\ closing' = [closing EXCEPT ![d] = connection]
  /\ disconnecting' = [disconnecting EXCEPT
                        ![d] = IF connection = 0 THEN "tasks" ELSE "socket"]
  /\ quiet' = quiet \cup {d}
  /\ UNCHANGED <<closeTasks, incomingTasks, ticks, attempt, waitingConnects,
                 netVars, reported, connects, throws>>

(* connection.disconnect() settles; an error is thrown when all is done.   *)
DisconnectClosesSocket(d) ==
  /\ ~ConnectReady
  /\ disconnecting[d] = "socket"
  /\ disconnecting' = [disconnecting EXCEPT ![d] = "tasks"]
  /\ closing' = [closing EXCEPT ![d] = 0]
  /\ open' = open \ {closing[d]}
  /\ deaf' = deaf \ {closing[d]}
  /\ UNCHANGED <<clientVars, incomingTasks, ticks, attempt, waitingConnects,
                 reported, countVars, quiet>>

(* Seeded fault: incoming tasks are not awaited.                           *)
DisconnectSkipsTasks(d) ==
  /\ disconnecting[d] = "tasks"
  /\ disconnecting' = [disconnecting EXCEPT ![d] = "closes"]
  /\ UNCHANGED <<clientVars, incomingTasks, ticks, attempt, waitingConnects,
                 closing, netVars, reported, countVars, quiet>>

DisconnectAwaitsTasks(d) ==
  /\ disconnecting[d] = "tasks"
  /\ incomingTasks = {}
  /\ disconnecting' = [disconnecting EXCEPT ![d] = "closes"]
  /\ UNCHANGED <<clientVars, incomingTasks, ticks, attempt, waitingConnects,
                 closing, netVars, reported, countVars, quiet>>

DisconnectReturns(d) ==
  /\ disconnecting[d] = "closes"
  /\ closeTasks = {}
  /\ disconnecting' = [disconnecting EXCEPT ![d] = "returned"]
  /\ UNCHANGED <<clientVars, incomingTasks, ticks, attempt, waitingConnects,
                 closing, netVars, reported, countVars, quiet>>

-----------------------------------------------------------------------------
(* The socket, its listener and its tasks *)

CloseTaskEnds(g) ==
  /\ g \in closeTasks
  /\ closeTasks' = closeTasks \ {g}
  /\ open' = open \ {g}
  /\ deaf' = deaf \ {g}
  /\ UNCHANGED <<generation, connection, acceptingIncoming, keepaliveTimer,
                 keepaliveInFlight, incomingTasks, ticks, callVars, reported,
                 countVars, quiet>>

(* The server or the network closes the socket (onConnectionInterrupted).  *)
onConnectionInterrupted(g) ==
  /\ ~ConnectReady
  /\ g \in open
  /\ open' = open \ {g}
  /\ deaf' = deaf \ {g}
  /\ handleDeadConnection(g)
  /\ UNCHANGED <<incomingTasks, ticks, callVars, countVars, quiet>>

(* The socket stays established and stops carrying anything.               *)
GoesDeaf(g) ==
  /\ ~ConnectReady
  /\ g \in open \ deaf
  /\ deaf' = deaf \cup {g}
  /\ UNCHANGED <<clientVars, incomingTasks, ticks, callVars, open, reported,
                 countVars, quiet>>

(* onIncomingMessage admits an envelope: trackIncomingTask                 *)
IncomingTaskStarts(g) ==
  /\ ~ConnectReady
  /\ g \in open \ deaf
  /\ g = generation
  /\ acceptingIncoming
  /\ g \notin incomingTasks
  /\ incomingTasks' = incomingTasks \cup {g}
  /\ UNCHANGED <<clientVars, ticks, callVars, netVars, reported, countVars,
                 quiet>>

(* The task ends, or its acknowledgement fails and the socket is dead.     *)
IncomingTaskEnds(g) ==
  /\ ~ConnectReady
  /\ g \in incomingTasks
  /\ incomingTasks' = incomingTasks \ {g}
  /\ handleDeadConnection(g) \/ UNCHANGED <<clientVars, reported>>
  /\ UNCHANGED <<ticks, callVars, netVars, countVars, quiet>>

-----------------------------------------------------------------------------
(* runKeepaliveTick *)

KeepaliveTick ==
  /\ ~ConnectReady
  /\ keepaliveTimer # 0
  /\ keepaliveTimer = generation
  /\ keepaliveInFlight = 0
  /\ connection # 0
  /\ keepaliveInFlight' = keepaliveTimer
  /\ ticks' = [ticks EXCEPT ![keepaliveTimer] = @ + 1]
  /\ UNCHANGED <<generation, connection, acceptingIncoming, keepaliveTimer,
                 closeTasks, incomingTasks, callVars, netVars, reported,
                 countVars, quiet>>

(* Seeded fault: the in-flight mark survives the answer.                   *)
ClearInFlightNever(g) == UNCHANGED keepaliveInFlight

(* The finally block: the mark of a newer connection's tick stays.         *)
ClearInFlight(g) ==
  keepaliveInFlight' = IF keepaliveInFlight = g THEN 0 ELSE keepaliveInFlight

KeepaliveAnswered(g) ==
  /\ ~ConnectReady
  /\ ticks[g] > 0
  /\ g \in open \ deaf
  /\ ticks' = [ticks EXCEPT ![g] = @ - 1]
  /\ ClearInFlight(g)
  /\ UNCHANGED <<generation, connection, acceptingIncoming, keepaliveTimer,
                 closeTasks, incomingTasks, callVars, netVars, reported,
                 countVars, quiet>>

(* A timeout, an error or a status that is not 2xx                         *)
KeepaliveFails(g) ==
  /\ ~ConnectReady
  /\ ticks[g] > 0
  /\ ticks' = [ticks EXCEPT ![g] = @ - 1]
  /\ \/ /\ g = generation
        /\ handleDeadConnection(g)
     \/ /\ g # generation
        /\ ClearInFlight(g)
        /\ UNCHANGED <<generation, connection, acceptingIncoming,
                       keepaliveTimer, closeTasks, reported>>
  /\ UNCHANGED <<incomingTasks, callVars, netVars, countVars, quiet>>

-----------------------------------------------------------------------------
CallStep(g) ==
  \/ SocketOpens(g) \/ DialFails(g) \/ ConnectWins(g) \/ ConnectLoses(g)
  \/ LateSocketCloses(g) \/ ConnectedHandlerThrows(g)

SocketStep(g) ==
  \/ CloseTaskEnds(g) \/ onConnectionInterrupted(g) \/ GoesDeaf(g)
  \/ IncomingTaskStarts(g) \/ IncomingTaskEnds(g)
  \/ KeepaliveAnswered(g) \/ KeepaliveFails(g)

DisconnectStep(d) ==
  DisconnectClosesSocket(d) \/ DisconnectAwaitsTasks(d) \/ DisconnectReturns(d)

Next ==
  \/ connect \/ ConnectProceeds \/ disconnect \/ KeepaliveTick
  \/ \E d \in Disconnects : DisconnectStep(d)
  \/ \E g \in Generations : CallStep(g) \/ SocketStep(g)

Spec == Init /\ [][Next]_vars

(***************************************************************************)
(* Promises that settle resume their callers, the keepalive timer fires,   *)
(* a tick ends by its timeout at the latest, and libsignal settles every   *)
(* disconnect().  The host, the server and failures are not fair.          *)
(***************************************************************************)
Fairness ==
  /\ WF_vars(ConnectProceeds)
  /\ WF_vars(KeepaliveTick)
  /\ \A d \in Disconnects : WF_vars(DisconnectClosesSocket(d))
  /\ \A g \in Generations :
       /\ WF_vars(ConnectWins(g) \/ ConnectLoses(g))
       /\ WF_vars(LateSocketCloses(g))
       /\ WF_vars(CloseTaskEnds(g))
       /\ WF_vars(KeepaliveFails(g) \/ KeepaliveAnswered(g))

FairSpec == Spec /\ Fairness

-----------------------------------------------------------------------------
(* Properties *)

TypeOK ==
  /\ generation \in Nat
  /\ connection \in Generations \cup {0}
  /\ acceptingIncoming \in BOOLEAN
  /\ keepaliveTimer \in Generations \cup {0}
  /\ keepaliveInFlight \in Generations \cup {0}
  /\ closeTasks \subseteq Generations
  /\ incomingTasks \subseteq Generations
  /\ ticks \in [Generations -> Nat]
  /\ attempt \in [Generations ->
                    {"none", "dialing", "dialed", "closing", "over"}]
  /\ waitingConnects \in Nat
  /\ disconnecting \in [Disconnects ->
                          {"none", "socket", "tasks", "closes", "returned"}]
  /\ closing \in [Disconnects -> Generations \cup {0}]
  /\ open \subseteq Generations
  /\ deaf \subseteq open
  /\ reported \in [Generations -> Nat]
  /\ connects \in 0 .. MaxConnects
  /\ disconnects \in 0 .. MaxDisconnects
  /\ throws \in 0 .. MaxThrows
  /\ quiet \subseteq Disconnects

(* Unless a "connected" handler threw, the client never holds a connection *)
(* whose listener it ignores or that no keepalive watches, whatever        *)
(* connects, disconnects and dead sockets interleaved (connect rechecks    *)
(* the generation after its await).                                        *)
ConnectionIsCurrent ==
  throws = 0 /\ connection # 0 =>
    connection = generation /\ keepaliveTimer = generation /\ acceptingIncoming

(* The keepalive cannot stall: the in-flight mark always stands for a tick *)
(* of the current connection that will clear it, and there is one at most. *)
KeepaliveMarkIsLive ==
  /\ keepaliveInFlight # 0 => /\ keepaliveInFlight = generation
                              /\ ticks[keepaliveInFlight] = 1
  /\ \A g \in Generations : ticks[g] <= 1

(* No socket is forgotten: every socket open at the server is the client's *)
(* connection or some call is about to close it.                           *)
NoForgottenSocket ==
  \A g \in open :
    \/ connection = g
    \/ g \in closeTasks
    \/ attempt[g] \in {"dialed", "closing"}
    \/ \E d \in Disconnects : closing[d] = g

(* A connection is reported dead once at most, although the listener, the  *)
(* keepalive and failing acknowledgements may all notice.                  *)
ReportedOnce == \A g \in Generations : reported[g] <= 1

(* What the code relies on without checking it: nothing has been tried     *)
(* beyond the current generation; the current attempt, while it dials,     *)
(* admits envelopes, has no close task and no connection beside it, and    *)
(* once it has its socket no other call waits; a call that waits has no    *)
(* connection beside it.                                                   *)
AttemptsInv ==
  /\ \A g \in Generations : g > generation => attempt[g] = "none"
  /\ \A g \in Generations :
       g = generation /\ attempt[g] \in {"dialing", "dialed"} =>
         acceptingIncoming /\ closeTasks = {} /\ connection = 0
  /\ \A g \in Generations :
       g = generation /\ attempt[g] = "dialed" => waitingConnects = 0
  /\ waitingConnects > 0 => connection = 0

(* Ticks belong to attempts that are over, the tick of the current         *)
(* generation is the marked one, and without a connection there is neither *)
(* a timer nor a mark.                                                     *)
TicksInv ==
  /\ \A g \in Generations :
       g > generation \/ attempt[g] # "over" => ticks[g] = 0
  /\ \A g \in Generations :
       g = generation /\ ticks[g] # 0 => keepaliveInFlight = g
  /\ keepaliveTimer # 0 => attempt[keepaliveTimer] = "over"
  /\ connection = 0 => keepaliveTimer = 0 /\ keepaliveInFlight = 0

(* Only a disconnect() that awaits its socket has one to close, and no call*)
(* is anywhere before it is made.                                          *)
ClosingInv ==
  /\ \A d \in Disconnects : disconnecting[d] # "socket" => closing[d] = 0
  /\ \A d \in Disconnects : d > disconnects => disconnecting[d] = "none"

(* Nothing has been reported of a generation before it is over.            *)
ReportsInv == \A g \in Generations : g >= generation => reported[g] = 0

(* From a disconnect() to the next attempt nothing is admitted and no      *)
(* connection is held; what is under way when disconnect() is called ends  *)
(* in the order in which it awaits it.                                     *)
QuietInv ==
  /\ quiet # {} => ~acceptingIncoming /\ connection = 0
  /\ \A d \in quiet :
       /\ disconnecting[d] \in {"closes", "returned"} => incomingTasks = {}
       /\ disconnecting[d] = "returned" => closeTasks = {}

(* The invariant that the proofs use.                                      *)
LifecycleInv ==
  /\ AttemptsInv
  /\ ConnectionIsCurrent
  /\ TicksInv
  /\ KeepaliveMarkIsLive
  /\ ClosingInv
  /\ NoForgottenSocket
  /\ ReportsInv
  /\ ReportedOnce

(* The client gives up a connection only by disconnect() or together with  *)
(* the one "disconnected" event of that very connection.                   *)
LossIsReported ==
  [][connection # 0 /\ connection' # connection =>
       \/ \E d \in Disconnects : closing'[d] = connection
       \/ throws = 0 => reported'[connection] = reported[connection] + 1]_vars

(* After any disconnect() call has returned, and until the next attempt, no*)
(* envelope is being admitted, no keepalive runs, and each socket left open*)
(* has a call that is about to close it: an overtaken attempt's own, or    *)
(* another disconnect() that found the connection first and that this one  *)
(* did not wait for (disconnect, client.ts:1045-1069).                     *)
QuietAfterDisconnect ==
  \A d \in quiet : disconnecting[d] = "returned" =>
    /\ incomingTasks = {} /\ keepaliveTimer = 0 /\ connection = 0
    /\ \A g \in open : \/ attempt[g] \in {"dialed", "closing"}
                       \/ \E e \in Disconnects : closing[e] = g

(* A socket the client does not use any more is eventually closed.         *)
UnusedSocketsClose ==
  \A g \in Generations : g \in open ~> (g \notin open \/ connection = g)

(* A connection over which nothing comes any more is eventually given up   *)
(* (the purpose of the keepalive), whatever older ticks are in flight,     *)
(* unless a "connected" handler threw.                                     *)
DeafConnectionGivenUp ==
  \A g \in Generations :
    (connection = g /\ g \in deaf) ~> (connection # g \/ throws > 0)

(* "Signal permits only one authenticated socket per device" (the comment  *)
(* on fetchAuthenticated): the client never has two open.                  *)
OneAuthenticatedSocket == Cardinality(open) <= 1

=============================================================================
