----------------------- MODULE ConnectionLifecycle_proofs -----------------------
(***************************************************************************)
(* The safety of the connection lifecycle, for any number of calls.  The   *)
(* type invariant is inductive by itself; LifecycleInv is inductive with   *)
(* it.  Each part of LifecycleInv is preserved by a lemma of its own, in   *)
(* the order in which they lean on one another:                            *)
(*   AttemptsInv          what may stand beside the current attempt        *)
(*   ConnectionIsCurrent  leans on AttemptsInv                             *)
(*   TicksInv and KeepaliveMarkIsLive  lean on AttemptsInv                 *)
(*   NoForgottenSocket    leans on AttemptsInv and on closing              *)
(*   ReportedOnce         with nothing reported of the current generation  *)
(* QuietInv, beside it, leans on AttemptsInv.                              *)
(* PatientInv and AloneInv, beside it, say when a device does have one     *)
(* authenticated socket at most.                                           *)
(***************************************************************************)
EXTENDS ConnectionLifecycle, FiniteSetTheorems, TLAPS

-----------------------------------------------------------------------------
(* The constants are numbers and every generation is a positive one.       *)
LEMMA GenerationsAreNumbers ==
  /\ MaxConnects \in Nat /\ MaxDisconnects \in Nat /\ MaxThrows \in Nat
  /\ \A g \in Generations : g \in Nat /\ g # 0
BY LifecycleAssumption DEF LifecycleAssumption, Generations

(* The next generation is a number greater than this one.                  *)
LEMMA NextGeneration ==
  ASSUME generation \in Nat
  PROVE  generation + 1 \in Nat /\ generation + 1 > generation
OBVIOUS

(* A disconnect() that is made is one of the calls, and nothing else about *)
(* the calls changes.                                                      *)
LEMMA NewDisconnect ==
  ASSUME TypeOK, disconnect
  PROVE  LET n == disconnects + 1 IN
         /\ n \in Disconnects
         /\ quiet' = quiet \cup {n}
         /\ closing'[n] = connection
         /\ disconnecting'[n] = IF connection = 0 THEN "tasks" ELSE "socket"
         /\ \A d \in Disconnects \ {n} :
              closing'[d] = closing[d] /\ disconnecting'[d] = disconnecting[d]
<1>1. disconnects + 1 \in Disconnects
  BY GenerationsAreNumbers DEF TypeOK, disconnect, Disconnects
<1> QED BY <1>1 DEF TypeOK, disconnect

(* What invalidating a generation leaves has its types.                    *)
LEMMA InvalidateTypes ==
  ASSUME TypeOK, Invalidate
  PROVE  /\ generation' \in Nat
         /\ acceptingIncoming' \in BOOLEAN
         /\ keepaliveTimer' \in Generations \cup {0}
         /\ keepaliveInFlight' \in Generations \cup {0}
<1>1. generation' \in Nat
  BY NextGeneration DEF TypeOK, Invalidate
<1>2. acceptingIncoming' \in BOOLEAN
  BY DEF Invalidate
<1> QED BY <1>1, <1>2 DEF Invalidate

(* So has what the death of a connection leaves, current or not.           *)
LEMMA DeadTypes ==
  ASSUME TypeOK, NEW g \in Generations, handleDeadConnection(g)
  PROVE  /\ generation' \in Nat
         /\ connection' \in Generations \cup {0}
         /\ acceptingIncoming' \in BOOLEAN
         /\ keepaliveTimer' \in Generations \cup {0}
         /\ keepaliveInFlight' \in Generations \cup {0}
         /\ closeTasks' \subseteq Generations
         /\ reported' \in [Generations -> Nat]
<1>1. CASE g = generation
  <2>1. DieAs(g)
    BY <1>1 DEF handleDeadConnection
  <2>2. Invalidate /\ connection' = 0
    BY <2>1 DEF DieAs
  <2>3. closeTasks' \subseteq Generations
    BY <2>1 DEF DieAs, DeadSocketClosed, TypeOK
  <2>4. reported' \in [Generations -> Nat]
    BY <2>1 DEF DieAs, TypeOK
  <2> QED BY <2>2, <2>3, <2>4, InvalidateTypes
<1>2. CASE g # generation
  BY <1>2 DEF handleDeadConnection, clientVars, TypeOK
<1> QED BY <1>1, <1>2

(* So has what the start of an attempt leaves.                             *)
LEMMA BeginTypes ==
  ASSUME TypeOK, BeginAttempt
  PROVE  /\ generation' \in Nat
         /\ connection' \in Generations \cup {0}
         /\ acceptingIncoming' \in BOOLEAN
         /\ keepaliveTimer' \in Generations \cup {0}
         /\ keepaliveInFlight' \in Generations \cup {0}
         /\ closeTasks' \subseteq Generations
         /\ attempt' \in [Generations ->
                             {"none", "dialing", "dialed", "closing", "over"}]
         /\ quiet' \subseteq Disconnects
<1>1. generation' \in Nat
  BY NextGeneration DEF TypeOK, BeginAttempt
<1>2. acceptingIncoming' \in BOOLEAN /\ quiet' \subseteq Disconnects
  BY DEF BeginAttempt
<1>3. attempt' \in [Generations ->
                      {"none", "dialing", "dialed", "closing", "over"}]
  BY DEF BeginAttempt, TypeOK
<1> QED BY <1>1, <1>2, <1>3 DEF BeginAttempt, TypeOK

(* Types are kept by every step.                                           *)
LEMMA TypeStep == TypeOK /\ [Next]_vars => TypeOK'
<1> SUFFICES ASSUME TypeOK, [Next]_vars PROVE TypeOK'
  OBVIOUS
<1> USE GenerationsAreNumbers DEF TypeOK, clientVars, callVars, netVars, countVars
<1>1. CASE connect
  <2>1. connects' \in 0 .. MaxConnects
    BY <1>1 DEF connect
  <2>2. CASE closeTasks = {}
    <3>1. BeginAttempt /\ UNCHANGED waitingConnects
      BY <1>1, <2>2 DEF connect
    <3> QED BY <1>1, <2>1, <3>1, BeginTypes DEF connect
  <2>3. CASE closeTasks # {}
    <3>1. waitingConnects' \in Nat
      BY <1>1, <2>3 DEF connect
    <3>2. UNCHANGED <<clientVars, attempt, quiet>>
      BY <1>1, <2>3 DEF connect
    <3> QED BY <1>1, <2>1, <3>1, <3>2 DEF connect
  <2> QED BY <2>2, <2>3
<1>2. CASE ConnectProceeds
  <2>1. waitingConnects' \in Nat
    BY <1>2 DEF ConnectProceeds, ConnectReady
  <2> QED BY <1>2, <2>1, BeginTypes DEF ConnectProceeds
<1>3. CASE disconnect
  <2>1. disconnects' \in 0 .. MaxDisconnects
    BY <1>3 DEF disconnect
  <2>2. disconnects + 1 \in Disconnects
    BY <1>3, <2>1 DEF disconnect, Disconnects
  <2>3. Invalidate /\ quiet' \subseteq Disconnects
    BY <1>3, <2>2 DEF disconnect
  <2>4. closing' \in [Disconnects -> Generations \cup {0}]
    BY <1>3 DEF disconnect
  <2>5. disconnecting' \in [Disconnects ->
                             {"none", "socket", "tasks", "closes", "returned"}]
    BY <1>3 DEF disconnect
  <2> QED BY <1>3, <2>1, <2>3, <2>4, <2>5, InvalidateTypes DEF disconnect
<1>4. ASSUME NEW d \in Disconnects, DisconnectStep(d) PROVE TypeOK'
  BY <1>4 DEF DisconnectStep, DisconnectClosesSocket, DisconnectAwaitsTasks, DisconnectReturns
<1>5. CASE KeepaliveTick
  BY <1>5 DEF KeepaliveTick
<1>6. ASSUME NEW g \in Generations, CallStep(g) PROVE TypeOK'
  <2>1. CASE SocketOpens(g) BY <2>1 DEF SocketOpens
  <2>2. CASE DialFails(g) 
    <3>1. CASE g = generation
      BY <2>2, <3>1, InvalidateTypes DEF DialFails
    <3>2. CASE g # generation
      BY <2>2, <3>2 DEF DialFails
    <3> QED BY <3>1, <3>2
  <2>3. CASE ConnectWins(g) BY <2>3 DEF ConnectWins
  <2>4. CASE ConnectLoses(g) BY <2>4 DEF ConnectLoses
  <2>5. CASE LateSocketCloses(g) BY <2>5 DEF LateSocketCloses
  <2>6. CASE ConnectedHandlerThrows(g) 
    <3>1. throws' \in 0 .. MaxThrows
      BY <2>6 DEF ConnectedHandlerThrows
    <3> QED BY <2>6, <3>1, InvalidateTypes DEF ConnectedHandlerThrows
  <2> QED BY <1>6, <2>1, <2>2, <2>3, <2>4, <2>5, <2>6 DEF CallStep
<1>7. ASSUME NEW g \in Generations, SocketStep(g) PROVE TypeOK'
  <2>1. CASE CloseTaskEnds(g) BY <2>1 DEF CloseTaskEnds
  <2>2. CASE onConnectionInterrupted(g) 
    BY <2>2, DeadTypes DEF onConnectionInterrupted
  <2>3. CASE GoesDeaf(g) BY <2>3 DEF GoesDeaf
  <2>4. CASE IncomingTaskStarts(g) BY <2>4 DEF IncomingTaskStarts
  <2>5. CASE IncomingTaskEnds(g) 
    <3>1. CASE handleDeadConnection(g)
      BY <2>5, <3>1, DeadTypes DEF IncomingTaskEnds
    <3>2. CASE UNCHANGED <<clientVars, reported>>
      BY <2>5, <3>2 DEF IncomingTaskEnds
    <3> QED BY <2>5, <3>1, <3>2 DEF IncomingTaskEnds
  <2>6. CASE KeepaliveAnswered(g) BY <2>6 DEF KeepaliveAnswered, ClearInFlight
  <2>7. CASE KeepaliveFails(g) 
    <3>1. ticks' \in [Generations -> Nat]
      BY <2>7 DEF KeepaliveFails
    <3>2. CASE g = generation
      BY <2>7, <3>1, <3>2, DeadTypes DEF KeepaliveFails
    <3>3. CASE g # generation
      BY <2>7, <3>1, <3>3 DEF KeepaliveFails, ClearInFlight
    <3> QED BY <3>2, <3>3
  <2> QED BY <1>7, <2>1, <2>2, <2>3, <2>4, <2>5, <2>6, <2>7 DEF SocketStep
<1>8. CASE UNCHANGED vars
  BY <1>8 DEF vars
<1> QED BY <1>1, <1>2, <1>3, <1>4, <1>5, <1>6, <1>7, <1>8 DEF Next

(* What may stand beside the current attempt.                              *)
LEMMA AttemptsStep ==
  ASSUME TypeOK, AttemptsInv, [Next]_vars
  PROVE  AttemptsInv'
<1> USE GenerationsAreNumbers, NextGeneration
    DEF TypeOK, clientVars, callVars, netVars, countVars,
        AttemptsInv
<1>1. CASE connect
  <2>1. CASE closeTasks = {}
    <3>1. BeginAttempt /\ UNCHANGED waitingConnects /\ connection = 0
      BY <1>1, <2>1 DEF connect
    <3> QED BY <2>1, <3>1 DEF BeginAttempt
  <2>2. CASE closeTasks # {}
    <3>1. /\ waitingConnects' = waitingConnects + 1
          /\ UNCHANGED <<clientVars, attempt, quiet>>
          /\ connection = 0
      BY <1>1, <2>2 DEF connect
    <3> QED BY <2>2, <3>1
  <2> QED BY <2>1, <2>2
<1>2. CASE ConnectProceeds
  BY <1>2 DEF ConnectProceeds, ConnectReady, BeginAttempt
<1>3. CASE disconnect
  BY <1>3 DEF disconnect, Invalidate
<1>4. ASSUME NEW d \in Disconnects, DisconnectStep(d) PROVE AttemptsInv'
  BY <1>4 DEF DisconnectStep, DisconnectClosesSocket, DisconnectAwaitsTasks,
            DisconnectReturns
<1>5. CASE KeepaliveTick
  BY <1>5 DEF KeepaliveTick
<1>6. ASSUME NEW g \in Generations, CallStep(g) PROVE AttemptsInv'
  <2>1. CASE SocketOpens(g)
    BY <2>1 DEF SocketOpens, ConnectReady
  <2>2. CASE DialFails(g)
    BY <2>2 DEF DialFails, Invalidate
  <2>3. CASE ConnectWins(g)
    BY <2>3 DEF ConnectWins
  <2>4. CASE ConnectLoses(g)
    BY <2>4 DEF ConnectLoses
  <2>5. CASE LateSocketCloses(g)
    BY <2>5 DEF LateSocketCloses
  <2>6. CASE ConnectedHandlerThrows(g)
    BY <2>6 DEF ConnectedHandlerThrows, Invalidate
  <2> QED BY <1>6, <2>1, <2>2, <2>3, <2>4, <2>5, <2>6 DEF CallStep
<1>7. ASSUME NEW g \in Generations, SocketStep(g) PROVE AttemptsInv'
  <2>1. CASE CloseTaskEnds(g)
    BY <2>1 DEF CloseTaskEnds
  <2>2. CASE onConnectionInterrupted(g)
    BY <2>2 DEF onConnectionInterrupted, handleDeadConnection, DieAs, Invalidate,
              DeadSocketClosed
  <2>3. CASE GoesDeaf(g)
    BY <2>3 DEF GoesDeaf
  <2>4. CASE IncomingTaskStarts(g)
    BY <2>4 DEF IncomingTaskStarts
  <2>5. CASE IncomingTaskEnds(g)
    BY <2>5 DEF IncomingTaskEnds, handleDeadConnection, DieAs, Invalidate,
              DeadSocketClosed
  <2>6. CASE KeepaliveAnswered(g)
    BY <2>6 DEF KeepaliveAnswered, ClearInFlight
  <2>7. CASE KeepaliveFails(g)
    BY <2>7 DEF KeepaliveFails, handleDeadConnection, DieAs, Invalidate,
              DeadSocketClosed, ClearInFlight
  <2> QED BY <1>7, <2>1, <2>2, <2>3, <2>4, <2>5, <2>6, <2>7 DEF SocketStep
<1>8. CASE UNCHANGED vars
  BY <1>8 DEF vars
<1> QED BY <1>1, <1>2, <1>3, <1>4, <1>5, <1>6, <1>7, <1>8 DEF Next

(* The connection held is current.                                         *)
LEMMA CurrentStep ==
  ASSUME TypeOK, AttemptsInv, ConnectionIsCurrent, [Next]_vars
  PROVE  ConnectionIsCurrent'
<1> USE GenerationsAreNumbers, NextGeneration
    DEF TypeOK, clientVars, callVars, netVars, countVars,
        AttemptsInv, ConnectionIsCurrent
<1>1. CASE connect
  BY <1>1 DEF connect, BeginAttempt
<1>2. CASE ConnectProceeds
  BY <1>2 DEF ConnectProceeds, ConnectReady, BeginAttempt
<1>3. CASE disconnect
  BY <1>3 DEF disconnect, Invalidate
<1>4. ASSUME NEW d \in Disconnects, DisconnectStep(d) PROVE ConnectionIsCurrent'
  BY <1>4 DEF DisconnectStep, DisconnectClosesSocket, DisconnectAwaitsTasks,
            DisconnectReturns
<1>5. CASE KeepaliveTick
  BY <1>5 DEF KeepaliveTick
<1>6. ASSUME NEW g \in Generations, CallStep(g) PROVE ConnectionIsCurrent'
  <2>1. CASE SocketOpens(g)
    BY <2>1 DEF SocketOpens, ConnectReady
  <2>2. CASE DialFails(g)
    BY <2>2 DEF DialFails, Invalidate
  <2>3. CASE ConnectWins(g)
    BY <2>3 DEF ConnectWins
  <2>4. CASE ConnectLoses(g)
    BY <2>4 DEF ConnectLoses
  <2>5. CASE LateSocketCloses(g)
    BY <2>5 DEF LateSocketCloses
  <2>6. CASE ConnectedHandlerThrows(g)
    BY <2>6 DEF ConnectedHandlerThrows, Invalidate
  <2> QED BY <1>6, <2>1, <2>2, <2>3, <2>4, <2>5, <2>6 DEF CallStep
<1>7. ASSUME NEW g \in Generations, SocketStep(g) PROVE ConnectionIsCurrent'
  <2>1. CASE CloseTaskEnds(g)
    BY <2>1 DEF CloseTaskEnds
  <2>2. CASE onConnectionInterrupted(g)
    BY <2>2 DEF onConnectionInterrupted, handleDeadConnection, DieAs, Invalidate,
              DeadSocketClosed
  <2>3. CASE GoesDeaf(g)
    BY <2>3 DEF GoesDeaf
  <2>4. CASE IncomingTaskStarts(g)
    BY <2>4 DEF IncomingTaskStarts
  <2>5. CASE IncomingTaskEnds(g)
    BY <2>5 DEF IncomingTaskEnds, handleDeadConnection, DieAs, Invalidate,
              DeadSocketClosed
  <2>6. CASE KeepaliveAnswered(g)
    BY <2>6 DEF KeepaliveAnswered, ClearInFlight
  <2>7. CASE KeepaliveFails(g)
    BY <2>7 DEF KeepaliveFails, handleDeadConnection, DieAs, Invalidate,
              DeadSocketClosed, ClearInFlight
  <2> QED BY <1>7, <2>1, <2>2, <2>3, <2>4, <2>5, <2>6, <2>7 DEF SocketStep
<1>8. CASE UNCHANGED vars
  BY <1>8 DEF vars
<1> QED BY <1>1, <1>2, <1>3, <1>4, <1>5, <1>6, <1>7, <1>8 DEF Next

(* Ticks and the in-flight mark.                                           *)
LEMMA TicksStep ==
  ASSUME TypeOK, AttemptsInv, TicksInv, KeepaliveMarkIsLive, [Next]_vars
  PROVE  TicksInv' /\ KeepaliveMarkIsLive'
<1> USE GenerationsAreNumbers, NextGeneration
    DEF TypeOK, clientVars, callVars, netVars, countVars,
        AttemptsInv, TicksInv, KeepaliveMarkIsLive
<1>a. ASSUME BeginAttempt, UNCHANGED ticks, connection = 0
      PROVE  TicksInv' /\ KeepaliveMarkIsLive'
  <2>1. \A g \in Generations : g > generation => attempt[g] = "none" /\ ticks[g] = 0
    OBVIOUS
  <2>2. \A g \in Generations :
          /\ attempt'[g] # attempt[g] => g = generation + 1
          /\ attempt[g] = "over" => attempt'[g] = "over"
    BY <1>a, <2>1 DEF BeginAttempt
  <2>3. /\ generation' = generation + 1 /\ keepaliveTimer' = keepaliveTimer
        /\ keepaliveInFlight' = keepaliveInFlight /\ ticks' = ticks
        /\ connection' = connection /\ keepaliveTimer = 0
        /\ keepaliveInFlight = 0
    BY <1>a DEF BeginAttempt
  <2> QED BY <2>1, <2>2, <2>3
<1>1. CASE connect
  <2>1. CASE closeTasks = {}
    BY <1>a, <1>1, <2>1 DEF connect
  <2>2. CASE closeTasks # {}
    BY <1>1, <2>2 DEF connect
  <2> QED BY <2>1, <2>2
<1>2. CASE ConnectProceeds
  BY <1>a, <1>2 DEF ConnectProceeds, ConnectReady
<1>3. CASE disconnect
  BY <1>3 DEF disconnect, Invalidate
<1>4. ASSUME NEW d \in Disconnects, DisconnectStep(d) PROVE TicksInv' /\ KeepaliveMarkIsLive'
  BY <1>4 DEF DisconnectStep, DisconnectClosesSocket, DisconnectAwaitsTasks,
            DisconnectReturns
<1>5. CASE KeepaliveTick
  BY <1>5 DEF KeepaliveTick
<1>6. ASSUME NEW g \in Generations, CallStep(g) PROVE TicksInv' /\ KeepaliveMarkIsLive'
  <2>1. CASE SocketOpens(g)
    BY <2>1 DEF SocketOpens, ConnectReady
  <2>2. CASE DialFails(g)
    BY <2>2 DEF DialFails, Invalidate
  <2>3. CASE ConnectWins(g)
    BY <2>3 DEF ConnectWins
  <2>4. CASE ConnectLoses(g)
    BY <2>4 DEF ConnectLoses
  <2>5. CASE LateSocketCloses(g)
    BY <2>5 DEF LateSocketCloses
  <2>6. CASE ConnectedHandlerThrows(g)
    BY <2>6 DEF ConnectedHandlerThrows, Invalidate
  <2> QED BY <1>6, <2>1, <2>2, <2>3, <2>4, <2>5, <2>6 DEF CallStep
<1>7. ASSUME NEW g \in Generations, SocketStep(g) PROVE TicksInv' /\ KeepaliveMarkIsLive'
  <2>1. CASE CloseTaskEnds(g)
    BY <2>1 DEF CloseTaskEnds
  <2>2. CASE onConnectionInterrupted(g)
    BY <2>2 DEF onConnectionInterrupted, handleDeadConnection, DieAs, Invalidate,
              DeadSocketClosed
  <2>3. CASE GoesDeaf(g)
    BY <2>3 DEF GoesDeaf
  <2>4. CASE IncomingTaskStarts(g)
    BY <2>4 DEF IncomingTaskStarts
  <2>5. CASE IncomingTaskEnds(g)
    BY <2>5 DEF IncomingTaskEnds, handleDeadConnection, DieAs, Invalidate,
              DeadSocketClosed
  <2>6. CASE KeepaliveAnswered(g)
    BY <2>6 DEF KeepaliveAnswered, ClearInFlight
  <2>7. CASE KeepaliveFails(g)
    BY <2>7 DEF KeepaliveFails, handleDeadConnection, DieAs, Invalidate,
              DeadSocketClosed, ClearInFlight
  <2> QED BY <1>7, <2>1, <2>2, <2>3, <2>4, <2>5, <2>6, <2>7 DEF SocketStep
<1>8. CASE UNCHANGED vars
  BY <1>8 DEF vars
<1> QED BY <1>1, <1>2, <1>3, <1>4, <1>5, <1>6, <1>7, <1>8 DEF Next

(* Every open socket has a keeper.                                         *)
LEMMA SocketsStep ==
  ASSUME TypeOK, AttemptsInv, ClosingInv, NoForgottenSocket, [Next]_vars
  PROVE  ClosingInv' /\ NoForgottenSocket'
<1> USE GenerationsAreNumbers, NextGeneration
    DEF TypeOK, clientVars, callVars, netVars, countVars,
        AttemptsInv, ClosingInv, NoForgottenSocket
<1>1. CASE connect
  BY <1>1 DEF connect, BeginAttempt
<1>2. CASE ConnectProceeds
  BY <1>2 DEF ConnectProceeds, ConnectReady, BeginAttempt
<1>3. CASE disconnect
  <2> DEFINE n == disconnects + 1
  <2>0. /\ n \in Disconnects /\ disconnects \in Nat /\ disconnects' = n
        /\ disconnecting' \in [Disconnects ->
                               {"none", "socket", "tasks", "closes", "returned"}]
    BY <1>3, NewDisconnect DEF disconnect
  <2>1. /\ n > disconnects
        /\ disconnecting[n] = "none" /\ closing[n] = 0
    BY <2>0
  <2>2. ClosingInv'
    <3>1. ASSUME NEW d \in Disconnects
          PROVE  /\ disconnecting'[d] # "socket" => closing'[d] = 0
                 /\ d > disconnects' => disconnecting'[d] = "none"
      <4>1. CASE d = n
        BY <1>3, <2>0, <4>1, NewDisconnect
      <4>2. CASE d # n
        <5>1. d > n => d > disconnects
          BY <2>0 DEF Disconnects
        <5> QED BY <1>3, <2>0, <4>2, <5>1, NewDisconnect
      <4> QED BY <4>1, <4>2
    <3> QED BY <3>1
  <2>3. ASSUME NEW g \in open
        PROVE  \/ connection' = g \/ g \in closeTasks'
               \/ attempt'[g] \in {"dialed", "closing"}
               \/ \E d \in Disconnects : closing'[d] = g
    <3>1. CASE connection = g
      BY <1>3, <2>0, <3>1, NewDisconnect
    <3>2. CASE \E d \in Disconnects : closing[d] = g
      BY <1>3, <2>0, <2>1, <2>3, <3>2, NewDisconnect
    <3>3. CASE g \in closeTasks \/ attempt[g] \in {"dialed", "closing"}
      BY <1>3, <3>3 DEF disconnect
    <3> QED BY <2>3, <3>1, <3>2, <3>3
  <2>4. open' = open
    BY <1>3 DEF disconnect
  <2> QED BY <2>2, <2>3, <2>4
<1>4. ASSUME NEW d \in Disconnects, DisconnectStep(d) PROVE ClosingInv' /\ NoForgottenSocket'
  BY <1>4 DEF DisconnectStep, DisconnectClosesSocket, DisconnectAwaitsTasks,
            DisconnectReturns
<1>5. CASE KeepaliveTick
  BY <1>5 DEF KeepaliveTick
<1>6. ASSUME NEW g \in Generations, CallStep(g) PROVE ClosingInv' /\ NoForgottenSocket'
  <2>1. CASE SocketOpens(g)
    BY <2>1 DEF SocketOpens, ConnectReady
  <2>2. CASE DialFails(g)
    BY <2>2 DEF DialFails, Invalidate
  <2>3. CASE ConnectWins(g)
    BY <2>3 DEF ConnectWins
  <2>4. CASE ConnectLoses(g)
    BY <2>4 DEF ConnectLoses
  <2>5. CASE LateSocketCloses(g)
    BY <2>5 DEF LateSocketCloses
  <2>6. CASE ConnectedHandlerThrows(g)
    BY <2>6 DEF ConnectedHandlerThrows, Invalidate
  <2> QED BY <1>6, <2>1, <2>2, <2>3, <2>4, <2>5, <2>6 DEF CallStep
<1>7. ASSUME NEW g \in Generations, SocketStep(g) PROVE ClosingInv' /\ NoForgottenSocket'
  <2>1. CASE CloseTaskEnds(g)
    BY <2>1 DEF CloseTaskEnds
  <2>2. CASE onConnectionInterrupted(g)
    BY <2>2 DEF onConnectionInterrupted, handleDeadConnection, DieAs, Invalidate,
              DeadSocketClosed
  <2>3. CASE GoesDeaf(g)
    BY <2>3 DEF GoesDeaf
  <2>4. CASE IncomingTaskStarts(g)
    BY <2>4 DEF IncomingTaskStarts
  <2>5. CASE IncomingTaskEnds(g)
    BY <2>5 DEF IncomingTaskEnds, handleDeadConnection, DieAs, Invalidate,
              DeadSocketClosed
  <2>6. CASE KeepaliveAnswered(g)
    BY <2>6 DEF KeepaliveAnswered, ClearInFlight
  <2>7. CASE KeepaliveFails(g)
    BY <2>7 DEF KeepaliveFails, handleDeadConnection, DieAs, Invalidate,
              DeadSocketClosed, ClearInFlight
  <2> QED BY <1>7, <2>1, <2>2, <2>3, <2>4, <2>5, <2>6, <2>7 DEF SocketStep
<1>8. CASE UNCHANGED vars
  BY <1>8 DEF vars
<1> QED BY <1>1, <1>2, <1>3, <1>4, <1>5, <1>6, <1>7, <1>8 DEF Next

(* Each generation is reported once.                                       *)
LEMMA ReportsStep ==
  ASSUME TypeOK, ReportsInv, ReportedOnce, [Next]_vars
  PROVE  ReportsInv' /\ ReportedOnce'
<1> USE GenerationsAreNumbers, NextGeneration
    DEF TypeOK, clientVars, callVars, netVars, countVars,
        ReportsInv, ReportedOnce
<1>1. CASE connect
  BY <1>1 DEF connect, BeginAttempt
<1>2. CASE ConnectProceeds
  BY <1>2 DEF ConnectProceeds, ConnectReady, BeginAttempt
<1>3. CASE disconnect
  BY <1>3 DEF disconnect, Invalidate
<1>4. ASSUME NEW d \in Disconnects, DisconnectStep(d) PROVE ReportsInv' /\ ReportedOnce'
  BY <1>4 DEF DisconnectStep, DisconnectClosesSocket, DisconnectAwaitsTasks,
            DisconnectReturns
<1>5. CASE KeepaliveTick
  BY <1>5 DEF KeepaliveTick
<1>6. ASSUME NEW g \in Generations, CallStep(g) PROVE ReportsInv' /\ ReportedOnce'
  <2>1. CASE SocketOpens(g)
    BY <2>1 DEF SocketOpens, ConnectReady
  <2>2. CASE DialFails(g)
    BY <2>2 DEF DialFails, Invalidate
  <2>3. CASE ConnectWins(g)
    BY <2>3 DEF ConnectWins
  <2>4. CASE ConnectLoses(g)
    BY <2>4 DEF ConnectLoses
  <2>5. CASE LateSocketCloses(g)
    BY <2>5 DEF LateSocketCloses
  <2>6. CASE ConnectedHandlerThrows(g)
    BY <2>6 DEF ConnectedHandlerThrows, Invalidate
  <2> QED BY <1>6, <2>1, <2>2, <2>3, <2>4, <2>5, <2>6 DEF CallStep
<1>7. ASSUME NEW g \in Generations, SocketStep(g) PROVE ReportsInv' /\ ReportedOnce'
  <2>1. CASE CloseTaskEnds(g)
    BY <2>1 DEF CloseTaskEnds
  <2>2. CASE onConnectionInterrupted(g)
    BY <2>2 DEF onConnectionInterrupted, handleDeadConnection, DieAs, Invalidate,
              DeadSocketClosed
  <2>3. CASE GoesDeaf(g)
    BY <2>3 DEF GoesDeaf
  <2>4. CASE IncomingTaskStarts(g)
    BY <2>4 DEF IncomingTaskStarts
  <2>5. CASE IncomingTaskEnds(g)
    BY <2>5 DEF IncomingTaskEnds, handleDeadConnection, DieAs, Invalidate,
              DeadSocketClosed
  <2>6. CASE KeepaliveAnswered(g)
    BY <2>6 DEF KeepaliveAnswered, ClearInFlight
  <2>7. CASE KeepaliveFails(g)
    BY <2>7 DEF KeepaliveFails, handleDeadConnection, DieAs, Invalidate,
              DeadSocketClosed, ClearInFlight
  <2> QED BY <1>7, <2>1, <2>2, <2>3, <2>4, <2>5, <2>6, <2>7 DEF SocketStep
<1>8. CASE UNCHANGED vars
  BY <1>8 DEF vars
<1> QED BY <1>1, <1>2, <1>3, <1>4, <1>5, <1>6, <1>7, <1>8 DEF Next

(* What a disconnect() has ended stays ended until the next attempt.       *)
LEMMA QuietStep ==
  ASSUME TypeOK, AttemptsInv, QuietInv, [Next]_vars
  PROVE  QuietInv'
<1> USE GenerationsAreNumbers, NextGeneration
    DEF TypeOK, clientVars, callVars, netVars, countVars,
        AttemptsInv, QuietInv
<1>1. CASE connect
  <2>1. CASE BeginAttempt
    BY <2>1 DEF BeginAttempt
  <2>2. CASE UNCHANGED <<clientVars, attempt, quiet>>
    BY <1>1, <2>2 DEF connect
  <2> QED BY <1>1, <2>1, <2>2 DEF connect
<1>2. CASE ConnectProceeds
  BY <1>2 DEF ConnectProceeds, ConnectReady, BeginAttempt
<1>3. CASE disconnect
  <2>1. /\ ~acceptingIncoming' /\ connection' = 0
        /\ incomingTasks' = incomingTasks /\ closeTasks' = closeTasks
    BY <1>3 DEF disconnect, Invalidate
  <2>2. disconnecting'[disconnects + 1] \notin {"closes", "returned"}
    BY <1>3, NewDisconnect
  <2> QED BY <1>3, <2>1, <2>2, NewDisconnect
<1>4. ASSUME NEW d \in Disconnects, DisconnectStep(d) PROVE QuietInv'
  <2>1. CASE DisconnectClosesSocket(d)
    BY <2>1 DEF DisconnectClosesSocket
  <2>2. CASE DisconnectAwaitsTasks(d)
    BY <2>2 DEF DisconnectAwaitsTasks
  <2>3. CASE DisconnectReturns(d)
    BY <2>3 DEF DisconnectReturns
  <2> QED BY <1>4, <2>1, <2>2, <2>3 DEF DisconnectStep
<1>5. CASE KeepaliveTick
  BY <1>5 DEF KeepaliveTick
<1>6. ASSUME NEW g \in Generations, CallStep(g) PROVE QuietInv'
  <2>1. CASE SocketOpens(g)
    BY <2>1 DEF SocketOpens, ConnectReady
  <2>2. CASE DialFails(g)
    BY <2>2 DEF DialFails, Invalidate
  <2>3. CASE ConnectWins(g)
    BY <2>3 DEF ConnectWins
  <2>4. CASE ConnectLoses(g)
    BY <2>4 DEF ConnectLoses
  <2>5. CASE LateSocketCloses(g)
    BY <2>5 DEF LateSocketCloses
  <2>6. CASE ConnectedHandlerThrows(g)
    BY <2>6 DEF ConnectedHandlerThrows, Invalidate
  <2> QED BY <1>6, <2>1, <2>2, <2>3, <2>4, <2>5, <2>6 DEF CallStep
<1>7. ASSUME NEW g \in Generations, SocketStep(g) PROVE QuietInv'
  <2>1. CASE CloseTaskEnds(g)
    BY <2>1 DEF CloseTaskEnds
  <2>2. CASE onConnectionInterrupted(g)
    BY <2>2 DEF onConnectionInterrupted, handleDeadConnection, DieAs, Invalidate,
              DeadSocketClosed
  <2>3. CASE GoesDeaf(g)
    BY <2>3 DEF GoesDeaf
  <2>4. CASE IncomingTaskStarts(g)
    BY <2>4 DEF IncomingTaskStarts
  <2>5. CASE IncomingTaskEnds(g)
    BY <2>5 DEF IncomingTaskEnds, handleDeadConnection, DieAs, Invalidate,
              DeadSocketClosed
  <2>6. CASE KeepaliveAnswered(g)
    BY <2>6 DEF KeepaliveAnswered, ClearInFlight
  <2>7. CASE KeepaliveFails(g)
    BY <2>7 DEF KeepaliveFails, handleDeadConnection, DieAs, Invalidate,
              DeadSocketClosed, ClearInFlight
  <2> QED BY <1>7, <2>1, <2>2, <2>3, <2>4, <2>5, <2>6, <2>7 DEF SocketStep
<1>8. CASE UNCHANGED vars
  BY <1>8 DEF vars
<1> QED BY <1>1, <1>2, <1>3, <1>4, <1>5, <1>6, <1>7, <1>8 DEF Next

-----------------------------------------------------------------------------
(* How far "one authenticated socket per device" does hold.                *)

(* No disconnect() is closing a socket.                                    *)
NoSocketClosing == \A d \in Disconnects : disconnecting[d] # "socket"

(* A patient host awaits disconnect(); then what closes a socket does so   *)
(* alone: no attempt goes on beside the connection that disconnect()       *)
(* closes, and nothing is closed beside the one that is held.              *)
PatientInv ==
  PatientHost =>
    /\ waitingConnects > 0 => NoSocketClosing
    /\ \A g \in Generations :
         g = generation /\ attempt[g] \in {"dialing", "dialed"} => NoSocketClosing
    /\ connection # 0 => closeTasks = {} /\ NoSocketClosing
    /\ closeTasks # {} => NoSocketClosing
    /\ \A d, e \in Disconnects :
         disconnecting[d] = "socket" /\ disconnecting[e] = "socket" => d = e
    /\ \A g, h \in closeTasks : g = h

(* An attempt that was overtaken and has its socket, which it will close.  *)
Overtaken(g) ==
  attempt[g] = "closing" \/ (attempt[g] = "dialed" /\ g # generation)

(* Of two open sockets one is of an attempt that was overtaken while its   *)
(* factory was under way and that will close it.                           *)
OneSocketBesideOvertaken ==
  \A g, h \in open : g # h => Overtaken(g) \/ Overtaken(h)

(* An attempt that is under way.                                           *)
UnderWay(g) == attempt[g] \in {"dialing", "dialed", "closing"}

(* Without a disconnect() a patient host has one attempt at a time, and    *)
(* nothing beside it.                                                      *)
AloneInv ==
  PatientHost /\ disconnects = 0 =>
    /\ quiet = {} /\ waitingConnects <= 1
    /\ \A d \in Disconnects : disconnecting[d] = "none"
    /\ \A g, h \in Generations : UnderWay(g) /\ UnderWay(h) => g = h
    /\ \A g \in Generations :
         UnderWay(g) => connection = 0 /\ closeTasks = {} /\ waitingConnects = 0

(* Whatever closes a socket goes on doing so alone.                        *)
LEMMA PatientStep ==
  ASSUME TypeOK, AttemptsInv, ClosingInv, PatientInv, [Next]_vars
  PROVE  PatientInv'
<1> USE GenerationsAreNumbers, NextGeneration
    DEF TypeOK, clientVars, callVars, netVars, countVars,
        AttemptsInv, ClosingInv, PatientInv, NoSocketClosing
<1>1. CASE connect
  <2>1. connection = 0 /\ (PatientHost => NoSocketClosing)
    BY <1>1 DEF connect, HostMayConnect, NoDisconnect, NoSocketClosing
  <2>2. CASE closeTasks = {} /\ BeginAttempt /\ UNCHANGED waitingConnects
    BY <1>1, <2>1, <2>2 DEF connect, BeginAttempt
  <2>3. CASE closeTasks # {} /\ waitingConnects' = waitingConnects + 1
             /\ UNCHANGED <<clientVars, attempt, quiet>>
    BY <1>1, <2>1, <2>3 DEF connect
  <2> QED BY <1>1, <2>2, <2>3 DEF connect
<1>2. CASE ConnectProceeds
  BY <1>2 DEF ConnectProceeds, ConnectReady, BeginAttempt
<1>3. CASE disconnect
  BY <1>3 DEF disconnect, Invalidate
<1>4. ASSUME NEW d \in Disconnects, DisconnectStep(d) PROVE PatientInv'
  BY <1>4 DEF DisconnectStep, DisconnectClosesSocket, DisconnectAwaitsTasks,
            DisconnectReturns
<1>5. CASE KeepaliveTick
  BY <1>5 DEF KeepaliveTick
<1>6. ASSUME NEW g \in Generations, CallStep(g) PROVE PatientInv'
  <2>1. CASE SocketOpens(g)
    BY <2>1 DEF SocketOpens, ConnectReady
  <2>2. CASE DialFails(g)
    BY <2>2 DEF DialFails, Invalidate
  <2>3. CASE ConnectWins(g)
    BY <2>3 DEF ConnectWins
  <2>4. CASE ConnectLoses(g)
    BY <2>4 DEF ConnectLoses
  <2>5. CASE LateSocketCloses(g)
    BY <2>5 DEF LateSocketCloses
  <2>6. CASE ConnectedHandlerThrows(g)
    BY <2>6 DEF ConnectedHandlerThrows, Invalidate
  <2> QED BY <1>6, <2>1, <2>2, <2>3, <2>4, <2>5, <2>6 DEF CallStep
<1>7. ASSUME NEW g \in Generations, SocketStep(g) PROVE PatientInv'
  <2>1. CASE CloseTaskEnds(g)
    BY <2>1 DEF CloseTaskEnds
  <2>2. CASE onConnectionInterrupted(g)
    BY <2>2 DEF onConnectionInterrupted, handleDeadConnection, DieAs, Invalidate,
              DeadSocketClosed
  <2>3. CASE GoesDeaf(g)
    BY <2>3 DEF GoesDeaf
  <2>4. CASE IncomingTaskStarts(g)
    BY <2>4 DEF IncomingTaskStarts
  <2>5. CASE IncomingTaskEnds(g)
    BY <2>5 DEF IncomingTaskEnds, handleDeadConnection, DieAs, Invalidate,
              DeadSocketClosed
  <2>6. CASE KeepaliveAnswered(g)
    BY <2>6 DEF KeepaliveAnswered, ClearInFlight
  <2>7. CASE KeepaliveFails(g)
    BY <2>7 DEF KeepaliveFails, handleDeadConnection, DieAs, Invalidate,
              DeadSocketClosed, ClearInFlight
  <2> QED BY <1>7, <2>1, <2>2, <2>3, <2>4, <2>5, <2>6, <2>7 DEF SocketStep
<1>8. CASE UNCHANGED vars
  BY <1>8 DEF vars
<1> QED BY <1>1, <1>2, <1>3, <1>4, <1>5, <1>6, <1>7, <1>8 DEF Next

(* Until there is a disconnect() attempts follow one another.              *)
LEMMA AloneStep ==
  ASSUME TypeOK, AttemptsInv, PatientInv, AloneInv, [Next]_vars
  PROVE  AloneInv'
<1> USE GenerationsAreNumbers, NextGeneration
    DEF TypeOK, clientVars, callVars, netVars, countVars,
        AttemptsInv, PatientInv, AloneInv, UnderWay
<1>1. CASE connect
  <2>1. PatientHost /\ disconnects = 0 =>
          /\ waitingConnects = 0
          /\ \A g \in Generations : ~UnderWay(g)
    BY <1>1 DEF connect, HostMayConnect
  <2>2. CASE closeTasks = {} /\ BeginAttempt /\ UNCHANGED waitingConnects
    BY <1>1, <2>1, <2>2 DEF connect, BeginAttempt
  <2>3. CASE closeTasks # {} /\ waitingConnects' = waitingConnects + 1
             /\ UNCHANGED <<clientVars, attempt, quiet>>
    BY <1>1, <2>1, <2>3 DEF connect
  <2> QED BY <1>1, <2>2, <2>3 DEF connect
<1>2. CASE ConnectProceeds
  BY <1>2 DEF ConnectProceeds, ConnectReady, BeginAttempt
<1>3. CASE disconnect
  BY <1>3 DEF disconnect, Invalidate
<1>4. ASSUME NEW d \in Disconnects, DisconnectStep(d) PROVE AloneInv'
  BY <1>4 DEF DisconnectStep, DisconnectClosesSocket, DisconnectAwaitsTasks,
            DisconnectReturns
<1>5. CASE KeepaliveTick
  BY <1>5 DEF KeepaliveTick
<1>6. ASSUME NEW g \in Generations, CallStep(g) PROVE AloneInv'
  <2>1. CASE SocketOpens(g)
    BY <2>1 DEF SocketOpens, ConnectReady
  <2>2. CASE DialFails(g)
    BY <2>2 DEF DialFails, Invalidate
  <2>3. CASE ConnectWins(g)
    BY <2>3 DEF ConnectWins
  <2>4. CASE ConnectLoses(g)
    BY <2>4 DEF ConnectLoses
  <2>5. CASE LateSocketCloses(g)
    BY <2>5 DEF LateSocketCloses
  <2>6. CASE ConnectedHandlerThrows(g)
    BY <2>6 DEF ConnectedHandlerThrows, Invalidate
  <2> QED BY <1>6, <2>1, <2>2, <2>3, <2>4, <2>5, <2>6 DEF CallStep
<1>7. ASSUME NEW g \in Generations, SocketStep(g) PROVE AloneInv'
  <2>1. CASE CloseTaskEnds(g)
    BY <2>1 DEF CloseTaskEnds
  <2>2. CASE onConnectionInterrupted(g)
    BY <2>2 DEF onConnectionInterrupted, handleDeadConnection, DieAs, Invalidate,
              DeadSocketClosed
  <2>3. CASE GoesDeaf(g)
    BY <2>3 DEF GoesDeaf
  <2>4. CASE IncomingTaskStarts(g)
    BY <2>4 DEF IncomingTaskStarts
  <2>5. CASE IncomingTaskEnds(g)
    BY <2>5 DEF IncomingTaskEnds, handleDeadConnection, DieAs, Invalidate,
              DeadSocketClosed
  <2>6. CASE KeepaliveAnswered(g)
    BY <2>6 DEF KeepaliveAnswered, ClearInFlight
  <2>7. CASE KeepaliveFails(g)
    BY <2>7 DEF KeepaliveFails, handleDeadConnection, DieAs, Invalidate,
              DeadSocketClosed, ClearInFlight
  <2> QED BY <1>7, <2>1, <2>2, <2>3, <2>4, <2>5, <2>6, <2>7 DEF SocketStep
<1>8. CASE UNCHANGED vars
  BY <1>8 DEF vars
<1> QED BY <1>1, <1>2, <1>3, <1>4, <1>5, <1>6, <1>7, <1>8 DEF Next

-----------------------------------------------------------------------------
(* The types hold in every reachable state.                                *)
THEOREM TypeCorrect == Spec => []TypeOK
<1>1. Init => TypeOK
  <2> SUFFICES ASSUME Init PROVE TypeOK
    OBVIOUS
  <2>1. /\ connects \in 0 .. MaxConnects /\ disconnects \in 0 .. MaxDisconnects
        /\ throws \in 0 .. MaxThrows
    BY GenerationsAreNumbers DEF Init
  <2>2. acceptingIncoming \in BOOLEAN /\ quiet \subseteq Disconnects
    BY DEF Init
  <2> QED BY <2>1, <2>2 DEF Init, TypeOK
<1> QED BY <1>1, TypeStep, PTL DEF Spec

(* LifecycleInv holds in every reachable state, for any number of calls    *)
(* and whatever the host, the network and the timers do.                   *)
THEOREM LifecycleInvariant == Spec => []LifecycleInv
<1>1. Init => LifecycleInv
  BY GenerationsAreNumbers
     DEF Init, LifecycleInv, AttemptsInv, ConnectionIsCurrent, TicksInv,
         KeepaliveMarkIsLive, ClosingInv, NoForgottenSocket, ReportsInv,
         ReportedOnce
<1>2. TypeOK /\ LifecycleInv /\ [Next]_vars => LifecycleInv'
  <2> SUFFICES ASSUME TypeOK, LifecycleInv, [Next]_vars PROVE LifecycleInv'
    OBVIOUS
  <2>1. AttemptsInv'
    BY AttemptsStep DEF LifecycleInv
  <2>2. ConnectionIsCurrent'
    BY CurrentStep DEF LifecycleInv
  <2>3. TicksInv' /\ KeepaliveMarkIsLive'
    BY TicksStep DEF LifecycleInv
  <2>4. ClosingInv' /\ NoForgottenSocket'
    BY SocketsStep DEF LifecycleInv
  <2>5. ReportsInv' /\ ReportedOnce'
    BY ReportsStep DEF LifecycleInv
  <2> QED BY <2>1, <2>2, <2>3, <2>4, <2>5 DEF LifecycleInv
<1> QED BY <1>1, <1>2, TypeCorrect, PTL DEF Spec

(* Unless a "connected" handler threw, the connection held is current,     *)
(* watched by the keepalive and heard, however calls and losses interleave.*)
THEOREM ConnectionAlwaysCurrent == Spec => []ConnectionIsCurrent
BY LifecycleInvariant, PTL DEF LifecycleInv

(* The in-flight mark never outlives the tick that must clear it, so that  *)
(* the keepalive is never silently suspended.                              *)
THEOREM KeepaliveNeverStalls == Spec => []KeepaliveMarkIsLive
BY LifecycleInvariant, PTL DEF LifecycleInv

(* Every socket open at the server has a call that uses or closes it.      *)
THEOREM SocketsAccountedFor == Spec => []NoForgottenSocket
BY LifecycleInvariant, PTL DEF LifecycleInv

(* No connection's loss is reported twice.                                 *)
THEOREM LossReportedOnce == Spec => []ReportedOnce
BY LifecycleInvariant, PTL DEF LifecycleInv

(* Once any disconnect() has returned, and until the next attempt, nothing *)
(* is admitted, no keepalive runs, and every socket left is one that an    *)
(* overtaken attempt or another disconnect() is closing, whatever connects,*)
(* losses and other disconnects interleaved with the call.                 *)
THEOREM QuietWhenDisconnected == Spec => []QuietAfterDisconnect
<1>1. Init => QuietInv
  BY DEF Init, QuietInv
<1>2. TypeOK /\ LifecycleInv /\ QuietInv /\ [Next]_vars => QuietInv'
  BY QuietStep DEF LifecycleInv
<1>3. TypeOK /\ LifecycleInv /\ QuietInv => QuietAfterDisconnect
  <2> SUFFICES ASSUME TypeOK, LifecycleInv, QuietInv,
                      NEW d \in quiet, disconnecting[d] = "returned"
               PROVE  /\ incomingTasks = {} /\ keepaliveTimer = 0 /\ connection = 0
                      /\ \A g \in open : \/ attempt[g] \in {"dialed", "closing"}
                                         \/ \E e \in Disconnects : closing[e] = g
    BY DEF QuietAfterDisconnect
  <2>1. incomingTasks = {} /\ closeTasks = {} /\ connection = 0
    BY DEF QuietInv
  <2>2. keepaliveTimer = 0
    BY <2>1 DEF LifecycleInv, TicksInv
  <2>3. \A g \in open : g # 0
    BY GenerationsAreNumbers DEF TypeOK
  <2> QED BY <2>1, <2>2, <2>3 DEF LifecycleInv, NoForgottenSocket
<1> QED BY <1>1, <1>2, <1>3, TypeCorrect, LifecycleInvariant, PTL DEF Spec

(* Every step that gives a connection up without disconnect() reports its  *)
(* loss in that step.                                                      *)
THEOREM LossAlwaysReported == Spec => LossIsReported
<1>1. TypeOK /\ LifecycleInv /\ [Next]_vars =>
        [connection # 0 /\ connection' # connection =>
           \/ \E d \in Disconnects : closing'[d] = connection
           \/ throws = 0 => reported'[connection] = reported[connection] + 1]_vars
  <2> SUFFICES ASSUME TypeOK, LifecycleInv, Next,
                      connection # 0, connection' # connection,
                      \A d \in Disconnects : closing'[d] # connection,
                      throws = 0
               PROVE  reported'[connection] = reported[connection] + 1
    OBVIOUS
  <2> USE DEF clientVars, callVars, netVars, countVars
  <2>1. connection = generation
    BY DEF LifecycleInv, ConnectionIsCurrent
  <2>2. \A g \in Generations :
          /\ attempt[g] \in {"dialing", "dialed"} => g # generation
          /\ handleDeadConnection(g) => g = generation /\ DieAs(g)
    BY DEF LifecycleInv, AttemptsInv, handleDeadConnection
  <2>3. \A g \in Generations : DieAs(g) /\ g = generation =>
          reported'[connection] = reported[connection] + 1
    BY <2>1 DEF DieAs, TypeOK
  <2>4. PICK g \in Generations : CallStep(g) \/ SocketStep(g)
    <3>1. ~connect
      BY DEF connect
    <3>2. ~ConnectProceeds
      BY DEF ConnectProceeds, ConnectReady, LifecycleInv, AttemptsInv, TypeOK
    <3>3. ~disconnect
      BY NewDisconnect
    <3>4. ~KeepaliveTick
      BY DEF KeepaliveTick
    <3>5. \A d \in Disconnects : ~DisconnectStep(d)
      BY DEF DisconnectStep, DisconnectClosesSocket, DisconnectAwaitsTasks,
             DisconnectReturns
    <3> QED BY <3>1, <3>2, <3>3, <3>4, <3>5 DEF Next
  <2>5. ~CallStep(g)
    BY <2>2 DEF CallStep, SocketOpens, DialFails, ConnectWins, ConnectLoses,
                LateSocketCloses, ConnectedHandlerThrows
  <2>6. handleDeadConnection(g)
    BY <2>4, <2>5 DEF SocketStep, CloseTaskEnds, onConnectionInterrupted, GoesDeaf,
                      IncomingTaskStarts, IncomingTaskEnds, KeepaliveAnswered,
                      KeepaliveFails
  <2> QED BY <2>2, <2>3, <2>6
<1> QED BY <1>1, TypeCorrect, LifecycleInvariant, PTL DEF Spec, LossIsReported

(* How far "Signal permits only one authenticated socket per device" (the  *)
(* comment on fetchAuthenticated) holds.  With a host that awaits its      *)
(* calls, whatever else happens, a second socket is one that the factory   *)
(* brought to an attempt already overtaken (connect, client.ts:903-922).   *)
THEOREM OnlyOvertakenBeside == Spec => [](PatientHost => OneSocketBesideOvertaken)
<1>1. Init => PatientInv
  BY GenerationsAreNumbers DEF Init, PatientInv
<1>2. TypeOK /\ LifecycleInv /\ PatientInv /\ [Next]_vars => PatientInv'
  BY PatientStep DEF LifecycleInv
<1>3. TypeOK /\ LifecycleInv /\ PatientInv => (PatientHost => OneSocketBesideOvertaken)
  <2> SUFFICES ASSUME TypeOK, LifecycleInv, PatientInv, PatientHost,
                      NEW g \in open, NEW h \in open, g # h,
                      ~Overtaken(g), ~Overtaken(h)
               PROVE  FALSE
    BY DEF OneSocketBesideOvertaken
  <2> USE GenerationsAreNumbers DEF TypeOK, LifecycleInv, AttemptsInv, ClosingInv,
                                    NoForgottenSocket, PatientInv, Overtaken
  <2>1. \A k \in {g, h} : attempt[k] # "closing"
                           /\ (attempt[k] = "dialed" => k = generation)
    OBVIOUS
  <2>2. NoSocketClosing => \A k \in {g, h} : \A d \in Disconnects : closing[d] # k
    BY DEF NoSocketClosing
  <2>3. CASE NoSocketClosing
    BY <2>1, <2>2, <2>3
  <2>4. CASE ~NoSocketClosing
    <3>1. connection = 0 /\ closeTasks = {} /\ \A k \in {g, h} : attempt[k] # "dialed"
      BY <2>1, <2>4
    <3>2. \A k \in {g, h} :
            \E d \in Disconnects : closing[d] = k /\ disconnecting[d] = "socket"
      BY <2>1, <3>1
    <3> QED BY <3>2
  <2> QED BY <2>3, <2>4
<1> QED BY <1>1, <1>2, <1>3, TypeCorrect, LifecycleInvariant, PTL DEF Spec

(* And with a host that has not called disconnect() at all it holds as the *)
(* comment says, whatever sockets die, fall silent or are refused.         *)
THEOREM OneSocketUntilDisconnect ==
  Spec => [](PatientHost /\ disconnects = 0 => OneAuthenticatedSocket)
<1>1. Init => PatientInv /\ AloneInv
  BY GenerationsAreNumbers DEF Init, PatientInv, AloneInv, UnderWay
<1>2. TypeOK /\ LifecycleInv /\ PatientInv /\ AloneInv /\ [Next]_vars
        => PatientInv' /\ AloneInv'
  BY PatientStep, AloneStep DEF LifecycleInv
<1>3. TypeOK /\ LifecycleInv /\ PatientInv /\ AloneInv =>
        (PatientHost /\ disconnects = 0 => OneAuthenticatedSocket)
  <2> SUFFICES ASSUME TypeOK, LifecycleInv, PatientInv, AloneInv,
                      PatientHost, disconnects = 0
               PROVE  Cardinality(open) <= 1
    BY DEF OneAuthenticatedSocket
  <2>1. \A g, h \in open : g = h
    BY GenerationsAreNumbers
       DEF TypeOK, LifecycleInv, ClosingInv, NoForgottenSocket, PatientInv, AloneInv,
           UnderWay
  <2>2. CASE open = {}
    BY <2>2, FS_EmptySet
  <2>3. CASE open # {}
    <3>1. PICK g : open = {g}
      BY <2>1, <2>3
    <3> QED BY <3>1, FS_Singleton
  <2> QED BY <2>2, <2>3
<1> QED BY <1>1, <1>2, <1>3, TypeCorrect, LifecycleInvariant, PTL DEF Spec

=============================================================================
