--------------------------- MODULE TransportProofs ---------------------------
(* Theorems about the transport, for any number of messages and sessions.   *)
(* The message worker's part is inherited: the transport runs it as         *)
(* QueueWorker specifies (WorkerRefinement), so that the theorems of        *)
(* QueueWorkerProofs, instantiated here as P, hold of it.                   *)
EXTENDS Transport, TLAPS

P == INSTANCE QueueWorkerProofs

\* connect() is in progress, or no call is.
Attached == app \in {"idle", "preparing", "dispatching"} /\ connectionStatus # "NotStarted"

\* The IO thread was joined, so nothing is received any more.
IoJoined == app \in {"stopWorker", "resetting"} \/ connectionStatus = "NotStarted"

\* What each stage of a session implies for the two threads: they run from
\* start() until disconnect() has joined them, the IO thread first, and the
\* worker leaves no item behind because nobody pushes when it exits.
SessionInv ==
  /\ connectionStatus = "NotStarted" =>
       app = "idle" /\ con = "none" /\ worker = "off" /\ ~responseHeaders
  /\ Attached => perpetual /\ io # "off"
  /\ stopped => app = "joining" \/ IoJoined
  /\ IoJoined => io = "off"
  /\ io = "off" => stopped \/ con = "none"
  /\ stop => IoJoined
  /\ stopper # "idle" => app = "stopWorker" /\ stop
  /\ app = "resetting" => worker = "off"
  /\ worker = "off" => app = "resetting" \/ connectionStatus = "NotStarted"
  /\ worker = "exited" => stop
  /\ worker \in {"off", "exited"} => queue = <<>>
  /\ producer # "idle" <=> io = "receiving"

\* Status, connection, headers and handler: the status follows the connection
\* with the delay of the handler that sets it.
AgreeInv ==
  /\ connectionStatus = "Connected" =>
       con \in {"open", "closing"} /\ responseHeaders /\ (heard = "connected" \/ io = "opened")
  /\ connectionStatus = "Disconnected" => con = "none" /\ (responseHeaders => io = "ending")
  /\ connectionStatus = "Connecting" =>
       \/ app = "dispatching" /\ con = "none" /\ io \in {"idle", "ending", "ended"}
       \/ con = "connecting"
       \/ con = "open" /\ io = "opening"
  /\ app = "preparing" => connectionStatus = "Disconnected"
  /\ app = "dispatching" => connectionStatus = "Connecting" /\ con = "none"
  /\ con = "connecting" => connectionStatus = "Connecting" /\ io \notin {"opening", "opened"}
  /\ io = "opening" => con = "open" /\ connectionStatus = "Connecting" /\ responseHeaders
  /\ io = "opened" => connectionStatus = "Connected"
  /\ con = "open" => connectionStatus = "Connected" \/ io = "opening"
  /\ con = "closing" => connectionStatus = "Connected"
  /\ io \in {"ending", "ended"} => connectionStatus \in {"Disconnected", "Connecting"}
  /\ io = "receiving" => con \in {"open", "closing"}

\* disconnect() that closes the connection, instead of stopping the client,
\* waits for its end to be told.
ToldInv ==
  /\ app = "closing" \/ (app = "joining" /\ ~stopped) =>
       /\ con # "connecting" /\ io # "opening"
       /\ heard = "connected" => con \in {"open", "closing"} \/ io \in {"ending", "ended"}
  /\ IoJoined /\ heard = "connected" => stopped

IInv == TypeOK /\ P!IInv /\ SessionInv /\ AgreeInv /\ ToldInv

-----------------------------------------------------------------------------
\* The two instances of QueueWorker are the same.
LEMMA SameWorker ==
  /\ W!Init = P!Init
  /\ [W!Next]_(W!vars) <=> [P!Next]_(P!vars)
<1>1. W!Init = P!Init
  BY DEF W!Init, P!Init
<1>2. [W!Next]_(W!vars) <=> [P!Next]_(P!vars)
  BY DEF W!Next, P!Next, W!vars, P!vars,
    W!Start, W!Take, W!Finish, W!Exit, W!Doze, W!Sleep, W!SpuriousWake,
    W!PushCheck, W!Push, W!NotifyOne, W!StopSet, W!NotifyAll, W!Join, W!Woken,
    W!MutexFree, P!Start, P!Take, P!Finish, P!Exit, P!Doze, P!Sleep,
    P!SpuriousWake, P!PushCheck, P!Push, P!NotifyOne, P!StopSet, P!NotifyAll,
    P!Join, P!Woken, P!MutexFree
<1> QED
  BY <1>1, <1>2

\* Every step of the transport is one of its worker, or leaves it alone.
LEMMA WorkerSteps == [Next]_vars => [W!Next]_(W!vars)
<1> SUFFICES ASSUME [Next]_vars PROVE [W!Next]_(W!vars)
  OBVIOUS
<1> USE DEF W!Next
<1>1. CASE ConnectStart
  BY <1>1 DEF ConnectStart
<1>2. CASE StopMessageWorker
  BY <1>2 DEF StopMessageWorker
<1>3. CASE OnMessage \/ OnMessagePush
  BY <1>3 DEF OnMessage, OnMessagePush
<1>4. CASE ProcessQueuedMessages
  BY <1>4 DEF ProcessQueuedMessages, W!Work
<1>5. CASE \/ ConnectAgain \/ ConnectFails \/ ConnectLaunch \/ DisconnectBegin \/ DisconnectRead
           \/ DisconnectClose \/ DisconnectStop \/ JoinIo \/ DisconnectReset
  <2>1. UNCHANGED workerVars
    BY <1>5 DEF ConnectAgain, ConnectFails, ConnectLaunch, ConnectPrepare, ConnectDispatch,
                DisconnectBegin, DisconnectRead, DisconnectClose, DisconnectStop, JoinIo, DisconnectReset
  <2> QED
    BY <2>1 DEF workerVars, W!vars
<1>6. CASE OnOpen \/ OnOpenStatus \/ ConnectionEnds \/ EndClearHeaders \/ CallReceiver \/ IoExit
  <2>1. UNCHANGED workerVars
    BY <1>6 DEF OnOpen, OnOpenStatus, ConnectionEnds, EndClearHeaders, CallReceiver, IoExit
  <2> QED
    BY <2>1 DEF workerVars, W!vars
<1>7. CASE UNCHANGED vars
  BY <1>7 DEF vars, workerVars, W!vars
<1> QED
  BY <1>1, <1>2, <1>3, <1>4, <1>5, <1>6, <1>7 DEF Next, App

\* start(), the handlers and disconnect() run the message worker the way
\* QueueWorker specifies.
THEOREM WorkerRefinement == Spec => W!Spec
<1>1. Init => W!Init
  BY DEF Init
<1> QED
  BY <1>1, WorkerSteps, PTL DEF Spec, W!Spec

\* Types are preserved by every step.
LEMMA TypeStep == IInv /\ [Next]_vars => TypeOK'
<1> SUFFICES ASSUME IInv, [Next]_vars PROVE TypeOK'
  OBVIOUS
<1>1. W!TypeOK'
  <2>1. P!TypeOK'
    BY WorkerSteps, SameWorker, TransportAssumption, P!InductiveStep DEF IInv, P!IInv
  <2> QED
    BY <2>1 DEF W!TypeOK, P!TypeOK
<1>2. CASE App
  BY <1>1, <1>2
  DEF IInv, TypeOK, App, ConnectStart, ConnectAgain, ConnectFails, ConnectLaunch, ConnectPrepare,
      ConnectDispatch, DisconnectBegin, DisconnectRead, DisconnectClose, DisconnectStop,
      JoinIo, StopMessageWorker, DisconnectReset, clientVars, noteVars
<1>3. CASE OnOpen \/ OnOpenStatus \/ ConnectionEnds \/ EndClearHeaders \/ CallReceiver \/ IoExit
  BY <1>1, <1>3
  DEF IInv, TypeOK, OnOpen, OnOpenStatus, ConnectionEnds, EndClearHeaders, CallReceiver, IoExit,
      clientVars, noteVars
<1>4. CASE OnMessage \/ OnMessagePush \/ ProcessQueuedMessages
  BY <1>1, <1>4 DEF IInv, TypeOK, OnMessage, OnMessagePush, ProcessQueuedMessages, clientVars, noteVars
<1>5. CASE UNCHANGED vars
  BY <1>1, <1>5 DEF IInv, TypeOK, vars, clientVars, noteVars
<1> QED
  BY <1>2, <1>3, <1>4, <1>5 DEF Next

\* The stages of a session are kept by every step.
LEMMA SessionStep == IInv /\ [Next]_vars => SessionInv'
<1> SUFFICES ASSUME IInv, [Next]_vars PROVE SessionInv'
  OBVIOUS
<1> USE DEF IInv, TypeOK, W!TypeOK, SessionInv, Attached, IoJoined
<1>1. CASE ConnectStart
  BY <1>1 DEF ConnectStart, W!Start, noteVars
<1>2. CASE ConnectAgain \/ ConnectFails \/ ConnectPrepare \/ ConnectDispatch
  BY <1>2 DEF ConnectAgain, ConnectFails, ConnectPrepare, ConnectDispatch, AgreeInv,
              clientVars, noteVars, workerVars
<1>3. CASE DisconnectBegin \/ DisconnectRead \/ DisconnectClose \/ DisconnectStop \/ JoinIo
  BY <1>3 DEF DisconnectBegin, DisconnectRead, DisconnectClose, DisconnectStop, JoinIo,
              clientVars, noteVars, workerVars
<1>4. CASE StopMessageWorker
  BY <1>4 DEF StopMessageWorker, W!StopSet, W!NotifyAll, W!Join, W!Woken, clientVars, noteVars
<1>5. CASE DisconnectReset
  BY <1>5 DEF DisconnectReset, workerVars
<1>6. CASE OnOpen \/ OnOpenStatus \/ ConnectionEnds \/ EndClearHeaders \/ CallReceiver \/ IoExit
  BY <1>6 DEF OnOpen, OnOpenStatus, ConnectionEnds, EndClearHeaders, CallReceiver, IoExit,
              CanHandle, clientVars, noteVars, workerVars
<1>7. CASE OnMessage \/ OnMessagePush
  BY <1>7 DEF OnMessage, OnMessagePush, W!PushCheck, W!Push, W!NotifyOne, W!Woken,
              CanHandle, clientVars, noteVars
<1>8. CASE ProcessQueuedMessages
  BY <1>8 DEF ProcessQueuedMessages, W!Work, W!Take, W!Finish, W!Exit, W!Doze, W!Sleep,
              W!SpuriousWake, clientVars, noteVars
<1>9. CASE UNCHANGED vars
  BY <1>9 DEF vars, clientVars, noteVars, workerVars
<1> QED
  BY <1>1, <1>2, <1>3, <1>4, <1>5, <1>6, <1>7, <1>8, <1>9 DEF Next, App, ConnectLaunch

\* So is the agreement of status, connection, headers and handler.
LEMMA AgreeStep == IInv /\ [Next]_vars => AgreeInv'
<1> SUFFICES ASSUME IInv, [Next]_vars PROVE AgreeInv'
  OBVIOUS
<1> USE DEF IInv, TypeOK, AgreeInv
<1>1. CASE ConnectStart \/ ConnectAgain \/ ConnectFails \/ ConnectPrepare \/ ConnectDispatch
  BY <1>1 DEF ConnectStart, ConnectAgain, ConnectFails, ConnectPrepare, ConnectDispatch, SessionInv,
              Attached, clientVars, noteVars
<1>2. CASE DisconnectBegin \/ DisconnectRead \/ DisconnectClose \/ DisconnectStop \/ JoinIo
  BY <1>2 DEF DisconnectBegin, DisconnectRead, DisconnectClose, DisconnectStop, JoinIo, ToldInv,
              clientVars, noteVars
<1>3. CASE StopMessageWorker \/ DisconnectReset
  BY <1>3 DEF StopMessageWorker, DisconnectReset, SessionInv, IoJoined, clientVars, noteVars
<1>4. CASE OnOpen \/ OnOpenStatus \/ ConnectionEnds \/ EndClearHeaders \/ CallReceiver \/ IoExit
  BY <1>4 DEF OnOpen, OnOpenStatus, ConnectionEnds, EndClearHeaders, CallReceiver, IoExit,
              CanHandle, SessionInv, Attached, IoJoined, clientVars, noteVars
<1>5. CASE OnMessage \/ OnMessagePush \/ ProcessQueuedMessages
  BY <1>5 DEF OnMessage, OnMessagePush, ProcessQueuedMessages, CanHandle, clientVars, noteVars
<1>6. CASE UNCHANGED vars
  BY <1>6 DEF vars, clientVars, noteVars
<1> QED
  BY <1>1, <1>2, <1>3, <1>4, <1>5, <1>6 DEF Next, App, ConnectLaunch

\* And so is what the application has been told.
LEMMA ToldStep == IInv /\ [Next]_vars => ToldInv'
<1> SUFFICES ASSUME IInv, [Next]_vars PROVE ToldInv'
  OBVIOUS
<1> USE DEF IInv, TypeOK, ToldInv, IoJoined
<1>1. CASE ConnectStart \/ ConnectAgain \/ ConnectFails \/ ConnectPrepare \/ ConnectDispatch
  BY <1>1 DEF ConnectStart, ConnectAgain, ConnectFails, ConnectPrepare, ConnectDispatch, AgreeInv,
              clientVars, noteVars
<1>2. CASE DisconnectBegin \/ DisconnectRead \/ DisconnectClose \/ DisconnectStop \/ JoinIo
  BY <1>2 DEF DisconnectBegin, DisconnectRead, DisconnectClose, DisconnectStop, JoinIo, AgreeInv,
              SessionInv, Attached, clientVars, noteVars
<1>3. CASE StopMessageWorker \/ DisconnectReset
  BY <1>3 DEF StopMessageWorker, DisconnectReset, clientVars, noteVars
<1>4. CASE OnOpen \/ OnOpenStatus \/ ConnectionEnds \/ EndClearHeaders \/ CallReceiver \/ IoExit
  BY <1>4 DEF OnOpen, OnOpenStatus, ConnectionEnds, EndClearHeaders, CallReceiver, IoExit,
              CanHandle, AgreeInv, SessionInv, clientVars, noteVars
<1>5. CASE OnMessage \/ OnMessagePush \/ ProcessQueuedMessages
  BY <1>5 DEF OnMessage, OnMessagePush, ProcessQueuedMessages, CanHandle, SessionInv, clientVars, noteVars
<1>6. CASE UNCHANGED vars
  BY <1>6 DEF vars, clientVars, noteVars
<1> QED
  BY <1>1, <1>2, <1>3, <1>4, <1>5, <1>6 DEF Next, App, ConnectLaunch

-----------------------------------------------------------------------------
\* Init satisfies the inductive invariant.
LEMMA InitInv == Init => IInv
<1> SUFFICES ASSUME Init PROVE IInv
  OBVIOUS
<1>1. P!IInv
  BY SameWorker, TransportAssumption, P!InitInv DEF Init
<1>2. W!TypeOK
  BY <1>1 DEF P!IInv, P!TypeOK, W!TypeOK
<1>3. perpetual \in BOOLEAN /\ stopped \in BOOLEAN /\ responseHeaders \in BOOLEAN
  BY ZenonT(20) DEF Init
<1> QED
  BY <1>1, <1>2, <1>3 DEF Init, W!Init, IInv, TypeOK, SessionInv, Attached, IoJoined, AgreeInv, ToldInv

\* The invariant is inductive.
LEMMA InductiveStep == IInv /\ [Next]_vars => IInv'
<1> SUFFICES ASSUME IInv, [Next]_vars PROVE IInv'
  OBVIOUS
<1>1. P!IInv'
  BY WorkerSteps, SameWorker, TransportAssumption, P!InductiveStep DEF IInv
<1> QED
  BY <1>1, TypeStep, SessionStep, AgreeStep, ToldStep DEF IInv

\* Every state of the transport satisfies the inductive invariant.
THEOREM Invariance == Spec => []IInv
BY InitInv, InductiveStep, PTL DEF Spec

\* Status, threads, connection and queue of class Transport keep their types.
THEOREM TypeCorrect == Spec => []TypeOK
<1>1. IInv => TypeOK
  BY DEF IInv
<1> QED
  BY <1>1, Invariance, PTL

\* The early return of onMessage() on stopMessageWorker_ is unreachable: the
\* IO thread is joined before the flag is set.
THEOREM NoneRefused == Spec => []NoMessageRefused
<1>1. IInv => NoMessageRefused
  BY DEF IInv, NoMessageRefused, CanHandle, SessionInv, IoJoined
<1> QED
  BY <1>1, Invariance, PTL

\* disconnect() leaves no message behind: the worker drains the queue, and
\* nothing is pushed when it exits.
THEOREM Drained == Spec => []DrainedOnDisconnect
<1>1. IInv => DrainedOnDisconnect
  <2> SUFFICES ASSUME IInv, connectionStatus = "NotStarted"
               PROVE  arrived = handled /\ queue = <<>> /\ worker = "off"
    BY DEF DrainedOnDisconnect
  <2>1. queue = <<>> /\ worker = "off"
    BY DEF IInv, SessionInv
  <2>2. arrived = handled
    BY <2>1 DEF IInv, P!IInv, P!Fifo, P!TypeOK
  <2> QED
    BY <2>1, <2>2
<1> QED
  BY <1>1, Invariance, PTL

\* Between handlers, status, connection, headers and the last word to the
\* application agree.
THEOREM Agreement == Spec => []QuietAgreement
<1>1. IInv => QuietAgreement
  BY DEF IInv, QuietAgreement, AgreeInv
<1> QED
  BY <1>1, Invariance, PTL

\* A disconnect() that closes the connection does not return before the
\* application was told of its end.
THEOREM EndIsTold == Spec => []EndIsToldUnlessStopped
<1>1. IInv => EndIsToldUnlessStopped
  BY DEF IInv, EndIsToldUnlessStopped, ToldInv, IoJoined
<1> QED
  BY <1>1, Invariance, PTL

\* The messages of all sessions are handled in order, none lost and none twice.
THEOREM MessagesInOrder == Spec => []W!Fifo
<1>1. P!Fifo => W!Fifo
  BY DEF P!Fifo, W!Fifo
<1>2. IInv => W!Fifo
  BY <1>1 DEF IInv, P!IInv
<1> QED
  BY <1>2, Invariance, PTL
=============================================================================
