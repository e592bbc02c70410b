------------------------------ MODULE Transport ------------------------------
(* The websocket transport of src/transport.cpp: class Transport, with      *)
(*   - the application thread that calls connect() and disconnect() (the    *)
(*     two are not called concurrently with each other),                    *)
(*   - the IO thread that runs the websocketpp client and its handlers      *)
(*     onOpen, onFail, onClose and onMessage, and                           *)
(*   - the message worker, an instance of QueueWorker.                      *)
(* The websocketpp client is external: a connection attempt ends in onOpen  *)
(* or onFail, an open connection in onClose, messages come while it is      *)
(* open, and run() returns when stop() was called or when, after            *)
(* stop_perpetual(), no connection is left.  What the gateway does in the   *)
(* connection receiver is not part of this module.                          *)
EXTENDS Integers, Sequences

CONSTANT MaxItems     \* bound on the number of text messages received

ASSUME TransportAssumption == MaxItems \in Nat

VARIABLES
  connectionStatus, \* connectionStatus_
  app,              \* the application thread, inside connect() or disconnect()
  io,               \* connectionThread_ and the handler it is in
  con,              \* the websocket connection behind connectionHandle_
  perpetual,        \* start_perpetual() / stop_perpetual() of client_
  stopped,          \* client_->stop() was called
  responseHeaders,  \* whether responseHeaders_ holds the server's headers
  heard,            \* what connectionReceiver_ was last told
  queue, stop, worker, hand, arrived, handled, producer, stopper

W == INSTANCE QueueWorker

clientVars == <<con, perpetual, stopped>>
noteVars == <<responseHeaders, heard>>
workerVars == <<queue, stop, worker, hand, arrived, handled, producer, stopper>>
vars == <<connectionStatus, app, io, clientVars, noteVars, workerVars>>

Init == /\ connectionStatus = "NotStarted"
        /\ app = "idle"
        /\ io = "off"
        /\ con = "none"
        /\ perpetual = FALSE
        /\ stopped = FALSE
        /\ responseHeaders = FALSE
        /\ heard = "nothing"
        /\ W!Init

-----------------------------------------------------------------------------
(* connect().  In the states Connected and Connecting it returns            *)
(* AlreadyConnected at once and changes nothing.                            *)

\* From NotStarted, start(): IO thread and message worker are created.
ConnectStart ==
  /\ app = "idle"
  /\ connectionStatus = "NotStarted"
  /\ W!Start
  /\ io' = "idle"
  /\ perpetual' = TRUE
  /\ stopped' = FALSE
  /\ connectionStatus' = "Disconnected"
  /\ app' = "preparing"
  /\ UNCHANGED <<con, noteVars>>

\* From Disconnected the running threads are used again.
ConnectAgain ==
  /\ app = "idle"
  /\ connectionStatus = "Disconnected"
  /\ app' = "preparing"
  /\ UNCHANGED <<connectionStatus, io, clientVars, noteVars, workerVars>>

\* get_connection() or the injection of a header fails: NotConnected.
ConnectFails ==
  /\ app = "preparing"
  /\ app' = "idle"
  /\ UNCHANGED <<connectionStatus, io, clientVars, noteVars, workerVars>>

\* The handlers are set and the status becomes Connecting ...
ConnectPrepare ==
  /\ app = "preparing"
  /\ connectionStatus' = "Connecting"
  /\ app' = "dispatching"
  /\ UNCHANGED <<io, clientVars, noteVars, workerVars>>

ConnectDispatchFirst ==
  /\ app = "preparing"
  /\ con' = "connecting"
  /\ app' = "dispatching"
  /\ UNCHANGED <<connectionStatus, io, perpetual, stopped, noteVars, workerVars>>

StatusAfterDispatch ==
  /\ app = "dispatching"
  /\ connectionStatus' = "Connecting"
  /\ app' = "idle"
  /\ UNCHANGED <<io, clientVars, noteVars, workerVars>>

\* ... before the attempt is handed to the IO thread.
ConnectDispatch ==
  /\ app = "dispatching"
  /\ con' = "connecting"
  /\ app' = "idle"
  /\ UNCHANGED <<connectionStatus, io, perpetual, stopped, noteVars, workerVars>>

ConnectLaunchSwapped == ConnectDispatchFirst \/ StatusAfterDispatch

ConnectLaunch == ConnectPrepare \/ ConnectDispatch

-----------------------------------------------------------------------------
(* disconnect().  In the state NotStarted it returns at once.               *)

DisconnectBegin ==
  /\ app = "idle"
  /\ connectionStatus # "NotStarted"
  /\ perpetual' = FALSE
  /\ app' = "leaving"
  /\ UNCHANGED <<connectionStatus, io, con, stopped, noteVars, workerVars>>

\* closeHandshakeInitiated is read once; the IO thread goes on meanwhile.
DisconnectRead ==
  /\ app = "leaving"
  /\ app' = IF connectionStatus = "Connected" THEN "closing" ELSE "stopping"
  /\ UNCHANGED <<connectionStatus, io, clientVars, noteVars, workerVars>>

\* client_->close() with a handshake timeout of 100 ms; it reports an error
\* if the connection is gone already.
DisconnectClose ==
  /\ app = "closing"
  /\ con' = IF con = "open" THEN "closing" ELSE con
  /\ app' = "joining"
  /\ UNCHANGED <<connectionStatus, io, perpetual, stopped, noteVars, workerVars>>

DisconnectNoStop ==
  /\ app = "stopping"
  /\ app' = "joining"
  /\ UNCHANGED <<connectionStatus, io, clientVars, noteVars, workerVars>>

\* client_->stop()
DisconnectStop ==
  /\ app = "stopping"
  /\ stopped' = TRUE
  /\ app' = "joining"
  /\ UNCHANGED <<connectionStatus, io, con, perpetual, noteVars, workerVars>>

JoinIoEarly ==
  /\ app = "joining"
  /\ app' = "stopWorker"
  /\ UNCHANGED <<connectionStatus, io, clientVars, noteVars, workerVars>>

\* connectionThread_->join()
JoinIo ==
  /\ app = "joining"
  /\ io = "off"
  /\ app' = "stopWorker"
  /\ UNCHANGED <<connectionStatus, io, clientVars, noteVars, workerVars>>

\* stopMessageWorker()
StopMessageWorker ==
  /\ app = "stopWorker"
  /\ \/ W!StopSet /\ UNCHANGED app
     \/ W!NotifyAll /\ UNCHANGED app
     \/ W!Join /\ app' = "resetting"
  /\ UNCHANGED <<connectionStatus, io, clientVars, noteVars>>

\* A new client object; headers and status are reset.
DisconnectReset ==
  /\ app = "resetting"
  /\ con' = "none"
  /\ responseHeaders' = FALSE
  /\ connectionStatus' = "NotStarted"
  /\ app' = "idle"
  /\ UNCHANGED <<io, perpetual, stopped, heard, workerVars>>

-----------------------------------------------------------------------------
(* The IO thread.  Once stop() was called no further handler is started.    *)

CanHandle == io = "idle" /\ ~stopped

\* onOpen(): the headers are stored, then the status is set, then the
\* receiver is called.
OnOpen ==
  /\ CanHandle
  /\ con = "connecting"
  /\ con' = "open"
  /\ responseHeaders' = TRUE
  /\ io' = "opening"
  /\ UNCHANGED <<connectionStatus, app, perpetual, stopped, heard, workerVars>>

OnOpenStatus ==
  /\ io = "opening"
  /\ connectionStatus' = "Connected"
  /\ io' = "opened"
  /\ UNCHANGED <<app, clientVars, noteVars, workerVars>>

\* onFail() after an attempt, onClose() after an open connection (the peer,
\* the network or the close handshake ends it): the status is set, the
\* headers are cleared, the receiver is called.
ConnectionEnds ==
  /\ CanHandle
  /\ con # "none"
  /\ con' = "none"
  /\ connectionStatus' = "Disconnected"
  /\ io' = "ending"
  /\ UNCHANGED <<app, perpetual, stopped, noteVars, workerVars>>

EndKeepHeaders ==
  /\ io = "ending"
  /\ io' = "ended"
  /\ UNCHANGED <<connectionStatus, app, clientVars, noteVars, workerVars>>

EndClearHeaders ==
  /\ io = "ending"
  /\ responseHeaders' = FALSE
  /\ io' = "ended"
  /\ UNCHANGED <<connectionStatus, app, clientVars, heard, workerVars>>

\* connectionReceiver_(true, None) / connectionReceiver_(false, error)
CallReceiver ==
  /\ io \in {"opened", "ended"}
  /\ heard' = IF io = "opened" THEN "connected" ELSE "disconnected"
  /\ io' = "idle"
  /\ UNCHANGED <<connectionStatus, app, clientVars, responseHeaders, workerVars>>

\* onMessage() with a text frame; others are ignored.  The early return when
\* the stop flag is set changes nothing: see NoMessageRefused.
OnMessage ==
  /\ CanHandle
  /\ con = "open"
  /\ W!PushCheck
  /\ io' = "receiving"
  /\ UNCHANGED <<connectionStatus, app, clientVars, noteVars>>

OnMessagePush ==
  /\ io = "receiving"
  /\ \/ W!Push /\ UNCHANGED io
     \/ W!NotifyOne /\ io' = "idle"
  /\ UNCHANGED <<connectionStatus, app, clientVars, noteVars>>

\* client::run() returns.
IoExit ==
  /\ io = "idle"
  /\ stopped \/ (~perpetual /\ con = "none")
  /\ io' = "off"
  /\ UNCHANGED <<connectionStatus, app, clientVars, noteVars, workerVars>>

-----------------------------------------------------------------------------
ProcessQueuedMessages ==
  /\ W!Work \/ W!SpuriousWake
  /\ UNCHANGED <<connectionStatus, app, io, clientVars, noteVars>>

App == \/ ConnectStart \/ ConnectAgain \/ ConnectFails \/ ConnectLaunch
       \/ DisconnectBegin \/ DisconnectRead
       \/ DisconnectClose \/ DisconnectStop \/ JoinIo \/ StopMessageWorker
       \/ DisconnectReset

Next == \/ App
        \/ OnOpen \/ OnOpenStatus \/ ConnectionEnds \/ EndClearHeaders
        \/ CallReceiver \/ OnMessage \/ OnMessagePush \/ IoExit
        \/ ProcessQueuedMessages

Spec == Init /\ [][Next]_vars

\* A call that was begun goes on, and so does a handler; connect timers end
\* every attempt and the handshake timeout every close.  Nobody has to call,
\* send a message or drop the connection, and no spurious wake-up is assumed.
\* The mutex is not kept from onMessage() for ever by a worker that wakes up
\* spuriously again and again (SF).
FairSpec ==
  /\ Spec
  /\ WF_vars(app # "idle" /\ App)
  /\ WF_vars(con = "connecting" /\ (OnOpen \/ ConnectionEnds))
  /\ WF_vars(con = "closing" /\ ConnectionEnds)
  /\ WF_vars(OnOpenStatus) /\ WF_vars(EndClearHeaders) /\ WF_vars(CallReceiver)
  /\ SF_vars(OnMessagePush) /\ WF_vars(IoExit)
  /\ WF_vars(W!Work /\ UNCHANGED <<connectionStatus, app, io, clientVars, noteVars>>)

-----------------------------------------------------------------------------
\* The variables keep their types; the IO thread is attached or joined.
TypeOK ==
  /\ connectionStatus \in {"NotStarted", "Disconnected", "Connecting", "Connected"}
  /\ app \in {"idle", "preparing", "dispatching", "leaving", "closing",
              "stopping", "joining", "stopWorker", "resetting"}
  /\ io \in {"off", "idle", "opening", "opened", "ending", "ended", "receiving"}
  /\ con \in {"none", "connecting", "open", "closing"}
  /\ perpetual \in BOOLEAN
  /\ stopped \in BOOLEAN
  /\ responseHeaders \in BOOLEAN
  /\ heard \in {"nothing", "connected", "disconnected"}
  /\ W!TypeOK

\* "The stopMessageWorker_ guard ... is unreachable from the public API"
\* (test/unit/transportTest.cpp:1175): whenever the IO thread could receive a
\* message, or is about to push one, the stop flag is clear.
NoMessageRefused ==
  (CanHandle /\ con = "open") \/ io = "receiving" => ~stop

\* When the transport is back in NotStarted every message it had received was
\* handed to the receiver; none is left over for the next session.
DrainedOnDisconnect ==
  connectionStatus = "NotStarted" => arrived = handled /\ queue = <<>> /\ worker = "off"

\* Between handlers, outside disconnect(), status, connection, headers and the
\* last word to the application agree.
QuietAgreement ==
  io = "idle" /\ ~stopped =>
    /\ connectionStatus = "Connected" => /\ con \in {"open", "closing"}
                                         /\ responseHeaders
                                         /\ heard = "connected"
    /\ connectionStatus = "Disconnected" => con = "none" /\ ~responseHeaders

Disconnecting == app \in {"leaving", "closing", "stopping", "joining",
                          "stopWorker", "resetting"}

\* A connection attempt is decided by onOpen or onFail, unless disconnect()
\* takes it over.
AttemptDecided ==
  connectionStatus = "Connecting" ~> connectionStatus # "Connecting" \/ Disconnecting

\* The application is told of the end of every connection it was told of
\* (openspec/specs/json_rpc_handling_spec.md:87), once the transport is back in
\* NotStarted - unless disconnect() read the status before onOpen set it, and
\* stopped the client by force instead of closing the connection.
EndIsToldUnlessStopped ==
  connectionStatus = "NotStarted" /\ heard = "connected" => stopped

\* notify_all() came while the worker was between its test and its blocking.
StopMissed == stopper = "notified" /\ worker \in {"dozing", "asleep"}

\* disconnect() returns - from every state, whatever the IO thread and the
\* worker do meanwhile - unless the worker misses the notification.
DisconnectReturnsUnlessMissed == Disconnecting ~> app = "idle" \/ StopMissed
=============================================================================
