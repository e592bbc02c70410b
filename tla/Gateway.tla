------------------------------- MODULE Gateway -------------------------------
(* The connection lifecycle of src/gateway.cpp: class GatewayImpl on top of *)
(* Transport.  connect() installs the listener, lets the transport connect  *)
(* and arms the watchdog; disconnect(), and onConnectionChange(false) on    *)
(* the IO thread, run cleanupInternalState(), which stops the watchdog,     *)
(* cancels what is pending and stops the notification worker.  cleanup_mtx  *)
(* keeps the two cleanups and the arming apart.  connect() and disconnect() *)
(* are called by one application thread; others make a request and wait for *)
(* its future, and subscribe.  The notification worker is a QueueWorker;    *)
(* what it is given and the callbacks it runs are in Subscriptions.         *)
EXTENDS Integers, Sequences

CONSTANTS MaxItems,     \* bound on the text messages received
          MaxConnects   \* bound on the calls of connect()

ASSUME GatewayAssumption == MaxItems \in Nat /\ MaxConnects \in Nat

VARIABLES
  connectionStatus, app, io, con, perpetual, stopped, responseHeaders, heard,
  queue, stop, worker, hand, arrived, handled, producer, stopper,
  gpc,                \* the application thread, in the gateway's connect() etc.
  calls,              \* number of calls of connect(); call n brings listener n
  listener,           \* connectionChangeListener, 0 when none is installed
  previous,           \* connect()'s local previousConnectionChangeListener
  toCall,             \* onConnectionChange()'s local copy of the listener
  failed,             \* listeners whose connect() returned an error
  connectionStarted, watchdogRunning,
  watchdog,           \* watchdogThread
  cleaner,            \* the owner of cleanup_mtx inside cleanupInternalState()
  phase,              \* how far it is
  change,             \* how far onConnectionChange() is
  pending,            \* another thread's request
  nstop, nworker,     \* stopNotificationWorker_, notificationWorkerThread_
  nstopper            \* the cleanup inside stopNotificationWorker()

T == INSTANCE Transport

NW == INSTANCE QueueWorker WITH
        MaxItems <- 0, queue <- <<>>, hand <- 0, arrived <- 0, handled <- 0,
        producer <- "idle", stop <- nstop, worker <- nworker, stopper <- nstopper

transportVars == <<connectionStatus, app, io, con, perpetual, stopped, responseHeaders,
                   heard, queue, stop, worker, hand, arrived, handled, producer, stopper>>
listenerVars == <<calls, listener, previous, toCall, failed>>
watchVars == <<connectionStarted, watchdogRunning, watchdog>>
cleanVars == <<cleaner, phase, change>>
notesVars == <<nstop, nworker, nstopper>>
vars == <<transportVars, gpc, listenerVars, watchVars, cleanVars, pending, notesVars>>

Init == /\ T!Init
        /\ gpc = "idle"
        /\ calls = 0
        /\ listener = 0
        /\ previous = 0
        /\ toCall = 0
        /\ failed = {}
        /\ connectionStarted = FALSE
        /\ watchdogRunning = FALSE
        /\ watchdog = "off"
        /\ cleaner = "nobody"
        /\ phase = "none"
        /\ change = "begun"
        /\ pending = "none"
        /\ NW!Init

-----------------------------------------------------------------------------
(* connect() *)

\* The new listener replaces the old one before anything is known to work.
ConnectCall ==
  /\ gpc = "idle"
  /\ calls < MaxConnects
  /\ calls' = calls + 1
  /\ previous' = listener
  /\ listener' = calls'
  /\ gpc' = "connect"
  /\ UNCHANGED <<transportVars, toCall, failed, watchVars, cleanVars, pending, notesVars>>

\* transport.connect() finds a connection or an attempt: AlreadyConnected.
ConnectRefused ==
  /\ gpc = "connect"
  /\ connectionStatus \in {"Connected", "Connecting"}
  /\ gpc' = "restore"
  /\ UNCHANGED <<transportVars, listenerVars, watchVars, cleanVars, pending, notesVars>>

ConnectTransport ==
  /\ \/ gpc = "connect" /\ (T!ConnectStart \/ T!ConnectAgain) /\ gpc' = "connecting"
     \/ gpc = "connecting" /\ T!ConnectPrepare /\ gpc' = "connecting"
     \/ gpc = "connecting" /\ T!ConnectFails /\ gpc' = "restore"
     \/ gpc = "connecting" /\ T!ConnectDispatch /\ gpc' = "arm"
  /\ UNCHANGED <<listenerVars, watchVars, cleanVars, pending, notesVars>>

ConnectRestoreNothing ==
  /\ gpc = "restore"
  /\ failed' = failed \cup {calls}
  /\ gpc' = "idle"
  /\ UNCHANGED <<transportVars, calls, listener, previous, toCall, watchVars, cleanVars, pending, notesVars>>

\* transport.connect() failed: the previous listener comes back.
ConnectRestore ==
  /\ gpc = "restore"
  /\ listener' = previous
  /\ failed' = failed \cup {calls}
  /\ gpc' = "idle"
  /\ UNCHANGED <<transportVars, calls, previous, toCall, watchVars, cleanVars, pending, notesVars>>

Arm ==
  /\ gpc = "arm"
  /\ cleaner = "nobody"
  /\ connectionStarted' = TRUE
  /\ watchdogRunning' = TRUE
  /\ watchdog' = IF watchdogRunning THEN watchdog ELSE "waiting"
  /\ gpc' = "idle"
  /\ UNCHANGED <<transportVars, listenerVars, cleanVars, pending, notesVars>>

-----------------------------------------------------------------------------
(* disconnect(): transport.disconnect(), then the cleanup. *)

DisconnectCall ==
  /\ gpc = "idle"
  /\ \/ connectionStatus = "NotStarted" /\ gpc' = "cleanup" /\ UNCHANGED transportVars
     \/ T!DisconnectBegin /\ gpc' = "disconnect"
  /\ UNCHANGED <<listenerVars, watchVars, cleanVars, pending, notesVars>>

DisconnectLocked ==
  /\ gpc = "disconnect"
  /\ cleaner \in {"nobody", "app"}
  /\ cleaner' = "app"
  /\ \/ /\ \/ T!DisconnectRead \/ T!DisconnectClose \/ T!DisconnectStop
           \/ T!JoinIo \/ T!StopMessageWorker
        /\ UNCHANGED gpc
     \/ T!DisconnectReset /\ gpc' = "cleanup"
  /\ UNCHANGED <<listenerVars, watchVars, phase, change, pending, notesVars>>

DisconnectTransport ==
  /\ gpc = "disconnect"
  /\ \/ /\ \/ T!DisconnectRead \/ T!DisconnectClose \/ T!DisconnectStop
           \/ T!JoinIo \/ T!StopMessageWorker
        /\ UNCHANGED gpc
     \/ T!DisconnectReset /\ gpc' = "cleanup"
  /\ UNCHANGED <<listenerVars, watchVars, cleanVars, pending, notesVars>>

-----------------------------------------------------------------------------
(* cleanupInternalState(), by the application thread or the IO thread. *)

WantsCleanup == {t \in {"app", "io"} : \/ t = "app" /\ gpc = "cleanup"
                                       \/ t = "io" /\ io = "ended" /\ change = "begun"}

\* if (watchdogRunning.exchange(false)) - notify_all() without watchdogMtx
\* may be missed, but the watchdog's wait is bounded by its interval.
CleanupLock(t) ==
  /\ t \in WantsCleanup
  /\ cleaner = "nobody"
  /\ cleaner' = t
  /\ phase' = IF watchdogRunning THEN "join" ELSE "cancel"
  /\ watchdogRunning' = FALSE
  /\ UNCHANGED <<transportVars, gpc, listenerVars, connectionStarted, watchdog, change, pending, notesVars>>

CleanupNoJoin ==
  /\ phase = "join"
  /\ phase' = "cancel"
  /\ UNCHANGED <<transportVars, gpc, listenerVars, watchVars, cleaner, change, pending, notesVars>>

CleanupJoinDetached ==
  /\ phase = "join"
  /\ watchdog' = "detached"
  /\ phase' = "cancel"
  /\ UNCHANGED <<transportVars, gpc, listenerVars, connectionStarted, watchdogRunning,
                 cleaner, change, pending, notesVars>>

\* watchdogThread.join()
CleanupJoin ==
  /\ phase = "join"
  /\ watchdog = "exited"
  /\ watchdog' = "off"
  /\ phase' = "cancel"
  /\ UNCHANGED <<transportVars, gpc, listenerVars, connectionStarted, watchdogRunning,
                 cleaner, change, pending, notesVars>>

CleanupCancelNothing ==
  /\ phase = "cancel"
  /\ phase' = "notes"
  /\ UNCHANGED <<transportVars, gpc, listenerVars, watchVars, cleaner, change, pending, notesVars>>

\* client.cancelAll()
CleanupCancel ==
  /\ phase = "cancel"
  /\ pending' = IF pending \in {"waiting", "overdue"} THEN "answered" ELSE pending
  /\ phase' = "notes"
  /\ UNCHANGED <<transportVars, gpc, listenerVars, watchVars, cleaner, change, notesVars>>

\* server.stopNotificationWorker(): sets the flag, notifies, joins.
CleanupNotes ==
  /\ phase = "notes"
  /\ \/ (NW!StopSet \/ NW!NotifyAll) /\ UNCHANGED phase
     \/ NW!Join /\ phase' = "finish"
  /\ UNCHANGED <<transportVars, gpc, listenerVars, watchVars, cleaner, change, pending>>

CleanupFinish ==
  /\ phase = "finish"
  /\ connectionStarted' = FALSE
  /\ phase' = "none"
  /\ cleaner' = "nobody"
  /\ gpc' = IF cleaner = "app" THEN "idle" ELSE gpc
  /\ change' = IF cleaner = "io" THEN "cleaned" ELSE change
  /\ UNCHANGED <<transportVars, listenerVars, watchdogRunning, watchdog, pending, notesVars>>

-----------------------------------------------------------------------------
(* The IO thread: Transport's handlers; the receiver they call is           *)
(* onConnectionChange(), which cleans up after a loss, copies the listener  *)
(* installed at that moment and, without the mutex, invokes the copy.       *)

CopyListener ==
  /\ \/ io = "opened" /\ change = "begun"
     \/ io = "ended" /\ change = "cleaned"
  /\ toCall' = listener
  /\ change' = "copied"
  /\ UNCHANGED <<transportVars, gpc, calls, listener, previous, failed, watchVars, cleaner, phase,
                 pending, notesVars>>

InvokeListener ==
  /\ change = "copied"
  /\ T!CallReceiver
  /\ toCall' = 0
  /\ change' = "begun"
  /\ UNCHANGED <<gpc, calls, listener, previous, failed, watchVars, cleaner, phase, pending, notesVars>>

OnConnectionChange == CopyListener \/ InvokeListener

IoHandlers ==
  /\ \/ T!OnOpen \/ T!OnOpenStatus \/ T!ConnectionEnds \/ T!EndClearHeaders
     \/ T!OnMessage \/ T!OnMessagePush \/ T!IoExit
  /\ UNCHANGED <<gpc, listenerVars, watchVars, cleanVars, pending, notesVars>>

MessageWorker ==
  /\ T!ProcessQueuedMessages
  /\ UNCHANGED <<gpc, listenerVars, watchVars, cleanVars, pending, notesVars>>

-----------------------------------------------------------------------------
(* The watchdog thread. *)

\* wait_for() ran into its interval, or was woken.
WatchdogWait ==
  /\ watchdog = "waiting"
  /\ watchdog' = IF watchdogRunning THEN "checking" ELSE "exited"
  /\ UNCHANGED <<transportVars, gpc, listenerVars, connectionStarted, watchdogRunning,
                 cleanVars, pending, notesVars>>

\* client.checkPromises()
WatchdogCheck ==
  /\ watchdog = "checking"
  /\ pending' = IF pending = "overdue" THEN "answered" ELSE pending
  /\ watchdog' = "waiting"
  /\ UNCHANGED <<transportVars, gpc, listenerVars, connectionStarted, watchdogRunning, cleanVars, notesVars>>

-----------------------------------------------------------------------------
(* The notification worker: waiting, or working off what it was given.      *)

\* ensureNotificationWorkerStarted(), by a thread inside subscribe(), which
\* takes no lock that the cleanup has.
Subscribe ==
  /\ NW!Start
  /\ UNCHANGED <<transportVars, gpc, listenerVars, watchVars, cleanVars, pending>>

NotificationWorker ==
  /\ NW!Exit \/ NW!Doze \/ NW!Sleep
  /\ UNCHANGED <<transportVars, gpc, listenerVars, watchVars, cleanVars, pending>>

NotificationWakes ==
  /\ NW!SpuriousWake
  /\ UNCHANGED <<transportVars, gpc, listenerVars, watchVars, cleanVars, pending>>

-----------------------------------------------------------------------------
(* A request by another thread, as Client handles it: accepted while the    *)
(* status is Connected, answered by the server, the watchdog or a cleanup.  *)

Request ==
  /\ connectionStatus = "Connected"
  /\ pending \in {"none", "answered"}
  /\ pending' = "waiting"
  /\ UNCHANGED <<transportVars, gpc, listenerVars, watchVars, cleanVars, notesVars>>

\* waitTime_ms has passed.
Expire ==
  /\ pending = "waiting"
  /\ pending' = "overdue"
  /\ UNCHANGED <<transportVars, gpc, listenerVars, watchVars, cleanVars, notesVars>>

Reply ==
  /\ con = "open"
  /\ pending \in {"waiting", "overdue"}
  /\ pending' = "answered"
  /\ UNCHANGED <<transportVars, gpc, listenerVars, watchVars, cleanVars, notesVars>>

-----------------------------------------------------------------------------
AppStep == \/ ConnectRefused \/ ConnectTransport \/ ConnectRestore \/ Arm
           \/ DisconnectTransport

CleanStep == \/ \E t \in {"app", "io"} : CleanupLock(t)
             \/ CleanupJoin \/ CleanupCancel \/ CleanupNotes \/ CleanupFinish

Next == \/ ConnectCall \/ DisconnectCall \/ AppStep \/ CleanStep
        \/ OnConnectionChange \/ IoHandlers \/ MessageWorker
        \/ WatchdogWait \/ WatchdogCheck
        \/ Subscribe \/ NotificationWorker \/ NotificationWakes
        \/ Request \/ Expire \/ Reply

Spec == Init /\ [][Next]_vars

\* Every thread that can go on does; see Transport for what the websocket
\* client guarantees.  Nobody has to call, answer or drop the connection.
FairSpec ==
  /\ Spec
  /\ WF_vars(AppStep)
  /\ \A t \in {"app", "io"} : SF_vars(CleanupLock(t))
  /\ WF_vars(CleanupJoin) /\ WF_vars(CleanupCancel) /\ WF_vars(CleanupNotes)
  /\ WF_vars(CleanupFinish)
  /\ WF_vars(OnConnectionChange)
  /\ WF_vars(con \in {"connecting", "closing"} /\ IoHandlers)
  /\ WF_vars(io # "idle" /\ IoHandlers)
  /\ WF_vars(IoHandlers /\ io' = "off")
  /\ SF_vars(io = "receiving" /\ IoHandlers)
  /\ WF_vars(worker # "asleep" /\ MessageWorker)
  /\ WF_vars(WatchdogWait) /\ WF_vars(WatchdogCheck)
  /\ WF_vars(NotificationWorker)
  /\ WF_vars(Expire)

-----------------------------------------------------------------------------
\* The variables keep their types; at most one watchdog thread is attached.
TypeOK ==
  /\ T!TypeOK
  /\ gpc \in {"idle", "connect", "connecting", "restore", "arm", "disconnect", "cleanup"}
  /\ calls \in 0 .. MaxConnects
  /\ listener \in 0 .. MaxConnects
  /\ previous \in 0 .. MaxConnects
  /\ toCall \in 0 .. MaxConnects
  /\ failed \subseteq 1 .. MaxConnects
  /\ connectionStarted \in BOOLEAN
  /\ watchdogRunning \in BOOLEAN
  /\ watchdog \in {"off", "waiting", "checking", "exited"}
  /\ cleaner \in {"nobody", "app", "io"}
  /\ phase \in {"none", "join", "cancel", "notes", "finish"}
  /\ change \in {"begun", "cleaned", "copied"}
  /\ pending \in {"none", "waiting", "overdue", "answered"}
  /\ NW!TypeOK

\* Whoever finds watchdogRunning clear may assign a new thread to
\* watchdogThread: the old one has been joined (assigning over a joinable
\* std::thread terminates the process), and no second watchdog runs.
WatchdogReplaceable ==
  cleaner = "nobody" /\ ~watchdogRunning => watchdog = "off"

\* The notification worker was between its test and its blocking when
\* notify_all() came, or a subscribe() has restarted it before the join.
NotesStopMissed == nstopper = "notified" /\ (nworker \in {"dozing", "asleep"} \/ ~nstop)

\* connect() and disconnect() return, however they meet the IO thread at
\* cleanup_mtx, and whatever subscribes meanwhile - unless the message worker
\* or the notification worker misses its stop.
CallsReturn == gpc # "idle" ~> gpc = "idle" \/ T!StopMissed \/ NotesStopMissed

\* A lost connection answers what was pending on it: when the IO thread is
\* about to tell the application, nothing that was sent before is waiting.
LossAnswersPending ==
  [][io = "ended" /\ io' = "idle" /\ connectionStatus = "Disconnected"
       => pending \notin {"waiting", "overdue"}]_vars

\* "connectionChangeListener ... restored atomically if connect() fails"
\* (CHANGELOG.md:36): an onConnectionChange() that comes to its listener after
\* a connect() has failed does not find that call's listener.  One that comes
\* to it while the call is under way does, and may invoke its copy later.
FailedListenerDropped == [][toCall' # toCall => toCall' \notin failed]_vars

\* "Timeout errors must be surfaced to the caller via Result<T> if a response
\* is not received within waitTime_ms" (json_rpc_handling_spec.md:21) - unless
\* a worker misses its stop.
RequestTimesOut == pending = "overdue" ~> pending # "overdue" \/ T!StopMissed \/ NotesStopMissed
=============================================================================
