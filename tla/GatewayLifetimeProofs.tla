------------------------ MODULE GatewayLifetimeProofs ------------------------
(* Theorems about the gateway from its construction to the end of its       *)
(* destruction, for any number of calls and messages.  The transport's part *)
(* is inherited: the gateway and its destructor use it as Transport         *)
(* specifies (TransportRefinement), so that the invariant of                *)
(* TransportProofs, instantiated here as TP, holds of it.                   *)
EXTENDS GatewayLifetime, TLAPS

TP == INSTANCE TransportProofs

\* Who is inside cleanupInternalState(), and how far it is.
CleanerInv ==
  /\ cleaner = "nobody" <=> phase = "none"
  /\ cleaner = "app" => gpc = "cleanup"
  /\ cleaner = "io" => io = "ended" /\ change = "begun"
  /\ change = "cleaned" => io = "ended"
  /\ change = "copied" => io \in {"opened", "ended"}

\* The watchdog thread exists exactly while watchdogRunning is set or a
\* cleanup is about to join it, and connectionStarted outlasts it: the
\* destructor goes by that flag.
WatchdogInv ==
  /\ watchdogRunning => cleaner = "nobody" /\ watchdog \in {"waiting", "checking"}
  /\ ~watchdogRunning /\ phase # "join" => watchdog = "off"
  /\ watchdog # "off" => connectionStarted

\* Listeners are numbered by the calls that bring them; the one of a failed
\* call is neither installed nor about to come back.
ListenerInv ==
  /\ \A f \in failed : f \in 1 .. calls
  /\ listener \in 0 .. calls /\ previous \in 0 .. calls
  /\ listener \notin failed
  /\ gpc \in {"connect", "connecting", "restore"} =>
       /\ listener = calls
       /\ previous \notin failed /\ previous < calls

\* Where the transport is when the gateway's calls are where they are.
CallInv ==
  /\ gpc \in {"idle", "connect", "arm", "cleanup", "restore"} => app = "idle"
  /\ gpc = "connecting" => app \in {"preparing", "dispatching"}
  /\ gpc = "disconnect" =>
       app \in {"leaving", "closing", "stopping", "joining", "stopWorker", "resetting"}

\* A cleanup by the IO thread answers what is pending, and no request is
\* accepted until that thread has told the application.
PendingInv ==
  io = "ended" /\ (change # "begun" \/ (cleaner = "io" /\ phase \in {"notes", "finish"})) =>
    pending \notin {"waiting", "overdue"}

\* The destructor's disconnect() is followed by a cleanup, and nothing is
\* connected after it.
ObjectInv ==
  /\ object \in {"alive", "disconnecting", "clean", "bare", "over"}
  /\ object # "alive" => gpc \in {"idle", "disconnect", "cleanup"}
  /\ object = "disconnecting" /\ gpc \in {"idle", "cleanup"} => connectionStatus = "NotStarted"
  /\ object = "disconnecting" /\ gpc = "idle" => ~watchdogRunning
  /\ object = "clean" => gpc = "idle" /\ connectionStatus = "NotStarted" /\ ~watchdogRunning
  /\ object \in {"bare", "over"} => gpc # "cleanup" /\ watchdog = "off" /\ ~watchdogRunning

\* Nobody subscribes to an object that is being destroyed: the notification
\* worker that the destructor's disconnect() has joined does not come back.
NotesInv ==
  /\ object # "alive" /\ cleaner = "app" /\ phase = "finish" => nworker = "off"
  /\ object = "disconnecting" /\ gpc = "idle" => nworker = "off"
  /\ object = "clean" => nworker = "off"

IInv == /\ TypeOK /\ TP!IInv
        /\ CleanerInv /\ WatchdogInv /\ ListenerInv /\ CallInv /\ PendingInv /\ ObjectInv
        /\ NotesInv

-----------------------------------------------------------------------------
\* The two instances of Transport are the same.
LEMMA SameTransport ==
  /\ T!Init = TP!Init
  /\ [T!Next]_(T!vars) <=> [TP!Next]_(TP!vars)
<1>1. T!Init = TP!Init
  BY DEF T!Init, TP!Init, T!W!Init, TP!W!Init
<1>2. T!App = TP!App
  BY DEF
    T!App, T!ConnectStart, T!ConnectAgain, T!ConnectFails, T!ConnectLaunch,
    T!ConnectPrepare, T!ConnectDispatch, T!DisconnectBegin, T!DisconnectRead,
    T!DisconnectClose, T!DisconnectStop, T!JoinIo, T!StopMessageWorker,
    T!DisconnectReset, T!W!Start, T!W!StopSet, T!W!NotifyAll, T!W!Join, T!W!Woken,
    T!clientVars, T!noteVars, T!workerVars, TP!App, TP!ConnectStart, TP!ConnectAgain,
    TP!ConnectFails, TP!ConnectLaunch, TP!ConnectPrepare, TP!ConnectDispatch,
    TP!DisconnectBegin, TP!DisconnectRead, TP!DisconnectClose, TP!DisconnectStop,
    TP!JoinIo, TP!StopMessageWorker, TP!DisconnectReset, TP!W!Start, TP!W!StopSet,
    TP!W!NotifyAll, TP!W!Join, TP!W!Woken, TP!clientVars, TP!noteVars, TP!workerVars
<1>3. (\/ T!OnOpen \/ T!OnOpenStatus \/ T!ConnectionEnds \/ T!EndClearHeaders
       \/ T!CallReceiver \/ T!OnMessage \/ T!OnMessagePush \/ T!IoExit)
   = (\/ TP!OnOpen \/ TP!OnOpenStatus \/ TP!ConnectionEnds \/ TP!EndClearHeaders
      \/ TP!CallReceiver \/ TP!OnMessage \/ TP!OnMessagePush \/ TP!IoExit)
  BY DEF
    T!OnOpen, T!OnOpenStatus, T!ConnectionEnds, T!EndClearHeaders, T!CallReceiver,
    T!OnMessage, T!OnMessagePush, T!IoExit, T!CanHandle, T!W!PushCheck, T!W!Push,
    T!W!NotifyOne, T!W!Woken, T!W!MutexFree, T!clientVars, T!noteVars, T!workerVars,
    TP!OnOpen, TP!OnOpenStatus, TP!ConnectionEnds, TP!EndClearHeaders, TP!CallReceiver,
    TP!OnMessage, TP!OnMessagePush, TP!IoExit, TP!CanHandle, TP!W!PushCheck, TP!W!Push,
    TP!W!NotifyOne, TP!W!Woken, TP!W!MutexFree, TP!clientVars, TP!noteVars,
    TP!workerVars
<1>4. T!ProcessQueuedMessages = TP!ProcessQueuedMessages
  BY DEF
    T!ProcessQueuedMessages, T!W!Work, T!W!Take, T!W!Finish, T!W!Exit, T!W!Doze,
    T!W!Sleep, T!W!SpuriousWake, T!clientVars, T!noteVars, TP!ProcessQueuedMessages,
    TP!W!Work, TP!W!Take, TP!W!Finish, TP!W!Exit, TP!W!Doze, TP!W!Sleep,
    TP!W!SpuriousWake, TP!clientVars, TP!noteVars
<1>5. UNCHANGED T!vars <=> UNCHANGED TP!vars
  BY DEF T!vars, TP!vars, T!clientVars, TP!clientVars, T!noteVars, TP!noteVars,
         T!workerVars, TP!workerVars
<1> QED
  BY <1>1, <1>2, <1>3, <1>4, <1>5 DEF T!Next, TP!Next

\* What the notification worker has no part in.
core == <<transportVars, gpc, listenerVars, watchVars, cleanVars, pending, object>>

\* The notification worker's own steps, its start and ~Server().
LEMMA Aside ==
  ASSUME \/ Here({"alive"}, Subscribe) \/ Joinable(NotificationWorker) \/ Joinable(NotificationWakes)
         \/ ServerDestructor \/ UNCHANGED lifeVars
  PROVE  UNCHANGED core
BY DEF core, Here, Joinable, Subscribe, NotificationWorker, NotificationWakes, ServerDestructor, lifeVars, vars

\* Every step of the gateway is one of its transport, or leaves it alone.
LEMMA TransportSteps == [LifeNext]_lifeVars => [T!Next]_(T!vars)
<1> SUFFICES ASSUME [LifeNext]_lifeVars PROVE [T!Next]_(T!vars)
  OBVIOUS
<1>1. UNCHANGED transportVars => UNCHANGED T!vars
  BY DEF transportVars, T!vars, T!clientVars, T!noteVars, T!workerVars
<1> USE DEF T!Next, T!App
<1>2. CASE Here({"alive"}, Call)
  BY <1>1, <1>2 DEF Here, Call, ConnectCall, DisconnectCall, Request, Subscribe
<1>3. CASE Whole(AppStep)
  BY <1>1, <1>3 DEF Whole, Here, AppStep, ConnectRefused, ConnectTransport, ConnectRestore, Arm,
                    DisconnectTransport, T!ConnectLaunch
<1>4. CASE Whole(Expire) \/ Whole(Reply)
  BY <1>1, <1>4 DEF Whole, Here, Expire, Reply
<1>5. CASE Joinable(CleanStep)
  BY <1>1, <1>5 DEF Joinable, Here, CleanStep, CleanupLock, CleanupJoin, CleanupCancel, CleanupNotes, CleanupFinish
<1>6. CASE Joinable(IoStep)
  BY <1>1, <1>6 DEF Joinable, Here, IoStep, OnConnectionChange, CopyListener, InvokeListener, IoHandlers
<1>7. CASE Joinable(MessageWorker)
  BY <1>7 DEF Joinable, Here, MessageWorker
<1>8. CASE Joinable(WatchdogStep)
  BY <1>1, <1>8 DEF Joinable, Here, WatchdogStep, WatchdogWait, WatchdogCheck
<1>9. CASE Destructor
  BY <1>1, <1>9 DEF Destructor, DisconnectCall, vars
<1>10. CASE DestroyMembers
  BY <1>1, <1>10 DEF DestroyMembers, vars
<1>11. CASE TransportDestructor
  BY <1>1, <1>11 DEF TransportDestructor
<1>12. CASE UNCHANGED core
  BY <1>1, <1>12 DEF core
<1> QED
  BY <1>2, <1>3, <1>4, <1>5, <1>6, <1>7, <1>8, <1>9, <1>10, <1>11, <1>12, Aside DEF LifeNext

\* GatewayImpl and its destructor use the transport the way Transport
\* specifies.
THEOREM TransportRefinement == LifeSpec => T!Spec
<1>1. LifeInit => T!Init
  BY DEF LifeInit, Init
<1> QED
  BY <1>1, TransportSteps, PTL DEF LifeSpec, T!Spec

\* The invariant of the transport is preserved.
LEMMA TransportStep == IInv /\ [LifeNext]_lifeVars => TP!IInv'
BY TransportSteps, SameTransport, GatewayAssumption, TP!InductiveStep DEF IInv

\* The actions a step may be, each with what the destruction allows.
LEMMA Cases ==
  ASSUME [LifeNext]_lifeVars
  PROVE  \/ (ConnectCall \/ Request) /\ object = "alive" /\ object' = object
         \/ DisconnectCall /\ object = "alive" /\ object' \in {"alive", "disconnecting"}
         \/ /\ ConnectRefused \/ ConnectTransport \/ ConnectRestore \/ Arm \/ DisconnectTransport
               \/ Expire \/ Reply
            /\ object \in {"alive", "disconnecting"} /\ object' = object
         \/ /\ (\E t \in {"app", "io"} : CleanupLock(t)) \/ CleanupJoin \/ CleanupCancel \/ CleanupNotes \/ CleanupFinish
            /\ object # "over" /\ object' = object
         \/ (OnConnectionChange \/ IoHandlers \/ MessageWorker) /\ object # "over" /\ object' = object
         \/ (WatchdogWait \/ WatchdogCheck) /\ object # "over" /\ object' = object
         \/ Destructor \/ DestroyMembers \/ TransportDestructor
         \/ UNCHANGED core
<1>1. CASE \/ Here({"alive"}, Subscribe) \/ Joinable(NotificationWorker) \/ Joinable(NotificationWakes)
           \/ ServerDestructor \/ UNCHANGED lifeVars
  BY <1>1, Aside
<1>2. CASE Here({"alive"}, Call) /\ ~Here({"alive"}, Subscribe)
  BY <1>2 DEF Here, Call
<1>3. CASE Whole(AppStep) \/ Whole(Expire) \/ Whole(Reply)
  BY <1>3 DEF Whole, Here, AppStep
<1>4. CASE Joinable(CleanStep)
  BY <1>4 DEF Joinable, Here, CleanStep
<1>5. CASE Joinable(IoStep) \/ Joinable(MessageWorker)
  BY <1>5 DEF Joinable, Here, IoStep
<1>6. CASE Joinable(WatchdogStep)
  BY <1>6 DEF Joinable, Here, WatchdogStep
<1>7. CASE Destructor \/ DestroyMembers \/ TransportDestructor
  BY <1>7
<1> QED
  BY <1>1, <1>2, <1>3, <1>4, <1>5, <1>6, <1>7 DEF LifeNext

\* What happens to the notification worker.
LEMMA NotesCases ==
  ASSUME [LifeNext]_lifeVars
  PROVE  \/ UNCHANGED notesVars
         \/ CleanupNotes /\ UNCHANGED object
         \/ Subscribe /\ object = "alive" /\ UNCHANGED object
         \/ NotificationWorker /\ UNCHANGED object
         \/ NotificationWakes /\ UNCHANGED object
         \/ ServerDestructor
<1>1. CASE Here({"alive"}, Call)
  BY <1>1 DEF Here, Call, ConnectCall, DisconnectCall, Request
<1>2. CASE Whole(AppStep) \/ Whole(Expire) \/ Whole(Reply)
  BY <1>2 DEF Whole, Here, AppStep, ConnectRefused, ConnectTransport, ConnectRestore, Arm,
              DisconnectTransport, Expire, Reply
<1>3. CASE Joinable(CleanStep)
  BY <1>3 DEF Joinable, Here, CleanStep, CleanupLock, CleanupJoin, CleanupCancel, CleanupFinish
<1>4. CASE Joinable(IoStep) \/ Joinable(MessageWorker) \/ Joinable(WatchdogStep)
  BY <1>4 DEF Joinable, Here, IoStep, OnConnectionChange, CopyListener, InvokeListener, IoHandlers,
              MessageWorker, WatchdogStep, WatchdogWait, WatchdogCheck
<1>5. CASE Joinable(NotificationWorker) \/ Joinable(NotificationWakes) \/ ServerDestructor
  BY <1>5 DEF Joinable, Here
<1>6. CASE Destructor \/ DestroyMembers \/ TransportDestructor \/ UNCHANGED lifeVars
  BY <1>6 DEF Destructor, DestroyMembers, TransportDestructor, DisconnectCall, lifeVars, vars
<1> QED
  BY <1>1, <1>2, <1>3, <1>4, <1>5, <1>6 DEF LifeNext

\* The notification worker and its flag keep their types.
LEMMA NotesType == IInv /\ [LifeNext]_lifeVars => NW!TypeOK'
<1> SUFFICES ASSUME IInv, [LifeNext]_lifeVars PROVE NW!TypeOK'
  OBVIOUS
<1>1. NW!TypeOK
  BY DEF IInv, TypeOK
<1>2. /\ nstop' \in BOOLEAN
      /\ nworker' \in {"off", "ready", "dozing", "asleep", "busy", "exited"}
      /\ nstopper' \in {"idle", "set", "notified"}
  BY <1>1, NotesCases DEF NW!TypeOK, notesVars, CleanupNotes, NW!StopSet, NW!NotifyAll, NW!Join, NW!Woken,
       Subscribe, NW!Start, NotificationWorker, NW!Exit, NW!Doze, NW!Sleep, NotificationWakes,
       NW!SpuriousWake, ServerDestructor
<1> QED
  BY <1>1, <1>2 DEF NW!TypeOK

\* Types are preserved by every step.
LEMMA TypeStep == IInv /\ [LifeNext]_lifeVars => TypeOK'
<1> SUFFICES ASSUME IInv, [LifeNext]_lifeVars PROVE TypeOK'
  OBVIOUS
<1>1. T!TypeOK'
  <2>1. TP!TypeOK'
    BY TransportStep DEF TP!IInv
  <2> QED
    BY <2>1 DEF TP!TypeOK, T!TypeOK, TP!W!TypeOK, T!W!TypeOK
<1>0. NW!TypeOK'
  BY NotesType
<1> USE GatewayAssumption, <1>0, <1>1 DEF IInv, TypeOK
<1>2. CASE Request \/ DisconnectCall \/ ConnectRefused \/ ConnectTransport \/ DisconnectTransport
  BY <1>2 DEF Request, DisconnectCall, ConnectRefused, ConnectTransport, DisconnectTransport,
              listenerVars, watchVars, cleanVars
<1>3. CASE ConnectCall \/ ConnectRestore \/ Arm
  <2>1. CASE ConnectCall
    BY <2>1 DEF ConnectCall, watchVars, cleanVars
  <2>2. CASE ConnectRestore
    <3>1. calls \in 1 .. MaxConnects
      BY <2>2 DEF ConnectRestore, ListenerInv
    <3> QED
      BY <2>2, <3>1 DEF ConnectRestore, watchVars, cleanVars
  <2>3. CASE Arm
    BY <2>3 DEF Arm, listenerVars, cleanVars
  <2> QED
    BY <1>3, <2>1, <2>2, <2>3
<1>4. CASE Expire \/ Reply
  BY <1>4 DEF Expire, Reply, listenerVars, watchVars, cleanVars
<1>5. CASE (\E t \in {"app", "io"} : CleanupLock(t)) \/ CleanupJoin \/ CleanupCancel \/ CleanupNotes \/ CleanupFinish
  BY <1>5 DEF CleanupLock, CleanupJoin, CleanupCancel, CleanupNotes, CleanupFinish, listenerVars, watchVars
<1>6. CASE OnConnectionChange \/ IoHandlers \/ MessageWorker
  <2>1. CASE OnConnectionChange
    <3>1. /\ toCall' \in {0, listener} /\ change' \in {"begun", "copied"}
          /\ UNCHANGED <<gpc, calls, listener, previous, failed, connectionStarted, watchdogRunning,
                         watchdog, cleaner, phase, pending>>
      BY <2>1 DEF OnConnectionChange, CopyListener, InvokeListener, watchVars
    <3>2. toCall' \in 0 .. MaxConnects
      BY <3>1
    <3> QED
      BY <3>1, <3>2
  <2>2. CASE IoHandlers \/ MessageWorker
    <3>1. UNCHANGED <<gpc, calls, listener, previous, toCall, failed, connectionStarted, watchdogRunning,
                      watchdog, cleaner, phase, change, pending>>
      BY <2>2 DEF IoHandlers, MessageWorker, listenerVars, watchVars, cleanVars
    <3> QED
      BY <3>1
  <2> QED
    BY <1>6, <2>1, <2>2
<1>7. CASE WatchdogWait \/ WatchdogCheck
  BY <1>7 DEF WatchdogWait, WatchdogCheck, listenerVars, cleanVars
<1>8. CASE Destructor \/ DestroyMembers
  BY <1>8 DEF Destructor, DestroyMembers, DisconnectCall, vars, listenerVars, watchVars, cleanVars
<1>9. CASE TransportDestructor
  BY <1>9 DEF TransportDestructor, listenerVars, watchVars, cleanVars
<1>10. CASE UNCHANGED core
  BY <1>10 DEF core, listenerVars, watchVars, cleanVars
<1> QED
  BY <1>2, <1>3, <1>4, <1>5, <1>6, <1>7, <1>8, <1>9, <1>10, Cases

\* cleanup_mtx keeps the two cleanups apart.
LEMMA CleanerStep == IInv /\ [LifeNext]_lifeVars => CleanerInv'
<1> SUFFICES ASSUME IInv, [LifeNext]_lifeVars PROVE CleanerInv'
  OBVIOUS
<1> USE DEF IInv, TypeOK, CleanerInv
<1>1. CASE ConnectCall \/ Request \/ DisconnectCall \/ ConnectRefused \/ ConnectRestore \/ Arm \/ Expire \/ Reply
  BY <1>1 DEF ConnectCall, Request, DisconnectCall, ConnectRefused, ConnectRestore, Arm, Expire, Reply,
              cleanVars, transportVars, T!DisconnectBegin
<1>2. CASE ConnectTransport
  BY <1>2 DEF ConnectTransport, cleanVars, T!ConnectStart, T!ConnectAgain, T!ConnectPrepare,
              T!ConnectFails, T!ConnectDispatch, TP!IInv, TP!SessionInv, TP!IoJoined
<1>3. CASE DisconnectTransport
  BY <1>3 DEF DisconnectTransport, cleanVars, T!DisconnectRead, T!DisconnectClose, T!DisconnectStop,
              T!JoinIo, T!StopMessageWorker, T!DisconnectReset
<1>4. CASE (\E t \in {"app", "io"} : CleanupLock(t)) \/ CleanupJoin \/ CleanupCancel \/ CleanupNotes \/ CleanupFinish
  BY <1>4 DEF CleanupLock, WantsCleanup, CleanupJoin, CleanupCancel, CleanupNotes, CleanupFinish, transportVars
<1>5. CASE OnConnectionChange
  BY <1>5 DEF OnConnectionChange, CopyListener, InvokeListener, T!CallReceiver, transportVars
<1>6. CASE IoHandlers \/ MessageWorker
  BY <1>6 DEF IoHandlers, MessageWorker, cleanVars, T!OnOpen, T!OnOpenStatus, T!ConnectionEnds,
              T!EndClearHeaders, T!OnMessage, T!OnMessagePush, T!IoExit, T!CanHandle, T!ProcessQueuedMessages
<1>7. CASE WatchdogWait \/ WatchdogCheck
  BY <1>7 DEF WatchdogWait, WatchdogCheck, cleanVars, transportVars
<1>8. CASE Destructor \/ DestroyMembers
  BY <1>8 DEF Destructor, DestroyMembers, DisconnectCall, T!DisconnectBegin, vars, cleanVars, transportVars
<1>9. CASE TransportDestructor
  BY <1>9 DEF TransportDestructor, cleanVars, transportVars, T!DisconnectBegin, T!DisconnectRead,
              T!DisconnectClose, T!DisconnectStop, T!JoinIo, T!StopMessageWorker, T!DisconnectReset
<1>10. CASE UNCHANGED core
  BY <1>10 DEF core, cleanVars, transportVars
<1> QED
  BY <1>1, <1>2, <1>3, <1>4, <1>5, <1>6, <1>7, <1>8, <1>9, <1>10, Cases

\* The watchdog is replaced only when it was joined, and connectionStarted
\* stays set as long as it exists.
LEMMA WatchdogStepInv == IInv /\ [LifeNext]_lifeVars => WatchdogInv'
<1> SUFFICES ASSUME IInv, [LifeNext]_lifeVars PROVE WatchdogInv'
  OBVIOUS
<1> USE DEF IInv, TypeOK, CleanerInv, WatchdogInv
<1>1. CASE \/ ConnectCall \/ Request \/ DisconnectCall \/ ConnectRefused \/ ConnectTransport
           \/ ConnectRestore \/ DisconnectTransport \/ Expire \/ Reply
  BY <1>1 DEF ConnectCall, Request, DisconnectCall, ConnectRefused, ConnectTransport, ConnectRestore,
              DisconnectTransport, Expire, Reply, watchVars, cleanVars
<1>2. CASE Arm
  BY <1>2 DEF Arm, cleanVars
<1>3. CASE (\E t \in {"app", "io"} : CleanupLock(t)) \/ CleanupJoin \/ CleanupCancel \/ CleanupNotes \/ CleanupFinish
  BY <1>3 DEF CleanupLock, WantsCleanup, CleanupJoin, CleanupCancel, CleanupNotes, CleanupFinish, watchVars
<1>4. CASE OnConnectionChange \/ IoHandlers \/ MessageWorker
  BY <1>4 DEF OnConnectionChange, CopyListener, InvokeListener, IoHandlers, MessageWorker, watchVars, cleanVars
<1>5. CASE WatchdogWait \/ WatchdogCheck
  BY <1>5 DEF WatchdogWait, WatchdogCheck, cleanVars
<1>6. CASE Destructor \/ DestroyMembers \/ TransportDestructor
  BY <1>6 DEF Destructor, DestroyMembers, TransportDestructor, DisconnectCall, vars, watchVars, cleanVars
<1>7. CASE UNCHANGED core
  BY <1>7 DEF core, watchVars, cleanVars
<1> QED
  BY <1>1, <1>2, <1>3, <1>4, <1>5, <1>6, <1>7, Cases

\* A failed connect() takes its listener away again.
LEMMA ListenerStep == IInv /\ [LifeNext]_lifeVars => ListenerInv'
<1> SUFFICES ASSUME IInv, [LifeNext]_lifeVars PROVE ListenerInv'
  OBVIOUS
<1> USE GatewayAssumption DEF IInv, TypeOK, ListenerInv
<1>1. CASE ConnectCall
  BY <1>1 DEF ConnectCall
<1>2. CASE ConnectRestore
  BY <1>2 DEF ConnectRestore
<1>3. CASE Request \/ DisconnectCall \/ ConnectRefused \/ ConnectTransport \/ Arm \/ DisconnectTransport \/ Expire \/ Reply
  BY <1>3 DEF Request, DisconnectCall, ConnectRefused, ConnectTransport, Arm, DisconnectTransport,
              Expire, Reply, listenerVars
<1>4. CASE (\E t \in {"app", "io"} : CleanupLock(t)) \/ CleanupJoin \/ CleanupCancel \/ CleanupNotes \/ CleanupFinish
  BY <1>4 DEF CleanupLock, CleanupJoin, CleanupCancel, CleanupNotes, CleanupFinish, listenerVars
<1>5. CASE OnConnectionChange \/ IoHandlers \/ MessageWorker
  BY <1>5 DEF OnConnectionChange, CopyListener, InvokeListener, IoHandlers, MessageWorker, listenerVars
<1>6. CASE WatchdogWait \/ WatchdogCheck
  BY <1>6 DEF WatchdogWait, WatchdogCheck, listenerVars
<1>7. CASE Destructor \/ DestroyMembers \/ TransportDestructor
  BY <1>7 DEF Destructor, DestroyMembers, TransportDestructor, DisconnectCall, vars, listenerVars
<1>8. CASE UNCHANGED core
  BY <1>8 DEF core, listenerVars
<1> QED
  BY <1>1, <1>2, <1>3, <1>4, <1>5, <1>6, <1>7, <1>8, Cases

\* Where a call of the gateway is tells where its call of the transport is.
LEMMA CallStep == IInv /\ [LifeNext]_lifeVars => CallInv'
<1> SUFFICES ASSUME IInv, [LifeNext]_lifeVars PROVE CallInv'
  OBVIOUS
<1> USE DEF IInv, CallInv
<1>1. CASE ConnectCall \/ Request \/ ConnectRefused \/ ConnectRestore \/ Arm \/ Expire \/ Reply
  BY <1>1 DEF ConnectCall, Request, ConnectRefused, ConnectRestore, Arm, Expire, Reply, transportVars
<1>2. CASE DisconnectCall \/ Destructor \/ DestroyMembers
  BY <1>2 DEF DisconnectCall, Destructor, DestroyMembers, T!DisconnectBegin, vars, transportVars
<1>3. CASE ConnectTransport
  BY <1>3 DEF ConnectTransport, T!ConnectStart, T!ConnectAgain, T!ConnectPrepare, T!ConnectFails,
              T!ConnectDispatch
<1>4. CASE DisconnectTransport \/ TransportDestructor
  BY <1>4 DEF DisconnectTransport, TransportDestructor, T!DisconnectBegin, T!DisconnectRead,
              T!DisconnectClose, T!DisconnectStop, T!JoinIo, T!StopMessageWorker, T!DisconnectReset,
              transportVars
<1>5. CASE (\E t \in {"app", "io"} : CleanupLock(t)) \/ CleanupJoin \/ CleanupCancel \/ CleanupNotes \/ CleanupFinish
  BY <1>5 DEF CleanerInv, CleanupLock, CleanupJoin, CleanupCancel, CleanupNotes, CleanupFinish, transportVars
<1>6. CASE OnConnectionChange \/ IoHandlers \/ MessageWorker
  BY <1>6 DEF OnConnectionChange, CopyListener, InvokeListener, IoHandlers, MessageWorker, transportVars,
              T!CallReceiver, T!OnOpen, T!OnOpenStatus, T!ConnectionEnds, T!EndClearHeaders, T!OnMessage, T!OnMessagePush, T!IoExit,
              T!ProcessQueuedMessages
<1>7. CASE WatchdogWait \/ WatchdogCheck
  BY <1>7 DEF WatchdogWait, WatchdogCheck, transportVars
<1>8. CASE UNCHANGED core
  BY <1>8 DEF core, transportVars
<1> QED
  BY <1>1, <1>2, <1>3, <1>4, <1>5, <1>6, <1>7, <1>8, Cases

\* While the end of a connection is being told, the status is not Connected:
\* no request is added to the ones that the cleanup has answered.
LEMMA PendingStep == IInv /\ [LifeNext]_lifeVars => PendingInv'
<1> SUFFICES ASSUME IInv, [LifeNext]_lifeVars PROVE PendingInv'
  OBVIOUS
<1> USE DEF IInv, PendingInv
<1>1. CASE Request
  BY <1>1 DEF Request, transportVars, cleanVars, TP!IInv, TP!AgreeInv
<1>2. CASE Expire \/ Reply
  BY <1>2 DEF Expire, Reply, transportVars, cleanVars
<1>3. CASE ConnectCall \/ DisconnectCall \/ ConnectRefused \/ ConnectRestore \/ Arm \/ Destructor \/ DestroyMembers
  BY <1>3 DEF ConnectCall, DisconnectCall, ConnectRefused, ConnectRestore, Arm, Destructor, DestroyMembers,
              T!DisconnectBegin, vars, transportVars, cleanVars
<1>4. CASE ConnectTransport
  BY <1>4 DEF ConnectTransport, cleanVars, T!ConnectStart, T!ConnectAgain, T!ConnectPrepare,
              T!ConnectFails, T!ConnectDispatch
<1>5. CASE DisconnectTransport \/ TransportDestructor
  BY <1>5 DEF DisconnectTransport, TransportDestructor, T!DisconnectBegin, T!DisconnectRead,
              T!DisconnectClose, T!DisconnectStop, T!JoinIo, T!StopMessageWorker, T!DisconnectReset,
              transportVars, cleanVars
<1>6. CASE (\E t \in {"app", "io"} : CleanupLock(t)) \/ CleanupJoin \/ CleanupCancel \/ CleanupNotes \/ CleanupFinish
  BY <1>6 DEF CleanerInv, CleanupLock, CleanupJoin, CleanupCancel, CleanupNotes, CleanupFinish, transportVars
<1>7. CASE OnConnectionChange \/ IoHandlers \/ MessageWorker
  <2>1. CASE CopyListener
    BY <2>1 DEF CopyListener, transportVars
  <2>2. CASE InvokeListener
    BY <2>2 DEF InvokeListener, T!CallReceiver
  <2>3. CASE IoHandlers \/ MessageWorker
    BY <2>3 DEF TypeOK, CleanerInv, IoHandlers, MessageWorker, cleanVars, T!OnOpen, T!OnOpenStatus,
                T!ConnectionEnds, T!EndClearHeaders, T!OnMessage, T!OnMessagePush, T!IoExit, T!CanHandle,
                T!ProcessQueuedMessages
  <2> QED
    BY <1>7, <2>1, <2>2, <2>3 DEF OnConnectionChange
<1>8. CASE WatchdogWait \/ WatchdogCheck
  BY <1>8 DEF WatchdogWait, WatchdogCheck, transportVars, cleanVars
<1>9. CASE UNCHANGED core
  BY <1>9 DEF core, transportVars, cleanVars
<1> QED
  BY <1>1, <1>2, <1>3, <1>4, <1>5, <1>6, <1>7, <1>8, <1>9, Cases

\* When the members behind transport are gone, no thread that used them is
\* left: the destructor's disconnect() has joined it, or there was none.
LEMMA Quiet ==
  ASSUME IInv
  PROVE  /\ object \in {"clean", "bare"} => watchdog = "off"
         /\ object = "clean" => io = "off" /\ worker = "off" /\ nworker = "off" /\ cleaner = "nobody"
<1>0. object = "clean" => nworker = "off"
  BY DEF IInv, NotesInv
<1>1. ASSUME object = "clean" PROVE io = "off" /\ worker = "off" /\ cleaner = "nobody"
  <2>1. io = "off" /\ worker = "off"
    BY <1>1 DEF IInv, ObjectInv, TP!IInv, TP!SessionInv, TP!IoJoined
  <2> QED
    BY <1>1, <2>1 DEF IInv, TypeOK, ObjectInv, CleanerInv
<1>2. object = "clean" => watchdog = "off"
  BY <1>1 DEF IInv, TypeOK, ObjectInv, WatchdogInv, CleanerInv
<1> QED
  BY <1>0, <1>1, <1>2 DEF IInv, ObjectInv

\* Nothing brings the transport or the watchdog back once the destructor's
\* disconnect() has stopped them.
LEMMA ObjectStep == IInv /\ [LifeNext]_lifeVars => ObjectInv'
<1> SUFFICES ASSUME IInv, [LifeNext]_lifeVars PROVE ObjectInv'
  OBVIOUS
<1> USE DEF IInv, ObjectInv
<1>1. CASE (ConnectCall \/ Request) /\ object = "alive" /\ object' = object
  BY <1>1
<1>2. CASE Destructor
  BY <1>2 DEF Destructor, DisconnectCall, T!DisconnectBegin, WatchdogInv, TypeOK, vars, watchVars, transportVars
<1>3. CASE DisconnectCall /\ object = "alive" /\ object' \in {"alive", "disconnecting"}
  BY <1>3 DEF DisconnectCall, T!DisconnectBegin, transportVars
<1>4. CASE /\ ConnectRefused \/ ConnectTransport \/ ConnectRestore \/ Arm \/ DisconnectTransport
              \/ Expire \/ Reply
           /\ object \in {"alive", "disconnecting"} /\ object' = object
  BY <1>4 DEF ConnectRefused, ConnectTransport, ConnectRestore, Arm, DisconnectTransport, Expire, Reply,
              T!DisconnectRead, T!DisconnectClose, T!DisconnectStop, T!JoinIo, T!StopMessageWorker,
              T!DisconnectReset, transportVars, watchVars
<1>5. CASE /\ (\E t \in {"app", "io"} : CleanupLock(t)) \/ CleanupJoin \/ CleanupCancel \/ CleanupNotes \/ CleanupFinish
           /\ object # "over" /\ object' = object
  BY <1>5 DEF CleanerInv, WatchdogInv, CleanupLock, CleanupJoin, CleanupCancel, CleanupNotes, CleanupFinish,
              transportVars, watchVars
<1>6. CASE (OnConnectionChange \/ IoHandlers \/ MessageWorker) /\ object # "over" /\ object' = object
  BY <1>6 DEF OnConnectionChange, CopyListener, InvokeListener, IoHandlers, MessageWorker, watchVars, T!CallReceiver, T!OnOpen,
              T!OnOpenStatus, T!ConnectionEnds, T!EndClearHeaders, T!OnMessage, T!OnMessagePush, T!IoExit,
              T!CanHandle, T!ProcessQueuedMessages, TP!IInv, TP!SessionInv, TP!IoJoined
<1>7. CASE (WatchdogWait \/ WatchdogCheck) /\ object # "over" /\ object' = object
  BY <1>7 DEF WatchdogWait, WatchdogCheck, transportVars
<1>8. CASE DestroyMembers
  BY <1>8 DEF DestroyMembers, vars, transportVars, watchVars
<1>9. CASE TransportDestructor
  <2>1. object \in {"clean", "bare"} /\ UNCHANGED <<watchdog, watchdogRunning>>
    BY <1>9 DEF TransportDestructor, watchVars
  <2>2. CASE gpc = "idle" /\ connectionStatus # "NotStarted" /\ gpc' = "disconnect" /\ UNCHANGED object
    BY <2>1, <2>2
  <2>3. CASE gpc = "disconnect" /\ gpc' \in {"disconnect", "idle"} /\ UNCHANGED object
    BY <2>1, <2>3
  <2>4. CASE gpc = "idle" /\ connectionStatus = "NotStarted" /\ gpc' = gpc /\ object' = "over"
    BY <2>1, <2>4, Quiet
  <2> QED
    BY <1>9, <2>2, <2>3, <2>4 DEF TransportDestructor
<1>10. CASE UNCHANGED core
  BY <1>10 DEF core, transportVars, watchVars
<1> QED
  BY <1>1, <1>2, <1>3, <1>4, <1>5, <1>6, <1>7, <1>8, <1>9, <1>10, Cases

\* The notification worker is off when the destructor's cleanup is over.
LEMMA NotesStep == IInv /\ [LifeNext]_lifeVars => NotesInv'
<1> SUFFICES ASSUME IInv, [LifeNext]_lifeVars PROVE NotesInv'
  OBVIOUS
<1> USE DEF IInv, NotesInv
<1>1. ASSUME object # "alive" PROVE nworker = "off" => nworker' = "off"
  BY <1>1, NotesCases DEF notesVars, CleanupNotes, NW!StopSet, NW!NotifyAll, NW!Join, NW!Woken,
       NotificationWorker, NW!Exit, NW!Doze, NW!Sleep, NotificationWakes, NW!SpuriousWake, ServerDestructor
<1>2. CASE object = "alive" /\ object' = object
  BY <1>2
<1>3. CASE Destructor
  BY <1>3 DEF Destructor, DisconnectCall, T!DisconnectBegin, CleanerInv, vars, cleanVars
<1>4. CASE object # "alive" /\ CleanupNotes /\ object' = object
  BY <1>1, <1>4 DEF CleanupNotes, NW!Join
<1>5. CASE /\ object # "alive" /\ object' = object
           /\ (\E t \in {"app", "io"} : CleanupLock(t)) \/ CleanupJoin \/ CleanupCancel \/ CleanupFinish
  BY <1>1, <1>5 DEF CleanupLock, CleanupJoin, CleanupCancel, CleanupFinish
<1>6. CASE DestroyMembers
  BY <1>1, <1>6 DEF DestroyMembers, vars, cleanVars
<1>7. CASE object # "alive" /\ object' = object /\ UNCHANGED <<cleaner, phase, gpc>>
  BY <1>1, <1>7
<1>8. CASE TransportDestructor
  BY <1>1, <1>8 DEF TransportDestructor, cleanVars
<1>9. CASE /\ object # "alive" /\ object' = object
           /\ ConnectRefused \/ ConnectTransport \/ ConnectRestore \/ Arm \/ DisconnectTransport
  <2>1. UNCHANGED <<cleaner, phase>> /\ gpc \notin {"idle", "cleanup"}
    BY <1>9 DEF ConnectRefused, ConnectTransport, ConnectRestore, Arm, DisconnectTransport, cleanVars
  <2>2. DisconnectTransport
    BY <1>9 DEF ObjectInv, ConnectRefused, ConnectTransport, ConnectRestore, Arm
  <2>3. gpc' \in {"disconnect", "cleanup"}
    BY <2>2 DEF DisconnectTransport
  <2> QED
    BY <1>1, <1>9, <2>1, <2>3
<1>10. CASE /\ \/ Expire \/ Reply \/ OnConnectionChange \/ IoHandlers \/ MessageWorker
               \/ WatchdogWait \/ WatchdogCheck \/ UNCHANGED core
            /\ object' = object
  <2>1. UNCHANGED <<cleaner, phase, gpc>>
    BY <1>10 DEF Expire, Reply, OnConnectionChange, CopyListener, InvokeListener, IoHandlers, MessageWorker,
                 WatchdogWait, WatchdogCheck, core, cleanVars
  <2> QED
    BY <1>2, <1>7, <1>10, <2>1
<1>11. CASE DisconnectCall /\ object = "alive" /\ object' \in {"alive", "disconnecting"}
  BY <1>2, <1>11 DEF DisconnectCall, CleanerInv, cleanVars
<1> QED
  BY <1>2, <1>3, <1>4, <1>5, <1>6, <1>8, <1>9, <1>10, <1>11, Cases DEF core

-----------------------------------------------------------------------------
\* A gateway that was just constructed satisfies the inductive invariant.
LEMMA InitInv == LifeInit => IInv
<1> SUFFICES ASSUME LifeInit PROVE IInv
  OBVIOUS
<1>1. TP!IInv
  BY SameTransport, GatewayAssumption, TP!InitInv DEF LifeInit, Init
<1>2. T!TypeOK
  BY <1>1 DEF TP!IInv, TP!TypeOK, T!TypeOK, TP!W!TypeOK, T!W!TypeOK
<1>3. connectionStarted \in BOOLEAN /\ watchdogRunning \in BOOLEAN /\ nstop \in BOOLEAN
  BY ZenonT(20) DEF LifeInit, Init, NW!Init
<1>4. TypeOK
  BY <1>2, <1>3, GatewayAssumption DEF TypeOK, LifeInit, Init, NW!Init, NW!TypeOK
<1>5. CleanerInv /\ WatchdogInv /\ ListenerInv /\ PendingInv /\ ObjectInv /\ NotesInv
  BY DEF LifeInit, Init, CleanerInv, WatchdogInv, ListenerInv, PendingInv, ObjectInv, NotesInv
<1>6. CallInv
  BY DEF LifeInit, Init, T!Init, CallInv
<1> QED
  BY <1>1, <1>4, <1>5, <1>6 DEF IInv

\* The invariant is inductive.
LEMMA InductiveStep == IInv /\ [LifeNext]_lifeVars => IInv'
BY TransportStep, TypeStep, CleanerStep, WatchdogStepInv, ListenerStep, CallStep, PendingStep, ObjectStep,
   NotesStep
DEF IInv

\* Every state of the gateway satisfies the inductive invariant, the
\* transport's included.
THEOREM Invariance == LifeSpec => []IInv
BY InitInv, InductiveStep, PTL DEF LifeSpec

\* The members of GatewayImpl and the threads that use them keep their types.
THEOREM TypeCorrect == LifeSpec => []TypeOK
<1>1. IInv => TypeOK
  BY DEF IInv
<1> QED
  BY <1>1, Invariance, PTL

\* connect() never assigns over a watchdogThread that was not joined, however
\* its arming meets the cleanups of disconnect() and of the IO thread.
THEOREM WatchdogJoined == LifeSpec => []WatchdogReplaceable
<1>1. IInv => WatchdogReplaceable
  BY DEF IInv, WatchdogReplaceable, WatchdogInv, CleanerInv
<1> QED
  BY <1>1, Invariance, PTL

\* ~GatewayImpl() leaves no joinable watchdog to the destructor of
\* std::thread, and after its disconnect() no thread uses the destroyed members.
THEOREM CleanEnd == LifeSpec => []CleanDestruction
<1>1. IInv => CleanDestruction
  BY Quiet DEF CleanDestruction
<1> QED
  BY <1>1, Invariance, PTL

\* An onConnectionChange() never picks up the listener of a connect() that
\* has failed: the previous one is back before the call returns.
THEOREM FailedNotPicked == LifeSpec => FailedListenerDropped
<1>1. IInv /\ [LifeNext]_lifeVars => [toCall' # toCall => toCall' \notin failed]_vars
  <2> SUFFICES ASSUME IInv, [LifeNext]_lifeVars, toCall' # toCall PROVE toCall' \notin failed
    OBVIOUS
  <2>1. CASE CopyListener
    BY <2>1 DEF CopyListener, IInv, ListenerInv
  <2>2. CASE InvokeListener
    BY <2>2 DEF InvokeListener, IInv, TypeOK, ListenerInv
  <2>3. CASE ~CopyListener /\ ~InvokeListener
    <3>1. toCall' = toCall
      BY <2>3, Cases DEF ConnectCall, Request, DisconnectCall, ConnectRefused, ConnectTransport, ConnectRestore,
        Arm, DisconnectTransport, Expire, Reply, CleanupLock, CleanupJoin, CleanupCancel, CleanupNotes,
        CleanupFinish, OnConnectionChange, IoHandlers, MessageWorker, WatchdogWait, WatchdogCheck, Destructor,
        DestroyMembers, TransportDestructor, core, vars, listenerVars
    <3> QED
      BY <3>1
  <2> QED
    BY <2>1, <2>2, <2>3
<1> QED
  BY <1>1, Invariance, PTL DEF LifeSpec, FailedListenerDropped

\* When the IO thread tells the application of the end of a connection,
\* every request sent on it was answered.
THEOREM LossAnswers == LifeSpec => LossAnswersPending
<1>1. IInv /\ [LifeNext]_lifeVars =>
        [io = "ended" /\ io' = "idle" /\ connectionStatus = "Disconnected"
           => pending \notin {"waiting", "overdue"}]_vars
  <2> SUFFICES ASSUME IInv, [LifeNext]_lifeVars, io = "ended", io' = "idle"
               PROVE  pending \notin {"waiting", "overdue"}
    OBVIOUS
  <2>1. CASE OnConnectionChange
    BY <2>1 DEF OnConnectionChange, CopyListener, InvokeListener, IInv, PendingInv, transportVars
  <2>2. CASE ConnectTransport
    BY <2>2 DEF ConnectTransport, T!ConnectStart, T!ConnectAgain, T!ConnectPrepare, T!ConnectFails,
                T!ConnectDispatch, IInv, TP!IInv, TP!SessionInv, TP!IoJoined
  <2>3. CASE DisconnectTransport \/ TransportDestructor
    BY <2>3 DEF DisconnectTransport, TransportDestructor, T!DisconnectBegin, T!DisconnectRead,
                T!DisconnectClose, T!DisconnectStop, T!JoinIo, T!StopMessageWorker, T!DisconnectReset,
                transportVars
  <2>4. CASE IoHandlers \/ MessageWorker
    BY <2>4 DEF IoHandlers, MessageWorker, T!OnOpen, T!OnOpenStatus, T!ConnectionEnds, T!EndClearHeaders,
                T!OnMessage, T!OnMessagePush, T!IoExit, T!CanHandle, T!ProcessQueuedMessages
  <2>5. CASE \/ ConnectCall \/ Request \/ DisconnectCall \/ ConnectRefused \/ ConnectRestore \/ Arm
             \/ Expire \/ Reply \/ WatchdogWait \/ WatchdogCheck
    BY <2>5 DEF ConnectCall, Request, DisconnectCall, ConnectRefused, ConnectRestore, Arm, Expire, Reply,
                WatchdogWait, WatchdogCheck, T!DisconnectBegin, transportVars
  <2>6. CASE (\E t \in {"app", "io"} : CleanupLock(t)) \/ CleanupJoin \/ CleanupCancel \/ CleanupNotes \/ CleanupFinish
    BY <2>6 DEF CleanupLock, CleanupJoin, CleanupCancel, CleanupNotes, CleanupFinish, transportVars
  <2>7. CASE Destructor \/ DestroyMembers \/ UNCHANGED core
    BY <2>7 DEF Destructor, DestroyMembers, DisconnectCall, T!DisconnectBegin, core, vars, transportVars
  <2> QED
    BY <2>1, <2>2, <2>3, <2>4, <2>5, <2>6, <2>7, Cases
<1> QED
  BY <1>1, Invariance, PTL DEF LifeSpec, LossAnswersPending
=============================================================================
