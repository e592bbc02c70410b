--------------------------- MODULE GatewayLifetime ---------------------------
(* The end of a GatewayImpl object: ~GatewayImpl() of src/gateway.cpp and,  *)
(* after the members declared behind it, ~Transport() of src/transport.cpp. *)
(* The destructor disconnects only if connectionStarted is set.  Then       *)
(* cleanup_mtx, the watchdog's members, the Server and the Client are       *)
(* destroyed - the Server's destructor joins the notification worker - and  *)
(* only then the Transport, whose destructor joins the IO thread and the    *)
(* message worker.  The listener and its mutex outlive it.                  *)
EXTENDS Gateway

VARIABLES
  object,  \* how far the destruction is:
    \* "alive"; "disconnecting": the destructor's body runs disconnect();
    \* "clean", "bare": the members behind transport are being destroyed, after
    \* such a disconnect() or without one; "over": so is the transport
  server   \* ~Server(): "whole", then "set", "notified" and "gone"

lifeVars == <<vars, object, server>>

LifeInit == Init /\ object = "alive" /\ server = "whole"

DestructorSkipsCleanup ==
  /\ object = "alive"
  /\ gpc = "idle"
  /\ \/ /\ connectionStarted
        /\ T!DisconnectBegin
        /\ gpc' = "disconnect"
        /\ object' = "clean"
        /\ UNCHANGED <<listenerVars, watchVars, cleanVars, pending, notesVars, server>>
     \/ ~connectionStarted /\ object' = "bare" /\ UNCHANGED <<vars, server>>

\* ~GatewayImpl(), called when no call of the application is in progress.
Destructor ==
  /\ object = "alive"
  /\ gpc = "idle"
  /\ \/ connectionStarted /\ DisconnectCall /\ object' = "disconnecting" /\ UNCHANGED server
     \/ ~connectionStarted /\ object' = "bare" /\ UNCHANGED <<vars, server>>

DestroyMembers ==
  /\ object = "disconnecting"
  /\ gpc = "idle"
  /\ object' = "clean"
  /\ UNCHANGED <<vars, server>>

\* ~Server(): stopNotificationWorker().
ServerDestructor ==
  /\ object \in {"clean", "bare"}
  /\ \/ /\ server = "whole" /\ server' = "set"
        /\ nstop' = TRUE
        /\ UNCHANGED nworker
     \/ /\ server = "set" /\ server' = "notified"
        /\ nworker' = NW!Woken
        /\ UNCHANGED nstop
     \/ /\ server = "notified" /\ server' = "gone"
        /\ nworker \in {"off", "exited"}
        /\ nworker' = "off"
        /\ UNCHANGED nstop
  /\ UNCHANGED <<transportVars, gpc, listenerVars, watchVars, cleanVars, pending, nstopper, object>>

\* ~Transport(): disconnect(), and stopMessageWorker() once more; the
\* gateway's cleanup is not called again.
TransportDestructor ==
  /\ object \in {"clean", "bare"}
  /\ server = "gone"
  /\ \/ /\ gpc = "idle"
        /\ connectionStatus # "NotStarted"
        /\ T!DisconnectBegin /\ gpc' = "disconnect"
        /\ UNCHANGED object
     \/ /\ gpc = "disconnect"
        /\ \/ T!DisconnectRead \/ T!DisconnectClose \/ T!DisconnectStop
           \/ T!JoinIo \/ T!StopMessageWorker
        /\ UNCHANGED <<gpc, object>>
     \/ /\ gpc = "disconnect"
        /\ T!DisconnectReset /\ gpc' = "idle"
        /\ UNCHANGED object
     \/ /\ gpc = "idle"
        /\ connectionStatus = "NotStarted"
        /\ object' = "over"
        /\ UNCHANGED <<transportVars, gpc>>
  /\ UNCHANGED <<listenerVars, watchVars, cleanVars, pending, notesVars, server>>

-----------------------------------------------------------------------------
(* The operations of the gateway, as long as there is one.  The destructor's *)
(* disconnect() is the gateway's; the library's threads know nothing of the *)
(* destruction and go on until ~Transport() has joined them.                *)

Call == ConnectCall \/ DisconnectCall \/ Request \/ Subscribe
IoStep == OnConnectionChange \/ IoHandlers
WatchdogStep == WatchdogWait \/ WatchdogCheck

Here(phases, A) == object \in phases /\ A /\ UNCHANGED <<object, server>>
Whole(A) == Here({"alive", "disconnecting"}, A)
Joinable(A) == Here({"alive", "disconnecting", "clean", "bare"}, A)

LifeNext == \/ Here({"alive"}, Call)
            \/ Whole(AppStep) \/ Whole(Expire) \/ Whole(Reply)
            \/ Joinable(CleanStep) \/ Joinable(IoStep)
            \/ Joinable(MessageWorker) \/ Joinable(WatchdogStep)
            \/ Joinable(NotificationWorker) \/ Joinable(NotificationWakes)
            \/ Destructor \/ DestroyMembers \/ ServerDestructor \/ TransportDestructor

LifeSpec == LifeInit /\ [][LifeNext]_lifeVars

\* As in Gateway: every thread that can go on does, the destructor's too.
\* Nobody has to call, answer, drop the connection or destroy the object.
FairLifeSpec ==
  /\ LifeSpec
  /\ WF_lifeVars(Whole(AppStep)) /\ WF_lifeVars(Whole(Expire))
  /\ WF_lifeVars(DestroyMembers) /\ WF_lifeVars(ServerDestructor)
  /\ WF_lifeVars(TransportDestructor)
  /\ \A t \in {"app", "io"} : SF_lifeVars(Joinable(CleanupLock(t)))
  /\ WF_lifeVars(phase # "none" /\ Joinable(CleanStep))
  /\ WF_lifeVars(Joinable(OnConnectionChange))
  /\ WF_lifeVars(con \in {"connecting", "closing"} /\ Joinable(IoHandlers))
  /\ WF_lifeVars(io # "idle" /\ Joinable(IoHandlers))
  /\ WF_lifeVars(Joinable(IoHandlers) /\ io' = "off")
  /\ SF_lifeVars(io = "receiving" /\ Joinable(IoHandlers))
  /\ WF_lifeVars(worker # "asleep" /\ Joinable(MessageWorker))
  /\ WF_lifeVars(Joinable(WatchdogStep)) /\ WF_lifeVars(Joinable(NotificationWorker))

-----------------------------------------------------------------------------
\* Whether or not it disconnects, the destructor leaves no watchdog thread to
\* the destructor of std::thread, which would terminate the process; and one
\* that finds connectionStarted set has joined every thread by the time it
\* destroys the members they use.
CleanDestruction ==
  /\ object \in {"clean", "bare"} => watchdog = "off"
  /\ object = "clean" => io = "off" /\ worker = "off" /\ nworker = "off" /\ cleaner = "nobody"

\* The destructors return, whatever the threads are doing when they begin -
\* unless a worker misses its stop: the message worker, or the notification
\* worker that of a cleanup or, when the destructor does without one, that of
\* ~Server().
DestructionEnds ==
  object # "alive" ~> \/ object = "over" \/ T!StopMissed \/ NotesStopMissed
                      \/ server = "notified" /\ nworker \in {"dozing", "asleep"}
=============================================================================
