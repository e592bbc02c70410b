--------------------------- MODULE TransportCalls ---------------------------
(* The objects class Transport of src/transport.cpp shares between the      *)
(* application threads that call connect(), disconnect() and send() at the  *)
(* same time: the websocketpp client behind client_, connectionThread_,     *)
(* connectionHandle_ and the two receivers.  None is guarded by a mutex;    *)
(* connectionStatus_ is atomic and is all that keeps the calls apart.       *)
(* A call is one step per use of a shared object.  How one call meets the   *)
(* IO thread and the message worker in detail is the subject of Transport.  *)
EXTENDS Naturals

CONSTANTS Threads,      \* application threads
          MaxConnects,  \* bound on the connections made
          OneOwner      \* connect() and disconnect() are called by one thread at a time

ASSUME MaxConnectsAssumption == MaxConnects \in Nat
ASSUME OneOwnerAssumption == OneOwner \in BOOLEAN

VARIABLES
  connectionStatus,
  pc,               \* where each application thread is
  inited,           \* init_asio() was called on the object behind client_
  ending,           \* stop_perpetual() was called on it ...
  stopped,          \* ... and stop()
  ioThread,         \* connectionThread_, and the call it is in
  worker,           \* the message worker, and the call it is in
  queued,           \* messageQueue_ is not empty
  con,              \* the connections made, by number
  made,             \* how many there are
  handle            \* connectionHandle_

clientVars == <<inited, ending, stopped>>
conVars == <<con, made, handle>>
runVars == <<ioThread, worker, queued>>
vars == <<connectionStatus, pc, clientVars, runVars, conVars>>

Init == /\ connectionStatus = "NotStarted"
        /\ pc = [t \in Threads |-> "idle"]
        /\ inited = FALSE /\ ending = FALSE /\ stopped = FALSE
        /\ ioThread = "none" /\ worker = "none" /\ queued = FALSE
        /\ con = [c \in 1 .. MaxConnects |-> "none"]
        /\ made = 0 /\ handle = 0

Goto(t, here, there) == pc[t] = here /\ pc' = [pc EXCEPT ![t] = there]

\* Inside connect() or disconnect().
Owning(t) == pc[t] \notin {"idle", "sending", "thrown"}

MayOwn(t) == OneOwner => \A u \in Threads \ {t} : ~Owning(u)

-----------------------------------------------------------------------------
(* connect() *)

ConnectCheckNothing(t) ==
  /\ MayOwn(t)
  /\ Goto(t, "idle", "checked")
  /\ UNCHANGED <<connectionStatus, clientVars, runVars, conVars>>

\* The status is read once; Connected and Connecting give AlreadyConnected.
ConnectCheck(t) ==
  /\ MayOwn(t)
  /\ connectionStatus \in {"NotStarted", "Disconnected"}
  /\ Goto(t, "idle", "checked")
  /\ UNCHANGED <<connectionStatus, clientVars, runVars, conVars>>

\* It is read again to decide whether to start().
ConnectStarts(t) ==
  /\ Goto(t, "checked", IF connectionStatus = "NotStarted" THEN "starting" ELSE "assigning")
  /\ UNCHANGED <<connectionStatus, clientVars, runVars, conVars>>

\* start(): init_asio() throws when the client is initialised already.
StartInit(t) ==
  /\ Goto(t, "starting", IF inited THEN "thrown" ELSE "launching")
  /\ inited' = TRUE
  /\ UNCHANGED <<connectionStatus, ending, stopped, runVars, conVars>>

\* The two threads are created, then the status is set.
StartThreads(t) ==
  /\ Goto(t, "launching", "assigning")
  /\ ioThread' = "idle"
  /\ worker' = IF worker = "none" THEN "idle" ELSE worker
  /\ connectionStatus' = "Disconnected"
  /\ UNCHANGED <<clientVars, queued, conVars>>

\* messageReceiver_ and connectionReceiver_ are assigned (pc "assigning").
AssignReceivers(t) ==
  /\ Goto(t, "assigning", "preparing")
  /\ UNCHANGED <<connectionStatus, clientVars, runVars, conVars>>

\* get_connection() or a header fails: NotConnected.
ConnectFails(t) ==
  /\ Goto(t, "preparing", "idle")
  /\ UNCHANGED <<connectionStatus, clientVars, runVars, conVars>>

\* A new connection object; its handle and handlers, then the status.
ConnectPrepare(t) ==
  /\ Goto(t, "preparing", "dispatching")
  /\ made < MaxConnects
  /\ made' = made + 1
  /\ handle' = made'
  /\ connectionStatus' = "Connecting"
  /\ UNCHANGED <<clientVars, runVars, con>>

\* client_->connect(con)
ConnectDispatch(t) ==
  /\ Goto(t, "dispatching", "idle")
  /\ \E c \in 1 .. made : /\ con[c] = "none"
                          /\ con' = [con EXCEPT ![c] = "connecting"]
  /\ UNCHANGED <<connectionStatus, clientVars, runVars, made, handle>>

-----------------------------------------------------------------------------
(* disconnect(): in the state NotStarted it returns at once. *)

DisconnectCheck(t) ==
  /\ MayOwn(t)
  /\ connectionStatus # "NotStarted"
  /\ Goto(t, "idle", "leaving")
  /\ UNCHANGED <<connectionStatus, clientVars, runVars, conVars>>

\* stop_perpetual(), then close() of the connection, which reports an error if
\* it has ended, or stop() of the client.
DisconnectEnd(t) ==
  /\ Goto(t, "leaving", "joining")
  /\ ending' = TRUE
  /\ \/ /\ connectionStatus = "Connected"
        /\ con' = [c \in DOMAIN con |-> IF c = handle /\ con[c] = "open" THEN "closing" ELSE con[c]]
        /\ UNCHANGED stopped
     \/ /\ connectionStatus # "Connected"
        /\ stopped' = TRUE
        /\ UNCHANGED con
  /\ UNCHANGED <<connectionStatus, inited, runVars, made, handle>>

\* connectionThread_->join() if joinable, then stopMessageWorker().
DisconnectJoin(t) ==
  /\ Goto(t, "joining", "resetting")
  /\ ioThread \in {"none", "exited"}
  /\ worker \in {"none", "idle"} /\ ~queued
  /\ ioThread' = "none"
  /\ worker' = "none"
  /\ UNCHANGED <<connectionStatus, clientVars, queued, conVars>>

\* client_ = make_unique<client>(): the old object, with what is left of its
\* connections, is destroyed.
DisconnectReset(t) ==
  /\ Goto(t, "resetting", "idle")
  /\ inited' = FALSE /\ ending' = FALSE /\ stopped' = FALSE
  /\ con' = [c \in DOMAIN con |-> IF con[c] = "none" THEN "none" ELSE "ended"]
  /\ connectionStatus' = "NotStarted"
  /\ UNCHANGED <<runVars, made, handle>>

-----------------------------------------------------------------------------
(* send(): the status is read, later client_->send(connectionHandle_) runs. *)

SendCheck(t) ==
  /\ connectionStatus = "Connected"
  /\ Goto(t, "idle", "sending")
  /\ UNCHANGED <<connectionStatus, clientVars, runVars, conVars>>

SendWrite(t) ==
  /\ Goto(t, "sending", "idle")
  /\ UNCHANGED <<connectionStatus, clientVars, runVars, conVars>>

-----------------------------------------------------------------------------
(* The IO thread and the message worker: a connection opens or ends, its    *)
(* handler sets the status, then calls connectionReceiver_; the worker      *)
(* calls messageReceiver_.                                                  *)

Opens(c) ==
  /\ ioThread = "idle" /\ ~stopped
  /\ con[c] = "connecting"
  /\ con' = [con EXCEPT ![c] = "open"]
  /\ ioThread' = "opening"
  /\ UNCHANGED <<connectionStatus, pc, clientVars, worker, queued, made, handle>>

OnOpen ==
  /\ ioThread = "opening"
  /\ connectionStatus' = "Connected"
  /\ ioThread' = "calling"
  /\ UNCHANGED <<pc, clientVars, worker, queued, conVars>>

\* An attempt fails, or a connection is closed or torn down.
Ends(c) ==
  /\ ioThread = "idle" /\ ~stopped
  /\ con[c] \in {"connecting", "open", "closing"}
  /\ con' = [con EXCEPT ![c] = "ended"]
  /\ ioThread' = "ending"
  /\ UNCHANGED <<connectionStatus, pc, clientVars, worker, queued, made, handle>>

OnCloseKeepStatus ==
  /\ ioThread = "ending"
  /\ ioThread' = "calling"
  /\ UNCHANGED <<connectionStatus, pc, clientVars, worker, queued, conVars>>

\* onFail() or onClose()
OnCloseOrFail ==
  /\ ioThread = "ending"
  /\ connectionStatus' = "Disconnected"
  /\ ioThread' = "calling"
  /\ UNCHANGED <<pc, clientVars, worker, queued, conVars>>

ReceiverReturns ==
  /\ ioThread = "calling"
  /\ ioThread' = "idle"
  /\ UNCHANGED <<connectionStatus, pc, clientVars, worker, queued, conVars>>

OnMessage(c) ==
  /\ ioThread = "idle" /\ ~stopped
  /\ con[c] = "open"
  /\ queued' = TRUE
  /\ UNCHANGED <<connectionStatus, pc, clientVars, ioThread, worker, conVars>>

\* processQueuedMessages() takes a message, and returns from the receiver.
WorkerCalls ==
  /\ worker = "idle" /\ queued
  /\ worker' = "calling"
  /\ queued' \in BOOLEAN
  /\ UNCHANGED <<connectionStatus, pc, clientVars, ioThread, conVars>>

WorkerReturns ==
  /\ worker = "calling"
  /\ worker' = "idle"
  /\ UNCHANGED <<connectionStatus, pc, clientVars, ioThread, queued, conVars>>

\* client::run() returns when it was stopped, or nothing is left to do.
IoExit ==
  /\ ioThread = "idle"
  /\ stopped \/ (ending /\ \A c \in DOMAIN con : con[c] \in {"none", "ended"})
  /\ ioThread' = "exited"
  /\ UNCHANGED <<connectionStatus, pc, clientVars, worker, queued, conVars>>

-----------------------------------------------------------------------------
Connect(t) == \/ ConnectCheck(t) \/ ConnectStarts(t) \/ StartInit(t) \/ StartThreads(t)
              \/ AssignReceivers(t) \/ ConnectFails(t) \/ ConnectPrepare(t) \/ ConnectDispatch(t)

Disconnect(t) == DisconnectCheck(t) \/ DisconnectEnd(t) \/ DisconnectJoin(t) \/ DisconnectReset(t)

Send(t) == SendCheck(t) \/ SendWrite(t)

Io == \/ \E c \in 1 .. made : Opens(c) \/ Ends(c) \/ OnMessage(c)
      \/ OnOpen \/ OnCloseOrFail \/ ReceiverReturns \/ IoExit

Next == \/ \E t \in Threads : Connect(t) \/ Disconnect(t) \/ Send(t)
        \/ Io \/ WorkerCalls \/ WorkerReturns

Spec == Init /\ [][Next]_vars
-----------------------------------------------------------------------------
Live == {c \in DOMAIN con : con[c] \in {"connecting", "open", "closing"}}

\* Whenever send() can pass its status check, connectionHandle_ stands for a
\* connection that has been opened - not for an earlier one or for an attempt -
\* and that is still open, or has "already been torn down at the network level"
\* (the comment at transport.cpp:302) and the IO thread is about to say so.
HandleIsOpen ==
  connectionStatus = "Connected" =>
    /\ handle # 0
    /\ con[handle] \in {"open", "closing"} \/ (con[handle] = "ended" /\ ioThread = "ending")

\* connect() assigns the receivers (transport.cpp:213-214) only when the last
\* connection has ended: the IO thread or the message worker can then be
\* inside a receiver on account of that connection, and of no other.
AssignsBetweenConnections == (\E t \in Threads : pc[t] = "assigning") => Live = {}

\* "Race condition on simultaneous calls to Gateway::connect()" (CHANGELOG.md:137,
\* under "Fixed"): two calls do not meet in start().  It finds a client without
\* a thread: init_asio() does not throw out of connect(), and connectionThread_
\* is not assigned over a joinable thread, which terminates the process.
StartsClean == \A t \in Threads : /\ pc[t] # "thrown"
                                  /\ pc[t] = "launching" => ioThread = "none"
=============================================================================
