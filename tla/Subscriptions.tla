---------------------------- MODULE Subscriptions ----------------------------
(* Event subscriptions to one event: HelperImpl (src/helpers_impl.h) over   *)
(* GatewayImpl::subscribe / unsubscribe and class Server (src/gateway.cpp). *)
(* Threads: one caller per subscription (HelperImpl::mutex_ lets one call   *)
(* in at a time), the message worker in Server::notify, the notification    *)
(* worker that runs the callbacks, and the thread that runs                 *)
(* cleanupInternalState() after a connection ended.  The server is          *)
(* external: it works off listen requests in order and emits notifications  *)
(* while it is asked to.                                                    *)
EXTENDS Naturals, Sequences

CONSTANTS Subs,         \* the subscriptions (SubscriptionData objects)
          Nobody,       \* not a subscription
          MaxNotes,     \* bound on the notifications the server emits
          MaxSessions   \* bound on the connections opened

ASSUME SubscriptionsAssumption == /\ Nobody \notin Subs
                                  /\ MaxNotes \in Nat
                                  /\ MaxSessions \in Nat

VARIABLES
  mutex,       \* the subscription whose call holds HelperImpl::mutex_
  live,        \* HelperImpl::subscriptions_
  pc,          \* where the caller of each subscription is
  already,     \* subscribe()'s local alreadySubscribed
  sweep,       \* what a call of unsubscribeAll() has still to remove
  ack,         \* the future of the last listen request
  eventList,   \* Server::eventList
  session,     \* number of connections opened so far
  connected,
  wire,        \* listen requests sent and not yet read by the server
  listening,   \* whether the server emits the event on this connection
  emitted,     \* notifications emitted so far
  inflight,    \* emitted, not yet handled by the message worker
  notifier,    \* the message worker inside notify()
  copied,      \* notify()'s local `callbacks`
  nq,          \* notificationQueue_: the callbacks of each notification
  nstop,       \* stopNotificationWorker_
  nworker,     \* notificationWorkerThread_
  cur,         \* callbacks of the current notification not yet called
  held,        \* the subscription whose data the wrapped callback has locked
  running,     \* the subscription whose callback runs
  asking,      \* that callback waits for a request of its own
  leaving,     \* that callback called helper.unsubscribe() for itself
  data,        \* the subscriptions whose SubscriptionData exists
  clean        \* the cleaning thread inside cleanupInternalState()

callVars == <<mutex, live, pc, already, sweep>>
linkVars == <<session, connected, wire, listening, emitted>>
noteVars == <<inflight, notifier, copied>>
cbVars == <<cur, held, running, asking, leaving, data>>
vars == <<callVars, ack, eventList, linkVars, noteVars, nq, nstop, nworker, cbVars, clean>>

Init == /\ mutex = Nobody /\ live = {}
        /\ pc = [s \in Subs |-> "new"]
        /\ already = [s \in Subs |-> FALSE]
        /\ sweep = {}
        /\ ack = [s \in Subs |-> "none"]
        /\ eventList = {}
        /\ session = 0 /\ connected = FALSE
        /\ wire = <<>> /\ listening = FALSE /\ emitted = 0
        /\ inflight = 0 /\ notifier = "idle" /\ copied = {}
        /\ nq = <<>> /\ nstop = FALSE /\ nworker = "off"
        /\ cur = {} /\ held = Nobody /\ running = Nobody /\ asking = FALSE /\ leaving = FALSE
        /\ data = {}
        /\ clean = "none"

Goto(s, label) == pc' = [pc EXCEPT ![s] = label]

-----------------------------------------------------------------------------
(* helper.subscribe(): the data is entered in the map before the gateway is *)
(* asked, so that the guarded callback finds it.                            *)

HelperSubscribe(s) ==
  /\ pc[s] = "new" /\ mutex = Nobody
  /\ mutex' = s
  /\ live' = live \cup {s}
  /\ data' = data \cup {s}
  /\ Goto(s, "check")
  /\ UNCHANGED <<already, sweep, ack, eventList, linkVars, noteVars, nq, nstop, nworker,
                 cur, held, running, asking, leaving, clean>>

\* alreadySubscribed = server.isAnySubscriber(event)
SubscribeCheck(s) ==
  /\ pc[s] = "check"
  /\ already' = [already EXCEPT ![s] = eventList # {}]
  /\ Goto(s, "ensure")
  /\ UNCHANGED <<mutex, live, sweep, ack, eventList, linkVars, noteVars, nq, nstop, nworker, cbVars, clean>>

\* ensureNotificationWorkerStarted(): without a lock against the cleanup.
SubscribeEnsure(s) ==
  /\ pc[s] = "ensure"
  /\ nstop' = IF nworker = "off" THEN FALSE ELSE nstop
  /\ nworker' = IF nworker = "off" THEN "ready" ELSE nworker
  /\ Goto(s, "add")
  /\ UNCHANGED <<mutex, live, already, sweep, ack, eventList, linkVars, noteVars, nq, cbVars, clean>>

\* The callback is registered; only the first one asks the server.
SubscribeAdd(s) ==
  /\ pc[s] = "add"
  /\ eventList' = eventList \cup {s}
  /\ Goto(s, IF already[s] THEN "done" ELSE "sendOn")
  /\ UNCHANGED <<mutex, live, already, sweep, ack, linkVars, noteVars, nq, nstop, nworker, cbVars, clean>>

\* request(listen: true); not connected, the future is ready with an error.
SubscribeSend(s) ==
  /\ pc[s] = "sendOn"
  /\ wire' = IF connected THEN Append(wire, [sub |-> s, listen |-> TRUE]) ELSE wire
  /\ ack' = [ack EXCEPT ![s] = IF connected THEN "pending" ELSE "failed"]
  /\ Goto(s, "ackOn")
  /\ UNCHANGED <<mutex, live, already, sweep, eventList, session, connected, listening, emitted,
                 noteVars, nq, nstop, nworker, cbVars, clean>>

\* wait_for(waitTime_ms): an answer, or Timedout.
SubscribeAck(s) ==
  /\ pc[s] = "ackOn"
  /\ \/ ack[s] = "ok" /\ Goto(s, "done")
     \/ ack[s] \in {"failed", "pending"} /\ Goto(s, "rollback")
  /\ UNCHANGED <<mutex, live, already, sweep, ack, eventList, linkVars, noteVars, nq, nstop, nworker,
                 cbVars, clean>>

\* The failed subscriber is taken back out of the list.
SubscribeRollback(s) ==
  /\ pc[s] = "rollback"
  /\ eventList' = eventList \ {s}
  /\ Goto(s, "undo")
  /\ UNCHANGED <<mutex, live, already, sweep, ack, linkVars, noteVars, nq, nstop, nworker, cbVars, clean>>

SubscribeDone(s) ==
  /\ pc[s] = "done"
  /\ mutex' = Nobody
  /\ Goto(s, "subscribed")
  /\ UNCHANGED <<live, already, sweep, ack, eventList, linkVars, noteVars, nq, nstop, nworker, cbVars, clean>>

-----------------------------------------------------------------------------
(* helper.unsubscribe(), by the application or from inside the callback.    *)

HelperUnsubscribe(s) ==
  /\ pc[s] = "subscribed" /\ mutex = Nobody
  /\ mutex' = s
  /\ Goto(s, "remove")
  /\ UNCHANGED <<live, already, sweep, ack, eventList, linkVars, noteVars, nq, nstop, nworker, cbVars, clean>>

\* helper.unsubscribeAll(owner), for the subscriptions of one owner: the
\* mutex is held while one after the other is unsubscribed and erased.  A
\* SubscriptionManager's destructor calls it.
HelperUnsubscribeAll ==
  /\ mutex = Nobody
  /\ \E owned \in SUBSET live : \E s \in owned :
       /\ mutex' = s
       /\ sweep' = owned \ {s}
       /\ Goto(s, "remove")
  /\ UNCHANGED <<live, already, ack, eventList, linkVars, noteVars, nq, nstop, nworker, cbVars, clean>>

\* server.unsubscribe(); other listeners keep the upstream subscription.
UnsubscribeRemoveAlwaysSend(s) ==
  /\ pc[s] = "remove"
  /\ eventList' = eventList \ {s}
  /\ Goto(s, "sendOff")
  /\ UNCHANGED <<mutex, live, already, sweep, ack, linkVars, noteVars, nq, nstop, nworker, cbVars, clean>>

UnsubscribeRemove(s) ==
  /\ pc[s] = "remove"
  /\ eventList' = eventList \ {s}
  /\ Goto(s, IF eventList' # {} THEN "erase" ELSE "sendOff")
  /\ UNCHANGED <<mutex, live, already, sweep, ack, linkVars, noteVars, nq, nstop, nworker, cbVars, clean>>

\* request(listen: false)
UnsubscribeSend(s) ==
  /\ pc[s] = "sendOff"
  /\ wire' = IF connected THEN Append(wire, [sub |-> s, listen |-> FALSE]) ELSE wire
  /\ ack' = [ack EXCEPT ![s] = IF connected THEN "pending" ELSE "failed"]
  /\ Goto(s, "ackOff")
  /\ UNCHANGED <<mutex, live, already, sweep, eventList, session, connected, listening, emitted,
                 noteVars, nq, nstop, nworker, cbVars, clean>>

UnsubscribeAckForever(s) ==
  /\ pc[s] = "ackOff"
  /\ ack[s] # "pending"
  /\ Goto(s, "erase")
  /\ UNCHANGED <<mutex, live, already, sweep, ack, eventList, linkVars, noteVars, nq, nstop, nworker,
                 cbVars, clean>>

\* wait_for(50 ms): whatever the answer, or without one, the call goes on.
UnsubscribeAck(s) ==
  /\ pc[s] = "ackOff"
  /\ Goto(s, "erase")
  /\ UNCHANGED <<mutex, live, already, sweep, ack, eventList, linkVars, noteVars, nq, nstop, nworker,
                 cbVars, clean>>

\* The call returns or, in unsubscribeAll(), goes on to the next.
LetGo(s) ==
  \/ /\ sweep = {}
     /\ mutex' = Nobody
     /\ Goto(s, IF pc[s] = "undo" THEN "failed" ELSE "gone")
     /\ UNCHANGED sweep
  \/ \E next \in sweep :
       /\ mutex' = next
       /\ sweep' = sweep \ {next}
       /\ pc' = [pc EXCEPT ![s] = "gone", ![next] = "remove"]

\* subscriptions_.erase(), of an unsubscribe() or a failed subscribe(): the
\* map's shared_ptr was the last one, unless the worker has locked the data.
HelperErase(s) ==
  /\ pc[s] \in {"erase", "undo"}
  /\ live' = live \ {s}
  /\ data' = IF held = s THEN data ELSE data \ {s}
  /\ LetGo(s)
  /\ UNCHANGED <<already, ack, eventList, linkVars, noteVars, nq, nstop, nworker,
                 cur, held, running, asking, leaving, clean>>

-----------------------------------------------------------------------------
(* The server and the connection. *)

\* A listen request is read: obeyed and acknowledged, or refused.
ServerReads ==
  /\ wire # <<>>
  /\ LET m == Head(wire) IN
     \E ok \in BOOLEAN :
       /\ listening' = IF ok THEN m.listen ELSE listening
       /\ ack' = IF ack[m.sub] = "pending"
                   THEN [ack EXCEPT ![m.sub] = IF ok THEN "ok" ELSE "failed"] ELSE ack
  /\ wire' = Tail(wire)
  /\ UNCHANGED <<callVars, eventList, session, connected, emitted, noteVars, nq, nstop,
                 nworker, cbVars, clean>>

ServerEmits ==
  /\ listening
  /\ emitted < MaxNotes
  /\ emitted' = emitted + 1
  /\ inflight' = inflight + 1
  /\ UNCHANGED <<callVars, ack, eventList, session, connected, wire, listening, notifier,
                 copied, nq, nstop, nworker, cbVars, clean>>

\* onOpen, on the IO thread: never while that thread cleans up.
Open ==
  /\ ~connected /\ clean = "none"
  /\ session < MaxSessions
  /\ session' = session + 1
  /\ connected' = TRUE
  /\ UNCHANGED <<callVars, ack, eventList, wire, listening, emitted, noteVars, nq, nstop,
                 nworker, cbVars, clean>>

\* The connection ends; the server forgets what it was asked on it.
Lose ==
  /\ connected
  /\ connected' = FALSE
  /\ wire' = <<>>
  /\ listening' = FALSE
  /\ clean' = "cancel"
  /\ UNCHANGED <<callVars, ack, eventList, session, emitted, noteVars, nq, nstop, nworker, cbVars>>

-----------------------------------------------------------------------------
(* cleanupInternalState(), after the watchdog was joined.                   *)

Cancelled == [s \in Subs |-> IF ack[s] = "pending" THEN "failed" ELSE ack[s]]

\* client.cancelAll(): also releases a callback that waits for an answer.
CleanCancelNothing ==
  /\ clean = "cancel"
  /\ clean' = "stop"
  /\ UNCHANGED <<callVars, ack, eventList, linkVars, noteVars, nq, nstop, nworker, cbVars>>

CleanCancel ==
  /\ clean = "cancel"
  /\ ack' = Cancelled
  /\ asking' = FALSE
  /\ clean' = "stop"
  /\ UNCHANGED <<callVars, eventList, linkVars, noteVars, nq, nstop, nworker, cur, held, running, leaving, data>>

\* server.stopNotificationWorker(): the flag is set without the queue's mutex,
\* and a worker that is about to block does not hear of it.
CleanStop ==
  /\ clean = "stop"
  /\ nstop' = TRUE
  /\ clean' = "notify"
  /\ UNCHANGED <<callVars, ack, eventList, linkVars, noteVars, nq, nworker, cbVars>>

Woken == IF nworker = "asleep" THEN "ready" ELSE nworker

CleanNotify ==
  /\ clean = "notify"
  /\ nworker' = Woken
  /\ clean' = "join"
  /\ UNCHANGED <<callVars, ack, eventList, linkVars, noteVars, nq, nstop, cbVars>>

CleanJoin ==
  /\ clean = "join"
  /\ nworker \in {"off", "exited"}
  /\ nworker' = "off"
  /\ clean' = "none"
  /\ UNCHANGED <<callVars, ack, eventList, linkVars, noteVars, nq, nstop, cbVars>>

-----------------------------------------------------------------------------
(* Server::notify(), by the message worker. *)

\* Ignored when the notification worker is stopped or stopping.
NotifyCheck ==
  /\ notifier = "idle" /\ inflight > 0
  /\ inflight' = inflight - 1
  /\ notifier' = IF nstop THEN "idle" ELSE "copying"
  /\ UNCHANGED <<callVars, ack, eventList, linkVars, copied, nq, nstop, nworker, cbVars, clean>>

\* The callbacks registered now are copied; without one it is ignored.
NotifyCopy ==
  /\ notifier = "copying"
  /\ copied' = eventList
  /\ notifier' = IF eventList = {} THEN "idle" ELSE "pushing"
  /\ UNCHANGED <<callVars, ack, eventList, linkVars, inflight, nq, nstop, nworker, cbVars, clean>>

\* notificationQueueMutex_ is held by a worker that has tested its predicate
\* and not blocked yet.
NotifyPush ==
  /\ notifier = "pushing" /\ nworker # "dozing"
  /\ nq' = Append(nq, copied)
  /\ copied' = {}
  /\ notifier' = "pushed"
  /\ UNCHANGED <<callVars, ack, eventList, linkVars, inflight, nstop, nworker, cbVars, clean>>

\* notify_one()
NotifyWake ==
  /\ notifier = "pushed"
  /\ nworker' = Woken
  /\ notifier' = "idle"
  /\ UNCHANGED <<callVars, ack, eventList, linkVars, inflight, copied, nq, nstop, cbVars, clean>>

-----------------------------------------------------------------------------
(* processQueuedNotifications(), as in QueueWorker, and the callbacks it    *)
(* runs.                                                                    *)

NotificationTake ==
  /\ nworker = "ready" /\ nq # <<>>
  /\ cur' = Head(nq)
  /\ nq' = Tail(nq)
  /\ nworker' = "busy"
  /\ UNCHANGED <<callVars, ack, eventList, linkVars, noteVars, nstop, held, running, asking,
                 leaving, data, clean>>

\* The predicate is false ...
NotificationDoze ==
  /\ nworker = "ready" /\ nq = <<>> /\ ~nstop
  /\ nworker' = "dozing"
  /\ UNCHANGED <<callVars, ack, eventList, linkVars, noteVars, nq, nstop, cbVars, clean>>

\* ... and wait() blocks and unlocks the mutex,
NotificationSleep ==
  /\ nworker = "dozing"
  /\ nworker' = "asleep"
  /\ UNCHANGED <<callVars, ack, eventList, linkVars, noteVars, nq, nstop, cbVars, clean>>

\* until it is notified, or without a reason.
SpuriousWake ==
  /\ nworker = "asleep"
  /\ nworker' = "ready"
  /\ UNCHANGED <<callVars, ack, eventList, linkVars, noteVars, nq, nstop, cbVars, clean>>

CallbackUnguarded(s) ==
  /\ nworker = "busy" /\ held = Nobody /\ s \in cur
  /\ cur' = cur \ {s}
  /\ held' = s
  /\ UNCHANGED <<callVars, ack, eventList, linkVars, noteVars, nq, nstop, nworker, running,
                 asking, leaving, data, clean>>

\* wpData.lock(), in the wrapped callback: dropped when the data is gone.
CallbackLock(s) ==
  /\ nworker = "busy" /\ held = Nobody /\ s \in cur
  /\ cur' = cur \ {s}
  /\ held' = IF s \in data THEN s ELSE Nobody
  /\ UNCHANGED <<callVars, ack, eventList, linkVars, noteVars, nq, nstop, nworker, running,
                 asking, leaving, data, clean>>

\* callback(sp.get(), json)
CallbackBegins ==
  /\ held # Nobody /\ running = Nobody
  /\ running' = held
  /\ UNCHANGED <<callVars, ack, eventList, linkVars, noteVars, nq, nstop, nworker, cur, held,
                 asking, leaving, data, clean>>

\* A callback may make a blocking call (helper.invoke / get) ...
CallbackAsks ==
  /\ running # Nobody /\ ~asking /\ ~leaving
  /\ connected
  /\ asking' = TRUE
  /\ UNCHANGED <<callVars, ack, eventList, linkVars, noteVars, nq, nstop, nworker, cur, held,
                 running, leaving, data, clean>>

\* ... which the server may answer, or the watchdog while there is one,
CallbackAnswered ==
  /\ asking
  /\ asking' = FALSE
  /\ UNCHANGED <<callVars, ack, eventList, linkVars, noteVars, nq, nstop, nworker, cur, held,
                 running, leaving, data, clean>>

\* ... and it may unsubscribe itself.
CallbackLeaves ==
  /\ running # Nobody /\ ~asking /\ ~leaving
  /\ pc[running] = "subscribed"
  /\ leaving' = TRUE
  /\ UNCHANGED <<callVars, ack, eventList, linkVars, noteVars, nq, nstop, nworker, cur, held,
                 running, asking, data, clean>>

\* The worker lets go of the data, which ends with it after an unsubscribe().
CallbackReturns ==
  /\ running # Nobody /\ ~asking
  /\ leaving => pc[running] = "gone"
  /\ running' = Nobody
  /\ held' = Nobody
  /\ data' = IF running \in live THEN data ELSE data \ {running}
  /\ leaving' = FALSE
  /\ UNCHANGED <<callVars, ack, eventList, linkVars, noteVars, nq, nstop, nworker, cur, asking, clean>>

NotificationDone ==
  /\ nworker = "busy" /\ cur = {} /\ held = Nobody
  /\ nworker' = "ready"
  /\ UNCHANGED <<callVars, ack, eventList, linkVars, noteVars, nq, nstop, cbVars, clean>>

NotificationExit ==
  /\ nworker = "ready" /\ nq = <<>> /\ nstop
  /\ nworker' = "exited"
  /\ UNCHANGED <<callVars, ack, eventList, linkVars, noteVars, nq, nstop, cbVars, clean>>

-----------------------------------------------------------------------------
\* The steps of a call that was let in.
Proceed(s) == \/ SubscribeCheck(s) \/ SubscribeEnsure(s) \/ SubscribeAdd(s)
              \/ SubscribeSend(s) \/ SubscribeAck(s) \/ SubscribeRollback(s)
              \/ SubscribeDone(s) \/ UnsubscribeRemove(s) \/ UnsubscribeSend(s)
              \/ UnsubscribeAck(s) \/ HelperErase(s)

Cleanup == CleanCancel \/ CleanStop \/ CleanNotify \/ CleanJoin
Notify == NotifyCheck \/ NotifyCopy \/ NotifyPush \/ NotifyWake
NotificationWorker == \/ NotificationTake \/ NotificationDoze \/ NotificationSleep
                      \/ (\E s \in Subs : CallbackLock(s)) \/ CallbackBegins
                      \/ NotificationDone \/ NotificationExit

Next == \/ \E s \in Subs : HelperSubscribe(s) \/ HelperUnsubscribe(s) \/ Proceed(s)
        \/ HelperUnsubscribeAll
        \/ ServerReads \/ ServerEmits \/ Open \/ Lose
        \/ Cleanup \/ Notify \/ NotificationWorker \/ SpuriousWake
        \/ CallbackAsks \/ CallbackAnswered \/ CallbackLeaves \/ CallbackReturns

Spec == Init /\ [][Next]_vars

\* Threads run; a callback that waits for nothing returns; a mutex is not
\* kept from a waiting callback for ever.  The server owes nothing.
FairSpec ==
  /\ Spec
  /\ \A s \in Subs : WF_vars(Proceed(s))
  /\ \A s \in Subs : SF_vars(leaving /\ running = s /\ HelperUnsubscribe(s))
  /\ WF_vars(Cleanup) /\ WF_vars(Notify) /\ WF_vars(NotificationWorker)
  /\ WF_vars(CallbackReturns)

-----------------------------------------------------------------------------
\* What the server will do once it has read everything sent to it.
AskedToListen == IF wire = <<>> THEN listening ELSE wire[Len(wire)].listen

\* On the first connection, whenever no call is in progress, every registered
\* callback is served: the server obeys, or is about to read, a listen
\* request - whatever was unsubscribed, refused or timed out before.
RegisteredIsServed ==
  session = 1 /\ connected /\ mutex = Nobody /\ eventList # {} => AskedToListen

\* "stale callbacks after `unsubscribe()` are silently dropped ... instead of
\* invoking through a dangling pointer" (CHANGELOG.md:33): although the worker
\* holds copies of the callbacks and unsubscribe() waits for none of them, a
\* callback that runs, or is about to, finds its SubscriptionData; and the data
\* of a subscription that is gone goes with the last callback that uses it.
CallbackDataAlive ==
  /\ \A s \in {held, running} \ {Nobody} : s \in data
  /\ \A s \in data : pc[s] \in {"gone", "failed"} => held = s

\* A callback that unsubscribes itself comes back (test/unit/gatewayTest.cpp:637
\* UnsubscribeFromCallbackDoesNotDeadlock), whoever holds the helper's mutex.
LeavingReturns == leaving ~> ~leaving

\* notify_all() came while the worker was between its test and its blocking,
\* or a subscribe() has restarted the worker while it was being stopped.
StopMissed == clean = "join" /\ (nworker \in {"dozing", "asleep"} \/ ~nstop)

\* The cleaning thread gets past the join of the notification worker, even
\* when a callback waits for an answer that will not come - unless the worker
\* misses its stop notification or is restarted.
CleanupReturnsUnlessMissed == clean # "none" ~> clean = "none" \/ StopMissed

\* "Event notifications (no id) must be dispatched to registered event
\* callbacks by method name" (json_rpc_handling_spec.md:17): while the server
\* emits the event and a callback is registered, notify() does not ignore it.
NotificationsDispatched == listening /\ eventList # {} => ~nstop
=============================================================================
