---------------------------- MODULE QueueWorker ----------------------------
(* The worker-thread idiom shared by Transport's message worker             *)
(* (src/transport.cpp) and Server's notification worker (src/gateway.cpp):  *)
(* a queue and its mutex, a condition variable, an atomic stop flag that is *)
(* set WITHOUT the mutex, and a thread that drains the queue before it      *)
(* exits.  Three threads meet here: the producer (websocket IO thread /     *)
(* message worker), the worker, and the stopper (disconnect / cleanup).     *)
(* Items are numbered in the order in which they are pushed.                *)
EXTENDS Integers, Sequences

CONSTANT MaxItems     \* bound on the number of items pushed

ASSUME MaxItemsAssumption == MaxItems \in Nat

VARIABLES
  queue,      \* messageQueue_ / notificationQueue_
  stop,       \* stopMessageWorker_ / stopNotificationWorker_
  worker,     \* the thread: see TypeOK
  hand,       \* the item the worker handles, 0 if none
  arrived,    \* number of the last item pushed
  handled,    \* number of the last item handled
  producer,   \* the pushing thread, inside onMessage() / notify()
  stopper     \* the thread inside stopMessageWorker() / stopNotificationWorker()

vars == <<queue, stop, worker, hand, arrived, handled, producer, stopper>>

Init == /\ queue = <<>>
        /\ stop = FALSE
        /\ worker = "off"
        /\ hand = 0
        /\ arrived = 0
        /\ handled = 0
        /\ producer = "idle"
        /\ stopper = "idle"

-----------------------------------------------------------------------------
(* Starting: startMessageWorker() / ensureNotificationWorkerStarted().      *)

\* Nothing is done while the thread object is joinable.
Start ==
  /\ worker = "off"
  /\ stop' = FALSE
  /\ worker' = "ready"
  /\ UNCHANGED <<queue, hand, arrived, handled, producer, stopper>>

-----------------------------------------------------------------------------
(* The worker thread: processQueuedMessages() / processQueuedNotifications().*)
(* In "dozing" it holds the mutex: it has found the wait predicate false and *)
(* has not blocked yet; cv.wait() blocks and unlocks in one step.            *)

MutexFree == worker # "dozing"

\* Predicate true, queue not empty: the front is moved out.
TakeBack ==
  /\ worker = "ready"
  /\ queue # <<>>
  /\ hand' = queue[Len(queue)]
  /\ queue' = SubSeq(queue, 1, Len(queue) - 1)
  /\ worker' = "busy"
  /\ UNCHANGED <<stop, arrived, handled, producer, stopper>>

Take ==
  /\ worker = "ready"
  /\ queue # <<>>
  /\ hand' = Head(queue)
  /\ queue' = Tail(queue)
  /\ worker' = "busy"
  /\ UNCHANGED <<stop, arrived, handled, producer, stopper>>

\* The callbacks ran (what they throw is caught and logged).
Finish ==
  /\ worker = "busy"
  /\ handled' = hand
  /\ hand' = 0
  /\ worker' = "ready"
  /\ UNCHANGED <<queue, stop, arrived, producer, stopper>>

ExitUndrained ==
  /\ worker = "ready"
  /\ stop
  /\ worker' = "exited"
  /\ UNCHANGED <<queue, stop, hand, arrived, handled, producer, stopper>>

\* Predicate true, queue empty: only the stop flag can have made it true.
Exit ==
  /\ worker = "ready"
  /\ queue = <<>>
  /\ stop
  /\ worker' = "exited"
  /\ UNCHANGED <<queue, stop, hand, arrived, handled, producer, stopper>>

\* Predicate false.
Doze ==
  /\ worker = "ready"
  /\ queue = <<>>
  /\ ~stop
  /\ worker' = "dozing"
  /\ UNCHANGED <<queue, stop, hand, arrived, handled, producer, stopper>>

Sleep ==
  /\ worker = "dozing"
  /\ worker' = "asleep"
  /\ UNCHANGED <<queue, stop, hand, arrived, handled, producer, stopper>>

\* A condition variable may wake up by itself.
SpuriousWake ==
  /\ worker = "asleep"
  /\ worker' = "ready"
  /\ UNCHANGED <<queue, stop, hand, arrived, handled, producer, stopper>>

Work == Take \/ Finish \/ Exit \/ Doze \/ Sleep

-----------------------------------------------------------------------------
(* The producer: the tail of Transport::onMessage() / Server::notify().     *)

\* if (stop...) return - otherwise the thread goes on to lock the mutex.
PushCheck ==
  /\ producer = "idle"
  /\ arrived < MaxItems
  /\ ~stop
  /\ producer' = "passed"
  /\ UNCHANGED <<queue, stop, worker, hand, arrived, handled, stopper>>

PushUnlocked ==
  /\ producer = "passed"
  /\ arrived' = arrived + 1
  /\ queue' = Append(queue, arrived')
  /\ producer' = "pushed"
  /\ UNCHANGED <<stop, worker, hand, handled, stopper>>

Push ==
  /\ producer = "passed"
  /\ MutexFree
  /\ arrived' = arrived + 1
  /\ queue' = Append(queue, arrived')
  /\ producer' = "pushed"
  /\ UNCHANGED <<stop, worker, hand, handled, stopper>>

Woken == IF worker = "asleep" THEN "ready" ELSE worker

NotifyOneForgotten ==
  /\ producer = "pushed"
  /\ producer' = "idle"
  /\ UNCHANGED <<queue, stop, worker, hand, arrived, handled, stopper>>

\* notify_one(), after the mutex was released.
NotifyOne ==
  /\ producer = "pushed"
  /\ worker' = Woken
  /\ producer' = "idle"
  /\ UNCHANGED <<queue, stop, hand, arrived, handled, stopper>>

-----------------------------------------------------------------------------
(* The stopper: stopMessageWorker() / stopNotificationWorker().             *)

StopSet ==
  /\ stopper = "idle"
  /\ stop' = TRUE
  /\ stopper' = "set"
  /\ UNCHANGED <<queue, worker, hand, arrived, handled, producer>>

NotifyAllForgotten ==
  /\ stopper = "set"
  /\ stopper' = "notified"
  /\ UNCHANGED <<queue, stop, worker, hand, arrived, handled, producer>>

NotifyAll ==
  /\ stopper = "set"
  /\ worker' = Woken
  /\ stopper' = "notified"
  /\ UNCHANGED <<queue, stop, hand, arrived, handled, producer>>

\* if (joinable()) join(): blocks until the thread has returned.
Join ==
  /\ stopper = "notified"
  /\ worker \in {"off", "exited"}
  /\ worker' = "off"
  /\ stopper' = "idle"
  /\ UNCHANGED <<queue, stop, hand, arrived, handled, producer>>

-----------------------------------------------------------------------------
Next == \/ Start \/ Take \/ Finish \/ Exit \/ Doze \/ Sleep \/ SpuriousWake
        \/ PushCheck \/ Push \/ NotifyOne
        \/ StopSet \/ NotifyAll \/ Join

Spec == Init /\ [][Next]_vars

\* The threads run; a start, a push, a stop or a spurious wake-up need never
\* come.  The mutex is not kept from the producer for ever by a worker that
\* wakes up spuriously again and again (SF).
FairSpec == /\ Spec
            /\ WF_vars(Work)
            /\ SF_vars(Push) /\ WF_vars(NotifyOne)
            /\ WF_vars(NotifyAll) /\ WF_vars(Join)

-----------------------------------------------------------------------------
\* The variables keep their types; the worker is attached or joined.
TypeOK ==
  /\ queue \in Seq(Nat)
  /\ stop \in BOOLEAN
  /\ worker \in {"off",      \* no joinable thread
                 "ready",    \* about to lock the mutex and test the predicate
                 "dozing",   \* predicate false, mutex held, not yet blocked
                 "asleep",   \* blocked in cv.wait()
                 "busy",     \* handling an item, mutex released
                 "exited"}   \* returned, not joined yet
  /\ hand \in Nat
  /\ arrived \in 0 .. MaxItems
  /\ handled \in Nat
  /\ producer \in {"idle", "passed", "pushed"}
  /\ stopper \in {"idle", "set", "notified"}

\* Items are handled one by one in the order of their arrival, none lost and
\* none twice, across any number of stops and restarts of the worker: the
\* item in hand follows the last one handled, the queue continues from there
\* without a gap, and it ends with the last item that arrived.
Fifo ==
  LET inHand == IF worker = "busy" THEN 1 ELSE 0
  IN  /\ worker = "busy" => hand = handled + 1
      /\ \A k \in 1 .. Len(queue) : queue[k] = handled + inHand + k
      /\ arrived = handled + inHand + Len(queue)

\* The wake-up for a pushed item is never lost: when the worker sleeps on a
\* non-empty queue, notify_one() is still to come.  (push() takes the mutex,
\* so it cannot fall between the worker's test and its blocking.)
PushNeverMissed == worker = "asleep" /\ queue # <<>> => producer = "pushed"

\* stopMessageWorker() / stopNotificationWorker() return whenever the flag
\* was set while the worker was not inside the window "dozing": a sleeping
\* worker is woken, a busy one sees the flag when it comes back.
StopReturns == stopper = "set" /\ stop /\ worker \notin {"off", "dozing"} ~> stopper = "idle"

\* A pushed item is handled while the worker is kept running.
ItemsHandled == \A n \in 1 .. MaxItems :
  arrived >= n /\ worker # "off" ~> handled >= n \/ stop
=============================================================================
