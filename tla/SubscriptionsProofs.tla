------------------------- MODULE SubscriptionsProofs -------------------------
(* Theorems about the event subscriptions, for any number of subscriptions, *)
(* notifications and connections.  HelperImpl::mutex_ makes the calls one   *)
(* another's predecessors; the argument is what each of them leaves behind  *)
(* in the event list, on the wire and at the server.                        *)
EXTENDS Subscriptions, SequenceTheorems, TLAPS

InCall == {"check", "ensure", "add", "sendOn", "ackOn", "rollback", "done",
           "remove", "sendOff", "ackOff", "erase", "undo"}

\* Listen requests.
Requests == [sub : Subs, listen : BOOLEAN]

\* The variables that the theorems are about keep their types.
TypeInv ==
  /\ mutex \in Subs \cup {Nobody}
  /\ live \subseteq Subs /\ sweep \subseteq Subs /\ eventList \subseteq Subs
  /\ pc \in [Subs -> InCall \cup {"new", "subscribed", "gone", "failed"}]
  /\ already \in [Subs -> BOOLEAN]
  /\ ack \in [Subs -> {"none", "pending", "ok", "failed"}]
  /\ session \in Nat
  /\ connected \in BOOLEAN /\ listening \in BOOLEAN
  /\ wire \in Seq(Requests)

\* The call that holds the mutex is the one in progress; the map holds the
\* subscriptions between the beginning of subscribe() and erase(), and
\* unsubscribeAll() has only completed ones before it.
CallInv ==
  /\ \A s \in Subs : pc[s] \in InCall <=> mutex = s
  /\ \A s \in Subs : s \in live <=> pc[s] \notin {"new", "gone", "failed"}
  /\ \A s \in sweep : pc[s] = "subscribed"
  /\ sweep # {} => mutex # Nobody /\ pc[mutex] \in {"remove", "sendOff", "ackOff", "erase"}

\* The event list holds subscriptions that were added and not yet removed.
ListInv == \A s \in eventList : pc[s] \in {"sendOn", "ackOn", "rollback", "done", "subscribed", "remove"}

\* The server hears nothing without a connection.
LinkInv ==
  /\ connected => session # 0
  /\ ~connected => wire = <<>> /\ ~listening

\* What is on the wire was sent by calls that are past their send.
Early == {"new", "check", "ensure", "add", "sendOn"}
WireInv == \A k \in 1 .. Len(wire) : pc[wire[k].sub] \notin Early

\* No connection was lost so far.
FirstLink == session = 0 \/ (session = 1 /\ connected)

\* The server emits the event and no request can change that.
Served == listening /\ wire = <<>>

\* The call in progress that has put the first subscriber into the list and
\* does not know yet whether the server agrees.
Trying == mutex # Nobody /\ pc[mutex] \in {"sendOn", "ackOn", "rollback"}

\* What the call in progress knows of the list, and that the answer to a
\* subscriber that is being tried is the last one to come.
Expects(s) ==
  /\ pc[s] \in {"ensure", "add"} => (already[s] <=> eventList # {})
  /\ pc[s] \in {"sendOff", "ackOff"} => eventList = {}
  /\ pc[s] = "ackOn" /\ ack[s] = "ok" => Served
  /\ pc[s] = "ackOn" /\ ack[s] = "pending" =>
       /\ wire # <<>> /\ wire[Len(wire)] = [sub |-> s, listen |-> TRUE]
       /\ \A k \in 1 .. Len(wire) : k # Len(wire) => wire[k].sub # s

\* On the first connection: subscribers other than one that is being tried
\* are served.
ServedInv == FirstLink =>
  /\ ~Trying /\ eventList # {} => Served
  /\ Trying => eventList = {mutex}
  /\ mutex # Nobody => Expects(mutex)

\* SubscriptionData has two owners: the map, and the callback that locked it.
DataInv ==
  /\ held \in Subs \cup {Nobody}
  /\ running # Nobody => running = held
  /\ data = live \cup ({held} \ {Nobody})

IInv == TypeInv /\ CallInv /\ ListInv /\ LinkInv /\ WireInv /\ ServedInv /\ DataInv

-----------------------------------------------------------------------------
\* Taking the first element of a sequence moves the others up.
LEMMA Dequeue ==
  ASSUME NEW S, NEW q \in Seq(S), q # <<>>
  PROVE  /\ Len(q) \in Nat /\ Len(q) >= 1 /\ Head(q) = q[1]
         /\ Len(Tail(q)) = Len(q) - 1
         /\ \A k \in 1 .. Len(Tail(q)) : k + 1 \in 1 .. Len(q) /\ Tail(q)[k] = q[k + 1]
         /\ Len(q) # 1 => Tail(q) # <<>> /\ Tail(q)[Len(Tail(q))] = q[Len(q)]
         /\ Len(q) = 1 => Tail(q) = <<>>
<1>1. Len(q) \in Nat /\ Len(q) >= 1 /\ Head(q) = q[1]
  OBVIOUS
<1>2. /\ Tail(q) \in Seq(S) /\ Len(Tail(q)) = Len(q) - 1
      /\ \A k \in 1 .. Len(Tail(q)) : Tail(q)[k] = q[k + 1]
  BY HeadTailProperties
<1>3. Len(q) # 1 => Tail(q) # <<>> /\ Tail(q)[Len(Tail(q))] = q[Len(q)]
  <2> SUFFICES ASSUME Len(q) # 1 PROVE Tail(q) # <<>> /\ Tail(q)[Len(Tail(q))] = q[Len(q)]
    OBVIOUS
  <2>1. Len(q) - 1 \in 1 .. Len(Tail(q)) /\ Len(Tail(q)) = Len(q) - 1
    BY <1>1, <1>2
  <2>2. Tail(q)[Len(q) - 1] = q[(Len(q) - 1) + 1] /\ (Len(q) - 1) + 1 = Len(q)
    BY <1>1, <1>2, <2>1
  <2> QED
    BY <1>2, <2>1, <2>2
<1>4. Len(q) = 1 => Tail(q) = <<>>
  <2> DEFINE t == Tail(q)
  <2>1. t \in Seq(S) /\ Len(t) = Len(q) - 1
    BY <1>2
  <2> HIDE DEF t
  <2>2. Len(q) = 1 => t = <<>>
    BY <1>1, <2>1
  <2> QED
    BY <2>2 DEF t
<1>5. \A k \in 1 .. Len(Tail(q)) : k + 1 \in 1 .. Len(q)
  BY <1>1, <1>2
<1> QED
  BY <1>1, <1>2, <1>3, <1>4, <1>5

\* The variables that the invariant is about.
core == <<callVars, ack, eventList, session, connected, wire, listening>>

\* Notifications, callbacks and the end of a cleanup change none of them.
LEMMA Aside ==
  ASSUME \/ ServerEmits \/ CleanStop \/ CleanNotify \/ CleanJoin
         \/ Notify \/ NotificationWorker \/ SpuriousWake
         \/ CallbackAsks \/ CallbackAnswered \/ CallbackLeaves \/ CallbackReturns
         \/ UNCHANGED vars
  PROVE  UNCHANGED core
BY DEF core, ServerEmits, CleanStop, CleanNotify, CleanJoin, Notify, NotifyCheck, NotifyCopy,
       NotifyPush, NotifyWake, NotificationWorker, NotificationTake, NotificationDoze,
       NotificationSleep, SpuriousWake, CallbackLock, CallbackBegins, NotificationDone, NotificationExit,
       CallbackAsks, CallbackAnswered, CallbackLeaves, CallbackReturns, vars, callVars, linkVars

\* The steps that remain.
LEMMA Cases ==
  ASSUME [Next]_vars
  PROVE  \/ \E s \in Subs : HelperSubscribe(s) \/ HelperUnsubscribe(s) \/ Proceed(s)
         \/ HelperUnsubscribeAll \/ ServerReads \/ Open \/ Lose \/ CleanCancel
         \/ UNCHANGED core
BY Aside DEF Next, Cleanup

\* A listen request goes to the end of the wire, if there is a connection.
LEMMA Sent ==
  ASSUME IInv, NEW s \in Subs, SubscribeSend(s) \/ UnsubscribeSend(s)
  PROVE  /\ wire' \in Seq(Requests)
         /\ ~connected => wire' = wire
         /\ connected => /\ Len(wire') = Len(wire) + 1
                         /\ \A k \in 1 .. Len(wire) : wire'[k] = wire[k]
                         /\ wire'[Len(wire) + 1] = [sub |-> s, listen |-> pc[s] = "sendOn"]
<1> DEFINE m == [sub |-> s, listen |-> pc[s] = "sendOn"]
<1>1. m \in Requests
  BY DEF Requests
<1>2. wire' = IF connected THEN Append(wire, m) ELSE wire
  BY DEF SubscribeSend, UnsubscribeSend
<1> HIDE DEF m
<1>3. wire \in Seq(Requests)
  BY DEF IInv, TypeInv
<1>4. CASE connected
  BY <1>1, <1>2, <1>3, <1>4, AppendProperties DEF m
<1>5. CASE ~connected
  BY <1>2, <1>3, <1>5
<1> QED
  BY <1>4, <1>5

\* The types are preserved by every step.
LEMMA TypeStep == IInv /\ [Next]_vars => TypeInv'
<1> SUFFICES ASSUME IInv, [Next]_vars PROVE TypeInv'
  OBVIOUS
<1> USE SubscriptionsAssumption DEF IInv, TypeInv, InCall, Goto
<1>1. ASSUME NEW s \in Subs,
             \/ HelperSubscribe(s) \/ HelperUnsubscribe(s) \/ SubscribeCheck(s) \/ SubscribeEnsure(s)
             \/ SubscribeAdd(s) \/ SubscribeAck(s) \/ SubscribeRollback(s) \/ SubscribeDone(s)
             \/ UnsubscribeRemove(s) \/ UnsubscribeAck(s)
      PROVE  TypeInv'
  <2>1. pc' \in [Subs -> InCall \cup {"new", "subscribed", "gone", "failed"}]
    BY <1>1 DEF HelperSubscribe, HelperUnsubscribe, SubscribeCheck, SubscribeEnsure, SubscribeAdd, SubscribeAck,
                SubscribeRollback, SubscribeDone, UnsubscribeRemove, UnsubscribeAck
  <2>2. /\ mutex' \in Subs \cup {Nobody}
        /\ live' \subseteq Subs /\ sweep' \subseteq Subs /\ eventList' \subseteq Subs
    BY <1>1 DEF HelperSubscribe, HelperUnsubscribe, SubscribeCheck, SubscribeEnsure, SubscribeAdd, SubscribeAck,
                SubscribeRollback, SubscribeDone, UnsubscribeRemove, UnsubscribeAck
  <2>3. already' \in [Subs -> BOOLEAN]
    BY <1>1 DEF HelperSubscribe, HelperUnsubscribe, SubscribeCheck, SubscribeEnsure, SubscribeAdd, SubscribeAck,
                SubscribeRollback, SubscribeDone, UnsubscribeRemove, UnsubscribeAck
  <2>4. UNCHANGED <<ack, session, connected, listening, wire>>
    BY <1>1 DEF HelperSubscribe, HelperUnsubscribe, SubscribeCheck, SubscribeEnsure, SubscribeAdd, SubscribeAck,
                SubscribeRollback, SubscribeDone, UnsubscribeRemove, UnsubscribeAck, linkVars
  <2> QED
    BY <2>1, <2>2, <2>3, <2>4
<1>2. ASSUME NEW s \in Subs, SubscribeSend(s) \/ UnsubscribeSend(s) PROVE TypeInv'
  BY <1>2, Sent DEF SubscribeSend, UnsubscribeSend
<1>3. ASSUME NEW s \in Subs, HelperErase(s) PROVE TypeInv'
  BY <1>3 DEF HelperErase, LetGo, linkVars
<1>4. CASE HelperUnsubscribeAll
  BY <1>4 DEF HelperUnsubscribeAll, linkVars
<1>5. CASE ServerReads
  <2>1. wire # <<>> /\ Head(wire) \in Requests /\ wire' \in Seq(Requests)
    BY <1>5 DEF ServerReads
  <2>2. Head(wire).sub \in Subs /\ Head(wire).listen \in BOOLEAN
    BY <2>1 DEF Requests
  <2>3. ack' \in [Subs -> {"none", "pending", "ok", "failed"}]
    BY <1>5, <2>2 DEF ServerReads
  <2>4. listening' \in BOOLEAN
    BY <1>5, <2>2 DEF ServerReads
  <2> QED
    BY <1>5, <2>1, <2>3, <2>4 DEF ServerReads, callVars
<1>6. CASE Open \/ Lose \/ CleanCancel
  <2>1. CASE Open
    BY <2>1 DEF Open, callVars
  <2>2. CASE Lose
    <3>1. connected' = FALSE /\ listening' = FALSE /\ wire' = <<>>
          /\ UNCHANGED <<mutex, live, pc, already, sweep, ack, eventList, session>>
      BY <2>2 DEF Lose, callVars
    <3>2. connected' \in BOOLEAN /\ listening' \in BOOLEAN
      BY <3>1
    <3>3. wire' \in Seq(Requests)
      BY <3>1
    <3> QED
      BY <3>1, <3>2, <3>3
  <2>3. CASE CleanCancel
    BY <2>3 DEF CleanCancel, Cancelled, callVars, linkVars
  <2> QED
    BY <1>6, <2>1, <2>2, <2>3
<1>7. CASE UNCHANGED core
  BY <1>7 DEF core, callVars
<1> QED
  BY <1>1, <1>2, <1>3, <1>4, <1>5, <1>6, <1>7, Cases DEF Proceed

\* HelperImpl::mutex_ lets one call in at a time.
LEMMA CallStep == IInv /\ [Next]_vars => CallInv'
<1> SUFFICES ASSUME IInv, [Next]_vars PROVE CallInv'
  OBVIOUS
<1> USE SubscriptionsAssumption DEF IInv, TypeInv, InCall, Goto, CallInv
<1>1. ASSUME NEW s \in Subs, HelperSubscribe(s) \/ HelperUnsubscribe(s) \/ SubscribeDone(s) PROVE CallInv'
  <2>1. CASE HelperSubscribe(s)
    BY <2>1 DEF HelperSubscribe
  <2>2. CASE HelperUnsubscribe(s)
    BY <2>2 DEF HelperUnsubscribe
  <2>3. CASE SubscribeDone(s)
    BY <2>3 DEF SubscribeDone
  <2> QED
    BY <1>1, <2>1, <2>2, <2>3
<1>2. ASSUME NEW s \in Subs,
             \/ SubscribeCheck(s) \/ SubscribeEnsure(s) \/ SubscribeAdd(s) \/ SubscribeSend(s)
             \/ SubscribeAck(s) \/ SubscribeRollback(s)
             \/ UnsubscribeRemove(s) \/ UnsubscribeSend(s) \/ UnsubscribeAck(s)
      PROVE  CallInv'
  <2>1. /\ pc[s] \in InCall /\ UNCHANGED <<mutex, live, sweep>>
        /\ \E label \in InCall :
             /\ pc' = [pc EXCEPT ![s] = label]
             /\ pc[s] \in {"remove", "sendOff", "ackOff"} => label \in {"sendOff", "ackOff", "erase"}
             /\ pc[s] \notin {"erase", "undo"}
    BY <1>2 DEF SubscribeCheck, SubscribeEnsure, SubscribeAdd, SubscribeSend, SubscribeAck,
                SubscribeRollback, UnsubscribeRemove, UnsubscribeSend, UnsubscribeAck
  <2> QED
    BY <2>1
<1>3. ASSUME NEW s \in Subs, HelperErase(s) PROVE CallInv'
  <2>1. mutex = s /\ live' = live \ {s} /\ s \notin sweep
    BY <1>3 DEF HelperErase
  <2>2. ASSUME NEW end \in {"gone", "failed"}, sweep = {}, mutex' = Nobody, Goto(s, end), UNCHANGED sweep
        PROVE  CallInv'
    BY <2>1, <2>2
  <2>3. ASSUME NEW next \in sweep, mutex' = next, sweep' = sweep \ {next},
               pc' = [pc EXCEPT ![s] = "gone", ![next] = "remove"]
        PROVE  CallInv'
    BY <2>1, <2>3
  <2> QED
    BY <1>3, <2>2, <2>3 DEF HelperErase, LetGo
<1>4. CASE HelperUnsubscribeAll
  <2>1. PICK s \in live :
          mutex' = s /\ pc' = [pc EXCEPT ![s] = "remove"] /\ sweep' \subseteq live \ {s}
    BY <1>4 DEF HelperUnsubscribeAll
  <2>2. live' = live /\ \A u \in live : pc[u] = "subscribed"
    BY <1>4 DEF HelperUnsubscribeAll
  <2> QED
    BY <2>1, <2>2
<1>5. CASE ServerReads \/ Open \/ Lose \/ CleanCancel \/ UNCHANGED core
  BY <1>5 DEF ServerReads, Open, Lose, CleanCancel, core, callVars
<1> QED
  BY <1>1, <1>2, <1>3, <1>4, <1>5, Cases DEF Proceed

\* unsubscribe() and a failed subscribe() leave the list.
LEMMA ListStep == IInv /\ [Next]_vars => ListInv'
<1> SUFFICES ASSUME IInv, [Next]_vars PROVE ListInv'
  OBVIOUS
<1> USE DEF IInv, TypeInv, InCall, Goto, CallInv, ListInv
<1>1. ASSUME NEW s \in Subs, HelperSubscribe(s) \/ HelperUnsubscribe(s) \/ Proceed(s), ~HelperErase(s)
      PROVE  ListInv'
  <2>1. CASE SubscribeAdd(s) \/ SubscribeRollback(s) \/ UnsubscribeRemove(s)
    BY <2>1 DEF SubscribeAdd, SubscribeRollback, UnsubscribeRemove
  <2>2. CASE HelperSubscribe(s) \/ HelperUnsubscribe(s) \/ SubscribeCheck(s) \/ SubscribeEnsure(s)
    <3>1. eventList' = eventList
      BY <2>2 DEF HelperSubscribe, HelperUnsubscribe, SubscribeCheck, SubscribeEnsure
    <3>2. \E label \in {"check", "remove", "ensure", "add"} : pc' = [pc EXCEPT ![s] = label]
      BY <2>2 DEF HelperSubscribe, HelperUnsubscribe, SubscribeCheck, SubscribeEnsure
    <3>3. s \in eventList => pc'[s] = "remove"
      BY <2>2 DEF HelperSubscribe, HelperUnsubscribe, SubscribeCheck, SubscribeEnsure
    <3> QED
      BY <3>1, <3>2, <3>3
  <2>3. CASE SubscribeSend(s) \/ SubscribeAck(s) \/ SubscribeDone(s) \/ UnsubscribeSend(s) \/ UnsubscribeAck(s)
    BY <2>3 DEF SubscribeSend, SubscribeAck, SubscribeDone, UnsubscribeSend, UnsubscribeAck
  <2> QED
    BY <1>1, <2>1, <2>2, <2>3 DEF Proceed
<1>2. ASSUME NEW s \in Subs, HelperErase(s) PROVE ListInv'
  BY <1>2 DEF HelperErase, LetGo
<1>3. CASE HelperUnsubscribeAll
  BY <1>3 DEF HelperUnsubscribeAll
<1>4. CASE ServerReads \/ Open \/ Lose \/ CleanCancel \/ UNCHANGED core
  BY <1>4 DEF ServerReads, Open, Lose, CleanCancel, core, callVars
<1> QED
  BY <1>1, <1>2, <1>3, <1>4, Cases

\* A connection that ends takes the requests on the wire with it.
LEMMA LinkStep == IInv /\ [Next]_vars => LinkInv'
<1> SUFFICES ASSUME IInv, [Next]_vars PROVE LinkInv'
  OBVIOUS
<1> USE DEF IInv, TypeInv, LinkInv
<1>1. ASSUME NEW s \in Subs, SubscribeSend(s) \/ UnsubscribeSend(s) PROVE LinkInv'
  <2>1. UNCHANGED <<session, connected, listening>>
    BY <1>1 DEF SubscribeSend, UnsubscribeSend
  <2>2. ~connected => wire' = wire
    BY <1>1, Sent
  <2> QED
    BY <2>1, <2>2
<1>2. ASSUME NEW s \in Subs, HelperSubscribe(s) \/ HelperUnsubscribe(s) \/ Proceed(s),
             ~(SubscribeSend(s) \/ UnsubscribeSend(s))
      PROVE  LinkInv'
  <2>1. UNCHANGED linkVars
    BY <1>2 DEF Proceed, HelperSubscribe, HelperUnsubscribe, SubscribeCheck, SubscribeEnsure, SubscribeAdd,
                SubscribeAck, SubscribeRollback, SubscribeDone, UnsubscribeRemove, UnsubscribeAck, HelperErase
  <2> QED
    BY <2>1 DEF linkVars
<1>3. CASE HelperUnsubscribeAll \/ CleanCancel \/ UNCHANGED core
  BY <1>3 DEF HelperUnsubscribeAll, CleanCancel, core, linkVars
<1>4. CASE ServerReads
  BY <1>4 DEF ServerReads
<1>5. CASE Open \/ Lose
  BY <1>5 DEF Open, Lose
<1> QED
  BY <1>1, <1>2, <1>3, <1>4, <1>5, Cases

\* No call goes back behind its send.
LEMMA Later ==
  ASSUME IInv, [Next]_vars, NEW u \in Subs, pc[u] \notin Early
  PROVE  pc'[u] \notin Early
<1> USE DEF IInv, TypeInv, Early, Goto
<1>1. ASSUME NEW s \in Subs, HelperSubscribe(s) \/ HelperUnsubscribe(s) \/ Proceed(s), ~HelperErase(s)
      PROVE  pc'[u] \notin Early
  BY <1>1 DEF Proceed, HelperSubscribe, HelperUnsubscribe, SubscribeCheck, SubscribeEnsure, SubscribeAdd,
              SubscribeSend, SubscribeAck, SubscribeRollback, SubscribeDone, UnsubscribeRemove, UnsubscribeSend,
              UnsubscribeAck
<1>2. ASSUME NEW s \in Subs, HelperErase(s) PROVE pc'[u] \notin Early
  BY <1>2 DEF HelperErase, LetGo
<1>3. CASE HelperUnsubscribeAll
  BY <1>3 DEF HelperUnsubscribeAll
<1>4. CASE ServerReads \/ Open \/ Lose \/ CleanCancel \/ UNCHANGED core
  BY <1>4 DEF ServerReads, Open, Lose, CleanCancel, core, callVars
<1> QED
  BY <1>1, <1>2, <1>3, <1>4, Cases

\* A call has nothing on the wire before its first send.
LEMMA WireStep == IInv /\ [Next]_vars => WireInv'
<1> SUFFICES ASSUME IInv, [Next]_vars, NEW k \in 1 .. Len(wire') PROVE pc'[wire'[k].sub] \notin Early
  BY DEF WireInv
<1>1. ASSUME NEW i \in 1 .. Len(wire) PROVE wire[i].sub \in Subs /\ pc'[wire[i].sub] \notin Early
  <2>1. wire[i] \in Requests
    BY DEF IInv, TypeInv
  <2>2. wire[i].sub \in Subs
    BY <2>1 DEF Requests
  <2> QED
    BY <2>2, Later DEF IInv, WireInv
<1>2. ASSUME NEW s \in Subs, SubscribeSend(s) \/ UnsubscribeSend(s) PROVE pc'[wire'[k].sub] \notin Early
  <2>1. pc'[s] \notin Early
    BY <1>2 DEF SubscribeSend, UnsubscribeSend, Goto, Early, IInv, TypeInv
  <2>2. CASE k \in 1 .. Len(wire) /\ wire'[k] = wire[k]
    BY <1>1, <2>2
  <2>3. CASE wire'[k].sub = s
    BY <2>1, <2>3
  <2>4. wire \in Seq(Requests) /\ connected \in BOOLEAN
    BY DEF IInv, TypeInv
  <2>5. CASE connected
    <3>1. /\ Len(wire') = Len(wire) + 1
          /\ \A i \in 1 .. Len(wire) : wire'[i] = wire[i]
          /\ wire'[Len(wire) + 1] = [sub |-> s, listen |-> pc[s] = "sendOn"]
      BY <1>2, <2>5, Sent
    <3>2. wire'[Len(wire) + 1].sub = s
      BY <3>1
    <3>3. k \in 1 .. Len(wire) \/ k = Len(wire) + 1
      BY <2>4, <3>1
    <3> QED
      BY <2>2, <2>3, <3>1, <3>2, <3>3
  <2>6. CASE ~connected
    BY <1>1, <1>2, <2>6, Sent
  <2> QED
    BY <2>5, <2>6
<1>3. CASE wire' = wire \/ wire' = <<>>
  BY <1>1, <1>3
<1>4. CASE ServerReads
  <2>1. wire \in Seq(Requests) /\ wire # <<>> /\ wire' = Tail(wire)
    BY <1>4 DEF ServerReads, IInv, TypeInv
  <2>2. k + 1 \in 1 .. Len(wire) /\ wire'[k] = wire[k + 1]
    BY <2>1, HeadTailProperties
  <2> QED
    BY <1>1, <2>2
<1>5. \/ \E s \in Subs : SubscribeSend(s) \/ UnsubscribeSend(s)
      \/ wire' = wire \/ wire' = <<>> \/ ServerReads
  BY Cases DEF Proceed, HelperSubscribe, HelperUnsubscribe, SubscribeCheck, SubscribeEnsure, SubscribeAdd,
       SubscribeAck, SubscribeRollback, SubscribeDone, UnsubscribeRemove, UnsubscribeAck, HelperErase,
       HelperUnsubscribeAll, Open, Lose, CleanCancel, core, linkVars
<1> QED
  BY <1>2, <1>3, <1>4, <1>5

\* A step on the first connection begins on it, or opens it.
LEMMA StillFirst ==
  ASSUME IInv, [Next]_vars, FirstLink'
  PROVE  FirstLink /\ ~Lose
<1> USE DEF IInv, TypeInv, LinkInv, FirstLink
<1>1. CASE Open \/ Lose
  BY <1>1 DEF Open, Lose
<1>2. CASE ~Open /\ ~Lose
  <2>1. UNCHANGED <<session, connected>>
    BY <1>2, Cases DEF Proceed, HelperSubscribe, HelperUnsubscribe, SubscribeCheck, SubscribeEnsure, SubscribeAdd,
       SubscribeSend, SubscribeAck, SubscribeRollback, SubscribeDone, UnsubscribeRemove, UnsubscribeSend,
       UnsubscribeAck, HelperErase, HelperUnsubscribeAll, ServerReads, CleanCancel, core, linkVars
  <2> QED
    BY <1>2, <2>1
<1> QED
  BY <1>1, <1>2

\* The call in progress is the only one.
LEMMA Caller ==
  ASSUME IInv, NEW s \in Subs, pc[s] \in InCall
  PROVE  mutex = s /\ mutex # Nobody /\ \A u \in Subs \ {s} : pc[u] \notin InCall
BY SubscriptionsAssumption DEF IInv, CallInv

\* On the first connection no call leaves a subscriber behind that the server
\* does not serve.
LEMMA ServedStep == IInv /\ [Next]_vars => ServedInv'
<1> SUFFICES ASSUME IInv, [Next]_vars, FirstLink' PROVE ServedInv'
  BY DEF ServedInv
<1>0. FirstLink /\ ~Lose /\ CallInv' /\ TypeInv'
  BY StillFirst, CallStep, TypeStep
<1> USE SubscriptionsAssumption, <1>0 DEF IInv, TypeInv, ServedInv, Expects, Trying, Served, Goto, InCall
<1>1. ASSUME NEW s \in Subs, HelperSubscribe(s) \/ HelperUnsubscribe(s) PROVE ServedInv'
  <2>1. mutex = Nobody /\ mutex' = s /\ pc'[s] \in {"check", "remove"} /\ UNCHANGED <<eventList, listening, wire>>
    BY <1>1 DEF HelperSubscribe, HelperUnsubscribe, linkVars
  <2>2. eventList # {} => listening /\ wire = <<>>
    BY <2>1
  <2>3. ~Trying' /\ Expects(mutex)'
    BY <2>1
  <2>4. eventList' # {} => listening' /\ wire' = <<>>
    BY <2>1, <2>2, Zenon
  <2> HIDE DEF Expects, Trying
  <2> QED
    BY <2>3, <2>4, Zenon
<1>2. ASSUME NEW s \in Subs, SubscribeCheck(s) \/ SubscribeEnsure(s) PROVE ServedInv'
  <2>1. CASE SubscribeCheck(s)
    <3>1. /\ mutex = s /\ mutex' = s /\ pc[s] = "check" /\ pc'[s] = "ensure"
          /\ UNCHANGED <<eventList, listening, wire>>
      BY <2>1, Caller DEF SubscribeCheck, linkVars
    <3>2. already'[s] = (eventList # {})
      BY <2>1 DEF SubscribeCheck
    <3>3. ~Trying' /\ Expects(s)'
      BY <3>1, <3>2
    <3> QED
      BY <3>1, <3>3
  <2>2. CASE SubscribeEnsure(s)
    BY <2>2, Caller DEF SubscribeEnsure, linkVars
  <2> QED
    BY <1>2, <2>1, <2>2
<1>3. ASSUME NEW s \in Subs, SubscribeAdd(s) PROVE ServedInv'
  <2>1. mutex = s /\ mutex' = s /\ pc[s] = "add" /\ eventList' = eventList \cup {s} /\ UNCHANGED <<listening, wire>>
    BY <1>3, Caller DEF SubscribeAdd, linkVars
  <2>2. CASE already[s]
    BY <1>3, <2>1, <2>2 DEF SubscribeAdd
  <2>3. CASE ~already[s]
    BY <1>3, <2>1, <2>3 DEF SubscribeAdd
  <2> QED
    BY <2>2, <2>3
<1>4. ASSUME NEW s \in Subs, SubscribeSend(s) PROVE ServedInv'
  <2>1. /\ mutex = s /\ mutex' = s /\ pc[s] = "sendOn" /\ pc'[s] = "ackOn" /\ eventList' = eventList
        /\ ack'[s] = IF connected THEN "pending" ELSE "failed"
    BY <1>4, Caller DEF SubscribeSend
  <2>2. CASE ~connected
    BY <2>1, <2>2
  <2>3. CASE connected
    <3>1. /\ Len(wire') = Len(wire) + 1
          /\ \A k \in 1 .. Len(wire) : wire'[k] = wire[k]
          /\ wire'[Len(wire) + 1] = [sub |-> s, listen |-> TRUE]
      BY <1>4, <2>1, <2>3, Sent
    <3>2. \A k \in 1 .. Len(wire) : wire[k].sub # s
      BY <2>1 DEF WireInv, Early
    <3>3. \A k \in 1 .. Len(wire') : k # Len(wire') => wire'[k].sub # s
      <4>1. Len(wire) \in Nat
        OBVIOUS
      <4> HIDE <1>0 DEF IInv, TypeInv
      <4> QED
        BY <3>1, <3>2, <4>1
    <3>4. wire' # <<>> /\ wire'[Len(wire')] = [sub |-> s, listen |-> TRUE]
      BY <3>1
    <3> QED
      BY <2>1, <2>3, <3>3, <3>4
  <2> QED
    BY <2>2, <2>3
<1>5. ASSUME NEW s \in Subs, UnsubscribeSend(s) PROVE ServedInv'
  BY <1>5, Caller DEF UnsubscribeSend
<1>6. ASSUME NEW s \in Subs, SubscribeAck(s) \/ SubscribeRollback(s) \/ SubscribeDone(s) PROVE ServedInv'
  <2>1. CASE SubscribeAck(s)
    BY <2>1, Caller DEF SubscribeAck, linkVars
  <2>2. CASE SubscribeRollback(s)
    BY <2>2, Caller DEF SubscribeRollback, linkVars
  <2>3. CASE SubscribeDone(s)
    BY <2>3, Caller DEF SubscribeDone, linkVars
  <2> QED
    BY <1>6, <2>1, <2>2, <2>3
<1>7. ASSUME NEW s \in Subs, UnsubscribeRemove(s) \/ UnsubscribeAck(s) PROVE ServedInv'
  BY <1>7, Caller DEF UnsubscribeRemove, UnsubscribeAck, linkVars
<1>8. ASSUME NEW s \in Subs, HelperErase(s) PROVE ServedInv'
  BY <1>8, Caller DEF HelperErase, LetGo, CallInv, linkVars
<1>9. CASE HelperUnsubscribeAll
  BY <1>9 DEF HelperUnsubscribeAll, CallInv, linkVars
<1>10. CASE ServerReads
  <2>1. /\ wire # <<>> /\ wire' = Tail(wire) /\ Len(wire') = Len(wire) - 1
        /\ \A k \in 1 .. Len(wire') : wire'[k] = wire[k + 1]
    BY <1>10, HeadTailProperties DEF ServerReads
  <2>2. UNCHANGED <<mutex, pc, already, eventList>> /\ (Trying' <=> Trying)
    BY <1>10 DEF ServerReads, callVars
  <2>3. ~Trying => eventList = {}
    BY <2>1
  <2>4. ASSUME mutex # Nobody, pc[mutex] = "ackOn" PROVE Expects(mutex)'
    <3>1. CASE ack[mutex] = "ok"
      BY <2>1, <2>4, <3>1
    <3>2. CASE ack[mutex] = "pending" /\ Len(wire) = 1
      <4>1. Head(wire) = [sub |-> mutex, listen |-> TRUE] /\ wire' = <<>>
        BY <2>1, <2>4, <3>2
      <4> QED
        BY <1>10, <2>2, <2>4, <3>2, <4>1 DEF ServerReads
    <3>3. CASE ack[mutex] = "pending" /\ Len(wire) # 1
      <4>1. /\ wire[Len(wire)] = [sub |-> mutex, listen |-> TRUE]
            /\ \A k \in 1 .. Len(wire) : k # Len(wire) => wire[k].sub # mutex
        BY <2>4, <3>3
      <4>2. Len(wire) \in Nat /\ Len(wire) >= 1 /\ Head(wire) = wire[1]
        BY <2>1, Dequeue
      <4>3. Head(wire).sub # mutex
        <5>1. 1 \in 1 .. Len(wire) /\ 1 # Len(wire)
          BY <3>3, <4>2
        <5> QED
          BY <4>1, <4>2, <5>1
      <4>4. ack'[mutex] = ack[mutex]
        BY <1>10, <4>3 DEF ServerReads
      <4>5. wire' # <<>> /\ wire'[Len(wire')] = wire[Len(wire)]
        BY <2>1, <3>3, Dequeue
      <4>6. ASSUME NEW k \in 1 .. Len(wire'), k # Len(wire') PROVE wire'[k].sub # mutex
        <5>1. k + 1 \in 1 .. Len(wire) /\ k + 1 # Len(wire) /\ wire'[k] = wire[k + 1]
          <6>1. k + 1 \in 1 .. Len(wire) /\ wire'[k] = wire[k + 1] /\ Len(wire') = Len(wire) - 1
            BY <2>1, Dequeue
          <6> HIDE <1>0 DEF IInv, TypeInv
          <6> QED
            BY <4>2, <4>6, <6>1
        <5> QED
          BY <4>1, <5>1
      <4> QED
        BY <2>2, <2>4, <3>3, <4>1, <4>4, <4>5, <4>6
    <3>4. CASE ack[mutex] \in {"none", "failed"}
      <4>1. ack'[mutex] = ack[mutex]
        BY <1>10, <3>4 DEF ServerReads
      <4> QED
        BY <2>2, <2>4, <3>4, <4>1
    <3> QED
      BY <2>4, <3>1, <3>2, <3>3, <3>4
  <2>5. ASSUME mutex # Nobody, pc[mutex] # "ackOn" PROVE Expects(mutex)'
    BY <2>2, <2>5
  <2> QED
    BY <2>2, <2>3, <2>4, <2>5
<1>11. CASE Open
  BY <1>11 DEF Open, callVars
<1>12. CASE CleanCancel
  BY <1>12 DEF CleanCancel, Cancelled, callVars, linkVars
<1>13. CASE UNCHANGED core
  BY <1>13 DEF core, callVars
<1> QED
  BY <1>1, <1>2, <1>3, <1>4, <1>5, <1>6, <1>7, <1>8, <1>9, <1>10, <1>11, <1>12, <1>13, Cases DEF Proceed

\* The other steps leave the map and the data alone.
LEMMA DataAside ==
  ASSUME [Next]_vars,
         ~(\E s \in Subs : HelperSubscribe(s) \/ HelperErase(s) \/ CallbackLock(s)),
         ~CallbackBegins, ~CallbackReturns
  PROVE  UNCHANGED <<live, held, running, data>>
BY DEF Next, Proceed, HelperUnsubscribe, SubscribeCheck, SubscribeEnsure, SubscribeAdd,
       SubscribeSend, SubscribeAck, SubscribeRollback, SubscribeDone, UnsubscribeRemove, UnsubscribeSend,
       UnsubscribeAck, HelperUnsubscribeAll, ServerReads, ServerEmits, Open, Lose, Cleanup,
       CleanCancel, CleanStop, CleanNotify, CleanJoin, Notify, NotifyCheck, NotifyCopy, NotifyPush,
       NotifyWake, NotificationWorker, NotificationTake, NotificationDoze, NotificationSleep, SpuriousWake,
       NotificationDone, NotificationExit, CallbackAsks, CallbackAnswered, CallbackLeaves, vars, callVars, cbVars

\* The data lives as long as one of its owners.
LEMMA DataStep == IInv /\ [Next]_vars => DataInv'
<1> SUFFICES ASSUME IInv, [Next]_vars PROVE DataInv'
  OBVIOUS
<1> USE SubscriptionsAssumption DEF IInv, TypeInv, DataInv
<1>1. ASSUME NEW s \in Subs, HelperSubscribe(s) PROVE DataInv'
  BY <1>1 DEF HelperSubscribe
<1>2. ASSUME NEW s \in Subs, HelperErase(s) PROVE DataInv'
  BY <1>2 DEF HelperErase
<1>3. ASSUME NEW s \in Subs, CallbackLock(s) PROVE DataInv'
  BY <1>3 DEF CallbackLock, callVars
<1>4. CASE CallbackBegins
  BY <1>4 DEF CallbackBegins, callVars
<1>5. CASE CallbackReturns
  BY <1>5 DEF CallbackReturns, callVars
<1>6. CASE UNCHANGED <<live, held, running, data>>
  BY <1>6
<1> QED
  BY <1>1, <1>2, <1>3, <1>4, <1>5, <1>6, DataAside

-----------------------------------------------------------------------------
\* A helper that was just constructed satisfies the inductive invariant.
LEMMA InitInv == Init => IInv
<1> SUFFICES ASSUME Init PROVE IInv
  OBVIOUS
<1>1. connected \in BOOLEAN /\ ~connected /\ listening \in BOOLEAN /\ ~listening
  BY Zenon DEF Init
<1>2. already \in [Subs -> BOOLEAN]
  BY Zenon DEF Init
<1>3. TypeInv
  BY <1>1, <1>2 DEF Init, TypeInv
<1>4. CallInv /\ ListInv /\ LinkInv
  BY <1>1, SubscriptionsAssumption DEF Init, CallInv, ListInv, LinkInv, InCall
<1>5. WireInv /\ ServedInv /\ DataInv
  BY DEF Init, WireInv, ServedInv, Trying, DataInv
<1> QED
  BY <1>3, <1>4, <1>5 DEF IInv

\* Every state of the subscriptions satisfies the inductive invariant.
THEOREM Invariance == Spec => []IInv
<1>1. IInv /\ [Next]_vars => IInv'
  BY TypeStep, CallStep, ListStep, LinkStep, WireStep, ServedStep, DataStep DEF IInv
<1> QED
  BY <1>1, InitInv, PTL DEF Spec

\* As long as the first connection lasts, a callback that subscribe() has
\* registered is served, whatever was refused, timed out or unsubscribed.
THEOREM RegisteredServed == Spec => []RegisteredIsServed
<1>1. IInv => RegisteredIsServed
  BY DEF IInv, ServedInv, FirstLink, Trying, Served, RegisteredIsServed, AskedToListen
<1> QED
  BY <1>1, Invariance, PTL

\* A callback uses its SubscriptionData only while it exists, although
\* unsubscribe() waits neither for a callback that runs nor for one that the
\* notification worker has still to run: the weak_ptr is locked, and the lock
\* is the data's second owner.
THEOREM DataAlive == Spec => []CallbackDataAlive
<1>1. IInv => CallbackDataAlive
  BY DEF IInv, CallInv, DataInv, TypeInv, CallbackDataAlive
<1> QED
  BY <1>1, Invariance, PTL
=============================================================================
