------------------------------- MODULE Routing -------------------------------
(* Where messages go: GatewayImpl::onMessage (src/gateway.cpp), run by the  *)
(* message worker, together with what it routes by - the pending requests   *)
(* of Client, the event list of Server and, for legacy RPCv1 servers, the   *)
(* map rpcv1_eventMap from the identifier of a listen request to its event  *)
(* - while other threads subscribe, unsubscribe and make requests.          *)
(* The connection stays up.  A step of a caller is one critical section;    *)
(* the races inside Client::request are those of module Client, the         *)
(* notification worker is that of Subscriptions.  The server is external:   *)
(* it reads requests in order, answers or keeps silent, emits events the    *)
(* way the protocol of the connection demands, and may send messages that   *)
(* belong to nothing.  Only the shape of a message is kept.                 *)
EXTENDS Integers, Sequences, FiniteSetsExt

CONSTANTS
  Subs,          \* subscribers: one usercb each
  Reqs,          \* plain requests
  Nobody,        \* neither
  Events,        \* event names
  Wishes,        \* which event each subscriber may want
  LowerModule,   \* each name with its module part (up to '.') in lower case
  IdSpace,       \* 2^32 in the code: the values a MessageID can take
  MaxIds,        \* bound on the identifiers drawn
  Strays,        \* messages that belong to nothing, see Shape
  MaxExtras,     \* bound on them, on the events emitted and on the refused
                 \* calls of connect(), together
  MaxInbox       \* bound on the messages received and not handled

ASSUME RoutingAssumption ==
  /\ Subs \cap Reqs = {} /\ Nobody \notin Subs \cup Reqs
  /\ Wishes \subseteq [Subs -> Events]
  /\ LowerModule \in [Events -> STRING]
  /\ {IdSpace, MaxIds, MaxExtras, MaxInbox} \subseteq Nat /\ IdSpace > 0

Callers == Subs \cup Reqs
MessageID == 0 .. (IdSpace - 1)
NoId == IdSpace

VARIABLES
  eventOf,      \* the event of each subscriber; it stays the same
  serverLegacy, \* the protocol agreed on when the connection was opened
  legacyRPCv1,  \* the gateway's flag
  refused,      \* calls of connect() refused so far
  id_counter, drawn,
  mutex,        \* the subscriber whose call holds HelperImpl::mutex_
  pc,           \* where each caller is
  already,      \* subscribe()'s local alreadySubscribed
  id,           \* the identifier of each caller's last request
  serial,       \* its number among all identifiers drawn
  ans,          \* the future of each caller's last request ...
  by,           \* ... and what the message that answered it was about
  eventList,    \* Server::eventList
  eventMap,     \* rpcv1_eventMap, a partial function
  queue,        \* Client::queue, a partial function
  wire,         \* requests on their way to the server
  listening,    \* what the server was asked to emit, with the identifier
  emitted, strayed,
  inbox,        \* messages received and not handled yet
  taken,        \* the message worker's decision about the current message
  got           \* what the current notification delivered: to whom, and about what

callVars == <<mutex, pc, already>>
idVars == <<id_counter, drawn>>
modeVars == <<eventOf, serverLegacy, legacyRPCv1, refused>>
localVars == <<already, id, serial, ans, by>>
tableVars == <<id, serial, ans, by, queue>>
serverVars == <<wire, listening, emitted, strayed>>
workVars == <<taken, got>>
vars == <<modeVars, idVars, callVars, tableVars, eventList, eventMap, serverVars, inbox, workVars>>

(* The shape of a message: which members it has, and of what kind they are. *)
(* An identifier is an integer, or a boolean or a fraction, which the JSON  *)
(* library converts to one (true is 1), or anything else.                   *)
Shape == [idKind : {"absent", "number", "converted", "other"}, id : Int,
          result : {"absent", "empty", "listening", "value"}, error : BOOLEAN,
          method : Events \cup {"absent", "notString"}, params : BOOLEAN]

ASSUME StraysAssumption == Strays \subseteq Shape

\* No event is called like the marks of a missing or malformed method.
ASSUME EventsAssumption == Events \cap {"absent", "notString"} = {}

Blank == [idKind |-> "absent", id |-> 0, result |-> "absent", error |-> FALSE,
          method |-> "absent", params |-> FALSE]
Reply(i, r) == [Blank EXCEPT !.idKind = "number", !.id = i, !.result = r]
Refusal(i) == [Blank EXCEPT !.idKind = "number", !.id = i, !.error = TRUE]
Notification(e) == [Blank EXCEPT !.method = e, !.params = TRUE]

\* What a message is about, known to the server only: the n-th request, which
\* it answers, an event it emits, or nothing.
ReplyTo(c, n) == <<"reply", c, n>>
About(e) == <<"event", e>>
Nothing == <<"nothing">>

Idle == [to |-> "nobody", id |-> 0, event |-> "none", msg |-> [shape |-> Blank, about |-> Nothing]]

Without(f, i) == [j \in DOMAIN f \ {i} |-> f[j]]
With(f, i, v) == [j \in DOMAIN f \cup {i} |-> IF j = i THEN v ELSE f[j]]

Init ==
  /\ eventOf \in Wishes
  /\ serverLegacy \in BOOLEAN /\ legacyRPCv1 = serverLegacy /\ refused = 0
  /\ id_counter = 0 /\ drawn = 0
  /\ mutex = Nobody
  /\ pc = [c \in Callers |-> "new"]
  /\ already = [s \in Subs |-> FALSE]
  /\ id = [c \in Callers |-> NoId]
  /\ serial = [c \in Callers |-> 0]
  /\ ans = [c \in Callers |-> "none"]
  /\ by = [c \in Callers |-> Nothing]
  /\ eventList = {}
  /\ eventMap = <<>> /\ queue = <<>>
  /\ wire = <<>> /\ listening = {} /\ emitted = 0 /\ strayed = 0
  /\ inbox = <<>> /\ taken = Idle /\ got = {}

-----------------------------------------------------------------------------
extras == emitted + strayed + refused

Goto(c, label) == pc' = [pc EXCEPT ![c] = label]

\* getNextMessageID(): an atomic increment that wraps.
Increment == id_counter' = (id_counter + 1) % IdSpace

\* No request stays pending while 2^32 identifiers are drawn: the watchdog is
\* faster.
Draw(c) ==
  /\ drawn < MaxIds
  /\ drawn' = drawn + 1
  /\ Increment
  /\ id_counter' \notin DOMAIN queue
  /\ id' = [id EXCEPT ![c] = id_counter']
  /\ serial' = [serial EXCEPT ![c] = drawn']
  /\ by' = [by EXCEPT ![c] = Nothing]

\* Client::request and Transport::send, over a connection that is up.
Send(c, kind) ==
  /\ queue' = With(queue, id'[c], [caller |-> c, n |-> serial'[c]])
  /\ ans' = [ans EXCEPT ![c] = "pending"]
  /\ wire' = Append(wire, [from |-> c, n |-> serial'[c], id |-> id'[c], kind |-> kind])

\* isAnySubscriber() looks for the name with its module in lower case.
IsAnySubscriber(e) == \E s \in eventList : eventOf[s] = LowerModule[e]

\* A plain request; its reply is delivered through its future.
Request(r) ==
  /\ pc[r] = "new"
  /\ Draw(r) /\ Send(r, "request")
  /\ Goto(r, "waiting")
  /\ UNCHANGED <<modeVars, mutex, already, eventList, eventMap, listening, emitted, strayed,
                 inbox, workVars>>

\* The promise of a queued caller is fulfilled.  The caller may have given up
\* on that future and made another request since.
Fulfil(i, answer, about) ==
  /\ LET q == queue[i] IN
     IF serial[q.caller] = q.n
       THEN /\ ans' = [ans EXCEPT ![q.caller] = answer]
            /\ by' = [by EXCEPT ![q.caller] = about]
       ELSE UNCHANGED <<ans, by>>
  /\ queue' = Without(queue, i)

\* The watchdog takes an overdue caller out of the table: Timedout.
TimeOut(i) ==
  /\ i \in DOMAIN queue
  /\ Fulfil(i, "error", Nothing)
  /\ UNCHANGED <<modeVars, idVars, callVars, id, serial, eventList, eventMap, serverVars, inbox, workVars>>

-----------------------------------------------------------------------------
(* GatewayImpl::subscribe(). *)

\* The helper's mutex, taken by HelperImpl::subscribe and unsubscribe, lets in
\* one call at a time.
SubscribeCall(s) ==
  /\ pc[s] = "new"
  /\ mutex = Nobody
  /\ mutex' = s
  /\ Goto(s, "check")
  /\ UNCHANGED <<modeVars, idVars, already, tableVars, eventList, eventMap, serverVars, inbox, workVars>>

\* The mutex is given back, and the call returns; its locals are gone.
Return(s, label) ==
  /\ Goto(s, label)
  /\ mutex' = Nobody
  /\ already' = [already EXCEPT ![s] = FALSE]
  /\ id' = [id EXCEPT ![s] = NoId]
  /\ serial' = [serial EXCEPT ![s] = 0]
  /\ ans' = [ans EXCEPT ![s] = "none"]
  /\ by' = [by EXCEPT ![s] = Nothing]

\* It goes on instead.
Continue(s, label) == Goto(s, label) /\ UNCHANGED <<mutex, localVars>>

SubscribeCheck(s) ==
  /\ pc[s] = "check"
  /\ already' = [already EXCEPT ![s] = IsAnySubscriber(eventOf[s])]
  /\ Goto(s, "add")
  /\ UNCHANGED <<modeVars, idVars, mutex, tableVars, eventList, eventMap, serverVars, inbox, workVars>>

SubscribeAdd(s) ==
  /\ pc[s] = "add"
  /\ eventList' = eventList \cup {s}
  /\ \/ already[s] /\ Return(s, "subscribed")
     \/ ~already[s] /\ Continue(s, "record")
  /\ UNCHANGED <<modeVars, idVars, queue, eventMap, serverVars, inbox, workVars>>

RecordedNothing(s) == eventMap
Recorded(s) == IF legacyRPCv1 THEN With(eventMap, id'[s], eventOf[s]) ELSE eventMap

\* rpcv1_eventMap[id] = event, before the request can be answered.
SubscribeRecord(s) ==
  /\ pc[s] = "record"
  /\ Draw(s)
  /\ eventMap' = Recorded(s)
  /\ Goto(s, "sendOn")
  /\ UNCHANGED <<modeVars, mutex, already, ans, queue, eventList, serverVars, inbox, workVars>>

SubscribeSend(s) ==
  /\ pc[s] = "sendOn"
  /\ UNCHANGED <<id, serial, by>> /\ Send(s, "listen")
  /\ Goto(s, "ackOn")
  /\ UNCHANGED <<modeVars, idVars, mutex, already, eventList, eventMap, listening, emitted, strayed,
                 inbox, workVars>>

\* wait_for(waitTime_ms): an answer, or Timedout.
SubscribeAck(s) ==
  /\ pc[s] = "ackOn"
  /\ \/ ans[s] = "ok" /\ Return(s, "subscribed")
     \/ ans[s] \in {"pending", "error"} /\ Continue(s, "rollback")
  /\ UNCHANGED <<modeVars, idVars, queue, eventList, eventMap, serverVars, inbox, workVars>>

SubscribeRollback(s) ==
  /\ pc[s] = "rollback"
  /\ eventList' = eventList \ {s}
  /\ Goto(s, "forgetOn")
  /\ UNCHANGED <<modeVars, idVars, mutex, already, tableVars, eventMap, serverVars, inbox, workVars>>

ForgottenNothing(s) == eventMap
Forgotten(s) == IF legacyRPCv1 THEN Without(eventMap, id[s]) ELSE eventMap

SubscribeForget(s) ==
  /\ pc[s] = "forgetOn"
  /\ eventMap' = Forgotten(s)
  /\ Return(s, "new")
  /\ UNCHANGED <<modeVars, idVars, queue, eventList, serverVars, inbox, workVars>>

-----------------------------------------------------------------------------
(* GatewayImpl::unsubscribe(). *)

UnsubscribeCall(s) ==
  /\ pc[s] = "subscribed"
  /\ mutex = Nobody
  /\ mutex' = s
  /\ Goto(s, "remove")
  /\ UNCHANGED <<modeVars, idVars, already, tableVars, eventList, eventMap, serverVars, inbox, workVars>>

UnsubscribeRemove(s) ==
  /\ pc[s] = "remove"
  /\ eventList' = eventList \ {s}
  /\ Goto(s, "others")
  /\ UNCHANGED <<modeVars, idVars, mutex, already, tableVars, eventMap, serverVars, inbox, workVars>>

\* Other listeners remain: the upstream subscription is retained.
UnsubscribeCheck(s) ==
  /\ pc[s] = "others"
  /\ \/ IsAnySubscriber(eventOf[s]) /\ Return(s, "new")
     \/ ~IsAnySubscriber(eventOf[s]) /\ Continue(s, "forgetOff")
  /\ UNCHANGED <<modeVars, idVars, queue, eventList, eventMap, serverVars, inbox, workVars>>

\* The first entry of the event is erased, and no other.
UnsubscribeForget(s) ==
  /\ pc[s] = "forgetOff"
  /\ LET entries == {i \in DOMAIN eventMap : eventMap[i] = eventOf[s]} IN
     eventMap' = IF legacyRPCv1 /\ entries # {} THEN Without(eventMap, Min(entries)) ELSE eventMap
  /\ Goto(s, "sendOff")
  /\ UNCHANGED <<modeVars, idVars, mutex, already, tableVars, eventList, serverVars, inbox, workVars>>

UnsubscribeSend(s) ==
  /\ pc[s] = "sendOff"
  /\ Draw(s) /\ Send(s, "unlisten")
  /\ Goto(s, "ackOff")
  /\ UNCHANGED <<modeVars, mutex, already, eventList, eventMap, listening, emitted, strayed,
                 inbox, workVars>>

\* wait_for(50 ms), and the call returns with or without an answer.
UnsubscribeAck(s) ==
  /\ pc[s] = "ackOff"
  /\ Return(s, "new")
  /\ UNCHANGED <<modeVars, idVars, queue, eventList, eventMap, serverVars, inbox, workVars>>

-----------------------------------------------------------------------------
(* A connect() while the connection is up: refused with AlreadyConnected,   *)
(* but legacyRPCv1 has been assigned from its configuration by then.        *)

ConnectRefused ==
  /\ extras < MaxExtras
  /\ refused' = refused + 1
  /\ legacyRPCv1' \in BOOLEAN
  /\ UNCHANGED <<eventOf, serverLegacy, idVars, callVars, tableVars, eventList, eventMap, serverVars, inbox, workVars>>

-----------------------------------------------------------------------------
(* The server. *)

Deliver(shape, about) == /\ Len(inbox) < MaxInbox
                         /\ inbox' = Append(inbox, [shape |-> shape, about |-> about])

\* A request is read; it is answered, refused, or dropped without an answer.
\* An event is emitted as the last listen request for it asked, by a legacy
\* server under the identifier of that request.
ServerReads ==
  /\ wire # <<>>
  /\ wire' = Tail(wire)
  /\ LET m == Head(wire)
         e == eventOf[m.from]
     IN \/ /\ m.kind = "request"
           /\ \E r \in {"empty", "value"} : Deliver(Reply(m.id, r), ReplyTo(m.from, m.n))
           /\ UNCHANGED listening
        \/ /\ m.kind = "listen"
           /\ listening' = {l \in listening : l.event # e} \cup {[event |-> e, id |-> m.id]}
           /\ Deliver(Reply(m.id, "listening"), ReplyTo(m.from, m.n))
        \/ /\ m.kind = "unlisten"
           /\ listening' = {l \in listening : l.event # e}
           /\ Deliver(Reply(m.id, "listening"), ReplyTo(m.from, m.n))
        \/ Deliver(Refusal(m.id), ReplyTo(m.from, m.n)) /\ UNCHANGED listening
        \/ UNCHANGED <<inbox, listening>>
  /\ UNCHANGED <<modeVars, idVars, callVars, tableVars, eventList, eventMap, emitted, strayed, workVars>>

ServerEmits ==
  /\ extras < MaxExtras
  /\ emitted' = emitted + 1
  /\ \E l \in listening :
       Deliver(IF serverLegacy THEN Reply(l.id, "value") ELSE Notification(l.event), About(l.event))
  /\ UNCHANGED <<modeVars, idVars, callVars, tableVars, eventList, eventMap, wire, listening, strayed, workVars>>

ServerStrays ==
  /\ extras < MaxExtras
  /\ strayed' = strayed + 1
  /\ \E m \in Strays : Deliver(m, Nothing)
  /\ UNCHANGED <<modeVars, idVars, callVars, tableVars, eventList, eventMap, wire, listening, emitted, workVars>>

-----------------------------------------------------------------------------
(* GatewayImpl::onMessage(), by the message worker: the decision, and then  *)
(* Client::response() or Server::notify().                                  *)

Take(decision) ==
  /\ taken = Idle
  /\ taken' = [decision EXCEPT !.msg = Head(inbox)]
  /\ got' = {}
  /\ inbox' = Tail(inbox)
  /\ UNCHANGED <<modeVars, idVars, callVars, tableVars, eventList, eventMap, serverVars>>

IsResponse(m) == m.idKind # "absent" /\ (m.result # "absent" \/ m.error)

\* get<MessageID>() takes what it can convert, and of that the low bits,
\* whatever its sign and size; of anything else it throws.
Converts(m) == m.idKind \in {"number", "converted"}
ToMessageID(i) == i % IdSpace

IsAckedOrValue(m) == m.result \notin {"absent", "empty"}
IsValue(m) == m.result \notin {"absent", "empty", "listening"}

\* A result under the identifier of a listen request, not an acknowledgement:
\* the one place where the identifier must be an unsigned integer.
IsLegacyEvent(m) ==
  /\ IsResponse(m) /\ legacyRPCv1 /\ IsValue(m)
  /\ m.idKind = "number" /\ m.id >= 0
  /\ ToMessageID(m.id) \in DOMAIN eventMap

IsMethodCall(m) == ~IsResponse(m) /\ m.method # "absent" /\ m.params
IsNotification(m) == IsMethodCall(m) /\ m.idKind = "absent"

\* The map is looked up and left unlocked before notify() is called.
TakeLegacyEvent ==
  /\ inbox # <<>>
  /\ LET m == Head(inbox).shape IN
     /\ IsLegacyEvent(m)
     /\ Take([Idle EXCEPT !.to = "server", !.event = eventMap[ToMessageID(m.id)]])

TakeResponse ==
  /\ inbox # <<>>
  /\ LET m == Head(inbox).shape IN
     /\ IsResponse(m) /\ ~IsLegacyEvent(m)
     /\ Converts(m)
     /\ Take([Idle EXCEPT !.to = "client", !.id = ToMessageID(m.id)])

TakeNotification ==
  /\ inbox # <<>>
  /\ LET m == Head(inbox).shape IN
     /\ IsNotification(m)
     /\ m.method # "notString"
     /\ Take([Idle EXCEPT !.to = "server", !.event = m.method])

\* Logged and dropped; a conversion that throws (an identifier that is null, a
\* string or a structure, a method that is no string) ends in
\* processQueuedMessages().
TakeInvalid ==
  /\ inbox # <<>>
  /\ LET m == Head(inbox).shape IN
     \/ IsResponse(m) /\ ~Converts(m)
     \/ ~IsResponse(m) /\ ~(IsNotification(m) /\ m.method # "notString")
  /\ taken = Idle
  /\ inbox' = Tail(inbox)
  /\ UNCHANGED <<modeVars, idVars, callVars, tableVars, eventList, eventMap, serverVars, workVars>>

\* Client::response(): the caller in the table is answered; without one the
\* message is logged ("No receiver").
Respond ==
  /\ taken.to = "client"
  /\ LET i == taken.id IN
     \/ /\ i \in DOMAIN queue
        /\ Fulfil(i, IF taken.msg.shape.error THEN "error" ELSE "ok", taken.msg.about)
     \/ i \notin DOMAIN queue /\ UNCHANGED <<ans, by, queue>>
  /\ taken' = Idle
  /\ UNCHANGED <<modeVars, idVars, callVars, id, serial, eventList, eventMap, serverVars, inbox, got>>

\* Server::notify(): the callbacks registered now are queued.
Notify ==
  /\ taken.to = "server"
  /\ got' = {[sub |-> s, about |-> taken.msg.about] :
                       s \in {s \in eventList : eventOf[s] = taken.event}}
  /\ taken' = Idle
  /\ UNCHANGED <<modeVars, idVars, callVars, tableVars, eventList, eventMap, serverVars, inbox>>

-----------------------------------------------------------------------------
Subscribe(s) == \/ SubscribeCall(s) \/ SubscribeCheck(s) \/ SubscribeAdd(s) \/ SubscribeRecord(s)
                \/ SubscribeSend(s) \/ SubscribeAck(s) \/ SubscribeRollback(s) \/ SubscribeForget(s)

Unsubscribe(s) == \/ UnsubscribeCall(s) \/ UnsubscribeRemove(s) \/ UnsubscribeCheck(s)
                  \/ UnsubscribeForget(s) \/ UnsubscribeSend(s) \/ UnsubscribeAck(s)

OnMessage == \/ TakeLegacyEvent \/ TakeResponse \/ TakeNotification \/ TakeInvalid
             \/ Respond \/ Notify

Next == \/ \E s \in Subs : Subscribe(s) \/ Unsubscribe(s)
        \/ \E r \in Reqs : Request(r)
        \/ \E i \in MessageID : TimeOut(i)
        \/ ConnectRefused
        \/ ServerReads \/ ServerEmits \/ ServerStrays
        \/ OnMessage

Spec == Init /\ [][Next]_vars

-----------------------------------------------------------------------------
\* "Incoming responses must be matched to outstanding requests by `id` and
\* dispatched to the appropriate callback" (json_rpc_handling_spec.md:16): a
\* future is answered by the reply to its own request, never by an event, by
\* another caller's reply or by the late reply to a request its caller gave up
\* on, and no event callback is given a reply, or another event - although one
\* space of identifiers serves all of them.  (A message the server made up may
\* reach anybody.)
ReachesItsOwner ==
  /\ \A c \in Callers : by[c] \in {Nothing, ReplyTo(c, serial[c])}
  /\ \A g \in got : g.about \in {Nothing, About(eventOf[g.sub])}

\* No call is in progress.
Quiet == \A s \in Subs : pc[s] \in {"new", "subscribed"}

\* The identifiers under which the server emits e once it has read the wire.
ServedAs(e) ==
  LET asked == {k \in DOMAIN wire : wire[k].from \in Subs /\ eventOf[wire[k].from] = e}
      last == wire[Max(asked)]
  IN IF asked = {} THEN {l.id : l \in {l \in listening : l.event = e}}
     ELSE IF last.kind = "listen" THEN {last.id} ELSE {}

\* No refused connect() has changed legacyRPCv1, and the server has not
\* acknowledged what it was not asked.
Undisturbed == refused = 0 /\ strayed = 0

\* isAnySubscriber() knows only events whose module is in lower case.
Findable(e) == LowerModule[e] = e

\* Whenever no call is in progress, event list, event map and server agree.
\* The server emits, or is about to be asked for, every event with a
\* registered callback, in legacy mode under an identifier that rpcv1_eventMap
\* leads back to that event; and no entry of the map outlives the last
\* subscriber of its event ("Unsubscribe should clean up the rpcv1_eventMap
\* entry", test/unit/gatewayTest.cpp:1146), whether that subscriber left or
\* failed.  The exceptions are those Findable and Undisturbed name.
SubscriptionsAgree ==
  Quiet /\ Undisturbed =>
    /\ \A s \in eventList : Findable(eventOf[s]) =>
         \E i \in ServedAs(eventOf[s]) :
           serverLegacy => i \in DOMAIN eventMap /\ eventMap[i] = eventOf[s]
    /\ \A i \in DOMAIN eventMap : Findable(eventMap[i]) =>
         \E s \in eventList : eventOf[s] = eventMap[i]

\* An event emitted by the server reaches notify() under its own name, unless
\* a call that changes the subscriptions is in progress, with the exceptions
\* Findable and Undisturbed name.
EventsDispatched ==
  [][\A s \in eventList :
       /\ Quiet /\ Undisturbed /\ Findable(eventOf[s])
       /\ inbox # <<>> /\ inbox' = Tail(inbox)
       /\ Head(inbox).about = About(eventOf[s])
       => taken'.to = "server" /\ taken'.event = eventOf[s]]_vars
=============================================================================
