---------------------------- MODULE RoutingProofs ----------------------------
(* Theorems about the routing of messages, for any number of subscribers,   *)
(* requests, events and messages that belong to nothing, as long as no      *)
(* MessageID is used twice (MaxIds <= IdSpace): for the first 2^32 requests *)
(* of the code.  What is on the wire, at the server, in the inbox and in    *)
(* the two tables knows a request by its identifier alone; the invariant    *)
(* says that there is one assignment of identifiers to callers that all of  *)
(* them agree with.  The second half is about the event list, the event map *)
(* and the server between the calls of subscribe() and unsubscribe(): one   *)
(* listen identifier per event with subscribers, the same in all three, and *)
(* in every event on its way.                                               *)
EXTENDS Routing, SequenceTheorems, WellFoundedInduction, TLAPS

\* The identifier of the n-th request: getNextMessageID() wraps once.
IdOf(n) == IF n = IdSpace THEN 0 ELSE n

Used == {IdOf(n) : n \in 1 .. drawn}

Abouts == {Nothing} \cup {ReplyTo(c, n) : c \in Callers, n \in 0 .. MaxIds} \cup {About(e) : e \in Events}

Messages == [shape : Shape, about : Abouts]
Decisions == [to : {"nobody", "client", "server"}, id : Int, event : Events \cup {"none"}, msg : Messages]
Requests == [from : Callers, n : 0 .. MaxIds, id : MessageID, kind : {"request", "listen", "unlisten"}]

\* Where a caller can be, but for the moment before it sends a listen request.
Labels == {"new", "waiting", "check", "add", "record", "ackOn", "rollback", "forgetOn", "subscribed",
           "remove", "others", "forgetOff", "sendOff", "ackOff"}

\* The variables keep their types.
TypeInv ==
  /\ eventOf \in [Subs -> Events]
  /\ drawn \in 0 .. MaxIds /\ id_counter = IdOf(drawn)
  /\ pc \in [Callers -> Labels \cup {"sendOn"}]
  /\ id \in [Callers -> 0 .. IdSpace]
  /\ serial \in [Callers -> 0 .. drawn]
  /\ by \in [Callers -> Abouts]
  /\ wire \in Seq(Requests)
  /\ inbox \in Seq(Messages)
  /\ taken \in Decisions

-----------------------------------------------------------------------------
(* own: who drew each identifier; sent: those that a request was sent under. *)

TableOk(own, sent) == \A i \in DOMAIN queue :
  /\ i \in sent
  /\ queue[i].n \in 1 .. drawn /\ i = IdOf(queue[i].n)
  /\ queue[i].caller = own[i]

CallersOk(own, sent) == \A c \in Callers :
  /\ serial[c] # 0 => id[c] = IdOf(serial[c]) /\ own[id[c]] = c
  /\ pc[c] = "sendOn" => c \in Subs /\ serial[c] # 0 /\ id[c] \notin sent

AskOk(m, own, sent) ==
  /\ m.id \in sent /\ m.n \in 1 .. drawn
  /\ m.id = IdOf(m.n) /\ own[m.id] = m.from
  /\ m.kind = "request" <=> m.from \in Reqs

WireOk(own, sent) == \A k \in 1 .. Len(wire) : AskOk(wire[k], own, sent)

ListeningOk(own, sent) == \A l \in listening :
  l.id \in sent /\ own[l.id] \in Subs /\ l.event = eventOf[own[l.id]]

MapOk(own) == \A i \in DOMAIN eventMap :
  i \in Used /\ own[i] \in Subs /\ eventMap[i] = eventOf[own[i]]

\* A message that the server sent because of the n-th request, ...
OfReply(m, own, n) ==
  /\ m.about = ReplyTo(own[IdOf(n)], n)
  /\ m.shape.idKind = "number" /\ m.shape.id = IdOf(n)
  /\ own[IdOf(n)] \in Subs => m.shape.result \in {"listening", "absent"}

\* ... or because of an event that was asked for under i.
OfEvent(m, own, i) ==
  /\ own[i] \in Subs
  /\ m.about = About(eventOf[own[i]])
  /\ m.shape \in {Reply(i, "value"), Notification(eventOf[own[i]])}

Sound(m, own, sent) ==
  \/ m.about = Nothing
  \/ \E n \in 1 .. drawn : IdOf(n) \in sent /\ OfReply(m, own, n)
  \/ \E i \in sent : OfEvent(m, own, i)

InboxOk(own, sent) == \A k \in 1 .. Len(inbox) : Sound(inbox[k], own, sent)
TakenOk(own, sent) == Sound(taken.msg, own, sent)

Agree(own, sent) ==
  /\ TableOk(own, sent) /\ CallersOk(own, sent) /\ WireOk(own, sent)
  /\ ListeningOk(own, sent) /\ MapOk(own)
  /\ InboxOk(own, sent) /\ TakenOk(own, sent)

Owners == [MessageID -> Callers \cup {Nobody}]
OwnerInv == \E own \in Owners, sent \in SUBSET Used : Agree(own, sent)

-----------------------------------------------------------------------------
(* The server acknowledges a listen request before it emits the event under *)
(* its identifier, and messages are handled in order.                       *)

IsEvent(m) == \E e \in Events : m.about = About(e)

Answering(i) == taken.to = "client" /\ taken.id = i

Acks(m, i) == m.shape.idKind = "number" /\ m.shape.id = i /\ m.shape.result = "listening"

\* An event that is under way under an identifier of the table.
Claims(m) == IsEvent(m) /\ m.shape.idKind = "number" /\ m.shape.id \in DOMAIN queue

ListeningAcked == \A l \in listening : l.id \in DOMAIN queue =>
  Answering(l.id) \/ \E j \in 1 .. Len(inbox) : Acks(inbox[j], l.id)

EventsAcked == \A k \in 1 .. Len(inbox) : Claims(inbox[k]) =>
  \/ Answering(inbox[k].shape.id)
  \/ \E j \in 1 .. Len(inbox) : j < k /\ Acks(inbox[j], inbox[k].shape.id)

OrderInv ==
  /\ ListeningAcked /\ EventsAcked
  /\ taken.to = "client" /\ IsEvent(taken.msg) => taken.id \notin DOMAIN queue

\* What the message worker has decided about the message in its hand.
TakenInv ==
  /\ taken.to = "nobody" => taken = Idle
  /\ taken.to = "client" => /\ Converts(taken.msg.shape)
                            /\ taken.id = ToMessageID(taken.msg.shape.id)
  /\ taken.to = "server" => taken.msg.about \in {Nothing, About(taken.event)}

IInv == TypeInv /\ OwnerInv /\ OrderInv /\ TakenInv /\ ReachesItsOwner

-----------------------------------------------------------------------------
\* The first 2^32 calls of getNextMessageID() return different numbers, each
\* of which get<MessageID>() reads back as it is.
LEMMA Identifiers ==
  ASSUME MaxIds <= IdSpace
  PROVE  /\ \A m, n \in 1 .. MaxIds : IdOf(m) = IdOf(n) => m = n
         /\ \A n \in 1 .. MaxIds : IdOf(n) \in MessageID
         /\ \A i \in MessageID : ToMessageID(i) = i
<1>1. IdSpace \in Nat /\ MaxIds \in Nat /\ IdSpace > 0
  BY RoutingAssumption
<1>2. \A i \in 0 .. (IdSpace - 1) : i % IdSpace = i
  BY <1>1
<1> QED
  BY <1>1, <1>2 DEF IdOf, MessageID, ToMessageID

\* getNextMessageID() returns an identifier that was not used before.
LEMMA Fresh ==
  ASSUME MaxIds <= IdSpace, TypeInv, drawn < MaxIds, drawn' = drawn + 1, Increment
  PROVE  /\ drawn' \in 1 .. MaxIds /\ drawn' \in 0 .. MaxIds
         /\ id_counter' = IdOf(drawn') /\ id_counter' \in MessageID
         /\ id_counter' \notin Used /\ Used' = Used \cup {id_counter'}
<1>1. IdSpace \in Nat /\ MaxIds \in Nat /\ IdSpace > 0 /\ drawn \in Nat
  BY RoutingAssumption DEF TypeInv
<1>2. drawn' \in 1 .. MaxIds /\ drawn' \in 0 .. MaxIds
  BY <1>1
<1>3. id_counter = drawn
  BY <1>1 DEF TypeInv, IdOf
<1>4. ASSUME drawn + 1 < IdSpace PROVE id_counter' = IdOf(drawn')
  <2>1. (drawn + 1) % IdSpace = drawn + 1
    BY <1>1, <1>4
  <2> QED
    BY <1>1, <1>3, <1>4, <2>1 DEF Increment, IdOf
<1>5. ASSUME drawn + 1 = IdSpace PROVE id_counter' = IdOf(drawn')
  <2>1. (drawn + 1) % IdSpace = 0
    BY <1>1, <1>5
  <2> QED
    BY <1>3, <1>5, <2>1 DEF Increment, IdOf
<1>6. id_counter' = IdOf(drawn')
  BY <1>1, <1>4, <1>5
<1>7. id_counter' \in MessageID
  BY <1>2, <1>6, Identifiers
<1>8. \A n \in 1 .. drawn : IdOf(n) # id_counter'
  <2> TAKE n \in 1 .. drawn
  <2>1. n \in 1 .. MaxIds /\ n # drawn'
    BY <1>1
  <2> QED
    BY <1>2, <1>6, <2>1, Identifiers
<1>9. 1 .. drawn' = (1 .. drawn) \cup {drawn'}
  BY <1>1
<1> QED
  BY <1>2, <1>6, <1>7, <1>8, <1>9 DEF Used

\* Used identifiers are numbers a MessageID can hold.
LEMMA UsedIds ==
  ASSUME MaxIds <= IdSpace, TypeInv
  PROVE  Used \subseteq MessageID /\ \A n \in 1 .. drawn : n \in 1 .. MaxIds /\ IdOf(n) \in Used
<1>1. \A n \in 1 .. drawn : n \in 1 .. MaxIds
  BY RoutingAssumption DEF TypeInv
<1> QED
  BY <1>1, Identifiers DEF Used

\* What a message is about is one thing only.
LEMMA Distinct ==
  /\ \A c, n, e : ReplyTo(c, n) # About(e)
  /\ \A c, n : ReplyTo(c, n) # Nothing
  /\ \A e : About(e) # Nothing
  /\ \A c, n, d, m : ReplyTo(c, n) = ReplyTo(d, m) => c = d /\ n = m
  /\ \A e, f : About(e) = About(f) => e = f
<1>1. \A c, n, e : ReplyTo(c, n)[1] = "reply" /\ About(e)[1] = "event" /\ Nothing[1] = "nothing"
  BY DEF ReplyTo, About, Nothing
<1>2. \A c, n : ReplyTo(c, n)[2] = c /\ ReplyTo(c, n)[3] = n
  BY DEF ReplyTo
<1>3. \A e : About(e)[2] = e
  BY DEF About
<1> QED
  BY <1>1, <1>2, <1>3

\* The messages of the server have a shape.
LEMMA Shapes ==
  /\ Blank \in Shape
  /\ \A i \in MessageID, r \in {"empty", "listening", "value"} :
       /\ Reply(i, r) \in Shape
       /\ Reply(i, r).idKind = "number" /\ Reply(i, r).id = i /\ Reply(i, r).result = r
  /\ \A i \in MessageID :
       /\ Refusal(i) \in Shape
       /\ Refusal(i).idKind = "number" /\ Refusal(i).id = i /\ Refusal(i).result = "absent"
       /\ Refusal(i).error
  /\ \A e \in Events :
       /\ Notification(e) \in Shape
       /\ Notification(e).idKind = "absent" /\ Notification(e).method = e
       /\ Notification(e).result = "absent" /\ ~Notification(e).error
<1>1. MessageID \subseteq Int
  BY RoutingAssumption DEF MessageID
<1>2. Blank \in Shape
  BY DEF Shape, Blank
<1>3. ASSUME NEW i \in MessageID, NEW r \in {"empty", "listening", "value"}
      PROVE  /\ Reply(i, r) \in Shape
             /\ Reply(i, r).idKind = "number" /\ Reply(i, r).id = i /\ Reply(i, r).result = r
  BY <1>1 DEF Shape, Blank, Reply
<1>4. ASSUME NEW i \in MessageID
      PROVE  /\ Refusal(i) \in Shape
             /\ Refusal(i).idKind = "number" /\ Refusal(i).id = i /\ Refusal(i).result = "absent"
             /\ Refusal(i).error
  BY <1>1 DEF Shape, Blank, Refusal
<1>5. ASSUME NEW e \in Events
      PROVE  /\ Notification(e) \in Shape
             /\ Notification(e).idKind = "absent" /\ Notification(e).method = e
             /\ Notification(e).result = "absent" /\ ~Notification(e).error
  <2>1. Blank.idKind = "absent" /\ Blank.result = "absent" /\ Blank.error = FALSE
    BY DEF Blank
  <2>2. ASSUME NEW b \in Shape, NEW n, n = [b EXCEPT !.method = e, !.params = TRUE]
        PROVE  /\ n \in Shape /\ n.idKind = b.idKind /\ n.method = e
               /\ n.result = b.result /\ n.error = b.error
    BY <2>2 DEF Shape
  <2>3. Notification(e) = [Blank EXCEPT !.method = e, !.params = TRUE]
    BY DEF Notification
  <2> QED
    BY <1>2, <2>1, <2>2, <2>3
<1> QED
  BY <1>2, <1>3, <1>4, <1>5

\* The message worker has nothing in its hand.
LEMMA IdleFields == Idle \in Decisions /\ Idle.to = "nobody" /\ Idle.msg.about = Nothing
<1>1. [shape |-> Blank, about |-> Nothing] \in Messages
  BY Shapes DEF Messages, Abouts
<1>2. Idle \in Decisions /\ Idle.to = "nobody" /\ Idle.msg = [shape |-> Blank, about |-> Nothing]
  BY <1>1 DEF Idle, Decisions
<1> QED
  BY <1>2

-----------------------------------------------------------------------------
(* What the steps do to the variables of the invariant. *)

\* A critical section of subscribe() or unsubscribe() in which no identifier
\* is drawn and nothing is sent.
LocalStep(s) ==
  /\ UNCHANGED <<eventOf, idVars, queue, wire, listening, inbox, workVars>>
  /\ eventMap' = eventMap \/ \E i : eventMap' = Without(eventMap, i)
  /\ \E label \in Labels : Goto(s, label)
  /\ \/ UNCHANGED <<id, serial, by>>
     \/ /\ id' = [id EXCEPT ![s] = NoId]
        /\ serial' = [serial EXCEPT ![s] = 0]
        /\ by' = [by EXCEPT ![s] = Nothing]

\* All critical sections of subscribe() and unsubscribe() but the drawing of an
\* identifier and the sending are of that kind.
LEMMA Local ==
  ASSUME NEW s \in Subs,
         \/ SubscribeCall(s) \/ SubscribeCheck(s) \/ SubscribeAdd(s) \/ SubscribeAck(s)
         \/ SubscribeRollback(s) \/ SubscribeForget(s) \/ UnsubscribeCall(s)
         \/ UnsubscribeRemove(s) \/ UnsubscribeCheck(s) \/ UnsubscribeForget(s) \/ UnsubscribeAck(s)
  PROVE  LocalStep(s)
<1> DEFINE Stays == UNCHANGED <<id, serial, by>>
           Resets == /\ id' = [id EXCEPT ![s] = NoId]
                     /\ serial' = [serial EXCEPT ![s] = 0]
                     /\ by' = [by EXCEPT ![s] = Nothing]
           Elsewhere == UNCHANGED <<eventOf, idVars, queue, wire, listening, inbox, workVars>>
           MapStep == eventMap' = eventMap \/ \E i : eventMap' = Without(eventMap, i)
<1>1. Elsewhere
  BY DEF SubscribeCall, SubscribeCheck, SubscribeAdd, SubscribeAck, SubscribeRollback,
         SubscribeForget, UnsubscribeCall, UnsubscribeRemove, UnsubscribeCheck, UnsubscribeForget,
         UnsubscribeAck, modeVars, idVars, tableVars, serverVars, workVars
<1>2. MapStep
  BY DEF SubscribeCall, SubscribeCheck, SubscribeAdd, SubscribeAck, SubscribeRollback,
         SubscribeForget, Forgotten, UnsubscribeCall, UnsubscribeRemove, UnsubscribeCheck,
         UnsubscribeForget, UnsubscribeAck
<1>3. \/ Goto(s, "check") \/ Goto(s, "add") \/ Goto(s, "subscribed") \/ Goto(s, "record")
      \/ Goto(s, "rollback") \/ Goto(s, "forgetOn") \/ Goto(s, "new") \/ Goto(s, "remove")
      \/ Goto(s, "others") \/ Goto(s, "forgetOff") \/ Goto(s, "sendOff")
  BY DEF SubscribeCall, SubscribeCheck, SubscribeAdd, SubscribeAck, SubscribeRollback,
         SubscribeForget, UnsubscribeCall, UnsubscribeRemove, UnsubscribeCheck,
         UnsubscribeForget, UnsubscribeAck, Return, Continue
<1>4. Stays \/ Resets
  BY DEF SubscribeCall, SubscribeCheck, SubscribeAdd, SubscribeAck, SubscribeRollback,
         SubscribeForget, UnsubscribeCall, UnsubscribeRemove, UnsubscribeCheck,
         UnsubscribeForget, UnsubscribeAck, Return, Continue, tableVars, localVars
<1>5. \E label \in Labels : Goto(s, label)
  BY <1>3 DEF Labels
<1> QED
  BY <1>1, <1>2, <1>4, <1>5 DEF LocalStep

\* An identifier is drawn, and a request is sent under it.
DrawAndSend(c, kind) ==
  /\ Draw(c) /\ Send(c, kind)
  /\ \E label \in Labels : Goto(c, label)
  /\ UNCHANGED <<eventOf, eventMap, listening, inbox, workVars>>

\* The steps that the rest of the proofs distinguish.
LEMMA Cases ==
  ASSUME [Next]_vars
  PROVE  \/ \E s \in Subs : LocalStep(s) \/ SubscribeRecord(s) \/ SubscribeSend(s)
                           \/ DrawAndSend(s, "unlisten")
         \/ \E r \in Reqs : DrawAndSend(r, "request")
         \/ \E i \in MessageID : TimeOut(i)
         \/ ServerReads \/ ServerEmits \/ ServerStrays \/ OnMessage
         \/ ConnectRefused \/ UNCHANGED vars
<1>1. ASSUME NEW s \in Subs, Subscribe(s) \/ Unsubscribe(s)
      PROVE  LocalStep(s) \/ SubscribeRecord(s) \/ SubscribeSend(s) \/ DrawAndSend(s, "unlisten")
  <2>1. CASE UnsubscribeSend(s)
    <3>1. Goto(s, "ackOff") /\ Draw(s) /\ Send(s, "unlisten")
      BY <2>1 DEF UnsubscribeSend
    <3>2. UNCHANGED <<eventOf, eventMap, listening, inbox, workVars>>
      BY <2>1 DEF UnsubscribeSend, modeVars
    <3>3. "ackOff" \in Labels
      BY DEF Labels
    <3> QED
      BY <3>1, <3>2, <3>3, Zenon DEF DrawAndSend
  <2> QED
    BY <1>1, <2>1, Local DEF Subscribe, Unsubscribe
<1>2. ASSUME NEW r \in Reqs, Request(r) PROVE DrawAndSend(r, "request")
  <2>1. Goto(r, "waiting") /\ Draw(r) /\ Send(r, "request")
    BY <1>2 DEF Request
  <2>2. UNCHANGED <<eventOf, eventMap, listening, inbox, workVars>>
    BY <1>2 DEF Request, modeVars
  <2>3. "waiting" \in Labels
    BY DEF Labels
  <2> QED
    BY <2>1, <2>2, <2>3, Zenon DEF DrawAndSend
<1> QED
  BY <1>1, <1>2 DEF Next

-----------------------------------------------------------------------------
\* The first element of a queue is taken; the others move up.
LEMMA FirstOut ==
  ASSUME NEW S, NEW q \in Seq(S), q # <<>>
  PROVE  /\ Len(q) \in Nat /\ 1 \in 1 .. Len(q) /\ Head(q) = q[1] /\ Head(q) \in S
         /\ Tail(q) \in Seq(S) /\ Len(Tail(q)) = Len(q) - 1
         /\ \A k \in 1 .. Len(Tail(q)) : k + 1 \in 1 .. Len(q) /\ Tail(q)[k] = q[k + 1]
<1>1. Len(q) \in Nat /\ Len(q) >= 1 /\ Head(q) = q[1]
  OBVIOUS
<1>2. /\ Head(q) \in S /\ Tail(q) \in Seq(S) /\ Len(Tail(q)) = Len(q) - 1
      /\ \A k \in 1 .. Len(Tail(q)) : Tail(q)[k] = q[k + 1]
  BY HeadTailProperties
<1>3. \A k \in 1 .. Len(Tail(q)) : k + 1 \in 1 .. Len(q)
  BY <1>1, <1>2
<1> QED
  BY <1>1, <1>2, <1>3

\* An element is put at the end of a queue; the others stay where they are.
LEMMA LastIn ==
  ASSUME NEW S, NEW q \in Seq(S), NEW x \in S
  PROVE  /\ Len(q) \in Nat /\ Append(q, x) \in Seq(S) /\ Len(Append(q, x)) = Len(q) + 1
         /\ \A k \in 1 .. Len(q) : k \in 1 .. Len(Append(q, x)) /\ Append(q, x)[k] = q[k]
         /\ Append(q, x)[Len(q) + 1] = x
         /\ \A k \in 1 .. Len(Append(q, x)) : k \in 1 .. Len(q) \/ k = Len(q) + 1
<1>1. Len(q) \in Nat
  OBVIOUS
<1>2. /\ Append(q, x) \in Seq(S) /\ Len(Append(q, x)) = Len(q) + 1
      /\ \A k \in 1 .. Len(q) : Append(q, x)[k] = q[k]
      /\ Append(q, x)[Len(q) + 1] = x
  BY AppendProperties
<1> QED
  BY <1>1, <1>2

\* The assignment of identifiers grows: those that were used keep their owner.
Evolves(own, sent, own2, sent2) ==
  /\ own2 \in Owners /\ sent2 \subseteq Used' /\ sent \subseteq sent2
  /\ \A i \in Used : own2[i] = own[i]
  /\ drawn' \in drawn .. MaxIds /\ UNCHANGED eventOf

\* What agreed with the assignment before it grew still does.
LEMMA Carried ==
  ASSUME MaxIds <= IdSpace, TypeInv, NEW own \in Owners, NEW sent \in SUBSET Used,
         NEW own2, NEW sent2, Evolves(own, sent, own2, sent2)
  PROVE  /\ Used \subseteq Used'
         /\ \A m : AskOk(m, own, sent) => AskOk(m, own2, sent2)'
         /\ \A m : Sound(m, own, sent) => Sound(m, own2, sent2)'
         /\ TableOk(own, sent) /\ (queue' = queue \/ \E i : queue' = Without(queue, i)) =>
              TableOk(own2, sent2)'
         /\ WireOk(own, sent) /\ wire' = wire => WireOk(own2, sent2)'
         /\ ListeningOk(own, sent) /\ listening' = listening => ListeningOk(own2, sent2)'
         /\ MapOk(own) /\ (eventMap' = eventMap \/ \E i : eventMap' = Without(eventMap, i)) => MapOk(own2)'
         /\ InboxOk(own, sent) /\ inbox' = inbox => InboxOk(own2, sent2)'
         /\ TakenOk(own, sent) /\ taken' = taken => TakenOk(own2, sent2)'
<1>1. drawn \in Nat /\ MaxIds \in Nat /\ \A n \in 1 .. drawn : n \in 1 .. drawn'
  BY RoutingAssumption DEF TypeInv, Evolves
<1>2. Used \subseteq Used'
  BY <1>1 DEF Used
<1>3. \A n \in 1 .. drawn : IdOf(n) \in Used
  BY DEF Used
<1>4. ASSUME NEW m, AskOk(m, own, sent) PROVE AskOk(m, own2, sent2)'
  BY <1>1, <1>4 DEF AskOk, Evolves
<1>5. ASSUME NEW m, Sound(m, own, sent) PROVE Sound(m, own2, sent2)'
  <2>1. CASE m.about = Nothing
    BY <2>1 DEF Sound
  <2>2. ASSUME NEW n \in 1 .. drawn, IdOf(n) \in sent, OfReply(m, own, n) PROVE Sound(m, own2, sent2)'
    <3>1. n \in 1 .. drawn' /\ IdOf(n) \in sent2 /\ own2[IdOf(n)] = own[IdOf(n)]
      BY <1>1, <1>3, <2>2 DEF Evolves
    <3>2. OfReply(m, own2, n)
      BY <2>2, <3>1 DEF OfReply
    <3> QED
      BY <3>1, <3>2 DEF Sound
  <2>3. ASSUME NEW i \in sent, OfEvent(m, own, i) PROVE Sound(m, own2, sent2)'
    <3>1. i \in sent2 /\ own2[i] = own[i] /\ eventOf' = eventOf
      BY DEF Evolves
    <3>2. OfEvent(m, own2, i)'
      BY <2>3, <3>1 DEF OfEvent
    <3> QED
      BY <3>1, <3>2 DEF Sound
  <2> QED
    BY <1>5, <2>1, <2>2, <2>3 DEF Sound
<1>6. TableOk(own, sent) /\ (queue' = queue \/ \E i : queue' = Without(queue, i)) => TableOk(own2, sent2)'
  <2> SUFFICES ASSUME TableOk(own, sent), queue' = queue \/ \E i : queue' = Without(queue, i),
                      NEW j \in DOMAIN queue'
               PROVE  /\ j \in sent2 /\ queue'[j].n \in 1 .. drawn' /\ j = IdOf(queue'[j].n)
                      /\ queue'[j].caller = own2[j]
    BY DEF TableOk
  <2>1. j \in DOMAIN queue /\ queue'[j] = queue[j]
    BY DEF Without
  <2> QED
    BY <1>1, <2>1 DEF TableOk, Evolves
<1>7. WireOk(own, sent) /\ wire' = wire => WireOk(own2, sent2)'
  BY <1>4 DEF WireOk
<1>8. ListeningOk(own, sent) /\ listening' = listening => ListeningOk(own2, sent2)'
  BY DEF ListeningOk, Evolves
<1>9. MapOk(own) /\ (eventMap' = eventMap \/ \E i : eventMap' = Without(eventMap, i)) => MapOk(own2)'
  <2> SUFFICES ASSUME MapOk(own), eventMap' = eventMap \/ \E i : eventMap' = Without(eventMap, i),
                      NEW j \in DOMAIN eventMap'
               PROVE  j \in Used' /\ own2[j] \in Subs /\ eventMap'[j] = eventOf'[own2[j]]
    BY DEF MapOk
  <2>1. j \in DOMAIN eventMap /\ eventMap'[j] = eventMap[j]
    BY DEF Without
  <2> QED
    BY <1>2, <2>1 DEF MapOk, Evolves
<1>10. InboxOk(own, sent) /\ inbox' = inbox => InboxOk(own2, sent2)'
  BY <1>5 DEF InboxOk
<1>11. TakenOk(own, sent) /\ taken' = taken => TakenOk(own2, sent2)'
  BY <1>5 DEF TakenOk
<1> QED
  BY <1>2, <1>4, <1>5, <1>6, <1>7, <1>8, <1>9, <1>10, <1>11

-----------------------------------------------------------------------------
\* The caller that draws an identifier becomes its owner.
LEMMA Drawn ==
  ASSUME MaxIds <= IdSpace, TypeInv, NEW own \in Owners, NEW sent \in SUBSET Used,
         NEW c \in Callers, Draw(c), UNCHANGED eventOf
  PROVE  /\ \E own2 : /\ own2[id_counter'] = c
                      /\ Evolves(own, sent, own2, sent)
                      /\ Evolves(own, sent, own2, sent \cup {id_counter'})
         /\ drawn' \in 1 .. drawn' /\ drawn' # 0 /\ drawn' = drawn + 1
         /\ id_counter' = IdOf(drawn') /\ id_counter' \in Used' /\ id_counter' \notin Used
         /\ id' \in [Callers -> 0 .. IdSpace] /\ serial' \in [Callers -> 0 .. drawn']
         /\ id'[c] = id_counter' /\ serial'[c] = drawn'
         /\ \A b \in Callers \ {c} : id'[b] = id[b] /\ serial'[b] = serial[b]
<1>1. drawn < MaxIds /\ drawn' = drawn + 1 /\ Increment /\ drawn \in Nat /\ MaxIds \in Nat
  BY RoutingAssumption DEF Draw, TypeInv
<1>2. /\ drawn' \in 1 .. MaxIds /\ id_counter' = IdOf(drawn') /\ id_counter' \in MessageID
      /\ id_counter' \notin Used /\ Used' = Used \cup {id_counter'}
  BY <1>1, Fresh
<1>3. drawn' \in 1 .. drawn' /\ drawn' # 0 /\ drawn' \in drawn .. MaxIds
  BY <1>1
<1>4. PICK own2 : own2 = [own EXCEPT ![id_counter'] = c]
  OBVIOUS
<1>10. own2 \in Owners /\ own2[id_counter'] = c /\ \A i \in Used : own2[i] = own[i]
  BY <1>2, <1>4 DEF Owners
<1>5. MessageID \subseteq 0 .. IdSpace
  BY RoutingAssumption DEF MessageID
<1>6. id' = [id EXCEPT ![c] = id_counter'] /\ serial' = [serial EXCEPT ![c] = drawn']
  BY DEF Draw
<1>7. id \in [Callers -> 0 .. IdSpace] /\ serial \in [Callers -> 0 .. drawn]
  BY DEF TypeInv
<1>8. id' \in [Callers -> 0 .. IdSpace] /\ id'[c] = id_counter' /\ \A b \in Callers \ {c} : id'[b] = id[b]
  BY <1>2, <1>5, <1>6, <1>7
<1>9. /\ serial' \in [Callers -> 0 .. drawn'] /\ serial'[c] = drawn'
      /\ \A b \in Callers \ {c} : serial'[b] = serial[b]
  BY <1>1, <1>3, <1>6, <1>7
<1>11. own2[id_counter'] = c /\ Evolves(own, sent, own2, sent) /\ Evolves(own, sent, own2, sent \cup {id_counter'})
  BY <1>2, <1>3, <1>10 DEF Evolves
<1> QED
  BY <1>1, <1>2, <1>3, <1>8, <1>9, <1>11

\* A request that is sent under its caller's identifier goes to the table and
\* to the wire.
LEMMA Sent ==
  ASSUME MaxIds <= IdSpace, TypeInv, NEW own \in Owners, NEW sent \in SUBSET Used, Agree(own, sent),
         NEW own2, NEW sent2, Evolves(own, sent, own2, sent2),
         NEW c \in Callers, NEW kind \in {"request", "listen", "unlisten"}, Send(c, kind),
         kind = "request" <=> c \in Reqs,
         serial'[c] \in 1 .. drawn', id'[c] = IdOf(serial'[c]), id'[c] \in sent2, own2[id'[c]] = c
  PROVE  TableOk(own2, sent2)' /\ WireOk(own2, sent2)' /\ wire' \in Seq(Requests)
<1> DEFINE i == id'[c]
           q == [caller |-> c, n |-> serial'[c]]
<1> PICK m : m = [from |-> c, n |-> serial'[c], id |-> i, kind |-> kind]
  OBVIOUS
<1>1. queue' = With(queue, i, q) /\ wire' = Append(wire, m)
  BY DEF Send
<1>2. TableOk(own2, sent2)'
  <2> SUFFICES ASSUME NEW j \in DOMAIN queue'
               PROVE  /\ j \in sent2 /\ queue'[j].n \in 1 .. drawn' /\ j = IdOf(queue'[j].n)
                      /\ queue'[j].caller = own2[j]
    BY DEF TableOk
  <2>1. CASE j = i
    BY <1>1, <2>1 DEF With
  <2>2. CASE j # i
    <3>1. j \in DOMAIN queue /\ queue'[j] = queue[j]
      BY <1>1, <2>2 DEF With
    <3>2. drawn \in Nat /\ drawn' \in drawn .. MaxIds /\ MaxIds \in Nat
      BY RoutingAssumption DEF TypeInv, Evolves
    <3> QED
      BY <3>1, <3>2 DEF Agree, TableOk, Evolves
  <2> QED
    BY <2>1, <2>2
<1>3. m \in Requests
  <2>1. serial'[c] \in 0 .. MaxIds /\ serial'[c] \in 1 .. MaxIds
    BY RoutingAssumption DEF TypeInv, Evolves
  <2>2. i \in MessageID
    BY <2>1, Identifiers
  <2> QED
    BY <2>1, <2>2 DEF Requests
<1>4. AskOk(m, own2, sent2)'
  BY DEF AskOk
<1>5. \A x : (\E k \in 1 .. Len(wire) : x = wire[k]) => AskOk(x, own2, sent2)'
  <2>1. \A x : AskOk(x, own, sent) => AskOk(x, own2, sent2)'
    BY Carried
  <2> QED
    BY <2>1 DEF Agree, WireOk
<1>6. wire \in Seq(Requests)
  BY DEF TypeInv
<1>7. /\ Append(wire, m) \in Seq(Requests)
      /\ \A k \in 1 .. Len(wire) : Append(wire, m)[k] = wire[k]
      /\ Append(wire, m)[Len(wire) + 1] = m
      /\ \A k \in 1 .. Len(Append(wire, m)) : k \in 1 .. Len(wire) \/ k = Len(wire) + 1
  BY <1>3, <1>6, LastIn
<1>8. ASSUME NEW k \in 1 .. Len(wire'), NEW x, x = wire'[k] PROVE AskOk(x, own2, sent2)'
  <2>1. CASE k \in 1 .. Len(wire)
    BY <1>1, <1>5, <1>7, <1>8, <2>1
  <2>2. CASE k = Len(wire) + 1
    BY <1>1, <1>4, <1>7, <1>8, <2>2
  <2> QED
    BY <1>1, <1>7, <2>1, <2>2
<1> QED
  BY <1>1, <1>2, <1>7, <1>8 DEF WireOk

\* An identifier of the table that a request was sent under before the step
\* was in the table before it.
OldEntries(sent) == \A i \in sent : i \in DOMAIN queue' => i \in DOMAIN queue

\* A plain request and the request of an unsubscribe.
LEMMA OwnerDrawAndSend ==
  ASSUME MaxIds <= IdSpace, TypeInv, NEW own \in Owners, NEW sent \in SUBSET Used, Agree(own, sent),
         NEW c \in Callers, NEW kind \in {"request", "unlisten"}, DrawAndSend(c, kind),
         kind = "request" <=> c \in Reqs
  PROVE  /\ OwnerInv' /\ wire' \in Seq(Requests)
         /\ OldEntries(sent)
<1>1. Draw(c) /\ Send(c, kind) /\ UNCHANGED eventOf
  BY DEF DrawAndSend
<1>a. PICK sent2 : sent2 = sent \cup {id_counter'}
  OBVIOUS
<1>0. PICK own2 : Evolves(own, sent, own2, sent \cup {id_counter'}) /\ own2[id_counter'] = c
  BY <1>1, Drawn DEF Evolves
<1>2. /\ Evolves(own, sent, own2, sent2) /\ own2[id_counter'] = c
      /\ drawn' \in 1 .. drawn' /\ drawn' # 0
      /\ id_counter' = IdOf(drawn') /\ id_counter' \in Used' /\ id_counter' \notin Used
      /\ id'[c] = id_counter' /\ serial'[c] = drawn'
      /\ \A b \in Callers \ {c} : id'[b] = id[b] /\ serial'[b] = serial[b]
  BY <1>0, <1>1, <1>a, Drawn
<1>3. TableOk(own2, sent2)' /\ WireOk(own2, sent2)' /\ wire' \in Seq(Requests)
  <2>1. /\ kind \in {"request", "listen", "unlisten"} /\ serial'[c] \in 1 .. drawn'
        /\ id'[c] = IdOf(serial'[c]) /\ id'[c] \in sent2 /\ own2[id'[c]] = c
    BY <1>a, <1>2
  <2> QED
    BY <1>1, <1>2, <2>1, Sent
<1>4. CallersOk(own2, sent2)'
  <2>1. PICK label \in Labels : Goto(c, label)
    BY DEF DrawAndSend
  <2>2. pc'[c] # "sendOn" /\ \A b \in Callers \ {c} : pc'[b] = pc[b]
    BY <2>1 DEF Goto, TypeInv, Labels
  <2>3. serial \in [Callers -> 0 .. drawn] /\ drawn \in Nat
    BY RoutingAssumption DEF TypeInv
  <2>4. ASSUME NEW b \in Callers \ {c}, serial[b] # 0 PROVE id[b] = IdOf(serial[b]) /\ id[b] \in Used /\ own[id[b]] = b
    <3>1. serial[b] \in 1 .. drawn
      BY <2>3, <2>4
    <3> QED
      BY <2>4, <3>1 DEF Agree, CallersOk, Used
  <2> QED
    BY <1>a, <1>2, <2>2, <2>4 DEF CallersOk, Agree, Evolves
<1>5. ListeningOk(own2, sent2)' /\ MapOk(own2)' /\ InboxOk(own2, sent2)' /\ TakenOk(own2, sent2)'
  BY <1>2, Carried DEF DrawAndSend, Agree, workVars
<1>6. Agree(own2, sent2)' /\ own2 \in Owners /\ sent2 \in SUBSET Used'
  BY <1>2, <1>3, <1>4, <1>5 DEF Agree, Evolves
<1>7. OldEntries(sent)
  BY <1>1, <1>2 DEF Send, With, OldEntries
<1> QED
  BY <1>3, <1>6, <1>7 DEF OwnerInv, Owners

\* subscribe() draws the identifier of its listen request and records it.
LEMMA OwnerRecord ==
  ASSUME MaxIds <= IdSpace, TypeInv, NEW own \in Owners, NEW sent \in SUBSET Used, Agree(own, sent),
         NEW s \in Subs, SubscribeRecord(s)
  PROVE  OwnerInv' /\ OldEntries(sent)
<1>1. Draw(s) /\ UNCHANGED eventOf /\ s \in Callers
  BY DEF SubscribeRecord, modeVars, Callers
<1>0. PICK own2 : Evolves(own, sent, own2, sent) /\ own2[id_counter'] = s
  BY <1>1, Drawn DEF Evolves
<1>2. /\ Evolves(own, sent, own2, sent) /\ own2[id_counter'] = s
      /\ drawn' # 0
      /\ id_counter' = IdOf(drawn') /\ id_counter' \in Used' /\ id_counter' \notin Used
      /\ id'[s] = id_counter' /\ serial'[s] = drawn'
      /\ \A b \in Callers \ {s} : id'[b] = id[b] /\ serial'[b] = serial[b]
  BY <1>0, <1>1, Drawn
<1>3. CallersOk(own2, sent)'
  <2>1. \A b \in Callers \ {s} : pc'[b] = pc[b]
    BY DEF SubscribeRecord, Goto, TypeInv
  <2>2. serial \in [Callers -> 0 .. drawn] /\ drawn \in Nat
    BY RoutingAssumption DEF TypeInv
  <2>3. ASSUME NEW b \in Callers \ {s}, serial[b] # 0 PROVE id[b] = IdOf(serial[b]) /\ id[b] \in Used /\ own[id[b]] = b
    <3>1. serial[b] \in 1 .. drawn
      BY <2>2, <2>3
    <3> QED
      BY <2>3, <3>1 DEF Agree, CallersOk, Used
  <2> QED
    BY <1>2, <2>1, <2>3 DEF CallersOk, Agree, Evolves
<1>4. MapOk(own2)'
  <2>1. CASE eventMap' = eventMap
    BY <1>2, <2>1, Carried DEF Agree
  <2>2. CASE eventMap' = With(eventMap, id'[s], eventOf[s])
    <3> SUFFICES ASSUME NEW j \in DOMAIN eventMap'
                 PROVE  j \in Used' /\ own2[j] \in Subs /\ eventMap'[j] = eventOf'[own2[j]]
      BY DEF MapOk
    <3>1. CASE j = id'[s]
      BY <1>1, <1>2, <2>2, <3>1 DEF With
    <3>2. CASE j # id'[s]
      <4>1. j \in DOMAIN eventMap /\ eventMap'[j] = eventMap[j]
        BY <2>2, <3>2 DEF With
      <4>2. Used \subseteq Used'
        BY <1>2, Carried
      <4> QED
        BY <1>1, <1>2, <4>1, <4>2 DEF Agree, MapOk, Evolves
    <3> QED
      BY <3>1, <3>2
  <2> QED
    BY <2>1, <2>2 DEF SubscribeRecord, Recorded
<1>5. UNCHANGED <<queue, wire, listening, inbox, taken>>
  BY DEF SubscribeRecord, serverVars, workVars
<1>6. /\ TableOk(own2, sent)' /\ WireOk(own2, sent)' /\ ListeningOk(own2, sent)'
      /\ InboxOk(own2, sent)' /\ TakenOk(own2, sent)'
  BY <1>2, <1>5, Carried DEF Agree
<1>7. Agree(own2, sent)' /\ own2 \in Owners /\ sent \in SUBSET Used'
  BY <1>2, <1>3, <1>4, <1>6 DEF Agree, Evolves
<1> QED
  BY <1>5, <1>7 DEF OwnerInv, Owners, OldEntries

\* subscribe() sends its listen request.
LEMMA OwnerSend ==
  ASSUME MaxIds <= IdSpace, TypeInv, NEW own \in Owners, NEW sent \in SUBSET Used, Agree(own, sent),
         NEW s \in Subs, SubscribeSend(s)
  PROVE  /\ OwnerInv' /\ wire' \in Seq(Requests)
         /\ OldEntries(sent)
<1>0. PICK sent2 : sent2 = sent \cup {id[s]}
  OBVIOUS
<1>1. /\ s \in Callers /\ s \notin Reqs
      /\ UNCHANGED <<eventOf, id, serial, drawn, eventMap, listening, inbox, taken>> /\ Send(s, "listen")
  BY RoutingAssumption DEF SubscribeSend, modeVars, idVars, workVars, Callers
<1>2. drawn \in Nat /\ drawn \in drawn .. MaxIds /\ serial \in [Callers -> 0 .. drawn]
  BY RoutingAssumption DEF TypeInv
<1>3. serial[s] \in 1 .. drawn /\ id[s] = IdOf(serial[s]) /\ own[id[s]] = s /\ id[s] \notin sent
  BY <1>1, <1>2 DEF SubscribeSend, Agree, CallersOk
<1>4. id[s] \in Used /\ Used' = Used
  BY <1>1, <1>3 DEF Used
<1>5. Evolves(own, sent, own, sent2)
  BY <1>0, <1>1, <1>2, <1>4 DEF Evolves
<1>6. TableOk(own, sent2)' /\ WireOk(own, sent2)' /\ wire' \in Seq(Requests)
  BY <1>0, <1>1, <1>3, <1>5, Sent
<1>7. CallersOk(own, sent2)'
  <2>1. pc'[s] # "sendOn" /\ \A b \in Callers \ {s} : pc'[b] = pc[b]
    BY <1>1 DEF SubscribeSend, Goto, TypeInv
  <2> QED
    BY <1>0, <1>1, <1>3, <2>1 DEF Agree, CallersOk
<1>8. ListeningOk(own, sent2)' /\ MapOk(own)' /\ InboxOk(own, sent2)' /\ TakenOk(own, sent2)'
  BY <1>1, <1>5, Carried DEF Agree
<1>9. Agree(own, sent2)' /\ sent2 \in SUBSET Used'
  BY <1>0, <1>4, <1>6, <1>7, <1>8 DEF Agree
<1>10. OldEntries(sent)
  BY <1>1, <1>3 DEF Send, With, OldEntries
<1> QED
  BY <1>6, <1>9, <1>10 DEF OwnerInv, Owners

\* A step that draws no identifier and sends no request leaves the assignment
\* as it is.
LEMMA Same ==
  ASSUME MaxIds <= IdSpace, TypeInv, NEW own \in Owners, NEW sent \in SUBSET Used,
         UNCHANGED <<drawn, eventOf>>
  PROVE  Evolves(own, sent, own, sent) /\ Used' = Used
<1>1. drawn \in drawn .. MaxIds
  BY RoutingAssumption DEF TypeInv
<1>2. Used' = Used
  BY DEF Used
<1> QED
  BY <1>1, <1>2 DEF Evolves

\* Critical sections that neither draw nor send.
LEMMA OwnerLocal ==
  ASSUME MaxIds <= IdSpace, TypeInv, NEW own \in Owners, NEW sent \in SUBSET Used, Agree(own, sent),
         NEW s \in Subs, LocalStep(s)
  PROVE  Agree(own, sent)' /\ OldEntries(sent)
<1>1. UNCHANGED <<drawn, eventOf, queue, wire, listening, inbox, taken>>
  BY DEF LocalStep, idVars, workVars
<1>2. Evolves(own, sent, own, sent)
  BY <1>1, Same
<1>3. CallersOk(own, sent)'
  <2> SUFFICES ASSUME NEW c \in Callers
               PROVE  /\ serial'[c] # 0 => id'[c] = IdOf(serial'[c]) /\ own[id'[c]] = c
                      /\ pc'[c] = "sendOn" => c \in Subs /\ serial'[c] # 0 /\ id'[c] \notin sent
    BY DEF CallersOk
  <2>1. PICK label \in Labels : Goto(s, label)
    BY DEF LocalStep
  <2>2. CASE c # s
    <3>1. pc'[c] = pc[c] /\ serial'[c] = serial[c] /\ id'[c] = id[c]
      BY <2>1, <2>2 DEF LocalStep, Goto, TypeInv
    <3> QED
      BY <3>1 DEF Agree, CallersOk
  <2>3. CASE c = s
    <3>1. pc'[c] # "sendOn"
      BY <2>1, <2>3 DEF Goto, TypeInv, Labels
    <3>2. serial'[c] = 0 \/ (serial'[c] = serial[c] /\ id'[c] = id[c])
      BY <2>3 DEF LocalStep, TypeInv
    <3> QED
      BY <3>1, <3>2 DEF Agree, CallersOk
  <2> QED
    BY <2>2, <2>3
<1>4. eventMap' = eventMap \/ \E i : eventMap' = Without(eventMap, i)
  BY DEF LocalStep
<1> QED
  BY <1>1, <1>2, <1>3, <1>4, Carried DEF Agree, OldEntries

\* The watchdog takes entries out of the table; a refused connect() changes
\* nothing that the assignment is about.
LEMMA OwnerWatchdog ==
  ASSUME MaxIds <= IdSpace, TypeInv, NEW own \in Owners, NEW sent \in SUBSET Used, Agree(own, sent),
         (\E i \in MessageID : TimeOut(i)) \/ ConnectRefused \/ UNCHANGED vars
  PROVE  Agree(own, sent)' /\ OldEntries(sent)
<1>1. UNCHANGED <<drawn, eventOf, wire, listening, inbox, taken, pc, id, serial, eventMap>>
  BY DEF TimeOut, ConnectRefused, modeVars, idVars, callVars, tableVars, serverVars, workVars, vars
<1>2. queue' = queue \/ \E i : queue' = Without(queue, i)
  BY DEF TimeOut, Fulfil, ConnectRefused, tableVars, vars
<1>3. Evolves(own, sent, own, sent)
  BY <1>1, Same
<1>4. CallersOk(own, sent)'
  BY <1>1 DEF Agree, CallersOk
<1>5. OldEntries(sent)
  BY <1>2 DEF Without, OldEntries
<1> QED
  BY <1>1, <1>2, <1>3, <1>4, <1>5, Carried DEF Agree

-----------------------------------------------------------------------------
(* The server. *)

\* A message arrives.
LEMMA Delivered ==
  ASSUME MaxIds <= IdSpace, TypeInv, NEW own \in Owners, NEW sent \in SUBSET Used, Agree(own, sent),
         UNCHANGED <<drawn, eventOf>>,
         NEW m \in Messages, Sound(m, own, sent), inbox' = Append(inbox, m)
  PROVE  InboxOk(own, sent)' /\ inbox' \in Seq(Messages)
<1>1. Sound(m, own, sent)' /\ \A x : Sound(x, own, sent) => Sound(x, own, sent)'
  BY Same, Carried
<1>2. inbox \in Seq(Messages)
  BY DEF TypeInv
<1>3. /\ Append(inbox, m) \in Seq(Messages)
      /\ \A k \in 1 .. Len(inbox) : Append(inbox, m)[k] = inbox[k]
      /\ Append(inbox, m)[Len(inbox) + 1] = m
      /\ \A k \in 1 .. Len(Append(inbox, m)) : k \in 1 .. Len(inbox) \/ k = Len(inbox) + 1
  BY <1>2, LastIn
<1>4. ASSUME NEW k \in 1 .. Len(inbox'), NEW x, x = inbox'[k] PROVE Sound(x, own, sent)'
  <2>1. CASE k \in 1 .. Len(inbox)
    BY <1>1, <1>3, <1>4, <2>1 DEF Agree, InboxOk
  <2>2. CASE k = Len(inbox) + 1
    BY <1>1, <1>3, <1>4, <2>2
  <2> QED
    BY <1>3, <2>1, <2>2
<1> QED
  BY <1>3, <1>4 DEF InboxOk

\* An answer to a request that was on the wire is what OfReply says.
LEMMA Answered ==
  ASSUME MaxIds <= IdSpace, TypeInv, NEW own \in Owners, NEW sent \in SUBSET Used,
         NEW a \in Requests, AskOk(a, own, sent), NEW shape,
         \/ a.kind = "request" /\ shape \in {Reply(a.id, "empty"), Reply(a.id, "value")}
         \/ shape \in {Reply(a.id, "listening"), Refusal(a.id)}
  PROVE  LET m == [shape |-> shape, about |-> ReplyTo(a.from, a.n)]
         IN  m \in Messages /\ Sound(m, own, sent)
<1>1. a.id \in MessageID /\ a.from \in Callers /\ a.n \in 0 .. MaxIds
  BY DEF Requests
<1>2. shape \in Shape /\ shape.idKind = "number" /\ shape.id = a.id
  BY <1>1, Shapes
<1>3. own[a.id] \in Subs => shape.result \in {"listening", "absent"}
  BY <1>1, Shapes, RoutingAssumption DEF AskOk
<1>4. PICK m : m = [shape |-> shape, about |-> ReplyTo(a.from, a.n)]
  OBVIOUS
<1>5. m \in Messages
  BY <1>1, <1>2, <1>4 DEF Messages, Abouts
<1>6. a.n \in 1 .. drawn /\ IdOf(a.n) \in sent /\ OfReply(m, own, a.n)
  BY <1>2, <1>3, <1>4 DEF AskOk, OfReply
<1>7. Sound(m, own, sent)
  BY <1>6 DEF Sound
<1> QED
  BY <1>4, <1>5, <1>7

\* The server reads a request.
LEMMA OwnerReads ==
  ASSUME MaxIds <= IdSpace, TypeInv, NEW own \in Owners, NEW sent \in SUBSET Used, Agree(own, sent),
         ServerReads
  PROVE  /\ Agree(own, sent)' /\ OldEntries(sent)
         /\ wire' \in Seq(Requests) /\ inbox' \in Seq(Messages)
<1>1. UNCHANGED <<drawn, eventOf, queue, taken, pc, id, serial, eventMap>>
  BY DEF ServerReads, modeVars, idVars, callVars, tableVars, workVars
<1>2. Evolves(own, sent, own, sent)
  BY <1>1, Same
<1>3. TableOk(own, sent)' /\ CallersOk(own, sent)' /\ MapOk(own)' /\ TakenOk(own, sent)' /\ OldEntries(sent)
  <2>1. CallersOk(own, sent)' /\ OldEntries(sent)
    BY <1>1 DEF Agree, CallersOk, OldEntries
  <2> QED
    BY <1>1, <1>2, <2>1, Carried DEF Agree
<1>4. wire \in Seq(Requests) /\ wire # <<>> /\ wire' = Tail(wire)
  BY DEF TypeInv, ServerReads
<1>5. /\ 1 \in 1 .. Len(wire) /\ Head(wire) = wire[1] /\ Head(wire) \in Requests
      /\ Tail(wire) \in Seq(Requests)
      /\ \A k \in 1 .. Len(Tail(wire)) : k + 1 \in 1 .. Len(wire) /\ Tail(wire)[k] = wire[k + 1]
  BY <1>4, FirstOut
<1>6. WireOk(own, sent)'
  <2>1. \A x : AskOk(x, own, sent) => AskOk(x, own, sent)'
    BY <1>2, Carried
  <2>2. ASSUME NEW k \in 1 .. Len(wire'), NEW x, x = wire'[k] PROVE AskOk(x, own, sent)'
    <3>1. x = wire[k + 1] /\ k + 1 \in 1 .. Len(wire)
      BY <1>4, <1>5, <2>2
    <3> QED
      BY <2>1, <3>1 DEF Agree, WireOk
  <2> QED
    BY <2>2 DEF WireOk
<1>7. PICK a \in Requests : a = Head(wire)
  BY <1>5
<1>8. AskOk(a, own, sent)
  BY <1>5, <1>7 DEF Agree, WireOk
<1>9. ListeningOk(own, sent)'
  <2>1. ASSUME NEW l \in listening', l \notin listening
        PROVE  l = [event |-> eventOf[a.from], id |-> a.id] /\ a.kind = "listen"
    BY <1>7, <2>1 DEF ServerReads
  <2>2. ASSUME NEW l \in listening' PROVE l.id \in sent /\ own[l.id] \in Subs /\ l.event = eventOf[own[l.id]]
    <3>1. CASE l \in listening
      BY <3>1 DEF Agree, ListeningOk
    <3>2. CASE l \notin listening
      <4>1. l.id = a.id /\ l.event = eventOf[a.from] /\ a.kind = "listen"
        BY <2>1, <3>2
      <4>2. a.id \in sent /\ own[a.id] = a.from /\ a.from \in Subs
        BY <1>8, <4>1 DEF AskOk, Requests, Callers
      <4> QED
        BY <4>1, <4>2
    <3> QED
      BY <3>1, <3>2
  <2> QED
    BY <1>1, <2>2 DEF ListeningOk
<1>10. InboxOk(own, sent)' /\ inbox' \in Seq(Messages)
  <2>1. CASE inbox' = inbox
    BY <1>2, <2>1, Carried DEF Agree, TypeInv
  <2>2. ASSUME NEW shape,
               \/ a.kind = "request" /\ shape \in {Reply(a.id, "empty"), Reply(a.id, "value")}
               \/ shape \in {Reply(a.id, "listening"), Refusal(a.id)},
               inbox' = Append(inbox, [shape |-> shape, about |-> ReplyTo(a.from, a.n)])
        PROVE  InboxOk(own, sent)' /\ inbox' \in Seq(Messages)
    <3>1. PICK m : m = [shape |-> shape, about |-> ReplyTo(a.from, a.n)]
      OBVIOUS
    <3>2. m \in Messages /\ Sound(m, own, sent)
      BY <1>8, <2>2, <3>1, Answered
    <3> QED
      BY <1>1, <2>2, <3>1, <3>2, Delivered
  <2> QED
    BY <1>7, <2>1, <2>2 DEF ServerReads, Deliver
<1> QED
  BY <1>3, <1>4, <1>5, <1>6, <1>9, <1>10 DEF Agree

\* The server emits an event, or sends a message that belongs to nothing.
LEMMA OwnerEmits ==
  ASSUME MaxIds <= IdSpace, TypeInv, NEW own \in Owners, NEW sent \in SUBSET Used, Agree(own, sent),
         ServerEmits \/ ServerStrays
  PROVE  Agree(own, sent)' /\ OldEntries(sent) /\ inbox' \in Seq(Messages)
<1>1. UNCHANGED <<drawn, eventOf, queue, wire, listening, taken, pc, id, serial, eventMap>>
  BY DEF ServerEmits, ServerStrays, modeVars, idVars, callVars, tableVars, workVars
<1>2. Evolves(own, sent, own, sent)
  BY <1>1, Same
<1>3. CallersOk(own, sent)' /\ OldEntries(sent)
  BY <1>1 DEF Agree, CallersOk, OldEntries
<1>4. InboxOk(own, sent)' /\ inbox' \in Seq(Messages)
  <2>1. CASE ServerEmits
    <3>1. PICK l \in listening :
            inbox' = Append(inbox, [shape |-> IF serverLegacy THEN Reply(l.id, "value") ELSE Notification(l.event),
                                    about |-> About(l.event)])
      BY <2>1 DEF ServerEmits, Deliver
    <3>2. PICK m : m = [shape |-> IF serverLegacy THEN Reply(l.id, "value") ELSE Notification(l.event),
                        about |-> About(l.event)]
      OBVIOUS
    <3>3. l.id \in sent /\ own[l.id] \in Subs /\ l.event = eventOf[own[l.id]]
      BY DEF Agree, ListeningOk
    <3>4. l.event \in Events /\ l.id \in MessageID
      BY <3>3, UsedIds DEF TypeInv
    <3>5. m.shape \in {Reply(l.id, "value"), Notification(l.event)} /\ m.about = About(l.event)
      BY <3>2
    <3>6. m.shape \in Shape
      BY <3>4, <3>5, Shapes
    <3>7. m \in Messages
      BY <3>2, <3>4, <3>5, <3>6 DEF Messages, Abouts
    <3>8. Sound(m, own, sent)
      BY <3>3, <3>5 DEF Sound, OfEvent
    <3> QED
      BY <1>1, <3>1, <3>2, <3>7, <3>8, Delivered
  <2>2. CASE ServerStrays
    <3>1. PICK shape \in Strays : inbox' = Append(inbox, [shape |-> shape, about |-> Nothing])
      BY <2>2 DEF ServerStrays, Deliver
    <3>2. PICK m : m = [shape |-> shape, about |-> Nothing]
      OBVIOUS
    <3>3. m \in Messages
      BY <3>2, StraysAssumption DEF Messages, Abouts
    <3>4. Sound(m, own, sent)
      BY <3>2 DEF Sound
    <3> QED
      BY <1>1, <3>1, <3>2, <3>3, <3>4, Delivered
  <2> QED
    BY <2>1, <2>2
<1> QED
  BY <1>1, <1>2, <1>3, <1>4, Carried DEF Agree

-----------------------------------------------------------------------------
(* The message worker. *)

\* A message is taken.
Takes == TakeLegacyEvent \/ TakeResponse \/ TakeNotification

\* What onMessage() decides about the first message received.
LEMMA Deciding ==
  ASSUME MaxIds <= IdSpace, TypeInv, NEW own \in Owners, NEW sent \in SUBSET Used, Agree(own, sent),
         Takes
  PROVE  /\ inbox # <<>> /\ Head(inbox) \in Messages /\ Head(inbox) = inbox[1] /\ 1 \in 1 .. Len(inbox)
         /\ taken = Idle /\ got' = {} /\ inbox' = Tail(inbox)
         /\ taken' \in Decisions /\ taken'.msg = Head(inbox)
         /\ TakeLegacyEvent => /\ taken'.to = "server" /\ IsLegacyEvent(Head(inbox).shape)
                               /\ taken'.event = eventMap[ToMessageID(Head(inbox).shape.id)]
         /\ TakeResponse => /\ taken'.to = "client" /\ taken'.id = ToMessageID(Head(inbox).shape.id)
                            /\ Converts(Head(inbox).shape) /\ IsResponse(Head(inbox).shape)
         /\ TakeNotification => /\ taken'.to = "server" /\ taken'.event = Head(inbox).shape.method
                                /\ IsNotification(Head(inbox).shape)
                                /\ Head(inbox).shape.method \in Events
<1>1. inbox # <<>> /\ inbox \in Seq(Messages)
  BY DEF Takes, TakeLegacyEvent, TakeResponse, TakeNotification, TypeInv
<1>2. Head(inbox) \in Messages /\ Head(inbox) = inbox[1] /\ 1 \in 1 .. Len(inbox)
  BY <1>1, FirstOut
<1>3. PICK m \in Messages : m = Head(inbox)
  BY <1>2
<1>4. m.shape \in Shape /\ m.shape.id \in Int /\ m.shape.method \in Events \cup {"absent", "notString"}
  BY DEF Messages, Shape
<1>5. taken = Idle /\ got' = {} /\ inbox' = Tail(inbox)
  BY DEF Takes, TakeLegacyEvent, TakeResponse, TakeNotification, Take
<1>6. ASSUME TakeLegacyEvent
      PROVE  /\ taken' \in Decisions /\ taken'.msg = m /\ taken'.to = "server" /\ IsLegacyEvent(m.shape)
             /\ taken'.event = eventMap[ToMessageID(m.shape.id)]
  <2>1. /\ IsLegacyEvent(m.shape)
        /\ taken' = [[Idle EXCEPT !.to = "server", !.event = eventMap[ToMessageID(m.shape.id)]] EXCEPT !.msg = m]
    BY <1>3, <1>6 DEF TakeLegacyEvent, Take
  <2>2. ToMessageID(m.shape.id) \in DOMAIN eventMap
    BY <2>1 DEF IsLegacyEvent
  <2>3. eventMap[ToMessageID(m.shape.id)] \in Events
    BY <2>2 DEF Agree, MapOk, TypeInv
  <2> QED
    BY <2>1, <2>3, IdleFields DEF Decisions
<1>7. ASSUME TakeResponse
      PROVE  /\ taken' \in Decisions /\ taken'.msg = m /\ taken'.to = "client"
             /\ taken'.id = ToMessageID(m.shape.id) /\ Converts(m.shape) /\ IsResponse(m.shape)
  <2>1. /\ Converts(m.shape) /\ IsResponse(m.shape)
        /\ taken' = [[Idle EXCEPT !.to = "client", !.id = ToMessageID(m.shape.id)] EXCEPT !.msg = m]
    BY <1>3, <1>7 DEF TakeResponse, Take
  <2>2. ToMessageID(m.shape.id) \in Int
    BY <1>4, RoutingAssumption DEF ToMessageID
  <2> QED
    BY <2>1, <2>2, IdleFields DEF Decisions
<1>8. ASSUME TakeNotification
      PROVE  /\ taken' \in Decisions /\ taken'.msg = m /\ taken'.to = "server"
             /\ taken'.event = m.shape.method /\ IsNotification(m.shape) /\ m.shape.method \in Events
  <2>1. /\ IsNotification(m.shape) /\ m.shape.method # "notString"
        /\ taken' = [[Idle EXCEPT !.to = "server", !.event = m.shape.method] EXCEPT !.msg = m]
    BY <1>3, <1>8 DEF TakeNotification, Take
  <2>2. m.shape.method \in Events
    BY <1>4, <2>1 DEF IsNotification, IsMethodCall
  <2> QED
    BY <2>1, <2>2, IdleFields DEF Decisions
<1> QED
  BY <1>1, <1>2, <1>3, <1>5, <1>6, <1>7, <1>8 DEF Takes

\* Taking a message, and acting upon it, leaves the assignment as it is.
LEMMA OwnerMessage ==
  ASSUME MaxIds <= IdSpace, TypeInv, NEW own \in Owners, NEW sent \in SUBSET Used, Agree(own, sent),
         OnMessage
  PROVE  /\ Agree(own, sent)' /\ OldEntries(sent)
         /\ inbox' \in Seq(Messages) /\ taken' \in Decisions
<1>1. UNCHANGED <<drawn, eventOf, wire, listening, pc, id, serial, eventMap>>
  BY DEF OnMessage, TakeLegacyEvent, TakeResponse, TakeNotification, TakeInvalid, Take, Respond, Notify,
         modeVars, idVars, callVars, tableVars, serverVars
<1>2. Evolves(own, sent, own, sent)
  BY <1>1, Same
<1>3. queue' = queue \/ \E i : queue' = Without(queue, i)
  BY DEF OnMessage, TakeLegacyEvent, TakeResponse, TakeNotification, TakeInvalid, Take, Respond, Notify,
         Fulfil, tableVars
<1>4. OldEntries(sent) /\ CallersOk(own, sent)'
  BY <1>1, <1>3 DEF Without, OldEntries, Agree, CallersOk
<1>5. \A x : Sound(x, own, sent) => Sound(x, own, sent)'
  BY <1>2, Carried
<1>6. InboxOk(own, sent)' /\ inbox' \in Seq(Messages)
  <2>1. CASE inbox' = inbox
    BY <1>2, <2>1, Carried DEF Agree, TypeInv
  <2>2. CASE inbox # <<>> /\ inbox' = Tail(inbox)
    <3>1. inbox \in Seq(Messages)
      BY DEF TypeInv
    <3>2. /\ inbox' \in Seq(Messages)
          /\ \A k \in 1 .. Len(inbox') : k + 1 \in 1 .. Len(inbox) /\ inbox'[k] = inbox[k + 1]
      BY <2>2, <3>1, FirstOut
    <3>3. ASSUME NEW k \in 1 .. Len(inbox'), NEW x, x = inbox'[k] PROVE Sound(x, own, sent)'
      BY <1>5, <3>2, <3>3 DEF Agree, InboxOk
    <3> QED
      BY <3>2, <3>3 DEF InboxOk
  <2>3. inbox' = inbox \/ (inbox # <<>> /\ inbox' = Tail(inbox))
    BY DEF OnMessage, TakeLegacyEvent, TakeResponse, TakeNotification, TakeInvalid, Take, Respond, Notify
  <2> QED
    BY <2>1, <2>2, <2>3
<1>7. TakenOk(own, sent)' /\ taken' \in Decisions
  <2>1. CASE Takes
    <3>1. PICK x : x = Head(inbox)
      OBVIOUS
    <3>2. taken' \in Decisions /\ taken'.msg = x /\ Sound(x, own, sent)
      BY <2>1, <3>1, Deciding DEF Agree, InboxOk
    <3> QED
      BY <1>5, <3>2 DEF TakenOk
  <2>2. CASE TakeInvalid
    <3>1. taken' = taken
      BY <2>2 DEF TakeInvalid, workVars
    <3> QED
      BY <1>2, <3>1, Carried DEF Agree, TypeInv
  <2>3. CASE taken' = Idle
    <3>1. Idle \in Decisions /\ Idle.msg.about = Nothing
      BY IdleFields
    <3> QED
      BY <2>3, <3>1 DEF TakenOk, Sound
  <2>4. Takes \/ TakeInvalid \/ taken' = Idle
    BY DEF OnMessage, Takes, Respond, Notify
  <2> QED
    BY <2>1, <2>2, <2>3, <2>4
<1> QED
  BY <1>1, <1>2, <1>3, <1>4, <1>6, <1>7, Carried DEF Agree

\* The assignment exists after every step.
LEMMA OwnerStep ==
  ASSUME MaxIds <= IdSpace, TypeInv, NEW own \in Owners, NEW sent \in SUBSET Used, Agree(own, sent),
         [Next]_vars
  PROVE  /\ OwnerInv' /\ OldEntries(sent)
         /\ wire' \in Seq(Requests) /\ inbox' \in Seq(Messages) /\ taken' \in Decisions
<1> DEFINE Types == wire' \in Seq(Requests) /\ inbox' \in Seq(Messages) /\ taken' \in Decisions
<1>1. /\ wire' = wire => wire' \in Seq(Requests)
      /\ inbox' = inbox => inbox' \in Seq(Messages)
      /\ taken' = taken => taken' \in Decisions
  BY DEF TypeInv
<1>2. Agree(own, sent)' /\ drawn' = drawn => OwnerInv'
  <2>1. drawn' = drawn => Used' = Used
    BY DEF Used
  <2> QED
    BY <2>1 DEF OwnerInv, Owners
<1>3. ASSUME NEW s \in Subs, LocalStep(s) PROVE OwnerInv' /\ OldEntries(sent) /\ Types
  <2>1. UNCHANGED <<drawn, wire, inbox, taken>>
    BY <1>3 DEF LocalStep, idVars, workVars
  <2> QED
    BY <1>1, <1>2, <1>3, <2>1, OwnerLocal
<1>4. ASSUME NEW s \in Subs, SubscribeRecord(s) PROVE OwnerInv' /\ OldEntries(sent) /\ Types
  <2>1. UNCHANGED <<wire, inbox, taken>>
    BY <1>4 DEF SubscribeRecord, serverVars, workVars
  <2> QED
    BY <1>1, <1>4, <2>1, OwnerRecord
<1>5. ASSUME NEW s \in Subs, SubscribeSend(s) PROVE OwnerInv' /\ OldEntries(sent) /\ Types
  <2>1. UNCHANGED <<inbox, taken>>
    BY <1>5 DEF SubscribeSend, workVars
  <2> QED
    BY <1>1, <1>5, <2>1, OwnerSend
<1>6. ASSUME NEW c \in Callers, NEW kind \in {"request", "unlisten"}, DrawAndSend(c, kind),
             kind = "request" <=> c \in Reqs
      PROVE  OwnerInv' /\ OldEntries(sent) /\ Types
  <2>1. UNCHANGED <<inbox, taken>>
    BY <1>6 DEF DrawAndSend, workVars
  <2> QED
    BY <1>1, <1>6, <2>1, OwnerDrawAndSend
<1>7. ASSUME (\E i \in MessageID : TimeOut(i)) \/ ConnectRefused \/ UNCHANGED vars
      PROVE  OwnerInv' /\ OldEntries(sent) /\ Types
  <2>1. UNCHANGED <<drawn, wire, inbox, taken>>
    BY <1>7 DEF TimeOut, ConnectRefused, idVars, serverVars, workVars, vars
  <2> QED
    BY <1>1, <1>2, <1>7, <2>1, OwnerWatchdog
<1>8. ASSUME ServerReads PROVE OwnerInv' /\ OldEntries(sent) /\ Types
  <2>1. UNCHANGED <<drawn, taken>>
    BY <1>8 DEF ServerReads, idVars, workVars
  <2> QED
    BY <1>1, <1>2, <1>8, <2>1, OwnerReads
<1>9. ASSUME ServerEmits \/ ServerStrays PROVE OwnerInv' /\ OldEntries(sent) /\ Types
  <2>1. UNCHANGED <<drawn, wire, taken>>
    BY <1>9 DEF ServerEmits, ServerStrays, idVars, workVars
  <2> QED
    BY <1>1, <1>2, <1>9, <2>1, OwnerEmits
<1>10. ASSUME OnMessage PROVE OwnerInv' /\ OldEntries(sent) /\ Types
  <2>1. UNCHANGED <<drawn, wire>>
    BY <1>10 DEF OnMessage, TakeLegacyEvent, TakeResponse, TakeNotification, TakeInvalid, Take, Respond,
                 Notify, idVars, serverVars
  <2> QED
    BY <1>1, <1>2, <1>10, <2>1, OwnerMessage
<1>11. \A s \in Subs : s \in Callers /\ s \notin Reqs
  BY RoutingAssumption DEF Callers
<1>12. \A r \in Reqs : r \in Callers
  BY DEF Callers
<1>13. ASSUME NEW s \in Subs, DrawAndSend(s, "unlisten") PROVE OwnerInv' /\ OldEntries(sent) /\ Types
  BY <1>6, <1>11, <1>13
<1>14. ASSUME NEW r \in Reqs, DrawAndSend(r, "request") PROVE OwnerInv' /\ OldEntries(sent) /\ Types
  BY <1>6, <1>12, <1>14
<1> QED
  BY <1>3, <1>4, <1>5, <1>7, <1>8, <1>9, <1>10, <1>13, <1>14, Cases

-----------------------------------------------------------------------------
\* The variables keep their types; the assignment is needed for the event that
\* rpcv1_eventMap leads to.
LEMMA TypeStep ==
  ASSUME MaxIds <= IdSpace, TypeInv, NEW own \in Owners, NEW sent \in SUBSET Used, Agree(own, sent),
         [Next]_vars
  PROVE  TypeInv'
<1>1. wire' \in Seq(Requests) /\ inbox' \in Seq(Messages) /\ taken' \in Decisions
  BY OwnerStep
<1> DEFINE Rest == /\ eventOf' \in [Subs -> Events]
                   /\ drawn' \in 0 .. MaxIds /\ id_counter' = IdOf(drawn')
                   /\ pc' \in [Callers -> Labels \cup {"sendOn"}]
                   /\ id' \in [Callers -> 0 .. IdSpace]
                   /\ serial' \in [Callers -> 0 .. drawn']
                   /\ by' \in [Callers -> Abouts]
<1>2. Nothing \in Abouts /\ NoId \in 0 .. IdSpace /\ 0 \in 0 .. drawn
  BY RoutingAssumption DEF Abouts, NoId, TypeInv
<1>3. ASSUME NEW s \in Subs, LocalStep(s) PROVE Rest
  <2>1. UNCHANGED <<eventOf, drawn, id_counter>>
    BY <1>3 DEF LocalStep, idVars
  <2>2. PICK label \in Labels : Goto(s, label)
    BY <1>3 DEF LocalStep
  <2>3. pc' \in [Callers -> Labels \cup {"sendOn"}]
    BY <2>2 DEF Goto, TypeInv
  <2>4. id' \in [Callers -> 0 .. IdSpace] /\ serial' \in [Callers -> 0 .. drawn] /\ by' \in [Callers -> Abouts]
    BY <1>2, <1>3 DEF LocalStep, TypeInv
  <2> QED
    BY <2>1, <2>3, <2>4 DEF TypeInv
<1>4. ASSUME NEW c \in Callers, Draw(c), UNCHANGED eventOf, NEW label \in Labels \cup {"sendOn"}, Goto(c, label)
      PROVE  Rest
  <2>1. /\ drawn' \in 0 .. MaxIds /\ id_counter' = IdOf(drawn')
    BY <1>4, Fresh DEF Draw
  <2>2. id' \in [Callers -> 0 .. IdSpace] /\ serial' \in [Callers -> 0 .. drawn']
    BY <1>4, Drawn
  <2>3. by' \in [Callers -> Abouts] /\ pc' \in [Callers -> Labels \cup {"sendOn"}]
    BY <1>2, <1>4 DEF Draw, Goto, TypeInv
  <2> QED
    BY <1>4, <2>1, <2>2, <2>3 DEF TypeInv
<1>5. ASSUME NEW c \in Callers, NEW kind, DrawAndSend(c, kind) PROVE Rest
  <2>1. PICK label \in Labels : Goto(c, label)
    BY <1>5 DEF DrawAndSend
  <2>2. Draw(c) /\ UNCHANGED eventOf
    BY <1>5 DEF DrawAndSend
  <2> QED
    BY <1>4, <2>1, <2>2
<1>6. ASSUME NEW s \in Subs, SubscribeRecord(s) PROVE Rest
  <2>1. s \in Callers /\ Draw(s) /\ UNCHANGED eventOf /\ Goto(s, "sendOn")
    BY <1>6 DEF SubscribeRecord, modeVars, Callers
  <2> QED
    BY <1>4, <2>1
<1>7. ASSUME NEW s \in Subs, SubscribeSend(s) PROVE Rest
  <2>1. UNCHANGED <<eventOf, drawn, id_counter, id, serial, by>>
    BY <1>7 DEF SubscribeSend, modeVars, idVars
  <2>2. pc' \in [Callers -> Labels \cup {"sendOn"}]
    BY <1>7 DEF SubscribeSend, Goto, TypeInv, Labels
  <2> QED
    BY <2>1, <2>2 DEF TypeInv
<1>8. ASSUME NEW i, NEW answer, NEW about \in Abouts, Fulfil(i, answer, about)
      PROVE  by' \in [Callers -> Abouts]
  <2>1. by' = by \/ by' = [by EXCEPT ![queue[i].caller] = about]
    BY <1>8 DEF Fulfil
  <2> QED
    BY <2>1 DEF TypeInv
<1>9. ASSUME NEW i \in MessageID, TimeOut(i) PROVE Rest
  <2>1. UNCHANGED <<eventOf, drawn, id_counter, pc, id, serial>>
    BY <1>9 DEF TimeOut, modeVars, idVars, callVars
  <2>2. by' \in [Callers -> Abouts]
    BY <1>2, <1>8, <1>9 DEF TimeOut
  <2> QED
    BY <2>1, <2>2 DEF TypeInv
<1>10. ASSUME Respond PROVE Rest
  <2>1. UNCHANGED <<eventOf, drawn, id_counter, pc, id, serial>>
    BY <1>10 DEF Respond, modeVars, idVars, callVars
  <2>2. taken.msg.about \in Abouts
    BY DEF TypeInv, Decisions, Messages
  <2>3. by' \in [Callers -> Abouts]
    <3>1. by' = by \/ \E i, answer : Fulfil(i, answer, taken.msg.about)
      BY <1>10 DEF Respond
    <3> QED
      BY <1>8, <2>2, <3>1 DEF TypeInv
  <2> QED
    BY <2>1, <2>3 DEF TypeInv
<1>11. ASSUME \/ ServerReads \/ ServerEmits \/ ServerStrays \/ TakeLegacyEvent \/ TakeResponse
              \/ TakeNotification \/ TakeInvalid \/ Notify \/ ConnectRefused \/ UNCHANGED vars
       PROVE  Rest
  <2>1. UNCHANGED <<eventOf, drawn, id_counter, pc, id, serial, by>>
    BY <1>11 DEF ServerReads, ServerEmits, ServerStrays, TakeLegacyEvent, TakeResponse, TakeNotification,
                 TakeInvalid, Take, Notify, ConnectRefused, modeVars, idVars, callVars, tableVars, vars
  <2> QED
    BY <2>1 DEF TypeInv
<1>12. Subs \subseteq Callers /\ Reqs \subseteq Callers
  BY DEF Callers
<1>13. Rest
  BY <1>3, <1>5, <1>6, <1>7, <1>9, <1>10, <1>11, <1>12, Cases DEF OnMessage
<1> QED
  BY <1>1, <1>13 DEF TypeInv

-----------------------------------------------------------------------------
\* An event that a legacy server emits carries the identifier of a listen
\* request that was sent.
LEMMA EventId ==
  ASSUME MaxIds <= IdSpace, TypeInv, NEW own \in Owners, NEW sent \in SUBSET Used,
         NEW m, Sound(m, own, sent), IsEvent(m), m.shape.idKind # "absent"
  PROVE  m.shape.idKind = "number" /\ m.shape.id \in sent /\ m.shape.id \in MessageID /\ ToMessageID(m.shape.id) = m.shape.id
<1>1. sent \subseteq MessageID
  BY UsedIds
<1>2. m.about # Nothing /\ \A n : ~OfReply(m, own, n)
  BY Distinct DEF IsEvent, OfReply
<1>3. PICK i \in sent : OfEvent(m, own, i)
  BY <1>2 DEF Sound
<1>4. m.shape = Reply(i, "value") \/ (m.shape = Notification(eventOf[own[i]]) /\ eventOf[own[i]] \in Events)
  BY <1>3 DEF OfEvent, TypeInv
<1>5. m.shape.idKind = "number" /\ m.shape.id = i
  BY <1>1, <1>4, Shapes
<1> QED
  BY <1>1, <1>5, Identifiers

\* A message arrives behind the others; the table and the worker's hand stay.
LEMMA OrderAppend ==
  ASSUME TypeInv, OrderInv, NEW x \in Messages, inbox' = Append(inbox, x), UNCHANGED <<queue, taken>>,
         Claims(x) => Answering(x.shape.id) \/ \E j \in 1 .. Len(inbox) : Acks(inbox[j], x.shape.id),
         \A l \in listening' : l \in listening \/ Acks(x, l.id)
  PROVE  OrderInv'
<1>1. inbox \in Seq(Messages)
  BY DEF TypeInv
<1>2. /\ Len(inbox) \in Nat /\ Len(inbox') = Len(inbox) + 1
      /\ \A k \in 1 .. Len(inbox) : k \in 1 .. Len(inbox') /\ inbox'[k] = inbox[k]
      /\ inbox'[Len(inbox) + 1] = x
      /\ \A k \in 1 .. Len(inbox') : k \in 1 .. Len(inbox) \/ k = Len(inbox) + 1
  BY <1>1, LastIn
<1>3. Len(inbox) + 1 \in 1 .. Len(inbox') /\ \A k \in 1 .. Len(inbox) : k < Len(inbox) + 1
  BY <1>2
<1>4. ListeningAcked'
  <2> SUFFICES ASSUME NEW l \in listening', l.id \in DOMAIN queue
               PROVE  (taken.to = "client" /\ taken.id = l.id) \/ \E j \in 1 .. Len(inbox') : Acks(inbox'[j], l.id)
    BY DEF ListeningAcked, Answering
  <2>1. CASE l \in listening
    BY <1>2, <2>1 DEF OrderInv, ListeningAcked, Answering
  <2>2. CASE Acks(x, l.id)
    BY <1>2, <1>3, <2>2
  <2> QED
    BY <2>1, <2>2
<1>5. EventsAcked'
  <2> SUFFICES ASSUME NEW k \in 1 .. Len(inbox'), NEW m, m = inbox'[k], Claims(m)
               PROVE  \/ taken.to = "client" /\ taken.id = m.shape.id
                      \/ \E j \in 1 .. Len(inbox') : j < k /\ Acks(inbox'[j], m.shape.id)
    BY DEF EventsAcked, Answering, Claims
  <2>1. CASE k \in 1 .. Len(inbox)
    BY <1>2, <2>1 DEF OrderInv, EventsAcked, Answering
  <2>2. CASE k = Len(inbox) + 1
    BY <1>2, <1>3, <2>2 DEF Answering
  <2> QED
    BY <1>2, <2>1, <2>2
<1> QED
  BY <1>4, <1>5 DEF OrderInv

\* The first message is taken: if it acknowledges a listen request, the worker
\* is about to answer that request.
LEMMA OrderTake ==
  ASSUME MaxIds <= IdSpace, TypeInv, NEW own \in Owners, NEW sent \in SUBSET Used, Agree(own, sent),
         OrderInv, TakenInv, Takes \/ TakeInvalid
  PROVE  OrderInv'
<1>1. inbox \in Seq(Messages) /\ inbox # <<>> /\ inbox' = Tail(inbox) /\ taken = Idle
  BY DEF TypeInv, Takes, TakeLegacyEvent, TakeResponse, TakeNotification, TakeInvalid, Take
<1>2. UNCHANGED <<queue, listening>>
  BY DEF Takes, TakeLegacyEvent, TakeResponse, TakeNotification, TakeInvalid, Take, tableVars, serverVars
<1>3. /\ Len(inbox) \in Nat /\ 1 \in 1 .. Len(inbox) /\ Head(inbox) = inbox[1] /\ Len(inbox') = Len(inbox) - 1
      /\ \A k \in 1 .. Len(inbox') : k + 1 \in 1 .. Len(inbox) /\ inbox'[k] = inbox[k + 1]
  BY <1>1, FirstOut
<1>4. \A i : ~Answering(i)
  BY <1>1, IdleFields DEF Answering
<1>5. ASSUME NEW i \in MessageID, Acks(inbox[1], i) PROVE taken'.to = "client" /\ taken'.id = i
  <2>1. ToMessageID(i) = i
    BY Identifiers
  <2>2. IsResponse(Head(inbox).shape) /\ ~IsLegacyEvent(Head(inbox).shape) /\ Head(inbox).shape.idKind = "number"
    BY <1>3, <1>5 DEF Acks, IsResponse, IsLegacyEvent, IsValue
  <2>3. TakeResponse
    BY <2>2 DEF Converts, Takes, TakeLegacyEvent, TakeNotification, TakeInvalid, IsNotification, IsMethodCall
  <2> QED
    BY <1>3, <1>5, <2>1, <2>3, Deciding DEF Takes, Acks
<1>6. ASSUME NEW j \in 1 .. Len(inbox), j # 1 PROVE j - 1 \in 1 .. Len(inbox') /\ inbox'[j - 1] = inbox[j]
  <2>1. j - 1 \in 1 .. Len(inbox') /\ (j - 1) + 1 = j
    BY <1>3, <1>6
  <2> QED
    BY <1>3, <2>1
<1>7. ListeningAcked'
  <2> SUFFICES ASSUME NEW l \in listening, l.id \in DOMAIN queue
               PROVE  \/ taken'.to = "client" /\ taken'.id = l.id
                      \/ \E j \in 1 .. Len(inbox') : Acks(inbox'[j], l.id)
    BY <1>2 DEF ListeningAcked, Answering
  <2>1. PICK j \in 1 .. Len(inbox) : Acks(inbox[j], l.id)
    BY <1>4 DEF OrderInv, ListeningAcked
  <2>2. l.id \in MessageID
    BY UsedIds DEF Agree, ListeningOk
  <2> QED
    BY <1>5, <1>6, <2>1, <2>2
<1>8. EventsAcked'
  <2> SUFFICES ASSUME NEW k \in 1 .. Len(inbox'), NEW m, m = inbox'[k], Claims(m)
               PROVE  \/ taken'.to = "client" /\ taken'.id = m.shape.id
                      \/ \E j \in 1 .. Len(inbox') : j < k /\ Acks(inbox'[j], m.shape.id)
    BY <1>2 DEF EventsAcked, Answering, Claims
  <2>1. k + 1 \in 1 .. Len(inbox) /\ m = inbox[k + 1]
    BY <1>3
  <2>2. PICK j \in 1 .. Len(inbox) : j < k + 1 /\ Acks(inbox[j], m.shape.id)
    BY <1>4, <2>1 DEF OrderInv, EventsAcked
  <2>3. m.shape.id \in MessageID
    BY <2>1, EventId DEF Agree, InboxOk, Claims
  <2>4. CASE j = 1
    BY <1>5, <2>2, <2>3, <2>4
  <2>5. CASE j # 1
    <3>1. j - 1 < k
      BY <1>3, <2>2
    <3> QED
      BY <1>6, <2>2, <2>5, <3>1
  <2> QED
    BY <2>4, <2>5
<1>9. taken'.to = "client" /\ IsEvent(taken'.msg) => taken'.id \notin DOMAIN queue
  <2> SUFFICES ASSUME taken'.to = "client", IsEvent(taken'.msg), taken'.id \in DOMAIN queue
               PROVE  FALSE
    OBVIOUS
  <2>1. TakeResponse
    <3>1. ~TakeInvalid
      BY <1>1, IdleFields DEF TakeInvalid, workVars
    <3> QED
      BY <3>1, Deciding DEF Takes
  <2>2. PICK m : m = inbox[1]
    OBVIOUS
  <2>3. taken'.msg = m /\ m.shape.idKind # "absent" /\ taken'.id = ToMessageID(m.shape.id)
    BY <1>3, <2>1, <2>2, Deciding DEF Takes, Converts
  <2>4. taken'.id = m.shape.id /\ m.shape.idKind = "number"
    BY <1>3, <2>2, <2>3, EventId DEF Agree, InboxOk
  <2>5. Claims(m)
    BY <2>3, <2>4 DEF Claims
  <2>6. \E j \in 1 .. Len(inbox) : j < 1
    BY <1>3, <1>4, <2>2, <2>5 DEF OrderInv, EventsAcked
  <2> QED
    BY <2>6
<1> QED
  BY <1>2, <1>7, <1>8, <1>9 DEF OrderInv

\* The order of acknowledgements and events is kept by every step.
LEMMA OrderStep ==
  ASSUME MaxIds <= IdSpace, TypeInv, NEW own \in Owners, NEW sent \in SUBSET Used, Agree(own, sent),
         OrderInv, TakenInv, [Next]_vars
  PROVE  OrderInv'
<1>1. OldEntries(sent)
  BY OwnerStep
<1>2. \A l \in listening : l.id \in sent
  BY DEF Agree, ListeningOk
<1>3. ASSUME NEW k \in 1 .. Len(inbox), IsEvent(inbox[k]), inbox[k].shape.idKind = "number"
      PROVE  inbox[k].shape.id \in sent
  BY <1>3, EventId DEF Agree, InboxOk
<1>4. ASSUME taken.to = "client", IsEvent(taken.msg) PROVE taken.id \in sent
  BY <1>4, EventId DEF Agree, TakenOk, TakenInv, Converts
<1>5. CASE UNCHANGED <<listening, inbox, taken>>
  <2>1. ListeningAcked'
    BY <1>1, <1>2, <1>5 DEF OldEntries, OrderInv, ListeningAcked, Answering
  <2>2. EventsAcked'
    BY <1>1, <1>3, <1>5 DEF OldEntries, OrderInv, EventsAcked, Answering, Claims
  <2>3. taken.to = "client" /\ IsEvent(taken.msg) => taken.id \notin DOMAIN queue'
    BY <1>1, <1>4 DEF OldEntries, OrderInv
  <2> QED
    BY <1>5, <2>1, <2>2, <2>3 DEF OrderInv
<1>6. CASE ServerReads
  <2>1. UNCHANGED <<queue, taken>>
    BY <1>6 DEF ServerReads, tableVars, workVars
  <2>2. wire \in Seq(Requests) /\ wire # <<>>
    BY <1>6 DEF ServerReads, TypeInv
  <2>3. PICK a \in Requests : a = Head(wire) /\ AskOk(a, own, sent)
    BY <2>2, FirstOut DEF Agree, WireOk
  <2>4. CASE inbox' = inbox /\ listening' = listening
    BY <1>5, <2>1, <2>4
  <2>5. ASSUME NEW shape,
               \/ a.kind = "request" /\ shape \in {Reply(a.id, "empty"), Reply(a.id, "value")}
               \/ shape \in {Reply(a.id, "listening"), Refusal(a.id)},
               inbox' = Append(inbox, [shape |-> shape, about |-> ReplyTo(a.from, a.n)]),
               \A l \in listening' : l \in listening \/ (l.id = a.id /\ shape = Reply(a.id, "listening"))
        PROVE  OrderInv'
    <3>1. PICK x : x = [shape |-> shape, about |-> ReplyTo(a.from, a.n)]
      OBVIOUS
    <3>2. x \in Messages
      BY <2>3, <2>5, <3>1, Answered
    <3>3. ~Claims(x)
      BY <3>1, Distinct DEF Claims, IsEvent
    <3>4. \A l \in listening' : l \in listening \/ Acks(x, l.id)
      BY <2>5, <3>1, Shapes DEF Acks, Requests
    <3> QED
      BY <2>1, <2>5, <3>1, <3>2, <3>3, <3>4, OrderAppend
  <2> QED
    BY <1>6, <2>3, <2>4, <2>5 DEF ServerReads, Deliver
<1>7. CASE ServerEmits
  <2>1. UNCHANGED <<queue, taken, listening>>
    BY <1>7 DEF ServerEmits, tableVars, workVars
  <2>2. PICK l \in listening :
          inbox' = Append(inbox, [shape |-> IF serverLegacy THEN Reply(l.id, "value") ELSE Notification(l.event),
                                  about |-> About(l.event)])
    BY <1>7 DEF ServerEmits, Deliver
  <2>3. PICK x : x = [shape |-> IF serverLegacy THEN Reply(l.id, "value") ELSE Notification(l.event),
                      about |-> About(l.event)]
    OBVIOUS
  <2>4. l.event \in Events /\ l.id \in MessageID
    BY UsedIds DEF Agree, ListeningOk, TypeInv
  <2>5. x.shape \in Shape /\ (x.shape.idKind = "number" => x.shape.id = l.id)
    BY <2>3, <2>4, Shapes
  <2>6. x \in Messages
    BY <2>3, <2>4, <2>5 DEF Messages, Abouts
  <2>7. Claims(x) => Answering(x.shape.id) \/ \E j \in 1 .. Len(inbox) : Acks(inbox[j], x.shape.id)
    BY <2>5 DEF Claims, OrderInv, ListeningAcked
  <2> QED
    BY <2>1, <2>2, <2>3, <2>6, <2>7, OrderAppend
<1>8. CASE ServerStrays
  <2>1. UNCHANGED <<queue, taken, listening>>
    BY <1>8 DEF ServerStrays, tableVars, workVars
  <2>2. PICK shape \in Strays : inbox' = Append(inbox, [shape |-> shape, about |-> Nothing])
    BY <1>8 DEF ServerStrays, Deliver
  <2>3. PICK x : x = [shape |-> shape, about |-> Nothing]
    OBVIOUS
  <2>4. x \in Messages
    BY <2>3, StraysAssumption DEF Messages, Abouts
  <2>5. ~Claims(x)
    BY <2>3, Distinct DEF Claims, IsEvent
  <2> QED
    BY <2>1, <2>2, <2>3, <2>4, <2>5, OrderAppend
<1>9. CASE Takes \/ TakeInvalid
  BY <1>9, OrderTake
<1>10. CASE Respond \/ Notify
  <2>1. taken' = Idle /\ UNCHANGED <<inbox, listening>>
    BY <1>10 DEF Respond, Notify, serverVars
  <2>2. ASSUME NEW i, i \in DOMAIN queue' PROVE i \in DOMAIN queue /\ ~Answering(i)
    BY <1>10, <2>2 DEF Respond, Notify, Fulfil, Without, Answering, tableVars
  <2>3. ListeningAcked'
    BY <2>1, <2>2 DEF OrderInv, ListeningAcked
  <2>4. EventsAcked'
    BY <2>1, <2>2 DEF OrderInv, EventsAcked, Claims
  <2> QED
    BY <2>1, <2>3, <2>4, IdleFields DEF OrderInv
<1>11. \/ UNCHANGED <<listening, inbox, taken>>
       \/ ServerReads \/ ServerEmits \/ ServerStrays \/ OnMessage
  BY Cases DEF LocalStep, SubscribeRecord, SubscribeSend, DrawAndSend, TimeOut, ConnectRefused,
               serverVars, workVars, vars
<1> QED
  BY <1>5, <1>6, <1>7, <1>8, <1>9, <1>10, <1>11 DEF OnMessage, Takes

-----------------------------------------------------------------------------
\* The event under which a message is taken is the one it is about, and no
\* malformed message is taken.
LEMMA TakenStep ==
  ASSUME MaxIds <= IdSpace, TypeInv, NEW own \in Owners, NEW sent \in SUBSET Used, Agree(own, sent),
         TakenInv, [Next]_vars
  PROVE  TakenInv'
<1>1. CASE taken' = taken
  BY <1>1 DEF TakenInv
<1>2. CASE taken' = Idle
  BY <1>2, IdleFields DEF TakenInv
<1>3. CASE Takes
  <2>1. PICK m : m = Head(inbox)
    OBVIOUS
  <2>2. m \in Messages /\ Sound(m, own, sent) /\ taken'.msg = m /\ taken' \in Decisions
    BY <1>3, <2>1, Deciding DEF Agree, InboxOk
  <2>3. sent \subseteq MessageID /\ \A n \in 1 .. drawn : IdOf(n) \in MessageID
    BY UsedIds
  <2>4. ASSUME NEW i \in sent, OfEvent(m, own, i)
        PROVE  \/ m.shape.idKind = "number" /\ m.shape.id = i
               \/ m.shape.idKind = "absent" /\ m.shape.method = eventOf[own[i]]
    <3>1. eventOf[own[i]] \in Events /\ i \in MessageID
      BY <2>3, <2>4 DEF OfEvent, TypeInv
    <3> QED
      BY <2>4, <3>1, Shapes DEF OfEvent
  <2>5. CASE TakeLegacyEvent
    <3>1. /\ taken'.to = "server" /\ IsLegacyEvent(m.shape)
          /\ taken'.event = eventMap[ToMessageID(m.shape.id)]
      BY <1>3, <2>1, <2>5, Deciding
    <3>2. PICK i : i = ToMessageID(m.shape.id)
      OBVIOUS
    <3>3. /\ i \in DOMAIN eventMap /\ own[i] \in Subs /\ eventMap[i] = eventOf[own[i]]
          /\ m.shape.idKind = "number" /\ m.shape.result \notin {"absent", "listening"} /\ IsResponse(m.shape)
      BY <3>1, <3>2 DEF IsLegacyEvent, IsValue, Agree, MapOk
    <3>4. ASSUME NEW n \in 1 .. drawn, OfReply(m, own, n) PROVE FALSE
      <4>1. m.shape.id = IdOf(n) /\ IdOf(n) \in MessageID
        BY <2>3, <3>4 DEF OfReply
      <4>2. i = IdOf(n)
        BY <3>2, <4>1, Identifiers
      <4> QED
        BY <3>3, <3>4, <4>2 DEF OfReply
    <3>5. ASSUME NEW j \in sent, OfEvent(m, own, j) PROVE m.about = About(eventMap[i])
      <4>1. m.shape.id = j /\ j \in MessageID
        BY <2>3, <2>4, <3>3, <3>5
      <4>2. i = j
        BY <3>2, <4>1, Identifiers
      <4> QED
        BY <3>3, <3>5, <4>2 DEF OfEvent
    <3>6. m.about \in {Nothing, About(eventMap[i])}
      BY <2>2, <3>4, <3>5 DEF Sound
    <3> QED
      BY <2>2, <3>1, <3>2, <3>6 DEF TakenInv
  <2>6. CASE TakeResponse
    <3>1. /\ taken'.to = "client" /\ taken'.id = ToMessageID(m.shape.id)
          /\ Converts(m.shape) /\ IsResponse(m.shape)
      BY <1>3, <2>1, <2>6, Deciding
    <3> QED
      BY <2>2, <3>1 DEF TakenInv
  <2>7. CASE TakeNotification
    <3>1. /\ taken'.to = "server" /\ taken'.event = m.shape.method
          /\ IsNotification(m.shape) /\ m.shape.method \in Events
      BY <1>3, <2>1, <2>7, Deciding
    <3>2. m.shape.idKind = "absent" /\ m.shape.params
      BY <3>1 DEF IsNotification, IsMethodCall
    <3>3. \A n \in 1 .. drawn : ~OfReply(m, own, n)
      BY <3>2 DEF OfReply
    <3>4. \A i \in sent : OfEvent(m, own, i) => m.about = About(m.shape.method)
      BY <2>4, <3>2 DEF OfEvent
    <3>5. m.about \in {Nothing, About(m.shape.method)}
      BY <2>2, <3>3, <3>4 DEF Sound
    <3> QED
      BY <2>2, <3>1, <3>5 DEF TakenInv
  <2> QED
    BY <1>3, <2>5, <2>6, <2>7 DEF Takes
<1>4. taken' = taken \/ taken' = Idle \/ Takes
  BY Cases DEF LocalStep, SubscribeRecord, SubscribeSend, DrawAndSend, TimeOut, ConnectRefused,
               ServerReads, ServerEmits, ServerStrays, OnMessage, Takes, TakeInvalid, Respond, Notify,
               workVars, vars
<1> QED
  BY <1>1, <1>2, <1>3, <1>4

\* The reply that Client::response() hands out is the one to the request in
\* the table.
LEMMA Owned ==
  ASSUME MaxIds <= IdSpace, TypeInv, NEW own \in Owners, NEW sent \in SUBSET Used, Agree(own, sent),
         OrderInv, TakenInv, taken.to = "client", taken.id \in DOMAIN queue
  PROVE  taken.msg.about \in {Nothing, ReplyTo(queue[taken.id].caller, queue[taken.id].n)}
<1>1. PICK m, i, q : m = taken.msg /\ i = taken.id /\ q = queue[taken.id]
  OBVIOUS
<1>2. Sound(m, own, sent) /\ i = ToMessageID(m.shape.id) /\ ~IsEvent(m)
  BY <1>1 DEF Agree, TakenOk, TakenInv, OrderInv
<1>3. q.n \in 1 .. drawn /\ i = IdOf(q.n) /\ q.caller = own[i]
  BY <1>1 DEF Agree, TableOk
<1>4. ASSUME NEW n \in 1 .. drawn, OfReply(m, own, n) PROVE m.about = ReplyTo(q.caller, q.n)
  <2>1. m.shape.id = IdOf(n) /\ IdOf(n) \in MessageID /\ n \in 1 .. MaxIds /\ q.n \in 1 .. MaxIds
    BY <1>3, <1>4, UsedIds DEF OfReply
  <2>2. i = IdOf(n)
    BY <1>2, <2>1, Identifiers
  <2>3. n = q.n
    BY <1>3, <2>1, <2>2, Identifiers
  <2> QED
    BY <1>3, <1>4, <2>2, <2>3 DEF OfReply
<1>5. ASSUME NEW j \in sent, OfEvent(m, own, j) PROVE FALSE
  BY <1>2, <1>5 DEF OfEvent, IsEvent, TypeInv
<1>6. m.about \in {Nothing, ReplyTo(q.caller, q.n)}
  BY <1>2, <1>4, <1>5 DEF Sound
<1> QED
  BY <1>1, <1>6

\* Futures and callbacks get what is theirs.
LEMMA ReachStep ==
  ASSUME MaxIds <= IdSpace, TypeInv, NEW own \in Owners, NEW sent \in SUBSET Used, Agree(own, sent),
         OrderInv, TakenInv, ReachesItsOwner, [Next]_vars
  PROVE  ReachesItsOwner'
<1>1. \A c \in Callers : by[c] \in {Nothing, ReplyTo(c, serial[c])}
  BY DEF ReachesItsOwner
<1> DEFINE Futures == \A c \in Callers : by'[c] \in {Nothing, ReplyTo(c, serial'[c])}
           Callbacks == \A g \in got' : g.about \in {Nothing, About(eventOf'[g.sub])}
<1>2. by \in [Callers -> Abouts] /\ serial \in [Callers -> 0 .. drawn]
  BY DEF TypeInv
<1>3. ASSUME UNCHANGED <<by, serial>> PROVE Futures
  BY <1>1, <1>3
<1>4. ASSUME NEW s \in Subs, LocalStep(s) PROVE Futures
  BY <1>1, <1>2, <1>4 DEF LocalStep
<1>5. ASSUME NEW c \in Callers, Draw(c) PROVE Futures
  BY <1>1, <1>2, <1>5 DEF Draw
<1>6. ASSUME NEW i \in DOMAIN queue, NEW answer, NEW about, Fulfil(i, answer, about), UNCHANGED serial,
             about \in {Nothing, ReplyTo(queue[i].caller, queue[i].n)}
      PROVE  Futures
  <2>1. CASE by' = by
    BY <1>3, <1>6, <2>1
  <2>2. CASE serial[queue[i].caller] = queue[i].n /\ by' = [by EXCEPT ![queue[i].caller] = about]
    BY <1>1, <1>2, <1>6, <2>2
  <2> QED
    BY <1>6, <2>1, <2>2 DEF Fulfil
<1>7. ASSUME NEW i \in MessageID, TimeOut(i) PROVE Futures
  BY <1>6, <1>7 DEF TimeOut
<1>8. ASSUME Respond PROVE Futures
  <2>1. UNCHANGED serial /\ taken.to = "client"
    BY <1>8 DEF Respond
  <2>2. CASE by' = by
    BY <1>3, <2>1, <2>2
  <2>3. ASSUME taken.id \in DOMAIN queue, NEW answer, Fulfil(taken.id, answer, taken.msg.about) PROVE Futures
    BY <1>6, <2>1, <2>3, Owned
  <2> QED
    BY <1>8, <2>2, <2>3 DEF Respond
<1>9. Futures
  <2>1. ASSUME NEW s \in Subs, SubscribeRecord(s) PROVE Futures
    BY <1>5, <2>1 DEF SubscribeRecord, Callers
  <2>2. ASSUME NEW c \in Callers, NEW kind, DrawAndSend(c, kind) PROVE Futures
    BY <1>5, <2>2 DEF DrawAndSend
  <2>3. ASSUME NEW s \in Subs, SubscribeSend(s) PROVE Futures
    BY <1>3, <2>3 DEF SubscribeSend
  <2>4. ASSUME \/ ServerReads \/ ServerEmits \/ ServerStrays \/ TakeLegacyEvent \/ TakeResponse
               \/ TakeNotification \/ TakeInvalid \/ Notify \/ ConnectRefused \/ UNCHANGED vars
        PROVE  Futures
    <3>1. UNCHANGED <<by, serial>>
      BY <2>4 DEF ServerReads, ServerEmits, ServerStrays, TakeLegacyEvent, TakeResponse, TakeNotification,
                  TakeInvalid, Take, Notify, ConnectRefused, tableVars, vars
    <3> QED
      BY <1>3, <3>1
  <2>5. Subs \subseteq Callers /\ Reqs \subseteq Callers
    BY DEF Callers
  <2> HIDE DEF Futures
  <2> QED
    BY <1>4, <1>7, <1>8, <2>1, <2>2, <2>3, <2>4, <2>5, Cases DEF OnMessage
<1>10. eventOf' = eventOf
  BY Cases DEF LocalStep, SubscribeRecord, SubscribeSend, DrawAndSend, TimeOut, ConnectRefused,
               ServerReads, ServerEmits, ServerStrays, OnMessage, TakeLegacyEvent, TakeResponse,
               TakeNotification, TakeInvalid, Take, Respond, Notify, modeVars, vars
<1>11. Callbacks
  <2>1. CASE got' = got
    BY <1>10, <2>1 DEF ReachesItsOwner
  <2>2. CASE got' = {}
    BY <2>2
  <2>3. CASE Notify
    <3> SUFFICES ASSUME NEW g \in got' PROVE g.about \in {Nothing, About(eventOf[g.sub])}
      BY <1>10
    <3>1. PICK s \in eventList : eventOf[s] = taken.event /\ g = [sub |-> s, about |-> taken.msg.about]
      BY <2>3 DEF Notify
    <3>2. taken.msg.about \in {Nothing, About(taken.event)}
      BY <2>3 DEF Notify, TakenInv
    <3> QED
      BY <3>1, <3>2
  <2>4. got' = got \/ got' = {} \/ Notify
    BY Cases DEF LocalStep, SubscribeRecord, SubscribeSend, DrawAndSend, TimeOut, ConnectRefused,
                 ServerReads, ServerEmits, ServerStrays, OnMessage, TakeLegacyEvent, TakeResponse,
                 TakeNotification, TakeInvalid, Take, Respond, workVars, vars
  <2> QED
    BY <2>1, <2>2, <2>3, <2>4
<1> QED
  BY <1>9, <1>11 DEF ReachesItsOwner

-----------------------------------------------------------------------------
\* The invariant holds when the connection has been opened.
LEMMA Initially == ASSUME MaxIds <= IdSpace, Init PROVE IInv
<1>1. TypeInv
  <2>1. eventOf \in [Subs -> Events] /\ drawn = 0 /\ id_counter = 0 /\ MaxIds \in Nat /\ IdSpace \in Nat /\ IdSpace > 0
    BY RoutingAssumption DEF Init
  <2>2. drawn \in 0 .. MaxIds /\ id_counter = IdOf(drawn) /\ NoId \in 0 .. IdSpace
    BY <2>1 DEF IdOf, NoId
  <2>3. /\ pc \in [Callers -> Labels \cup {"sendOn"}] /\ id \in [Callers -> 0 .. IdSpace]
        /\ serial \in [Callers -> 0 .. drawn] /\ by \in [Callers -> Abouts]
    BY <2>1, <2>2 DEF Init, Labels, Abouts
  <2>4. wire \in Seq(Requests) /\ inbox \in Seq(Messages) /\ taken \in Decisions
    BY IdleFields DEF Init
  <2> QED
    BY <2>1, <2>2, <2>3, <2>4 DEF TypeInv
<1>2. OwnerInv
  <2>1. PICK own : own = [i \in MessageID |-> Nobody]
    OBVIOUS
  <2>2. DOMAIN queue = {} /\ DOMAIN eventMap = {} /\ Len(wire) = 0 /\ Len(inbox) = 0
    BY DEF Init
  <2>3. \A c \in Callers : serial[c] = 0 /\ pc[c] = "new"
    BY DEF Init
  <2>4. TableOk(own, {}) /\ CallersOk(own, {}) /\ WireOk(own, {}) /\ MapOk(own) /\ InboxOk(own, {})
    BY <2>2, <2>3 DEF TableOk, CallersOk, WireOk, MapOk, InboxOk
  <2>5. ListeningOk(own, {}) /\ TakenOk(own, {})
    BY IdleFields DEF Init, ListeningOk, TakenOk, Sound
  <2>6. own \in Owners /\ {} \in SUBSET Used /\ Agree(own, {})
    BY <2>1, <2>4, <2>5 DEF Owners, Agree
  <2> QED
    BY <2>6 DEF OwnerInv, Owners
<1>3. OrderInv
  BY IdleFields DEF Init, OrderInv, ListeningAcked, EventsAcked
<1>4. TakenInv
  BY IdleFields DEF Init, TakenInv
<1>5. ReachesItsOwner
  BY DEF Init, ReachesItsOwner
<1> QED
  BY <1>1, <1>2, <1>3, <1>4, <1>5 DEF IInv

\* Every step preserves it.
LEMMA InductiveStep == ASSUME MaxIds <= IdSpace, IInv, [Next]_vars PROVE IInv'
<1>1. TypeInv /\ OrderInv /\ TakenInv /\ ReachesItsOwner
  BY DEF IInv
<1>2. PICK own \in Owners, sent \in SUBSET Used : Agree(own, sent)
  BY DEF IInv, OwnerInv
<1>3. TypeInv'
  BY <1>1, <1>2, TypeStep
<1>4. OwnerInv'
  BY <1>1, <1>2, OwnerStep
<1>5. OrderInv'
  BY <1>1, <1>2, OrderStep
<1>6. TakenInv'
  BY <1>1, <1>2, TakenStep
<1>7. ReachesItsOwner'
  BY <1>1, <1>2, ReachStep
<1> QED
  BY <1>3, <1>4, <1>5, <1>6, <1>7 DEF IInv

\* One assignment of identifiers to callers agrees with the table, the wire,
\* the server, the messages received and rpcv1_eventMap, whatever the
\* interleaving of callers, watchdog, server and message worker.
THEOREM Invariance == ASSUME MaxIds <= IdSpace PROVE Spec => []IInv
<1>1. Init => IInv
  BY Initially
<1>2. IInv /\ [Next]_vars => IInv'
  BY InductiveStep
<1> QED
  BY <1>1, <1>2, PTL DEF Spec

\* "Incoming responses must be matched to outstanding requests by `id`": as
\* long as no MessageID has been used twice, a future is answered by the reply
\* to its own request and an event callback is given its own event, for any
\* number of subscribers, requests, events and messages of the server.
THEOREM Reaches == ASSUME MaxIds <= IdSpace PROVE Spec => []ReachesItsOwner
<1>1. IInv => ReachesItsOwner
  BY DEF IInv
<1> QED
  BY <1>1, Invariance, PTL

-----------------------------------------------------------------------------
(* Event list, event map and server.  HelperImpl::mutex_ puts the calls in  *)
(* an order; the invariant says what each of them relies on, and leaves, at *)
(* each of its stages.                                                      *)

InCall == {"check", "add", "record", "sendOn", "ackOn", "rollback", "forgetOn",
           "remove", "others", "forgetOff", "sendOff", "ackOff"}
Listening == {"sendOn", "ackOn", "rollback", "forgetOn"}

InList(e) == {s \in eventList : eventOf[s] = e}
Entries(e) == {i \in DOMAIN eventMap : eventMap[i] = e}
Ids(e) == {l.id : l \in {l \in listening : l.event = e}}
Asks(m, e) == m.from \in Subs /\ eventOf[m.from] = e
NoAsk(e) == \A k \in 1 .. Len(wire) : ~Asks(wire[k], e)

\* The entries of an event that is served under i.
Expected(i) == IF serverLegacy THEN {i} ELSE {}

\* All events e that were received carry the identifier i.
Under(e, i) == \A k \in 1 .. Len(inbox) : serverLegacy /\ inbox[k].about = About(e) => inbox[k].shape.id = i

Served(e, i) == NoAsk(e) /\ Ids(e) = {i} /\ Entries(e) = Expected(i) /\ Under(e, i)

\* No call that concerns e is in progress.
Settled(e) == \/ InList(e) = {} /\ Entries(e) = {}
              \/ InList(e) # {} /\ \E i \in MessageID : Served(e, i)

\* The reply to the last request of h.
Mine(m, h) == m.about = ReplyTo(h, serial[h])

\* The listen request of h is on the wire, behind all others for its event, ...
Pending(h) ==
  /\ \E k \in 1 .. Len(wire) :
       /\ wire[k].n = serial[h] /\ wire[k].kind = "listen"
       /\ \A j \in 1 .. Len(wire) : j # k => wire[j].n # serial[h] /\ (j > k => ~Asks(wire[j], eventOf[h]))
  /\ \A k \in 1 .. Len(inbox) : ~Mine(inbox[k], h)
  /\ ~Mine(taken.msg, h) /\ ans[h] # "ok"

\* ... or was refused or ignored, ...
Rejected(h) ==
  /\ \A k \in 1 .. Len(wire) : wire[k].n # serial[h]
  /\ \A k \in 1 .. Len(inbox) : Mine(inbox[k], h) => inbox[k].shape.error
  /\ (Mine(taken.msg, h) => taken.msg.shape.error) /\ ans[h] # "ok"

\* ... or was accepted: events that still carry another identifier are in
\* front of the acknowledgement, and gone when it has been taken.
Accepted(h) ==
  /\ NoAsk(eventOf[h]) /\ Ids(eventOf[h]) = {id[h]}
  /\ \A j, k \in 1 .. Len(inbox) : Mine(inbox[j], h) /\ Mine(inbox[k], h) => j = k
  /\ \A k \in 1 .. Len(inbox) : serverLegacy /\ inbox[k].about = About(eventOf[h]) =>
       inbox[k].shape.id = id[h] \/ \E j \in 1 .. Len(inbox) : j > k /\ Mine(inbox[j], h)
  /\ Mine(taken.msg, h) \/ ans[h] = "ok" => Under(eventOf[h], id[h])

Asked(h) == Pending(h) \/ Rejected(h) \/ Accepted(h)

\* What the call of h has done, and what it knows.
Stage(h, e) ==
  /\ pc[h] \in {"check", "add", "remove"} => Settled(e)
  /\ pc[h] = "add" => (already[h] <=> InList(e) # {})
  /\ pc[h] = "record" => InList(e) = {h} /\ Entries(e) = {}
  /\ pc[h] \in {"sendOn", "ackOn", "rollback"} => InList(e) = {h}
  /\ pc[h] \in Listening => Entries(e) = Expected(id[h])
  /\ pc[h] = "ackOn" => Asked(h)
  /\ pc[h] \in {"forgetOn", "forgetOff", "sendOff", "ackOff"} => InList(e) = {}
  /\ pc[h] = "others" /\ InList(e) # {} => \E i \in MessageID : Served(e, i)
  /\ pc[h] \in {"others", "forgetOff"} => \E i \in MessageID : Entries(e) \subseteq Expected(i)
  /\ pc[h] \in {"sendOff", "ackOff"} => Entries(e) = {}

\* At most one call is in progress, and it knows its identifier as long as it
\* needs it.
CallInv ==
  /\ mutex \in Subs \cup {Nobody}
  /\ eventList \subseteq Subs
  /\ \A s \in Subs : pc[s] \in InCall <=> mutex = s
  /\ \A s \in Subs : pc[s] \in Listening => serial[s] # 0

LocalTypes == ans \in [Callers -> {"none", "pending", "ok", "error"}] /\ already \in [Subs -> BOOLEAN]

\* Nothing has disturbed the protocol yet.
ModeInv ==
  /\ refused \in Nat /\ strayed \in Nat /\ serverLegacy \in BOOLEAN
  /\ refused = 0 => legacyRPCv1 = serverLegacy
  /\ strayed = 0 => /\ \A k \in 1 .. Len(inbox) : inbox[k].about # Nothing
                    /\ taken.to # "nobody" => taken.msg.about # Nothing

\* Events have the form that the protocol of the connection demands.
FormInv ==
  \A k \in 1 .. Len(inbox), e \in Events : inbox[k].about = About(e) =>
    IF serverLegacy THEN \E i \in MessageID : inbox[k].shape = Reply(i, "value")
                    ELSE inbox[k].shape = Notification(e)

EventInv(e) == /\ \A h \in Subs : mutex = h /\ eventOf[h] = e => Stage(h, e)
               /\ (\A h \in Subs : mutex = h => eventOf[h] # e) => Settled(e)

TablesInv == Undisturbed => \A e \in Events : Findable(e) => EventInv(e)

EInv == CallInv /\ LocalTypes /\ ModeInv /\ FormInv /\ TablesInv

-----------------------------------------------------------------------------
\* The first entry that unsubscribe() looks for is one of the entries.
LEMMA Least == ASSUME NEW T \in SUBSET Nat, T # {} PROVE Min(T) \in T
<1>1. PICK x \in T : \A y \in T : ~(<<y, x>> \in OpToRel(<, Nat))
  BY WFMin, NatLessThanWellFounded
<1>2. \A y \in T : x <= y
  <2> TAKE y \in T
  <2>1. ~(y < x)
    BY <1>1 DEF OpToRel
  <2> QED
    BY <2>1
<1> QED
  BY <1>2 DEF Min

\* What the assignment of identifiers says about requests on the wire, about
\* the event map and the server, ...
LEMMA OfWire ==
  ASSUME MaxIds <= IdSpace, IInv
  PROVE  /\ \A k \in 1 .. Len(wire) :
              /\ wire[k].n \in 1 .. drawn /\ wire[k].id \in MessageID
              /\ wire[k].kind = "request" <=> wire[k].from \in Reqs
              /\ wire[k].from \in Callers
         /\ \A c \in Callers, k \in 1 .. Len(wire) : serial[c] # 0 /\ wire[k].n = serial[c] =>
              wire[k].from = c /\ wire[k].id = id[c]
         /\ \A c \in Callers : serial[c] # 0 => id[c] \in MessageID
<1>1. PICK own \in Owners, sent \in SUBSET Used : Agree(own, sent)
  BY DEF IInv, OwnerInv
<1>2. ASSUME NEW k \in 1 .. Len(wire)
      PROVE  /\ wire[k].n \in 1 .. drawn /\ wire[k].id \in MessageID
             /\ wire[k].kind = "request" <=> wire[k].from \in Reqs
             /\ wire[k].from \in Callers /\ own[wire[k].id] = wire[k].from /\ wire[k].id = IdOf(wire[k].n)
  <2>1. wire[k] \in Requests
    BY DEF IInv, TypeInv
  <2> QED
    BY <1>1, <2>1 DEF Agree, WireOk, AskOk, Requests
<1>3. ASSUME NEW c \in Callers, serial[c] # 0
      PROVE  id[c] \in MessageID /\ own[id[c]] = c /\ id[c] = IdOf(serial[c])
  <2>1. serial[c] \in 1 .. drawn
    BY <1>3, RoutingAssumption DEF IInv, TypeInv
  <2> QED
    BY <1>1, <1>3, <2>1, UsedIds DEF Agree, CallersOk, IInv
<1> QED
  BY <1>2, <1>3

LEMMA OfMap ==
  ASSUME MaxIds <= IdSpace, IInv
  PROVE  /\ \A i \in DOMAIN eventMap : i \in Used /\ i \in MessageID /\ eventMap[i] \in Events
         /\ \A c \in Subs : serial[c] # 0 /\ id[c] \in DOMAIN eventMap => eventMap[id[c]] = eventOf[c]
         /\ \A l \in listening : l.id \in MessageID /\ l.event \in Events
<1>1. PICK own \in Owners, sent \in SUBSET Used : Agree(own, sent)
  BY DEF IInv, OwnerInv
<1>2. Used \subseteq MessageID /\ eventOf \in [Subs -> Events]
  BY UsedIds DEF IInv, TypeInv
<1>3. ASSUME NEW c \in Subs, serial[c] # 0 PROVE own[id[c]] = c
  BY <1>1, <1>3 DEF Agree, CallersOk, Callers
<1> QED
  BY <1>1, <1>2, <1>3 DEF Agree, MapOk, ListeningOk

\* ... and about a caller that has an identifier and has not used it.
LEMMA Unsent ==
  ASSUME MaxIds <= IdSpace, IInv, NEW c \in Callers, pc[c] = "sendOn"
  PROVE  /\ \A k \in 1 .. Len(wire) : wire[k].n # serial[c]
         /\ \A k \in 1 .. Len(inbox) : ~Mine(inbox[k], c)
         /\ ~Mine(taken.msg, c)
<1>1. PICK own \in Owners, sent \in SUBSET Used : Agree(own, sent)
  BY DEF IInv, OwnerInv
<1>2. serial[c] # 0 /\ id[c] = IdOf(serial[c]) /\ id[c] \notin sent
  BY <1>1 DEF Agree, CallersOk
<1>3. ASSUME NEW k \in 1 .. Len(wire) PROVE wire[k].n # serial[c]
  BY <1>1, <1>2 DEF Agree, WireOk, AskOk
<1>4. ASSUME NEW m, Sound(m, own, sent) PROVE ~Mine(m, c)
  <2>1. \A n \in 1 .. drawn : IdOf(n) \in sent => n # serial[c]
    BY <1>2
  <2>2. ASSUME NEW n \in 1 .. drawn, IdOf(n) \in sent, OfReply(m, own, n) PROVE ~Mine(m, c)
    BY <2>1, <2>2, Distinct DEF OfReply, Mine
  <2>3. ASSUME NEW i \in sent, OfEvent(m, own, i) PROVE ~Mine(m, c)
    BY <2>3, Distinct DEF OfEvent, Mine
  <2>4. m.about = Nothing => ~Mine(m, c)
    BY Distinct DEF Mine
  <2> QED
    BY <1>4, <2>2, <2>3, <2>4 DEF Sound
<1> QED
  BY <1>1, <1>3, <1>4 DEF Agree, InboxOk, TakenOk

-----------------------------------------------------------------------------
(* The calls of subscribe() and unsubscribe(). *)

LEMMA Going ==
  ASSUME TypeInv, NEW s \in Callers, NEW label, Goto(s, label)
  PROVE  pc'[s] = label /\ \A c \in Callers \ {s} : pc'[c] = pc[c]
BY DEF TypeInv, Goto

\* A call begins when the mutex is free, and gives it back when it returns.
LEMMA Moves ==
  ASSUME TypeInv, NEW s \in Subs, Subscribe(s) \/ Unsubscribe(s)
  PROVE  /\ \/ pc[s] \notin InCall /\ mutex = Nobody /\ mutex' = s /\ pc'[s] \in InCall
            \/ pc[s] \in InCall /\ mutex' = mutex /\ pc'[s] \in InCall
            \/ pc[s] \in InCall /\ mutex' = Nobody /\ pc'[s] \notin InCall
         /\ \A c \in Callers \ {s} : pc'[c] = pc[c]
<1> DEFINE Began == pc[s] \notin InCall /\ mutex = Nobody /\ mutex' = s /\ pc'[s] \in InCall
           Goes == pc[s] \in InCall /\ mutex' = mutex /\ pc'[s] \in InCall
           Ended == pc[s] \in InCall /\ mutex' = Nobody /\ pc'[s] \notin InCall
           Others == \A c \in Callers \ {s} : pc'[c] = pc[c]
<1>1. \A label : Goto(s, label) => pc'[s] = label /\ Others
  BY Going DEF Callers
<1>2. CASE SubscribeCall(s) \/ UnsubscribeCall(s)
  <2>1. Began
    BY <1>1, <1>2 DEF SubscribeCall, UnsubscribeCall, InCall
  <2>2. Others
    BY <1>1, <1>2 DEF SubscribeCall, UnsubscribeCall
  <2> QED
    BY <2>1, <2>2
<1>3. CASE \/ SubscribeCheck(s) \/ SubscribeRecord(s) \/ SubscribeSend(s) \/ SubscribeRollback(s)
           \/ UnsubscribeRemove(s) \/ UnsubscribeForget(s) \/ UnsubscribeSend(s)
  <2>1. Goes
    BY <1>1, <1>3 DEF SubscribeCheck, SubscribeRecord, SubscribeSend, SubscribeRollback,
       UnsubscribeRemove, UnsubscribeForget, UnsubscribeSend, InCall
  <2>2. Others
    BY <1>1, <1>3 DEF SubscribeCheck, SubscribeRecord, SubscribeSend, SubscribeRollback,
       UnsubscribeRemove, UnsubscribeForget, UnsubscribeSend
  <2> QED
    BY <2>1, <2>2
<1>4. CASE \/ SubscribeAdd(s) \/ SubscribeAck(s) \/ SubscribeForget(s)
           \/ UnsubscribeCheck(s) \/ UnsubscribeAck(s)
  <2>1. /\ pc[s] \in InCall
        /\ \/ Return(s, "subscribed") \/ Return(s, "new")
           \/ Continue(s, "record") \/ Continue(s, "rollback") \/ Continue(s, "forgetOff")
    BY <1>4 DEF SubscribeAdd, SubscribeAck, SubscribeForget, UnsubscribeCheck, UnsubscribeAck, InCall
  <2>2. CASE Return(s, "subscribed") \/ Return(s, "new")
    <3>1. Ended
      BY <1>1, <2>1, <2>2 DEF Return, InCall
    <3>2. Others
      BY <1>1, <2>2 DEF Return
    <3> QED
      BY <3>1, <3>2
  <2>3. CASE Continue(s, "record") \/ Continue(s, "rollback") \/ Continue(s, "forgetOff")
    <3>1. Goes
      BY <1>1, <2>1, <2>3 DEF Continue, InCall
    <3>2. Others
      BY <1>1, <2>3 DEF Continue
    <3> QED
      BY <3>1, <3>2
  <2> QED
    BY <2>1, <2>2, <2>3
<1> QED
  BY <1>2, <1>3, <1>4 DEF Subscribe, Unsubscribe

\* The identifier is there while it is needed, and another caller's stays.
LEMMA Knows ==
  ASSUME MaxIds <= IdSpace, TypeInv, CallInv, NEW s \in Subs, Subscribe(s) \/ Unsubscribe(s)
  PROVE  /\ pc'[s] \in Listening => serial'[s] # 0
         /\ \A c \in Callers \ {s} : serial'[c] = serial[c] /\ id'[c] = id[c]
<1> DEFINE Known == pc'[s] \in Listening => serial'[s] # 0
           Others == \A c \in Callers \ {s} : serial'[c] = serial[c] /\ id'[c] = id[c]
<1>1. s \in Callers /\ \A label : Goto(s, label) => pc'[s] = label
  BY Going DEF Callers
<1>2. serial \in [Callers -> 0 .. drawn] /\ id \in [Callers -> 0 .. IdSpace] /\ drawn \in Nat
  BY RoutingAssumption DEF TypeInv
<1>3. CASE SubscribeRecord(s) \/ UnsubscribeSend(s)
  <2>1. Draw(s)
    BY <1>3 DEF SubscribeRecord, UnsubscribeSend
  <2> QED
    BY <1>1, <1>2, <2>1 DEF Draw
<1>4. CASE SubscribeSend(s)
  BY <1>4 DEF SubscribeSend, CallInv, Listening
<1>5. CASE ~(SubscribeRecord(s) \/ SubscribeSend(s) \/ UnsubscribeSend(s))
  <2>1. LocalStep(s)
    BY <1>5, Local DEF Subscribe, Unsubscribe
  <2>2. Others
    BY <1>2, <2>1 DEF LocalStep
  <2>3. pc'[s] \in Listening => pc[s] \in Listening /\ serial'[s] = serial[s]
    <3>1. CASE SubscribeAck(s) \/ SubscribeRollback(s)
      <4>1. pc[s] \in Listening
        BY <3>1 DEF SubscribeAck, SubscribeRollback, Listening
      <4>2. CASE SubscribeRollback(s)
        BY <4>1, <4>2 DEF SubscribeRollback, tableVars
      <4>3. CASE SubscribeAck(s)
        <5>1. CASE Return(s, "subscribed")
          BY <1>1, <5>1 DEF Return, Listening
        <5>2. CASE Continue(s, "rollback")
          BY <4>1, <5>2 DEF Continue, localVars
        <5> QED
          BY <4>3, <5>1, <5>2 DEF SubscribeAck
      <4> QED
        BY <3>1, <4>2, <4>3
    <3>2. CASE ~(SubscribeAck(s) \/ SubscribeRollback(s))
      <4>1. \/ Goto(s, "check") \/ Goto(s, "add") \/ Goto(s, "subscribed") \/ Goto(s, "record")
            \/ Goto(s, "new") \/ Goto(s, "remove")
            \/ Goto(s, "others") \/ Goto(s, "forgetOff") \/ Goto(s, "sendOff") \/ Goto(s, "ackOff")
        BY <1>5, <3>2 DEF Subscribe, Unsubscribe, SubscribeCall, SubscribeCheck, SubscribeAdd,
           SubscribeForget, UnsubscribeCall, UnsubscribeRemove, UnsubscribeCheck,
           UnsubscribeForget, UnsubscribeAck, Return, Continue
      <4> QED
        BY <1>1, <4>1 DEF Listening
    <3> QED
      BY <3>1, <3>2
  <2>4. Known
    BY <2>3 DEF CallInv
  <2> QED
    BY <2>2, <2>4
<1> QED
  BY <1>3, <1>4, <1>5

-----------------------------------------------------------------------------
\* The steps that belong to no subscriber.
Background == \/ \E r \in Reqs : Request(r)
              \/ \E i \in MessageID : TimeOut(i)
              \/ ConnectRefused \/ ServerReads \/ ServerEmits \/ ServerStrays \/ OnMessage
              \/ UNCHANGED vars

\* They leave the calls, the event list and the event map alone.
LEMMA Elsewhere ==
  ASSUME TypeInv, Background
  PROVE  /\ UNCHANGED <<eventOf, serverLegacy, mutex, already, eventList, eventMap>>
         /\ \A s \in Subs : pc'[s] = pc[s] /\ id'[s] = id[s] /\ serial'[s] = serial[s]
<1>1. CASE \E r \in Reqs : Request(r)
  <2>1. PICK r \in Reqs : Request(r)
    BY <1>1
  <2>2. UNCHANGED <<eventOf, serverLegacy, mutex, already, eventList, eventMap>>
    BY <2>1 DEF Request, modeVars
  <2>3. pc' = [pc EXCEPT ![r] = "waiting"] /\ id' = [id EXCEPT ![r] = id_counter'] /\ serial' = [serial EXCEPT ![r] = drawn']
    BY <2>1 DEF Request, Draw, Goto
  <2>4. \A s \in Subs : s # r /\ s \in Callers
    BY RoutingAssumption DEF Callers
  <2> QED
    BY <2>2, <2>3, <2>4 DEF TypeInv
<1>2. CASE ~\E r \in Reqs : Request(r)
  BY <1>2 DEF Background, TimeOut, ConnectRefused, ServerReads, ServerEmits, ServerStrays, OnMessage,
     Take, TakeLegacyEvent, TakeResponse, TakeNotification, TakeInvalid, Respond, Notify,
     modeVars, callVars, tableVars, vars
<1> QED
  BY <1>1, <1>2

LEMMA Split ==
  ASSUME [Next]_vars PROVE (\E s \in Subs : Subscribe(s) \/ Unsubscribe(s)) \/ Background
BY DEF Next, Background

\* The mutex admits one call.
LEMMA CallStep ==
  ASSUME MaxIds <= IdSpace, IInv, CallInv, [Next]_vars PROVE CallInv'
<1>0. TypeInv
  BY DEF IInv
<1>1. CASE Background
  BY <1>0, <1>1, Elsewhere DEF CallInv
<1>2. ASSUME NEW s \in Subs, Subscribe(s) \/ Unsubscribe(s) PROVE CallInv'
  <2>1. s \in Callers /\ s # Nobody /\ \A c \in Subs : c \in Callers /\ c # Nobody
    BY RoutingAssumption DEF Callers
  <2>2. eventList' \in {eventList, eventList \cup {s}, eventList \ {s}}
    BY <1>2 DEF Subscribe, Unsubscribe, SubscribeCall, SubscribeCheck, SubscribeAdd, SubscribeRecord,
       SubscribeSend, SubscribeAck, SubscribeRollback, SubscribeForget, UnsubscribeCall, UnsubscribeRemove,
       UnsubscribeCheck, UnsubscribeForget, UnsubscribeSend, UnsubscribeAck
  <2>3. eventList' \subseteq Subs
    BY <2>2 DEF CallInv
  <2>4. /\ \/ pc[s] \notin InCall /\ mutex = Nobody /\ mutex' = s /\ pc'[s] \in InCall
           \/ pc[s] \in InCall /\ mutex' = mutex /\ pc'[s] \in InCall
           \/ pc[s] \in InCall /\ mutex' = Nobody /\ pc'[s] \notin InCall
        /\ \A c \in Callers \ {s} : pc'[c] = pc[c]
    BY <1>0, <1>2, Moves
  <2>5. mutex' \in Subs \cup {Nobody} /\ \A c \in Subs : pc'[c] \in InCall <=> mutex' = c
    BY <2>1, <2>4 DEF CallInv
  <2>6. \A c \in Subs : pc'[c] \in Listening => serial'[c] # 0
    BY <1>0, <1>2, <2>1, <2>4, Knows DEF CallInv
  <2> QED
    BY <2>3, <2>5, <2>6 DEF CallInv
<1> QED
  BY <1>1, <1>2, Split

\* What waits for an answer, and whether it was the first to subscribe.
LEMMA LocalTypesStep ==
  ASSUME LocalTypes, [Next]_vars PROVE LocalTypes'
<1>1. already' \in [Subs -> BOOLEAN]
  <2>1. already' = already \/ \E s \in Subs, b \in BOOLEAN : already' = [already EXCEPT ![s] = b]
    <3>1. CASE \E s \in Subs : SubscribeCheck(s)
      <4>1. \A s \in Subs : IsAnySubscriber(eventOf[s]) \in BOOLEAN
        BY DEF IsAnySubscriber
      <4> QED
        BY <3>1, <4>1 DEF SubscribeCheck
    <3>2. CASE ~\E s \in Subs : SubscribeCheck(s)
      BY <3>2 DEF Next, Subscribe, Unsubscribe, SubscribeCall, SubscribeAdd, SubscribeRecord,
         SubscribeSend, SubscribeAck, SubscribeRollback, SubscribeForget, UnsubscribeCall,
         UnsubscribeRemove, UnsubscribeCheck, UnsubscribeForget, UnsubscribeSend, UnsubscribeAck,
         Return, Continue, localVars, callVars, vars, Request, TimeOut, ConnectRefused, ServerReads,
         ServerEmits, ServerStrays, OnMessage, Take, TakeLegacyEvent, TakeResponse, TakeNotification,
         TakeInvalid, Respond, Notify
    <3> QED
      BY <3>1, <3>2
  <2> QED
    BY <2>1 DEF LocalTypes
<1>2. ans' \in [Callers -> {"none", "pending", "ok", "error"}]
  <2>1. \/ ans' = ans
        \/ \E c, a : a \in {"none", "pending", "ok", "error"} /\ ans' = [ans EXCEPT ![c] = a]
    BY DEF Next, Subscribe, Unsubscribe, SubscribeCall, SubscribeCheck, SubscribeAdd, SubscribeRecord,
       SubscribeSend, SubscribeAck, SubscribeRollback, SubscribeForget, UnsubscribeCall,
       UnsubscribeRemove, UnsubscribeCheck, UnsubscribeForget, UnsubscribeSend, UnsubscribeAck,
       Return, Continue, Send, localVars, tableVars, callVars, vars, Request, TimeOut, Fulfil, ConnectRefused,
       ServerReads, ServerEmits, ServerStrays, OnMessage, Take, TakeLegacyEvent, TakeResponse,
       TakeNotification, TakeInvalid, Respond, Notify
  <2> QED
    BY <2>1 DEF LocalTypes
<1> QED
  BY <1>1, <1>2 DEF LocalTypes

-----------------------------------------------------------------------------
(* What the server does, seen from the wire and from the inbox. *)

\* The message m has arrived.
Arrives(m) ==
  /\ m \in Messages
  /\ Len(inbox) \in Nat /\ Len(inbox') = Len(inbox) + 1
  /\ \A k \in 1 .. Len(inbox) : k \in 1 .. Len(inbox') /\ inbox'[k] = inbox[k]
  /\ inbox'[Len(inbox) + 1] = m
  /\ \A k \in 1 .. Len(inbox') : k \in 1 .. Len(inbox) \/ k = Len(inbox) + 1

LEMMA Arrival == ASSUME TypeInv, NEW m \in Messages, inbox' = Append(inbox, m) PROVE Arrives(m)
<1>1. inbox \in Seq(Messages)
  BY DEF TypeInv
<1> QED
  BY <1>1, LastIn DEF Arrives

\* The first request has been read.
Reads(a) ==
  /\ a = wire[1] /\ 1 \in 1 .. Len(wire) /\ Len(wire) \in Nat /\ Len(wire') = Len(wire) - 1
  /\ \A k \in 1 .. Len(wire') : k + 1 \in 1 .. Len(wire) /\ wire'[k] = wire[k + 1]

Answers(a, m) == Arrives(m) /\ m.about = ReplyTo(a.from, a.n)

LEMMA Reading ==
  ASSUME MaxIds <= IdSpace, IInv, ServerReads
  PROVE  \E a \in Requests :
           /\ Reads(a)
           /\ \/ inbox' = inbox /\ listening' = listening
              \/ \E m : Answers(a, m) /\ m.shape.error /\ listening' = listening
              \/ \E m : Answers(a, m) /\ a.kind = "request" /\ listening' = listening
              \/ \E m : /\ Answers(a, m) /\ a.kind \in {"listen", "unlisten"}
                        /\ listening' = {l \in listening : l.event # eventOf[a.from]} \cup
                             IF a.kind = "listen" THEN {[event |-> eventOf[a.from], id |-> a.id]} ELSE {}
<1>1. wire \in Seq(Requests) /\ wire # <<>> /\ wire' = Tail(wire) /\ TypeInv
  BY DEF IInv, TypeInv, ServerReads
<1>2. PICK a \in Requests : a = Head(wire)
  BY <1>1, FirstOut
<1>3. Reads(a)
  BY <1>1, <1>2, FirstOut DEF Reads
<1>4. a.id \in MessageID /\ a.from \in Callers /\ a.n \in 0 .. MaxIds
  BY DEF Requests
<1>5. ASSUME NEW shape \in Shape, Deliver(shape, ReplyTo(a.from, a.n))
      PROVE  \E m : Answers(a, m) /\ m.shape = shape
  <2>1. PICK m : m = [shape |-> shape, about |-> ReplyTo(a.from, a.n)]
    OBVIOUS
  <2>2. m \in Messages /\ m.about = ReplyTo(a.from, a.n) /\ m.shape = shape
    BY <1>4, <2>1 DEF Messages, Abouts
  <2>3. Arrives(m)
    BY <1>1, <1>5, <2>1, <2>2, Arrival DEF Deliver
  <2> QED
    BY <2>2, <2>3 DEF Answers
<1>6. /\ Reply(a.id, "empty") \in Shape /\ Reply(a.id, "value") \in Shape
      /\ Reply(a.id, "listening") \in Shape /\ Refusal(a.id) \in Shape /\ Refusal(a.id).error
  BY <1>4, Shapes
<1> DEFINE P1 == inbox' = inbox /\ listening' = listening
           P2 == \E m : Answers(a, m) /\ m.shape.error /\ listening' = listening
           P3 == \E m : Answers(a, m) /\ a.kind = "request" /\ listening' = listening
           P4 == \E m : /\ Answers(a, m) /\ a.kind \in {"listen", "unlisten"}
                        /\ listening' = {l \in listening : l.event # eventOf[a.from]} \cup
                             IF a.kind = "listen" THEN {[event |-> eventOf[a.from], id |-> a.id]} ELSE {}
<1>7. P1 \/ P2 \/ P3 \/ P4
  <2>1. CASE /\ a.kind = "request"
             /\ \E r \in {"empty", "value"} : Deliver(Reply(a.id, r), ReplyTo(a.from, a.n))
             /\ UNCHANGED listening
    <3>1. P3
      BY <1>5, <1>6, <2>1
    <3> QED
      BY <3>1
  <2>2. CASE /\ a.kind = "listen"
             /\ listening' = {l \in listening : l.event # eventOf[a.from]} \cup {[event |-> eventOf[a.from], id |-> a.id]}
             /\ Deliver(Reply(a.id, "listening"), ReplyTo(a.from, a.n))
    <3>0. a.kind \in {"listen", "unlisten"} /\ \E m : Answers(a, m)
      BY <1>5, <1>6, <2>2
    <3>1. P4
      BY <2>2, <3>0
    <3> QED
      BY <3>1
  <2>3. CASE /\ a.kind = "unlisten"
             /\ listening' = {l \in listening : l.event # eventOf[a.from]}
             /\ Deliver(Reply(a.id, "listening"), ReplyTo(a.from, a.n))
    <3>0. a.kind \in {"listen", "unlisten"} /\ \E m : Answers(a, m)
      BY <1>5, <1>6, <2>3
    <3>1. P4
      BY <2>3, <3>0
    <3> QED
      BY <3>1
  <2>4. CASE Deliver(Refusal(a.id), ReplyTo(a.from, a.n)) /\ UNCHANGED listening
    <3>1. P2
      BY <1>5, <1>6, <2>4
    <3> QED
      BY <3>1
  <2>5. CASE UNCHANGED <<inbox, listening>>
    BY <2>5
  <2> QED
    BY <1>2, <2>1, <2>2, <2>3, <2>4, <2>5 DEF ServerReads
<1> QED
  BY <1>3, <1>7

\* An event has been emitted as the protocol of the connection demands.
LEMMA Emitting ==
  ASSUME MaxIds <= IdSpace, IInv, ServerEmits
  PROVE  \E l \in listening, m \in Messages :
           /\ Arrives(m) /\ m.about = About(l.event) /\ l.event \in Events
           /\ IF serverLegacy THEN m.shape = Reply(l.id, "value") /\ m.shape.id = l.id /\ l.id \in MessageID
                              ELSE m.shape = Notification(l.event)
<1>1. PICK l \in listening :
        inbox' = Append(inbox, [shape |-> IF serverLegacy THEN Reply(l.id, "value") ELSE Notification(l.event),
                                about |-> About(l.event)])
  BY DEF ServerEmits, Deliver
<1>2. PICK m : m = [shape |-> IF serverLegacy THEN Reply(l.id, "value") ELSE Notification(l.event),
                    about |-> About(l.event)]
  OBVIOUS
<1>3. l.event \in Events /\ l.id \in MessageID
  BY OfMap
<1>4. m.shape = (IF serverLegacy THEN Reply(l.id, "value") ELSE Notification(l.event)) /\ m.about = About(l.event)
  BY <1>2
<1>5. m.shape \in Shape /\ (serverLegacy => m.shape.id = l.id)
  BY <1>3, <1>4, Shapes
<1>6. m \in Messages
  BY <1>2, <1>3, <1>5 DEF Messages, Abouts
<1>7. Arrives(m)
  BY <1>1, <1>2, <1>6, Arrival DEF IInv
<1> QED
  BY <1>3, <1>4, <1>5, <1>6, <1>7

\* A message has been taken out of the inbox.
Shifts ==
  /\ inbox # <<>> /\ Len(inbox) \in Nat /\ 1 \in 1 .. Len(inbox) /\ Len(inbox') = Len(inbox) - 1
  /\ Head(inbox) = inbox[1] /\ Head(inbox) \in Messages
  /\ \A k \in 1 .. Len(inbox') : k + 1 \in 1 .. Len(inbox) /\ inbox'[k] = inbox[k + 1]

LEMMA Shifting == ASSUME TypeInv, inbox # <<>>, inbox' = Tail(inbox) PROVE Shifts
<1>1. inbox \in Seq(Messages)
  BY DEF TypeInv
<1> QED
  BY <1>1, FirstOut DEF Shifts

\* The steps of the message worker.
LEMMA Working ==
  ASSUME MaxIds <= IdSpace, IInv, OnMessage
  PROVE  /\ UNCHANGED <<wire, listening>>
         /\ \/ Shifts /\ taken = Idle /\ taken'.msg = inbox[1] /\ UNCHANGED <<ans, by>>
            \/ Shifts /\ taken = Idle /\ taken' = taken /\ UNCHANGED <<ans, by>>
            \/ inbox' = inbox /\ taken' = Idle /\ (Respond \/ UNCHANGED <<ans, by>>)
<1>1. TypeInv
  BY DEF IInv
<1>2. UNCHANGED <<wire, listening>>
  BY DEF OnMessage, TakeLegacyEvent, TakeResponse, TakeNotification, Take, TakeInvalid, Respond, Notify,
     serverVars
<1>3. CASE Takes
  <2>1. PICK own \in Owners, sent \in SUBSET Used : Agree(own, sent)
    BY DEF IInv, OwnerInv
  <2>2. inbox # <<>> /\ Head(inbox) = inbox[1] /\ taken = Idle /\ inbox' = Tail(inbox) /\ taken'.msg = Head(inbox)
    BY <1>1, <1>3, <2>1, Deciding
  <2>3. UNCHANGED <<ans, by>>
    BY <1>3 DEF Takes, TakeLegacyEvent, TakeResponse, TakeNotification, Take, tableVars
  <2>4. Shifts
    BY <1>1, <2>2, Shifting
  <2> QED
    BY <1>2, <2>2, <2>3, <2>4
<1>4. CASE TakeInvalid
  <2>1. inbox # <<>> /\ inbox' = Tail(inbox) /\ taken = Idle /\ taken' = taken /\ UNCHANGED <<ans, by>>
    BY <1>4 DEF TakeInvalid, workVars, tableVars
  <2>2. Shifts
    BY <1>1, <2>1, Shifting
  <2> QED
    BY <1>2, <2>1, <2>2
<1>5. CASE Respond \/ Notify
  <2>1. inbox' = inbox /\ taken' = Idle /\ (Respond \/ UNCHANGED <<ans, by>>)
    BY <1>5 DEF Respond, Notify, tableVars
  <2> QED
    BY <1>2, <2>1
<1> QED
  BY <1>3, <1>4, <1>5 DEF OnMessage, Takes

\* Nothing is disturbed but by a refused connect() and by messages that belong
\* to nothing.
LEMMA ModeStep ==
  ASSUME MaxIds <= IdSpace, IInv, IInv', ModeInv, [Next]_vars PROVE ModeInv'
<1>1. UNCHANGED serverLegacy /\ (ConnectRefused \/ UNCHANGED <<refused, legacyRPCv1>>)
  BY DEF Next, Subscribe, Unsubscribe, SubscribeCall, SubscribeCheck, SubscribeAdd, SubscribeRecord,
     SubscribeSend, SubscribeAck, SubscribeRollback, SubscribeForget, UnsubscribeCall,
     UnsubscribeRemove, UnsubscribeCheck, UnsubscribeForget, UnsubscribeSend, UnsubscribeAck,
     modeVars, vars, Request, TimeOut, ConnectRefused, ServerReads, ServerEmits, ServerStrays, OnMessage,
     Take, TakeLegacyEvent, TakeResponse, TakeNotification, TakeInvalid, Respond, Notify
<1>2. ServerStrays \/ UNCHANGED strayed
  BY DEF Next, Subscribe, Unsubscribe, SubscribeCall, SubscribeCheck, SubscribeAdd, SubscribeRecord,
     SubscribeSend, SubscribeAck, SubscribeRollback, SubscribeForget, UnsubscribeCall,
     UnsubscribeRemove, UnsubscribeCheck, UnsubscribeForget, UnsubscribeSend, UnsubscribeAck,
     serverVars, vars, Request, TimeOut, ConnectRefused, ServerReads, ServerEmits, OnMessage,
     Take, TakeLegacyEvent, TakeResponse, TakeNotification, TakeInvalid, Respond, Notify
<1>3. refused' \in Nat /\ serverLegacy' \in BOOLEAN /\ (refused' = 0 => legacyRPCv1' = serverLegacy')
  <2>1. CASE UNCHANGED <<refused, legacyRPCv1>>
    BY <1>1, <2>1 DEF ModeInv
  <2>2. CASE ConnectRefused
    BY <1>1, <2>2 DEF ModeInv, ConnectRefused
  <2> QED
    BY <1>1, <2>1, <2>2
<1>4. strayed' \in Nat /\ (strayed' = 0 => strayed = 0 /\ ~ServerStrays)
  BY <1>2 DEF ModeInv, ServerStrays
<1>5. ASSUME strayed' = 0
      PROVE  /\ \A k \in 1 .. Len(inbox') : inbox'[k].about # Nothing
             /\ taken'.to # "nobody" => taken'.msg.about # Nothing
  <2>1. /\ \A k \in 1 .. Len(inbox) : inbox[k].about # Nothing
        /\ taken.to # "nobody" => taken.msg.about # Nothing
    BY <1>4, <1>5 DEF ModeInv
  <2>2. CASE OnMessage
    BY <2>1, <2>2, Working, IdleFields DEF Shifts
  <2>3. CASE ServerReads
    <3>1. taken' = taken /\ TypeInv
      BY <2>3 DEF ServerReads, workVars, IInv
    <3>2. CASE inbox' = inbox
      BY <2>1, <3>1, <3>2
    <3>3. ASSUME NEW a, NEW m, Answers(a, m)
          PROVE  \A k \in 1 .. Len(inbox') : inbox'[k].about # Nothing
      BY <2>1, <3>3, Distinct DEF Answers, Arrives
    <3> QED
      BY <2>1, <2>3, <3>1, <3>2, <3>3, Reading
  <2>4. CASE ServerEmits
    <3>1. taken' = taken
      BY <2>4 DEF ServerEmits, workVars
    <3>2. \A k \in 1 .. Len(inbox') : inbox'[k].about # Nothing
      BY <2>1, <2>4, Emitting, Distinct DEF Arrives
    <3> QED
      BY <2>1, <3>1, <3>2
  <2>5. CASE ~(OnMessage \/ ServerReads \/ ServerEmits)
    <3>1. inbox' = inbox /\ taken' = taken
      BY <1>4, <1>5, <2>5 DEF Next, Subscribe, Unsubscribe, SubscribeCall, SubscribeCheck, SubscribeAdd, SubscribeRecord,
         SubscribeSend, SubscribeAck, SubscribeRollback, SubscribeForget, UnsubscribeCall,
         UnsubscribeRemove, UnsubscribeCheck, UnsubscribeForget, UnsubscribeSend, UnsubscribeAck,
         workVars, vars, Request, TimeOut, ConnectRefused
    <3> QED
      BY <2>1, <3>1
  <2> QED
    BY <2>2, <2>3, <2>4, <2>5
<1> QED
  BY <1>3, <1>4, <1>5 DEF ModeInv

\* Events keep their form.
LEMMA FormStep ==
  ASSUME MaxIds <= IdSpace, IInv, FormInv, [Next]_vars PROVE FormInv'
<1> DEFINE Formed(m) == \A e \in Events : m.about = About(e) =>
             IF serverLegacy THEN \E i \in MessageID : m.shape = Reply(i, "value") ELSE m.shape = Notification(e)
<1>1. \A k \in 1 .. Len(inbox) : Formed(inbox[k])
  BY DEF FormInv
<1>2. UNCHANGED serverLegacy
  BY DEF Next, Subscribe, Unsubscribe, SubscribeCall, SubscribeCheck, SubscribeAdd, SubscribeRecord,
     SubscribeSend, SubscribeAck, SubscribeRollback, SubscribeForget, UnsubscribeCall,
     UnsubscribeRemove, UnsubscribeCheck, UnsubscribeForget, UnsubscribeSend, UnsubscribeAck,
     modeVars, vars, Request, TimeOut, ConnectRefused, ServerReads, ServerEmits, ServerStrays, OnMessage,
     Take, TakeLegacyEvent, TakeResponse, TakeNotification, TakeInvalid, Respond, Notify
<1>3. SUFFICES \A k \in 1 .. Len(inbox') : Formed(inbox'[k])
  BY <1>2 DEF FormInv
<1>4. ASSUME NEW m, Arrives(m), Formed(m) PROVE \A k \in 1 .. Len(inbox') : Formed(inbox'[k])
  <2>1. ASSUME NEW k \in 1 .. Len(inbox') PROVE inbox'[k] = m \/ \E j \in 1 .. Len(inbox) : inbox'[k] = inbox[j]
    BY <1>4 DEF Arrives
  <2> QED
    BY <1>1, <1>4, <2>1
<1>5. CASE OnMessage
  <2>1. ASSUME NEW k \in 1 .. Len(inbox') PROVE \E j \in 1 .. Len(inbox) : inbox'[k] = inbox[j]
    BY <1>5, Working DEF Shifts
  <2> QED
    BY <1>1, <2>1
<1>6. CASE ServerReads
  <2>1. ASSUME NEW a, NEW m, Answers(a, m) PROVE Formed(m) /\ Arrives(m)
    BY <2>1, Distinct DEF Answers
  <2> QED
    BY <1>1, <1>4, <1>6, <2>1, Reading
<1>7. CASE ServerEmits
  <2>1. PICK l \in listening, m \in Messages :
           /\ Arrives(m) /\ m.about = About(l.event) /\ l.event \in Events
           /\ IF serverLegacy THEN m.shape = Reply(l.id, "value") /\ m.shape.id = l.id /\ l.id \in MessageID
                              ELSE m.shape = Notification(l.event)
    BY <1>7, Emitting
  <2>2. Formed(m)
    BY <2>1, Distinct
  <2> QED
    BY <1>4, <2>1, <2>2
<1>8. CASE ServerStrays
  <2>1. PICK shape \in Strays : inbox' = Append(inbox, [shape |-> shape, about |-> Nothing])
    BY <1>8 DEF ServerStrays, Deliver
  <2>2. PICK m : m = [shape |-> shape, about |-> Nothing]
    OBVIOUS
  <2>3. m \in Messages
    BY <2>2, StraysAssumption DEF Messages, Abouts
  <2>4. Arrives(m)
    BY <2>1, <2>2, <2>3, Arrival DEF IInv
  <2>5. Formed(m)
    BY <2>2, Distinct
  <2> QED
    BY <1>4, <2>4, <2>5
<1>9. CASE ~(OnMessage \/ ServerReads \/ ServerEmits \/ ServerStrays)
  <2>1. inbox' = inbox
    BY <1>9 DEF Next, Subscribe, Unsubscribe, SubscribeCall, SubscribeCheck, SubscribeAdd, SubscribeRecord,
       SubscribeSend, SubscribeAck, SubscribeRollback, SubscribeForget, UnsubscribeCall,
       UnsubscribeRemove, UnsubscribeCheck, UnsubscribeForget, UnsubscribeSend, UnsubscribeAck,
       vars, Request, TimeOut, ConnectRefused
  <2> QED
    BY <1>1, <2>1
<1> QED
  BY <1>5, <1>6, <1>7, <1>8, <1>9

-----------------------------------------------------------------------------
(* The background leaves an event that is served as it is. *)

\* A plain request reaches the wire.
LEMMA Requesting ==
  ASSUME MaxIds <= IdSpace, IInv, NEW r \in Reqs, Request(r)
  PROVE  /\ UNCHANGED <<listening, inbox, taken>> /\ \A s \in Subs : ans'[s] = ans[s]
         /\ Len(wire) \in Nat /\ Len(wire') = Len(wire) + 1
         /\ \A k \in 1 .. Len(wire) : k \in 1 .. Len(wire') /\ wire'[k] = wire[k]
         /\ wire'[Len(wire) + 1].from = r /\ wire'[Len(wire) + 1].n = drawn + 1
         /\ \A k \in 1 .. Len(wire') : k \in 1 .. Len(wire) \/ k = Len(wire) + 1
<1>1. UNCHANGED <<listening, inbox, taken>> /\ Draw(r) /\ Send(r, "request") /\ r \in Callers
  BY DEF Request, workVars, Callers
<1>2. \A s \in Subs : ans'[s] = ans[s]
  <2>1. ans' = [ans EXCEPT ![r] = "pending"] /\ \A s \in Subs : s # r
    BY <1>1, RoutingAssumption DEF Send
  <2> QED
    BY <2>1
<1>3. serial'[r] = drawn + 1 /\ TypeInv
  BY <1>1 DEF Draw, IInv, TypeInv
<1>4. PICK m : m = [from |-> r, n |-> serial'[r], id |-> id'[r], kind |-> "request"]
  OBVIOUS
<1>5. wire' = Append(wire, m) /\ m.from = r /\ m.n = drawn + 1 /\ wire \in Seq(Requests)
  BY <1>1, <1>3, <1>4 DEF Send, TypeInv
<1>6. m \in Requests
  <2>1. PICK own \in Owners, sent \in SUBSET Used : TRUE
    BY DEF IInv, OwnerInv
  <2>2. drawn \in Nat /\ MaxIds \in Nat /\ drawn < MaxIds
    BY <1>1, RoutingAssumption DEF Draw, IInv, TypeInv
  <2>3. id'[r] \in MessageID
    <3>1. id'[r] = id_counter'
      BY <1>1 DEF Draw, IInv, TypeInv
    <3>2. id_counter' \in MessageID
      BY <1>1, <1>3, Fresh DEF Draw
    <3> QED
      BY <3>1, <3>2
  <2> QED
    BY <1>1, <1>3, <1>4, <2>2, <2>3 DEF Requests
<1> QED
  BY <1>1, <1>2, <1>5, <1>6, LastIn

\* A request that does not ask for an event does not change how it is served.
LEMMA IdsKept ==
  ASSUME MaxIds <= IdSpace, IInv, UNCHANGED eventOf, NEW e, NEW a, Reads(a), ~Asks(a, e),
         \/ listening' = listening
         \/ /\ a.kind \in {"listen", "unlisten"}
            /\ listening' = {l \in listening : l.event # eventOf[a.from]} \cup
                 IF a.kind = "listen" THEN {[event |-> eventOf[a.from], id |-> a.id]} ELSE {}
  PROVE  Ids(e)' = Ids(e)
<1>1. CASE listening' = listening
  BY <1>1 DEF Ids
<1>2. CASE /\ a.kind \in {"listen", "unlisten"}
           /\ listening' = {l \in listening : l.event # eventOf[a.from]} \cup
                 IF a.kind = "listen" THEN {[event |-> eventOf[a.from], id |-> a.id]} ELSE {}
  <2>1. a.from \in Subs
    BY <1>2, OfWire DEF Reads, Callers
  <2>2. eventOf[a.from] # e
    BY <2>1 DEF Asks
  <2>3. {l \in listening' : l.event = e} = {l \in listening : l.event = e}
    BY <1>2, <2>2
  <2> QED
    BY <2>3 DEF Ids
<1> QED
  BY <1>1, <1>2

LEMMA ServedKept ==
  ASSUME MaxIds <= IdSpace, IInv, Background, ~ServerStrays, NEW e \in Events, NEW i \in MessageID, Served(e, i)
  PROVE  Served(e, i)'
<1>1. UNCHANGED <<eventOf, serverLegacy, eventMap>>
  BY Elsewhere DEF IInv
<1>2. Entries(e)' = Expected(i)'
  BY <1>1 DEF Served, Entries, Expected
<1>3. SUFFICES NoAsk(e)' /\ Ids(e)' = {i} /\ Under(e, i)'
  BY <1>2 DEF Served
<1>4. NoAsk(e) /\ Ids(e) = {i} /\ Under(e, i)
  BY DEF Served
<1>5. CASE UNCHANGED <<wire, listening, inbox>>
  BY <1>1, <1>4, <1>5 DEF NoAsk, Asks, Ids, Under
<1>6. CASE \E r \in Reqs : Request(r)
  <2>1. PICK r \in Reqs : Request(r)
    BY <1>6
  <2>2. r \notin Subs
    BY RoutingAssumption
  <2>3. NoAsk(e)'
    BY <1>1, <1>4, <2>1, <2>2, Requesting DEF NoAsk, Asks
  <2>4. Ids(e)' = {i} /\ Under(e, i)'
    BY <1>1, <1>4, <2>1, Requesting DEF Ids, Under
  <2> QED
    BY <2>3, <2>4
<1>7. CASE ServerReads
  <2>1. PICK a \in Requests :
           /\ Reads(a)
           /\ \/ inbox' = inbox /\ listening' = listening
              \/ \E m : Answers(a, m) /\ m.shape.error /\ listening' = listening
              \/ \E m : Answers(a, m) /\ a.kind = "request" /\ listening' = listening
              \/ \E m : /\ Answers(a, m) /\ a.kind \in {"listen", "unlisten"}
                        /\ listening' = {l \in listening : l.event # eventOf[a.from]} \cup
                             IF a.kind = "listen" THEN {[event |-> eventOf[a.from], id |-> a.id]} ELSE {}
    BY <1>7, Reading
  <2>2. ~Asks(a, e)
    BY <1>4, <2>1 DEF Reads, NoAsk
  <2>3. NoAsk(e)'
    BY <1>1, <1>4, <2>1 DEF Reads, NoAsk, Asks
  <2>4. Ids(e)' = Ids(e)
    BY <1>1, <2>1, <2>2, IdsKept
  <2>5. Under(e, i)'
    <3>1. CASE inbox' = inbox
      BY <1>1, <1>4, <3>1 DEF Under
    <3>2. ASSUME NEW m, Answers(a, m) PROVE Under(e, i)'
      BY <1>1, <1>4, <3>2, Distinct DEF Under, Answers, Arrives
    <3> QED
      BY <2>1, <3>1, <3>2
  <2> QED
    BY <1>4, <2>3, <2>4, <2>5
<1>8. CASE ServerEmits
  <2>1. PICK l \in listening, m \in Messages :
           /\ Arrives(m) /\ m.about = About(l.event) /\ l.event \in Events
           /\ IF serverLegacy THEN m.shape = Reply(l.id, "value") /\ m.shape.id = l.id /\ l.id \in MessageID
                              ELSE m.shape = Notification(l.event)
    BY <1>8, Emitting
  <2>2. UNCHANGED <<wire, listening>>
    BY <1>8 DEF ServerEmits
  <2>3. NoAsk(e)' /\ Ids(e)' = {i}
    BY <1>1, <1>4, <2>2 DEF NoAsk, Asks, Ids
  <2>4. serverLegacy /\ l.event = e => l.id = i
    BY <1>4 DEF Ids
  <2>5. Under(e, i)'
    BY <1>1, <1>4, <2>1, <2>4, Distinct DEF Under, Arrives
  <2> QED
    BY <2>3, <2>5
<1>9. CASE OnMessage
  <2>1. UNCHANGED <<wire, listening>>
    BY <1>9, Working
  <2>2. NoAsk(e)' /\ Ids(e)' = {i}
    BY <1>1, <1>4, <2>1 DEF NoAsk, Asks, Ids
  <2>3. Under(e, i)'
    BY <1>1, <1>4, <1>9, Working DEF Under, Shifts
  <2> QED
    BY <2>2, <2>3
<1>10. CASE (\E j \in MessageID : TimeOut(j)) \/ ConnectRefused \/ UNCHANGED vars
  <2>1. UNCHANGED <<wire, listening, inbox>>
    BY <1>10 DEF TimeOut, ConnectRefused, serverVars, vars
  <2> QED
    BY <1>5, <2>1
<1> QED
  BY <1>6, <1>7, <1>8, <1>9, <1>10 DEF Background

-----------------------------------------------------------------------------
(* The background takes a listen request from one of its states to another. *)

\* The server reads.
LEMMA AskedRead ==
  ASSUME MaxIds <= IdSpace, IInv, ServerReads, NEW h \in Subs, serial[h] # 0, Asked(h)
  PROVE  Asked(h)'
<1> DEFINE e == eventOf[h]
<1>1. /\ UNCHANGED <<eventOf, serverLegacy, ans, taken, id, serial>>
  BY DEF ServerReads, modeVars, tableVars, workVars
<1>2. PICK a \in Requests :
         /\ Reads(a)
         /\ \/ inbox' = inbox /\ listening' = listening
            \/ \E m : Answers(a, m) /\ m.shape.error /\ listening' = listening
            \/ \E m : Answers(a, m) /\ a.kind = "request" /\ listening' = listening
            \/ \E m : /\ Answers(a, m) /\ a.kind \in {"listen", "unlisten"}
                      /\ listening' = {l \in listening : l.event # eventOf[a.from]} \cup
                           IF a.kind = "listen" THEN {[event |-> eventOf[a.from], id |-> a.id]} ELSE {}
  BY Reading
<1>3. h \in Callers /\ (a.n = serial[h] => a.from = h /\ a.id = id[h])
  BY <1>2, OfWire DEF Reads, Callers
<1>4. \A m : Mine(m, h)' <=> Mine(m, h)
  BY <1>1 DEF Mine
<1>5. \A m : Answers(a, m) => Arrives(m) /\ (Mine(m, h) <=> a.from = h /\ a.n = serial[h])
  BY Distinct DEF Answers, Mine
<1>6. CASE Accepted(h)
  <2>1. NoAsk(e) /\ Ids(e) = {id[h]}
    BY <1>6 DEF Accepted
  <2>2. ~Asks(a, e) /\ a.from # h
    BY <1>2, <2>1 DEF Reads, NoAsk, Asks
  <2>3. NoAsk(e)' /\ Ids(e)' = {id[h]}
    <3>1. NoAsk(e)'
      BY <1>1, <1>2, <2>1 DEF Reads, NoAsk, Asks
    <3>2. Ids(e)' = Ids(e)
      BY <1>1, <1>2, <2>2, IdsKept
    <3> QED
      BY <2>1, <3>1, <3>2
  <2>4. CASE inbox' = inbox
    BY <1>1, <1>4, <1>6, <2>3, <2>4 DEF Accepted, Asked, Under
  <2>5. ASSUME NEW m, Answers(a, m) PROVE Asked(h)'
    <3>1. Arrives(m) /\ ~Mine(m, h) /\ m.about # About(e)
      BY <1>5, <2>2, <2>5, Distinct DEF Answers
    <3>2. \A j, k \in 1 .. Len(inbox') : Mine(inbox'[j], h) /\ Mine(inbox'[k], h) => j = k
      <4>1. \A k \in 1 .. Len(inbox') : Mine(inbox'[k], h) => k \in 1 .. Len(inbox) /\ Mine(inbox[k], h)
        BY <3>1 DEF Arrives
      <4> QED
        BY <1>6, <4>1 DEF Accepted
    <3>3. ASSUME NEW k \in 1 .. Len(inbox'), serverLegacy, inbox'[k].about = About(e)
          PROVE  inbox'[k].shape.id = id[h] \/ \E j \in 1 .. Len(inbox') : j > k /\ Mine(inbox'[j], h)
      <4>1. k \in 1 .. Len(inbox) /\ inbox'[k] = inbox[k]
        BY <3>1, <3>3 DEF Arrives
      <4>2. inbox[k].shape.id = id[h] \/ \E j \in 1 .. Len(inbox) : j > k /\ Mine(inbox[j], h)
        BY <1>6, <3>3, <4>1 DEF Accepted
      <4> QED
        BY <3>1, <4>1, <4>2 DEF Arrives
    <3>4. Under(e, id[h]) => Under(e, id[h])'
      BY <1>1, <3>1 DEF Under, Arrives
    <3> QED
      BY <1>1, <1>4, <1>6, <2>3, <3>2, <3>3, <3>4 DEF Accepted, Asked
  <2> QED
    BY <1>2, <2>4, <2>5
<1>7. CASE Rejected(h)
  <2>1. a.n # serial[h]
    BY <1>2, <1>7 DEF Rejected, Reads
  <2>2. \A k \in 1 .. Len(wire') : wire'[k].n # serial[h]
    BY <1>2, <1>7 DEF Rejected, Reads
  <2>3. \A k \in 1 .. Len(inbox') : Mine(inbox'[k], h) => inbox'[k].shape.error
    <3>1. CASE inbox' = inbox
      BY <1>7, <3>1 DEF Rejected
    <3>2. ASSUME NEW m, Answers(a, m) PROVE \A k \in 1 .. Len(inbox') : Mine(inbox'[k], h) => inbox'[k].shape.error
      <4>1. Arrives(m) /\ ~Mine(m, h)
        BY <1>5, <2>1, <3>2
      <4> QED
        BY <1>7, <4>1 DEF Rejected, Arrives
    <3> QED
      BY <1>2, <3>1, <3>2
  <2> QED
    BY <1>1, <1>4, <1>7, <2>2, <2>3 DEF Rejected, Asked
<1>8. CASE Pending(h)
  <2>1. PICK p \in 1 .. Len(wire) :
          /\ wire[p].n = serial[h] /\ wire[p].kind = "listen"
          /\ \A j \in 1 .. Len(wire) : j # p => wire[j].n # serial[h] /\ (j > p => ~Asks(wire[j], e))
    BY <1>8 DEF Pending
  <2>2. /\ \A k \in 1 .. Len(inbox) : ~Mine(inbox[k], h)
        /\ ~Mine(taken.msg, h) /\ ans[h] # "ok"
    BY <1>8 DEF Pending
  <2>3. CASE p # 1
    <3>1. a.n # serial[h]
      BY <1>2, <2>1, <2>3 DEF Reads
    <3>2. \A k \in 1 .. Len(inbox') : ~Mine(inbox'[k], h)
      <4>1. CASE inbox' = inbox
        BY <2>2, <4>1
      <4>2. ASSUME NEW m, Answers(a, m) PROVE \A k \in 1 .. Len(inbox') : ~Mine(inbox'[k], h)
        <5>1. Arrives(m) /\ ~Mine(m, h)
          BY <1>5, <3>1, <4>2
        <5> QED
          BY <2>2, <5>1 DEF Arrives
      <4> QED
        BY <1>2, <4>1, <4>2
    <3>3. PICK q : q = p - 1
      OBVIOUS
    <3>4. q \in 1 .. Len(wire') /\ wire'[q] = wire[p] /\ Len(wire') \in Nat
      BY <1>2, <2>3, <3>3 DEF Reads
    <3>5. ASSUME NEW j \in 1 .. Len(wire'), j # q
          PROVE  wire'[j].n # serial[h] /\ (j > q => ~Asks(wire'[j], e))
      <4>1. j + 1 \in 1 .. Len(wire) /\ wire'[j] = wire[j + 1] /\ j + 1 # p /\ (j > q => j + 1 > p)
        BY <1>2, <3>3, <3>5 DEF Reads
      <4> QED
        BY <2>1, <4>1
    <3>6. Pending(h)'
      BY <1>1, <1>4, <2>1, <2>2, <3>2, <3>4, <3>5 DEF Pending, Asks
    <3> QED
      BY <3>6 DEF Asked
  <2>4. CASE p = 1
    <3>1. a.n = serial[h] /\ a.kind = "listen" /\ a.from = h /\ a.id = id[h]
      BY <1>2, <1>3, <2>1, <2>4 DEF Reads
    <3>2. \A k \in 1 .. Len(wire') : wire'[k].n # serial[h] /\ ~Asks(wire'[k], e)
      BY <1>2, <2>1, <2>4 DEF Reads
    <3>3. CASE inbox' = inbox \/ \E m : Answers(a, m) /\ m.shape.error
      <4>1. \A k \in 1 .. Len(inbox') : Mine(inbox'[k], h) => inbox'[k].shape.error
        BY <1>5, <2>2, <3>3 DEF Arrives
      <4>2. Rejected(h)'
        BY <1>1, <1>4, <2>2, <3>2, <4>1 DEF Rejected
      <4> QED
        BY <4>2 DEF Asked
    <3>4. ASSUME NEW m, Answers(a, m),
                 listening' = {l \in listening : l.event # e} \cup {[event |-> e, id |-> id[h]]}
          PROVE  Asked(h)'
      <4>1. Arrives(m) /\ Mine(m, h)
        BY <1>5, <3>1, <3>4
      <4>2. NoAsk(e)'
        BY <1>1, <3>2 DEF NoAsk, Asks
      <4>3. Ids(e)' = {id[h]}
        <5>1. PICK x : x = [event |-> e, id |-> id[h]]
          OBVIOUS
        <5>2. {l \in listening' : l.event = e} = {x} /\ x.id = id[h]
          BY <3>4, <5>1
        <5>3. Ids(e)' = {l.id : l \in {l \in listening' : l.event = e}}
          BY <1>1 DEF Ids
        <5> QED
          BY <5>2, <5>3
      <4>4. \A k \in 1 .. Len(inbox') : Mine(inbox'[k], h) <=> k = Len(inbox) + 1
        BY <2>2, <4>1 DEF Arrives
      <4>5. ASSUME NEW k \in 1 .. Len(inbox'), inbox'[k].about = About(e)
            PROVE  \E j \in 1 .. Len(inbox') : j > k /\ Mine(inbox'[j], h)
        <5>1. k # Len(inbox) + 1
          BY <4>4, <4>5, Distinct DEF Mine
        <5>2. k \in 1 .. Len(inbox) /\ Len(inbox) \in Nat /\ Len(inbox) + 1 \in 1 .. Len(inbox')
          BY <4>1, <5>1 DEF Arrives
        <5> QED
          BY <4>4, <5>2
      <4>6. Accepted(h)'
        BY <1>1, <1>4, <2>2, <4>2, <4>3, <4>4, <4>5 DEF Accepted
      <4> QED
        BY <4>6 DEF Asked
    <3> QED
      BY <1>2, <3>1, <3>3, <3>4
  <2> QED
    BY <2>3, <2>4
<1> QED
  BY <1>6, <1>7, <1>8 DEF Asked

\* The server emits.
LEMMA AskedEmit ==
  ASSUME MaxIds <= IdSpace, IInv, ServerEmits, NEW h \in Subs, Asked(h)
  PROVE  Asked(h)'
<1> DEFINE e == eventOf[h]
<1>1. UNCHANGED <<eventOf, serverLegacy, ans, taken, id, serial, wire, listening>>
  BY DEF ServerEmits, modeVars, tableVars, workVars
<1>2. PICK l \in listening, m \in Messages :
        /\ Arrives(m) /\ m.about = About(l.event) /\ l.event \in Events
        /\ IF serverLegacy THEN m.shape = Reply(l.id, "value") /\ m.shape.id = l.id /\ l.id \in MessageID
                           ELSE m.shape = Notification(l.event)
  BY Emitting
<1>3. ~Mine(m, h) /\ (m.about = About(e) => l.event = e)
  BY <1>2, Distinct DEF Mine
<1>4. \A x : Mine(x, h)' <=> Mine(x, h)
  BY <1>1 DEF Mine
<1>5. \A k \in 1 .. Len(inbox') : Mine(inbox'[k], h) => k \in 1 .. Len(inbox) /\ inbox'[k] = inbox[k]
  BY <1>2, <1>3 DEF Arrives
<1>6. CASE Pending(h)
  <2>1. Pending(h)'
    BY <1>1, <1>4, <1>5, <1>6 DEF Pending, Asks
  <2> QED
    BY <2>1 DEF Asked
<1>7. CASE Rejected(h)
  <2>1. Rejected(h)'
    BY <1>1, <1>4, <1>5, <1>7 DEF Rejected
  <2> QED
    BY <2>1 DEF Asked
<1>8. CASE Accepted(h)
  <2>1. NoAsk(e)' /\ Ids(e)' = {id[h]}
    BY <1>1, <1>8 DEF Accepted, NoAsk, Asks, Ids
  <2>2. serverLegacy /\ m.about = About(e) => m.shape.id = id[h]
    <3>1. l.event = e => l.id \in Ids(e)
      BY DEF Ids
    <3> QED
      BY <1>2, <1>3, <1>8, <3>1 DEF Accepted
  <2>3. \A j, k \in 1 .. Len(inbox') : Mine(inbox'[j], h) /\ Mine(inbox'[k], h) => j = k
    BY <1>5, <1>8 DEF Accepted
  <2>4. ASSUME NEW k \in 1 .. Len(inbox'), serverLegacy, inbox'[k].about = About(e)
        PROVE  inbox'[k].shape.id = id[h] \/ \E j \in 1 .. Len(inbox') : j > k /\ Mine(inbox'[j], h)
    <3>1. CASE k = Len(inbox) + 1
      BY <1>2, <2>2, <2>4, <3>1 DEF Arrives
    <3>2. CASE k \in 1 .. Len(inbox)
      BY <1>2, <1>8, <2>4, <3>2 DEF Accepted, Arrives
    <3> QED
      BY <1>2, <3>1, <3>2 DEF Arrives
  <2>5. Under(e, id[h]) => Under(e, id[h])'
    BY <1>1, <1>2, <2>2 DEF Under, Arrives
  <2>6. Accepted(h)'
    BY <1>1, <1>4, <1>8, <2>1, <2>3, <2>4, <2>5 DEF Accepted
  <2> QED
    BY <2>6 DEF Asked
<1> QED
  BY <1>6, <1>7, <1>8 DEF Asked

\* The message worker takes a message.
LEMMA AskedTake ==
  ASSUME MaxIds <= IdSpace, IInv, NEW h \in Subs, Asked(h), Shifts, taken = Idle,
         taken'.msg = inbox[1] \/ taken' = taken,
         UNCHANGED <<eventOf, serverLegacy, ans, wire, listening>>, id'[h] = id[h], serial'[h] = serial[h]
  PROVE  Asked(h)'
<1> DEFINE e == eventOf[h]
<1>1. \A x : Mine(x, h)' <=> Mine(x, h)
  BY DEF Mine
<1>2. Mine(taken'.msg, h) => Mine(inbox[1], h) /\ taken'.msg = inbox[1]
  BY IdleFields, Distinct DEF Mine
<1>3. CASE Pending(h)
  <2>1. \A k \in 1 .. Len(inbox') : ~Mine(inbox'[k], h)
    BY <1>3 DEF Pending, Shifts
  <2>2. ~Mine(taken'.msg, h)
    BY <1>2, <1>3 DEF Pending, Shifts
  <2>3. Pending(h)'
    BY <1>1, <1>3, <2>1, <2>2 DEF Pending, Asks
  <2> QED
    BY <2>3 DEF Asked
<1>4. CASE Rejected(h)
  <2>1. \A k \in 1 .. Len(inbox') : Mine(inbox'[k], h) => inbox'[k].shape.error
    BY <1>4 DEF Rejected, Shifts
  <2>2. Mine(taken'.msg, h) => taken'.msg.shape.error
    BY <1>2, <1>4 DEF Rejected, Shifts
  <2>3. Rejected(h)'
    BY <1>1, <1>4, <2>1, <2>2 DEF Rejected
  <2> QED
    BY <2>3 DEF Asked
<1>5. CASE Accepted(h)
  <2>1. NoAsk(e)' /\ Ids(e)' = {id[h]}
    BY <1>5 DEF Accepted, NoAsk, Asks, Ids
  <2>2. Len(inbox) \in Nat /\ Len(inbox') = Len(inbox) - 1
    BY DEF Shifts
  <2>3. ASSUME NEW j \in 1 .. Len(inbox'), NEW k \in 1 .. Len(inbox'), Mine(inbox'[j], h), Mine(inbox'[k], h)
        PROVE  j = k
    <3>1. /\ j + 1 \in 1 .. Len(inbox) /\ k + 1 \in 1 .. Len(inbox)
          /\ Mine(inbox[j + 1], h) /\ Mine(inbox[k + 1], h)
      BY <2>3 DEF Shifts
    <3>2. j + 1 = k + 1
      BY <1>5, <3>1 DEF Accepted
    <3> QED
      BY <2>2, <3>2
  <2>4. ASSUME NEW k \in 1 .. Len(inbox'), serverLegacy, inbox'[k].about = About(e)
        PROVE  inbox'[k].shape.id = id[h] \/ \E j \in 1 .. Len(inbox) : j > k + 1 /\ Mine(inbox[j], h)
    BY <1>5, <2>4 DEF Accepted, Shifts
  <2>5. ASSUME NEW k \in 1 .. Len(inbox'), serverLegacy, inbox'[k].about = About(e)
        PROVE  inbox'[k].shape.id = id[h] \/ \E j \in 1 .. Len(inbox') : j > k /\ Mine(inbox'[j], h)
    <3>1. ASSUME NEW j \in 1 .. Len(inbox), j > k + 1, Mine(inbox[j], h)
          PROVE  \E i \in 1 .. Len(inbox') : i > k /\ Mine(inbox'[i], h)
      <4>1. PICK i : i = j - 1
        OBVIOUS
      <4>2. i \in 1 .. Len(inbox') /\ i > k /\ i + 1 = j
        BY <2>2, <3>1, <4>1
      <4>3. inbox'[i] = inbox[j]
        BY <4>2 DEF Shifts
      <4> QED
        BY <3>1, <4>2, <4>3
    <3> QED
      BY <2>4, <2>5, <3>1
  <2>6. ASSUME Mine(taken'.msg, h) PROVE Under(e, id[h])'
    <3>1. Mine(inbox[1], h) /\ 1 \in 1 .. Len(inbox)
      BY <1>2, <2>6 DEF Shifts
    <3>2. \A j \in 1 .. Len(inbox) : Mine(inbox[j], h) => j = 1
      BY <1>5, <3>1 DEF Accepted
    <3>3. \A k \in 1 .. Len(inbox'), j \in 1 .. Len(inbox) : j > k + 1 => j # 1
      BY <2>2
    <3> QED
      BY <2>4, <3>2, <3>3 DEF Under
  <2>7. ASSUME ans[h] = "ok" PROVE Under(e, id[h])'
    BY <1>5, <2>7 DEF Accepted, Under, Shifts
  <2>8. Accepted(h)'
    BY <1>1, <2>1, <2>3, <2>5, <2>6, <2>7 DEF Accepted
  <2> QED
    BY <2>8 DEF Asked
<1> QED
  BY <1>3, <1>4, <1>5 DEF Asked

\* A future is answered, by the message in the worker's hand or by nobody.
LEMMA AskedAnswer ==
  ASSUME NEW h \in Subs, Asked(h), UNCHANGED <<eventOf, serverLegacy, wire, listening, inbox>>,
         id'[h] = id[h], serial'[h] = serial[h],
         taken' = taken \/ taken' = Idle,
         \/ ans'[h] = ans[h] \/ ans'[h] = "error"
         \/ Mine(taken.msg, h) /\ (taken.msg.shape.error => ans'[h] # "ok")
  PROVE  Asked(h)'
<1> DEFINE e == eventOf[h]
<1>1. \A x : Mine(x, h)' <=> Mine(x, h)
  BY DEF Mine
<1>2. Mine(taken'.msg, h) => taken' = taken
  BY IdleFields, Distinct DEF Mine
<1>3. CASE Pending(h)
  <2>1. ~Mine(taken'.msg, h) /\ ans'[h] # "ok"
    BY <1>2, <1>3 DEF Pending
  <2>2. Pending(h)'
    BY <1>1, <1>3, <2>1 DEF Pending, Asks
  <2> QED
    BY <2>2 DEF Asked
<1>4. CASE Rejected(h)
  <2>1. (Mine(taken'.msg, h) => taken'.msg.shape.error) /\ ans'[h] # "ok"
    BY <1>2, <1>4 DEF Rejected
  <2>2. Rejected(h)'
    BY <1>1, <1>4, <2>1 DEF Rejected
  <2> QED
    BY <2>2 DEF Asked
<1>5. CASE Accepted(h)
  <2>1. NoAsk(e)' /\ Ids(e)' = {id[h]} /\ (Under(e, id[h]) => Under(e, id[h])')
    BY <1>5 DEF Accepted, NoAsk, Asks, Ids, Under
  <2>2. Mine(taken'.msg, h) \/ ans'[h] = "ok" => Mine(taken.msg, h) \/ ans[h] = "ok"
    BY <1>2
  <2>3. Accepted(h)'
    BY <1>1, <1>5, <2>1, <2>2 DEF Accepted
  <2> QED
    BY <2>3 DEF Asked
<1> QED
  BY <1>3, <1>4, <1>5 DEF Asked

\* Client::response() and the watchdog answer a listen request by its own
\* reply, or with an error.
LEMMA AskedRespond ==
  ASSUME IInv, IInv', LocalTypes, ModeInv, strayed = 0, NEW h \in Subs, serial'[h] = serial[h],
         Respond \/ \E i \in MessageID : TimeOut(i)
  PROVE  \/ ans'[h] = ans[h] \/ ans'[h] = "error"
         \/ Mine(taken.msg, h) /\ (taken.msg.shape.error => ans'[h] # "ok")
<1>1. /\ ans \in [Callers -> {"none", "pending", "ok", "error"}] /\ by \in [Callers -> Abouts] /\ h \in Callers
  BY DEF LocalTypes, IInv, TypeInv, Callers
<1>2. CASE \E i \in MessageID : TimeOut(i)
  <2>1. \/ ans' = ans
        \/ \E c : ans' = [ans EXCEPT ![c] = "error"]
    BY <1>2 DEF TimeOut, Fulfil
  <2> QED
    BY <1>1, <2>1
<1>3. CASE Respond
  <2>1. taken.msg.about # Nothing
    BY <1>3 DEF Respond, ModeInv
  <2>2. CASE ans' = ans
    BY <2>2
  <2>3. ASSUME NEW c, ans' = [ans EXCEPT ![c] = IF taken.msg.shape.error THEN "error" ELSE "ok"],
               by' = [by EXCEPT ![c] = taken.msg.about]
        PROVE  \/ ans'[h] = ans[h] \/ ans'[h] = "error"
               \/ Mine(taken.msg, h) /\ (taken.msg.shape.error => ans'[h] # "ok")
    <3>1. CASE c # h
      BY <1>1, <2>3, <3>1
    <3>2. CASE c = h
      <4>1. by'[h] = taken.msg.about
        BY <1>1, <2>3, <3>2
      <4>2. by'[h] \in {Nothing, ReplyTo(h, serial[h])}
        BY <1>1 DEF IInv, ReachesItsOwner
      <4>3. Mine(taken.msg, h)
        BY <2>1, <4>1, <4>2 DEF Mine
      <4>4. taken.msg.shape.error => ans'[h] = "error"
        BY <1>1, <2>3, <3>2
      <4> QED
        BY <4>3, <4>4
    <3> QED
      BY <3>1, <3>2
  <2>4. \/ ans' = ans
        \/ \E c : /\ ans' = [ans EXCEPT ![c] = IF taken.msg.shape.error THEN "error" ELSE "ok"]
                  /\ by' = [by EXCEPT ![c] = taken.msg.about]
    BY <1>3 DEF Respond, Fulfil
  <2> QED
    BY <2>2, <2>3, <2>4
<1> QED
  BY <1>2, <1>3

LEMMA AskedKept ==
  ASSUME MaxIds <= IdSpace, IInv, IInv', LocalTypes, ModeInv, strayed = 0, Background, ~ServerStrays,
         NEW h \in Subs, serial[h] # 0, Asked(h)
  PROVE  Asked(h)'
<1>1. UNCHANGED <<eventOf, serverLegacy>> /\ id'[h] = id[h] /\ serial'[h] = serial[h]
  BY Elsewhere DEF IInv
<1>2. CASE ServerReads
  BY <1>2, AskedRead
<1>3. CASE ServerEmits
  BY <1>3, AskedEmit
<1>4. CASE OnMessage
  <2>1. /\ UNCHANGED <<wire, listening>>
        /\ \/ Shifts /\ taken = Idle /\ taken'.msg = inbox[1] /\ UNCHANGED <<ans, by>>
           \/ Shifts /\ taken = Idle /\ taken' = taken /\ UNCHANGED <<ans, by>>
           \/ inbox' = inbox /\ taken' = Idle /\ (Respond \/ UNCHANGED <<ans, by>>)
    BY <1>4, Working
  <2>2. CASE Shifts /\ taken = Idle /\ (taken'.msg = inbox[1] \/ taken' = taken) /\ UNCHANGED ans
    BY <1>1, <2>1, <2>2, AskedTake
  <2>3. CASE inbox' = inbox /\ taken' = Idle /\ UNCHANGED ans
    BY <1>1, <2>1, <2>3, AskedAnswer
  <2>4. CASE inbox' = inbox /\ taken' = Idle /\ Respond
    BY <1>1, <2>1, <2>4, AskedRespond, AskedAnswer
  <2> QED
    BY <2>1, <2>2, <2>3, <2>4
<1>5. CASE \E i \in MessageID : TimeOut(i)
  <2>1. UNCHANGED <<wire, listening, inbox, taken>>
    BY <1>5 DEF TimeOut, serverVars, workVars
  <2> QED
    BY <1>1, <1>5, <2>1, AskedRespond, AskedAnswer
<1>6. CASE ConnectRefused \/ UNCHANGED vars
  <2>1. UNCHANGED <<wire, listening, inbox, taken, ans>>
    BY <1>6 DEF ConnectRefused, serverVars, workVars, tableVars, vars
  <2> QED
    BY <1>1, <2>1, AskedAnswer
<1>7. CASE \E r \in Reqs : Request(r)
  <2>1. PICK r \in Reqs : Request(r)
    BY <1>7
  <2>2. /\ UNCHANGED <<listening, inbox, taken>> /\ ans'[h] = ans[h]
        /\ Len(wire) \in Nat /\ Len(wire') = Len(wire) + 1
        /\ \A k \in 1 .. Len(wire) : k \in 1 .. Len(wire') /\ wire'[k] = wire[k]
        /\ wire'[Len(wire) + 1].from = r /\ wire'[Len(wire) + 1].n = drawn + 1
        /\ \A k \in 1 .. Len(wire') : k \in 1 .. Len(wire) \/ k = Len(wire) + 1
    BY <2>1, Requesting
  <2>3. r \notin Subs /\ serial[h] # drawn + 1
    <3>1. serial[h] \in 0 .. drawn /\ drawn \in Nat
      BY RoutingAssumption DEF IInv, TypeInv, Callers
    <3> QED
      BY <3>1, RoutingAssumption
  <2>4. /\ \A k \in 1 .. Len(wire') : wire'[k].n = serial[h] => k \in 1 .. Len(wire)
        /\ \A k \in 1 .. Len(wire') : Asks(wire'[k], eventOf[h]) => k \in 1 .. Len(wire)
    BY <2>2, <2>3 DEF Asks
  <2>5. \A x : Mine(x, h)' <=> Mine(x, h)
    BY <1>1 DEF Mine
  <2>6. CASE Pending(h)
    <3>1. Pending(h)'
      <4>1. PICK p \in 1 .. Len(wire) :
              /\ wire[p].n = serial[h] /\ wire[p].kind = "listen"
              /\ \A j \in 1 .. Len(wire) : j # p => wire[j].n # serial[h] /\ (j > p => ~Asks(wire[j], eventOf[h]))
        BY <2>6 DEF Pending
      <4>2. p \in 1 .. Len(wire') /\ wire'[p] = wire[p]
        BY <2>2
      <4>3. \A j \in 1 .. Len(wire') : j # p => wire'[j].n # serial[h] /\ (j > p => ~Asks(wire'[j], eventOf[h]))
        BY <2>2, <2>4, <4>1
      <4> QED
        BY <1>1, <2>2, <2>5, <2>6, <4>1, <4>2, <4>3 DEF Pending, Asks
    <3> QED
      BY <3>1 DEF Asked
  <2>7. CASE Rejected(h)
    <3>1. Rejected(h)'
      BY <1>1, <2>2, <2>4, <2>5, <2>7 DEF Rejected
    <3> QED
      BY <3>1 DEF Asked
  <2>8. CASE Accepted(h)
    <3>1. NoAsk(eventOf[h])'
      BY <1>1, <2>2, <2>4, <2>8 DEF Accepted, NoAsk, Asks
    <3>2. Ids(eventOf[h])' = {id[h]} /\ (Under(eventOf[h], id[h]) => Under(eventOf[h], id[h])')
      BY <1>1, <2>2, <2>8 DEF Accepted, Ids, Under
    <3>3. Accepted(h)'
      BY <1>1, <2>2, <2>5, <2>8, <3>1, <3>2 DEF Accepted
    <3> QED
      BY <3>3 DEF Asked
  <2> QED
    BY <2>6, <2>7, <2>8 DEF Asked
<1> QED
  BY <1>2, <1>3, <1>4, <1>5, <1>6, <1>7 DEF Background

\* The background keeps what each event's call, or its absence, relies on.
LEMMA EventBackground ==
  ASSUME MaxIds <= IdSpace, IInv, IInv', CallInv, LocalTypes, ModeInv, strayed = 0, Background, ~ServerStrays,
         NEW e \in Events, EventInv(e)
  PROVE  EventInv(e)'
<1>1. /\ UNCHANGED <<eventOf, serverLegacy, mutex, already, eventList, eventMap>>
      /\ \A s \in Subs : pc'[s] = pc[s] /\ id'[s] = id[s] /\ serial'[s] = serial[s]
  BY Elsewhere DEF IInv
<1>2. InList(e)' = InList(e) /\ Entries(e)' = Entries(e) /\ \A i : Expected(i)' = Expected(i)
  BY <1>1 DEF InList, Entries, Expected
<1>3. \A i \in MessageID : Served(e, i) => Served(e, i)'
  BY ServedKept
<1>4. Settled(e) => Settled(e)'
  BY <1>2, <1>3 DEF Settled
<1>5. ASSUME NEW h \in Subs, mutex = h, eventOf[h] = e PROVE Stage(h, e)'
  <2>1. Stage(h, e)
    BY <1>5 DEF EventInv
  <2>2. pc[h] = "ackOn" => Asked(h)'
    <3>1. pc[h] = "ackOn" => serial[h] # 0
      BY DEF CallInv, Listening
    <3> QED
      BY <2>1, <3>1, AskedKept DEF Stage
  <2> QED
    BY <1>1, <1>2, <1>3, <1>4, <2>1, <2>2 DEF Stage
<1> QED
  BY <1>1, <1>4, <1>5 DEF EventInv

-----------------------------------------------------------------------------
(* The steps of the calls. *)

\* They leave the server, the inbox and the protocol alone.
LEMMA CallerFrame ==
  ASSUME NEW s \in Subs, Subscribe(s) \/ Unsubscribe(s)
  PROVE  UNCHANGED <<eventOf, serverLegacy, legacyRPCv1, refused, strayed, listening, inbox, taken>>
BY DEF Subscribe, Unsubscribe, SubscribeCall, SubscribeCheck, SubscribeAdd, SubscribeRecord,
   SubscribeSend, SubscribeAck, SubscribeRollback, SubscribeForget, UnsubscribeCall,
   UnsubscribeRemove, UnsubscribeCheck, UnsubscribeForget, UnsubscribeSend, UnsubscribeAck,
   modeVars, serverVars, workVars

\* A request goes to the end of the wire.
LEMMA Sending ==
  ASSUME TypeInv, NEW c \in Callers, NEW kind, Send(c, kind)
  PROVE  /\ Len(wire) \in Nat /\ Len(wire') = Len(wire) + 1
         /\ \A k \in 1 .. Len(wire) : k \in 1 .. Len(wire') /\ wire'[k] = wire[k]
         /\ \A k \in 1 .. Len(wire') : k \in 1 .. Len(wire) \/ k = Len(wire) + 1
         /\ wire'[Len(wire) + 1].from = c /\ wire'[Len(wire) + 1].n = serial'[c]
         /\ wire'[Len(wire) + 1].kind = kind
<1>1. PICK m : m = [from |-> c, n |-> serial'[c], id |-> id'[c], kind |-> kind]
  OBVIOUS
<1>2. PICK S : S = Requests \cup {m}
  OBVIOUS
<1>3. wire \in Seq(S) /\ m \in S
  BY <1>2 DEF TypeInv
<1>4. wire' = Append(wire, m) /\ m.from = c /\ m.n = serial'[c] /\ m.kind = kind
  BY <1>1 DEF Send
<1> QED
  BY <1>3, <1>4, LastIn

LEMMA CallerWire ==
  ASSUME TypeInv, NEW s \in Subs, Subscribe(s) \/ Unsubscribe(s)
  PROVE  wire' = wire \/ Send(s, "listen") \/ Send(s, "unlisten")
BY DEF Subscribe, Unsubscribe, SubscribeCall, SubscribeCheck, SubscribeAdd, SubscribeRecord,
   SubscribeSend, SubscribeAck, SubscribeRollback, SubscribeForget, UnsubscribeCall,
   UnsubscribeRemove, UnsubscribeCheck, UnsubscribeForget, UnsubscribeSend, UnsubscribeAck, serverVars

\* Entries of the event map.
LEMMA EntryGone ==
  ASSUME NEW i, NEW e, eventMap' = Without(eventMap, i)
  PROVE  Entries(e)' = Entries(e) \ {i}
BY DEF Entries, Without

LEMMA EntryAdded ==
  ASSUME NEW i, NEW e, NEW f, i \notin DOMAIN eventMap, eventMap' = With(eventMap, i, f)
  PROVE  Entries(e)' = IF e = f THEN Entries(e) \cup {i} ELSE Entries(e)
BY DEF Entries, With

\* A step of a call changes the entries of its own event only: a new one under
\* its identifier, the one under its identifier, or the first one.
LEMMA CallerEntries ==
  ASSUME MaxIds <= IdSpace, IInv, CallInv, NEW s \in Subs, Subscribe(s) \/ Unsubscribe(s)
  PROVE  /\ \A e \in Events \ {eventOf[s]} : Entries(e)' = Entries(e)
         /\ SubscribeRecord(s) => Entries(eventOf[s])' = Entries(eventOf[s]) \cup (IF legacyRPCv1 THEN {id'[s]} ELSE {})
         /\ SubscribeForget(s) => Entries(eventOf[s])' = Entries(eventOf[s]) \ (IF legacyRPCv1 THEN {id[s]} ELSE {})
         /\ UnsubscribeForget(s) => \/ Entries(eventOf[s])' = Entries(eventOf[s])
                                       /\ (Entries(eventOf[s]) = {} \/ ~legacyRPCv1)
                                    \/ \E i \in Entries(eventOf[s]) : Entries(eventOf[s])' = Entries(eventOf[s]) \ {i}
         /\ SubscribeRecord(s) \/ SubscribeForget(s) \/ UnsubscribeForget(s) \/ eventMap' = eventMap
<1> DEFINE f == eventOf[s]
<1>1. s \in Callers /\ TypeInv /\ UNCHANGED eventOf
  BY CallerFrame DEF IInv, Callers
<1>2. f' = f
  BY <1>1
<1>3. ASSUME eventMap' = eventMap PROVE \A e : Entries(e)' = Entries(e)
  BY <1>3 DEF Entries
<1>4. CASE SubscribeRecord(s)
  <2>1. id'[s] \notin DOMAIN eventMap
    <3>1. Draw(s)
      BY <1>4 DEF SubscribeRecord
    <3>2. id'[s] = id_counter' /\ id_counter' \notin Used
      BY <1>1, <3>1, Fresh DEF Draw, TypeInv
    <3> QED
      BY <3>2, OfMap
  <2>2. eventMap' = IF legacyRPCv1 THEN With(eventMap, id'[s], f) ELSE eventMap
    BY <1>4 DEF SubscribeRecord, Recorded
  <2>3. CASE legacyRPCv1
    <3>1. \A e : Entries(e)' = IF e = f THEN Entries(e) \cup {id'[s]} ELSE Entries(e)
      BY <2>1, <2>2, <2>3, EntryAdded
    <3>2. ~SubscribeForget(s) /\ ~UnsubscribeForget(s)
      BY <1>4 DEF SubscribeRecord, SubscribeForget, UnsubscribeForget
    <3>3. Entries(f)' = Entries(f) \cup {id'[s]}
      BY <1>2, <3>1
    <3> QED
      BY <1>4, <2>3, <3>1, <3>2, <3>3
  <2>4. CASE ~legacyRPCv1
    <3>1. eventMap' = eventMap
      BY <2>2, <2>4
    <3>2. ~SubscribeForget(s) /\ ~UnsubscribeForget(s)
      BY <1>4 DEF SubscribeRecord, SubscribeForget, UnsubscribeForget
    <3>3. Entries(f)' = Entries(f)
      BY <1>2, <1>3, <3>1
    <3> QED
      BY <1>3, <1>4, <2>4, <3>1, <3>2, <3>3
  <2> QED
    BY <2>3, <2>4
<1>5. CASE SubscribeForget(s)
  <2>1. serial[s] # 0 /\ ~SubscribeRecord(s) /\ ~UnsubscribeForget(s)
    BY <1>5 DEF SubscribeForget, SubscribeRecord, UnsubscribeForget, CallInv, Listening
  <2>2. \A e \in Events \ {f} : id[s] \notin Entries(e)
    BY <2>1, OfMap DEF Entries
  <2>3. eventMap' = IF legacyRPCv1 THEN Without(eventMap, id[s]) ELSE eventMap
    BY <1>5 DEF SubscribeForget, Forgotten
  <2>4. CASE legacyRPCv1
    <3>1. \A e : Entries(e)' = Entries(e) \ {id[s]}
      BY <2>3, <2>4, EntryGone
    <3>2. Entries(f)' = Entries(f) \ {id[s]}
      BY <1>2, <3>1
    <3>3. \A e \in Events \ {f} : Entries(e)' = Entries(e)
      BY <2>2, <3>1
    <3> QED
      BY <1>5, <2>1, <2>4, <3>2, <3>3
  <2>5. CASE ~legacyRPCv1
    <3>1. Entries(f)' = Entries(f) /\ \A e : Entries(e)' = Entries(e)
      BY <1>2, <1>3, <2>3, <2>5
    <3> QED
      BY <1>5, <2>1, <2>5, <3>1
  <2> QED
    BY <2>4, <2>5
<1>6. CASE UnsubscribeForget(s)
  <2>1. ~SubscribeRecord(s) /\ ~SubscribeForget(s)
    BY <1>6 DEF SubscribeForget, SubscribeRecord, UnsubscribeForget
  <2>2. eventMap' = IF legacyRPCv1 /\ Entries(f) # {} THEN Without(eventMap, Min(Entries(f))) ELSE eventMap
    BY <1>6 DEF UnsubscribeForget, Entries
  <2>3. CASE legacyRPCv1 /\ Entries(f) # {}
    <3>1. PICK i : i = Min(Entries(f))
      OBVIOUS
    <3>2. MessageID \subseteq Nat
      BY RoutingAssumption DEF MessageID
    <3>3. Entries(f) \in SUBSET Nat
      BY <3>2, OfMap DEF Entries
    <3>4. i \in Entries(f)
      BY <2>3, <3>1, <3>3, Least
    <3>5. \A e : Entries(e)' = Entries(e) \ {i}
      BY <2>2, <2>3, <3>1, EntryGone
    <3>6. Entries(f)' = Entries(f) \ {i}
      BY <1>2, <3>5
    <3>7. \A e \in Events \ {f} : Entries(e)' = Entries(e)
      BY <3>4, <3>5 DEF Entries
    <3> QED
      BY <1>6, <2>1, <3>4, <3>6, <3>7
  <2>4. CASE ~(legacyRPCv1 /\ Entries(f) # {})
    <3>1. Entries(f)' = Entries(f) /\ \A e : Entries(e)' = Entries(e)
      BY <1>2, <1>3, <2>2, <2>4
    <3> QED
      BY <1>6, <2>1, <2>4, <3>1
  <2> QED
    BY <2>3, <2>4
<1>7. CASE ~(SubscribeRecord(s) \/ SubscribeForget(s) \/ UnsubscribeForget(s))
  <2>1. eventMap' = eventMap
    BY <1>7 DEF Subscribe, Unsubscribe, SubscribeCall, SubscribeCheck, SubscribeAdd,
       SubscribeSend, SubscribeAck, SubscribeRollback, UnsubscribeCall,
       UnsubscribeRemove, UnsubscribeCheck, UnsubscribeSend, UnsubscribeAck
  <2> QED
    BY <1>3, <1>7, <2>1
<1> QED
  BY <1>4, <1>5, <1>6, <1>7

\* A call is in progress only with the mutex.
LEMMA OneCall ==
  ASSUME IInv, CallInv, NEW s \in Subs, Subscribe(s) \/ Unsubscribe(s)
  PROVE  mutex \in {s, Nobody} /\ mutex' \in {s, Nobody} /\ \A h \in Subs : h # Nobody
<1>1. TypeInv /\ \A h \in Subs : h # Nobody
  BY RoutingAssumption DEF IInv
<1> QED
  BY <1>1, Moves DEF CallInv

\* The event of another caller keeps its subscribers and is served as before.
LEMMA EventOther ==
  ASSUME MaxIds <= IdSpace, IInv, CallInv, NEW s \in Subs, Subscribe(s) \/ Unsubscribe(s),
         NEW e \in Events, e # eventOf[s], EventInv(e)
  PROVE  EventInv(e)'
<1>1. UNCHANGED <<eventOf, serverLegacy, listening, inbox>> /\ TypeInv /\ s \in Callers
  BY CallerFrame DEF IInv, Callers
<1>2. mutex \in {s, Nobody} /\ mutex' \in {s, Nobody} /\ \A h \in Subs : h # Nobody
  BY OneCall
<1>3. Settled(e)
  BY <1>2 DEF EventInv
<1>4. Entries(e)' = Entries(e)
  BY CallerEntries
<1>5. InList(e)' = InList(e)
  <2>1. eventList' \in {eventList, eventList \cup {s}, eventList \ {s}}
    BY DEF Subscribe, Unsubscribe, SubscribeCall, SubscribeCheck, SubscribeAdd, SubscribeRecord,
       SubscribeSend, SubscribeAck, SubscribeRollback, SubscribeForget, UnsubscribeCall, UnsubscribeRemove,
       UnsubscribeCheck, UnsubscribeForget, UnsubscribeSend, UnsubscribeAck
  <2> QED
    BY <1>1, <2>1 DEF InList
<1>6. NoAsk(e) => NoAsk(e)'
  <2>1. CASE wire' = wire
    BY <1>1, <2>1 DEF NoAsk, Asks
  <2>2. CASE Send(s, "listen") \/ Send(s, "unlisten")
    <3>1. /\ \A k \in 1 .. Len(wire) : wire'[k] = wire[k]
          /\ \A k \in 1 .. Len(wire') : k \in 1 .. Len(wire) \/ k = Len(wire) + 1
          /\ wire'[Len(wire) + 1].from = s
      BY <1>1, <2>2, Sending
    <3> QED
      BY <1>1, <3>1 DEF NoAsk, Asks
  <2> QED
    BY <1>1, <2>1, <2>2, CallerWire
<1>7. \A i : Served(e, i) => Served(e, i)'
  BY <1>1, <1>4, <1>6 DEF Served, Ids, Expected, Under
<1>8. Settled(e)'
  BY <1>3, <1>4, <1>5, <1>7 DEF Settled
<1> QED
  BY <1>1, <1>2, <1>8 DEF EventInv

\* What has to be shown of a step of a call for its own event.
LEMMA EventGoal ==
  ASSUME IInv, CallInv, NEW s \in Subs, Subscribe(s) \/ Unsubscribe(s),
         NEW e \in Events, e = eventOf[s], mutex' = s => Stage(s, e)', mutex' = Nobody => Settled(e)'
  PROVE  EventInv(e)'
<1>1. UNCHANGED eventOf
  BY CallerFrame
<1>2. mutex' \in {s, Nobody} /\ \A h \in Subs : h # Nobody
  BY OneCall
<1> QED
  BY <1>1, <1>2 DEF EventInv

\* isAnySubscriber() of an event whose module is in lower case.
LEMMA AnySubscriber ==
  ASSUME CallInv, NEW e, Findable(e)
  PROVE  IsAnySubscriber(e) <=> InList(e) # {}
BY DEF IsAnySubscriber, Findable, InList

\* A step that leaves the tables, and the wire, as they are.
LEMMA SettledKept ==
  ASSUME UNCHANGED <<eventOf, serverLegacy, listening, inbox, wire, eventMap>>, NEW e
  PROVE  /\ Entries(e)' = Entries(e)
         /\ \A i : (Served(e, i) => Served(e, i)') /\ Expected(i)' = Expected(i)
         /\ eventList' = eventList => InList(e)' = InList(e) /\ (Settled(e) => Settled(e)')
<1>1. /\ Entries(e)' = Entries(e)
      /\ \A i : Expected(i)' = Expected(i)
      /\ eventList' = eventList => InList(e)' = InList(e)
  BY DEF Entries, Expected, InList
<1>2. \A i : Served(e, i) => Served(e, i)'
  BY <1>1 DEF Served, NoAsk, Asks, Ids, Under
<1> QED
  BY <1>1, <1>2 DEF Settled

\* The steps of subscribe() for its own event.
LEMMA EventSubscribe ==
  ASSUME MaxIds <= IdSpace, IInv, IInv', CallInv, CallInv', LocalTypes, ModeInv, refused = 0,
         NEW s \in Subs, Subscribe(s), NEW e \in Events, e = eventOf[s], Findable(e), EventInv(e)
  PROVE  EventInv(e)'
<1>1. /\ UNCHANGED <<eventOf, serverLegacy, legacyRPCv1, listening, inbox, taken>> /\ TypeInv /\ s \in Callers
      /\ legacyRPCv1 = serverLegacy /\ s # Nobody
  BY CallerFrame, RoutingAssumption DEF IInv, ModeInv, Callers
<1>2. \A label : Goto(s, label) => pc'[s] = label
  BY <1>1, Going
<1>3. /\ mutex = s <=> pc[s] \in InCall
      /\ mutex' = s <=> pc'[s] \in InCall
      /\ mutex = s => Stage(s, e)
      /\ mutex = Nobody => Settled(e)
  <2>1. \A h \in Subs : h # Nobody
    BY RoutingAssumption
  <2> QED
    BY <2>1 DEF CallInv, EventInv
<1>4. SUFFICES (mutex' = s => Stage(s, e)') /\ (mutex' = Nobody => Settled(e)')
  BY EventGoal
<1>5. CASE SubscribeCall(s)
  <2>1. Settled(e) /\ pc'[s] = "check" /\ mutex' = s
    BY <1>2, <1>3, <1>5 DEF SubscribeCall
  <2>2. UNCHANGED <<wire, eventMap, eventList>>
    BY <1>5 DEF SubscribeCall, serverVars
  <2>3. Settled(e)'
    BY <1>1, <2>1, <2>2, SettledKept
  <2> QED
    BY <1>1, <2>1, <2>3 DEF Stage, Listening
<1>6. CASE SubscribeCheck(s)
  <2>1. Settled(e) /\ pc'[s] = "add" /\ mutex' = s
    BY <1>2, <1>3, <1>6 DEF SubscribeCheck, Stage, InCall
  <2>2. UNCHANGED <<wire, eventMap, eventList>>
    BY <1>6 DEF SubscribeCheck, serverVars
  <2>3. Settled(e)' /\ InList(e)' = InList(e)
    BY <1>1, <2>1, <2>2, SettledKept
  <2>4. already'[s] = IsAnySubscriber(e)
    BY <1>6 DEF SubscribeCheck, LocalTypes
  <2>5. already'[s] <=> InList(e)' # {}
    BY <2>3, <2>4, AnySubscriber
  <2> QED
    BY <1>1, <2>1, <2>3, <2>5 DEF Stage, Listening
<1>7. CASE SubscribeAdd(s)
  <2>1. Settled(e) /\ (already[s] <=> InList(e) # {})
    BY <1>3, <1>7 DEF SubscribeAdd, Stage, InCall
  <2>2. UNCHANGED <<wire, eventMap>> /\ eventList' = eventList \cup {s}
    BY <1>7 DEF SubscribeAdd, serverVars
  <2>3. InList(e)' = InList(e) \cup {s}
    BY <1>1, <2>2 DEF InList
  <2>4. CASE already[s] /\ Return(s, "subscribed")
    <3>1. mutex' = Nobody
      BY <2>4 DEF Return
    <3>2. Settled(e)'
      BY <1>1, <2>1, <2>2, <2>3, <2>4, SettledKept DEF Settled
    <3> QED
      BY <1>1, <3>1, <3>2
  <2>5. CASE ~already[s] /\ Continue(s, "record")
    <3>1. pc'[s] = "record" /\ mutex' # Nobody
      BY <1>1, <1>2, <1>3, <1>7, <2>5 DEF Continue, SubscribeAdd, InCall
    <3>2. InList(e) = {} /\ Entries(e) = {}
      BY <2>1, <2>5 DEF Settled
    <3>3. InList(e)' = {s} /\ Entries(e)' = {}
      BY <1>1, <2>2, <2>3, <3>2, SettledKept
    <3> QED
      BY <3>1, <3>3 DEF Stage, Listening
  <2> QED
    BY <1>7, <2>4, <2>5 DEF SubscribeAdd
<1>8. CASE SubscribeRecord(s)
  <2>1. InList(e) = {s} /\ Entries(e) = {}
    BY <1>3, <1>8 DEF SubscribeRecord, Stage, InCall
  <2>2. pc'[s] = "sendOn" /\ mutex' # Nobody
    BY <1>1, <1>2, <1>3, <1>8 DEF SubscribeRecord, InCall
  <2>3. InList(e)' = {s}
    BY <1>1, <1>8, <2>1 DEF SubscribeRecord, InList
  <2>4. Entries(e)' = Expected(id[s])'
    <3>1. Entries(eventOf[s])' = Entries(eventOf[s]) \cup (IF legacyRPCv1 THEN {id'[s]} ELSE {})
      BY <1>8, CallerEntries
    <3>2. Entries(e)' = Entries(e) \cup (IF serverLegacy THEN {id'[s]} ELSE {})
      BY <1>1, <3>1
    <3> QED
      BY <1>1, <2>1, <3>2 DEF Expected
  <2> QED
    BY <2>2, <2>3, <2>4 DEF Stage, Listening
<1>9. CASE SubscribeSend(s)
  <2>1. InList(e) = {s} /\ Entries(e) = Expected(id[s])
    BY <1>3, <1>9 DEF SubscribeSend, Stage, InCall, Listening
  <2>2. pc'[s] = "ackOn" /\ mutex' # Nobody
    BY <1>1, <1>2, <1>3, <1>9 DEF SubscribeSend, InCall
  <2>3. UNCHANGED <<eventList, eventMap, id, serial>> /\ Send(s, "listen") /\ pc[s] = "sendOn"
    BY <1>9 DEF SubscribeSend
  <2>4. InList(e)' = {s} /\ Entries(e)' = Expected(id[s])'
    BY <1>1, <2>1, <2>3 DEF InList, Entries, Expected
  <2>5. /\ \A k \in 1 .. Len(wire) : wire[k].n # serial[s]
        /\ \A k \in 1 .. Len(inbox) : ~Mine(inbox[k], s)
        /\ ~Mine(taken.msg, s)
    BY <1>1, <2>3, Unsent
  <2>6. /\ Len(wire) \in Nat /\ Len(wire') = Len(wire) + 1
        /\ \A k \in 1 .. Len(wire) : k \in 1 .. Len(wire') /\ wire'[k] = wire[k]
        /\ \A k \in 1 .. Len(wire') : k \in 1 .. Len(wire) \/ k = Len(wire) + 1
        /\ wire'[Len(wire) + 1].n = serial'[s] /\ wire'[Len(wire) + 1].kind = "listen"
    BY <1>1, <2>3, Sending
  <2>7. ans'[s] # "ok"
    BY <1>1, <2>3 DEF Send, LocalTypes
  <2>8. PICK p : p = Len(wire) + 1
    OBVIOUS
  <2>9. /\ p \in 1 .. Len(wire') /\ wire'[p].n = serial'[s] /\ wire'[p].kind = "listen"
        /\ \A j \in 1 .. Len(wire') : j # p => wire'[j].n # serial'[s] /\ ~(j > p)
    BY <2>3, <2>5, <2>6, <2>8
  <2>10. /\ \A k \in 1 .. Len(inbox') : ~Mine(inbox[k], s)'
         /\ ~Mine(taken.msg, s)'
    BY <1>1, <2>3, <2>5 DEF Mine
  <2>11. Pending(s)'
    BY <2>7, <2>9, <2>10 DEF Pending
  <2> QED
    BY <2>2, <2>4, <2>11 DEF Stage, Listening, Asked
<1>10. CASE SubscribeAck(s)
  <2>1. InList(e) = {s} /\ Entries(e) = Expected(id[s]) /\ Asked(s)
    BY <1>3, <1>10 DEF SubscribeAck, Stage, InCall, Listening
  <2>2. UNCHANGED <<wire, eventMap, eventList>>
    BY <1>10 DEF SubscribeAck, serverVars
  <2>3. InList(e)' = InList(e) /\ Entries(e)' = Entries(e) /\ \A i : Served(e, i) => Served(e, i)'
    BY <1>1, <2>2, SettledKept
  <2>4. CASE ans[s] = "ok" /\ Return(s, "subscribed")
    <3>1. mutex' = Nobody
      BY <2>4 DEF Return
    <3>2. Accepted(s)
      BY <2>1, <2>4 DEF Asked, Pending, Rejected
    <3>3. Served(e, id[s])
      BY <2>1, <2>4, <3>2 DEF Accepted, Served
    <3>4. id[s] \in MessageID
      BY <1>1, <1>10, OfWire DEF SubscribeAck, CallInv, Listening
    <3>5. Settled(e)'
      BY <2>1, <2>3, <3>3, <3>4 DEF Settled
    <3> QED
      BY <1>1, <3>1, <3>5
  <2>5. CASE Continue(s, "rollback")
    <3>1. pc'[s] = "rollback" /\ mutex' # Nobody /\ id' = id
      BY <1>1, <1>2, <1>3, <1>10, <2>5 DEF Continue, SubscribeAck, InCall, localVars
    <3>2. Entries(e)' = Expected(id[s])'
      BY <1>1, <2>1, <2>3, <3>1 DEF Expected
    <3> QED
      BY <2>1, <2>3, <3>1, <3>2 DEF Stage, Listening
  <2> QED
    BY <1>10, <2>4, <2>5 DEF SubscribeAck
<1>11. CASE SubscribeRollback(s)
  <2>1. InList(e) = {s} /\ Entries(e) = Expected(id[s])
    BY <1>3, <1>11 DEF SubscribeRollback, Stage, InCall, Listening
  <2>2. pc'[s] = "forgetOn" /\ mutex' # Nobody
    BY <1>1, <1>2, <1>3, <1>11 DEF SubscribeRollback, InCall
  <2>3. eventList' = eventList \ {s} /\ UNCHANGED <<eventMap, id>>
    BY <1>11 DEF SubscribeRollback, tableVars
  <2>4. InList(e)' = {} /\ Entries(e)' = Expected(id[s])'
    BY <1>1, <2>1, <2>3 DEF InList, Entries, Expected
  <2> QED
    BY <2>2, <2>4 DEF Stage, Listening
<1>12. CASE SubscribeForget(s)
  <2>1. InList(e) = {} /\ Entries(e) = Expected(id[s])
    BY <1>3, <1>12 DEF SubscribeForget, Stage, InCall, Listening
  <2>2. mutex' = Nobody /\ eventList' = eventList
    BY <1>12 DEF SubscribeForget, Return
  <2>3. Entries(e)' = {}
    <3>1. Entries(eventOf[s])' = Entries(eventOf[s]) \ (IF legacyRPCv1 THEN {id[s]} ELSE {})
      BY <1>12, CallerEntries
    <3>2. Entries(e)' = Entries(e) \ (IF serverLegacy THEN {id[s]} ELSE {})
      BY <1>1, <3>1
    <3> QED
      BY <2>1, <3>2 DEF Expected
  <2>4. InList(e)' = {}
    BY <1>1, <2>1, <2>2 DEF InList
  <2> QED
    BY <1>1, <2>2, <2>3, <2>4 DEF Settled
<1> QED
  BY <1>5, <1>6, <1>7, <1>8, <1>9, <1>10, <1>11, <1>12 DEF Subscribe

\* The steps of unsubscribe() for its own event.
LEMMA EventUnsubscribe ==
  ASSUME MaxIds <= IdSpace, IInv, CallInv, CallInv', ModeInv, refused = 0,
         NEW s \in Subs, Unsubscribe(s), NEW e \in Events, e = eventOf[s], Findable(e), EventInv(e)
  PROVE  EventInv(e)'
<1>1. /\ UNCHANGED <<eventOf, serverLegacy, legacyRPCv1, listening, inbox>> /\ TypeInv /\ s \in Callers
      /\ legacyRPCv1 = serverLegacy /\ s # Nobody
  BY CallerFrame, RoutingAssumption DEF IInv, ModeInv, Callers
<1>2. \A label : Goto(s, label) => pc'[s] = label
  BY <1>1, Going
<1>3. /\ mutex = s <=> pc[s] \in InCall
      /\ mutex' = s <=> pc'[s] \in InCall
      /\ mutex = s => Stage(s, e)
      /\ mutex = Nobody => Settled(e)
  <2>1. \A h \in Subs : h # Nobody
    BY RoutingAssumption
  <2> QED
    BY <2>1 DEF CallInv, EventInv
<1>4. SUFFICES (mutex' = s => Stage(s, e)') /\ (mutex' = Nobody => Settled(e)')
  BY EventGoal
<1>5. CASE UnsubscribeCall(s)
  <2>1. Settled(e) /\ pc'[s] = "remove" /\ mutex' = s
    BY <1>2, <1>3, <1>5 DEF UnsubscribeCall
  <2>2. UNCHANGED <<wire, eventMap, eventList>>
    BY <1>5 DEF UnsubscribeCall, serverVars
  <2>3. Settled(e)'
    BY <1>1, <2>1, <2>2, SettledKept
  <2> QED
    BY <1>1, <2>1, <2>3 DEF Stage, Listening
<1>6. CASE UnsubscribeRemove(s)
  <2>1. Settled(e)
    BY <1>3, <1>6 DEF UnsubscribeRemove, Stage, InCall
  <2>2. pc'[s] = "others" /\ mutex' # Nobody
    BY <1>1, <1>2, <1>3, <1>6 DEF UnsubscribeRemove, InCall
  <2>3. UNCHANGED <<wire, eventMap>> /\ eventList' = eventList \ {s}
    BY <1>6 DEF UnsubscribeRemove, serverVars
  <2>4. InList(e)' = InList(e) \ {s}
    BY <1>1, <2>3 DEF InList
  <2>5. Entries(e)' = Entries(e) /\ \A i : (Served(e, i) => Served(e, i)') /\ Expected(i)' = Expected(i)
    BY <1>1, <2>3, SettledKept
  <2>6. InList(e)' # {} => \E i \in MessageID : Served(e, i)'
    BY <2>1, <2>4, <2>5 DEF Settled
  <2>7. \E i \in MessageID : Entries(e)' \subseteq Expected(i)'
    <3>1. CASE Entries(e) = {}
      <4>1. 0 \in MessageID
        BY RoutingAssumption DEF MessageID
      <4> QED
        BY <2>5, <3>1, <4>1
    <3>2. CASE Entries(e) # {}
      BY <2>1, <2>5, <3>2 DEF Settled, Served
    <3> QED
      BY <3>1, <3>2
  <2> QED
    BY <2>2, <2>6, <2>7 DEF Stage, Listening
<1>7. CASE UnsubscribeCheck(s)
  <2>1. /\ InList(e) # {} => \E i \in MessageID : Served(e, i)
        /\ \E i \in MessageID : Entries(e) \subseteq Expected(i)
    BY <1>3, <1>7 DEF UnsubscribeCheck, Stage, InCall
  <2>2. UNCHANGED <<wire, eventMap, eventList>>
    BY <1>7 DEF UnsubscribeCheck, serverVars
  <2>3. /\ InList(e)' = InList(e) /\ Entries(e)' = Entries(e)
        /\ \A i : (Served(e, i) => Served(e, i)') /\ Expected(i)' = Expected(i)
    BY <1>1, <2>2, SettledKept
  <2>4. IsAnySubscriber(e) <=> InList(e) # {}
    BY AnySubscriber
  <2>5. CASE IsAnySubscriber(e) /\ Return(s, "new")
    <3>1. mutex' = Nobody
      BY <2>5 DEF Return
    <3>2. Settled(e)'
      BY <2>1, <2>3, <2>4, <2>5 DEF Settled
    <3> QED
      BY <1>1, <3>1, <3>2
  <2>6. CASE ~IsAnySubscriber(e) /\ Continue(s, "forgetOff")
    <3>1. pc'[s] = "forgetOff" /\ mutex' # Nobody
      BY <1>1, <1>2, <1>3, <1>7, <2>6 DEF Continue, UnsubscribeCheck, InCall
    <3>2. InList(e)' = {} /\ \E i \in MessageID : Entries(e)' \subseteq Expected(i)'
      BY <2>1, <2>3, <2>4, <2>6
    <3> QED
      BY <3>1, <3>2 DEF Stage, Listening
  <2> QED
    BY <1>7, <2>5, <2>6 DEF UnsubscribeCheck
<1>8. CASE UnsubscribeForget(s)
  <2>1. InList(e) = {} /\ \E i \in MessageID : Entries(e) \subseteq Expected(i)
    BY <1>3, <1>8 DEF UnsubscribeForget, Stage, InCall
  <2>2. pc'[s] = "sendOff" /\ mutex' # Nobody
    BY <1>1, <1>2, <1>3, <1>8 DEF UnsubscribeForget, InCall
  <2>3. InList(e)' = {}
    BY <1>1, <1>8, <2>1 DEF UnsubscribeForget, InList
  <2>4. \/ Entries(e)' = Entries(e) /\ (Entries(e) = {} \/ ~serverLegacy)
        \/ \E i \in Entries(e) : Entries(e)' = Entries(e) \ {i}
    <3>1. \/ Entries(eventOf[s])' = Entries(eventOf[s]) /\ (Entries(eventOf[s]) = {} \/ ~legacyRPCv1)
          \/ \E i \in Entries(eventOf[s]) : Entries(eventOf[s])' = Entries(eventOf[s]) \ {i}
      BY <1>8, CallerEntries
    <3> QED
      BY <1>1, <3>1
  <2>5. Entries(e)' = {}
    BY <2>1, <2>4 DEF Expected
  <2> QED
    BY <2>2, <2>3, <2>5 DEF Stage, Listening
<1>9. CASE UnsubscribeSend(s)
  <2>1. InList(e) = {} /\ Entries(e) = {}
    BY <1>3, <1>9 DEF UnsubscribeSend, Stage, InCall
  <2>2. pc'[s] = "ackOff" /\ mutex' # Nobody
    BY <1>1, <1>2, <1>3, <1>9 DEF UnsubscribeSend, InCall
  <2>3. InList(e)' = {} /\ Entries(e)' = {}
    BY <1>1, <1>9, <2>1 DEF UnsubscribeSend, InList, Entries
  <2> QED
    BY <2>2, <2>3 DEF Stage, Listening
<1>10. CASE UnsubscribeAck(s)
  <2>1. InList(e) = {} /\ Entries(e) = {}
    BY <1>3, <1>10 DEF UnsubscribeAck, Stage, InCall
  <2>2. mutex' = Nobody
    BY <1>10 DEF UnsubscribeAck, Return
  <2>3. InList(e)' = {} /\ Entries(e)' = {}
    BY <1>1, <1>10, <2>1 DEF UnsubscribeAck, InList, Entries
  <2> QED
    BY <1>1, <2>2, <2>3 DEF Settled
<1> QED
  BY <1>5, <1>6, <1>7, <1>8, <1>9, <1>10 DEF Unsubscribe

\* Every step keeps event list, event map and server together.
LEMMA EventStep ==
  ASSUME MaxIds <= IdSpace, IInv, EInv, [Next]_vars PROVE EInv'
<1>1. IInv' /\ CallInv /\ LocalTypes /\ ModeInv /\ FormInv
  BY InductiveStep DEF EInv
<1>2. CallInv' /\ LocalTypes' /\ ModeInv' /\ FormInv'
  BY <1>1, CallStep, LocalTypesStep, ModeStep, FormStep
<1>3. ASSUME Undisturbed', NEW e \in Events, Findable(e) PROVE EventInv(e)'
  <2>1. CASE Background
    <3>1. refused = 0 /\ strayed = 0 /\ ~ServerStrays
      <4>1. refused' = 0 /\ strayed' = 0 /\ refused \in Nat /\ strayed \in Nat
        BY <1>1, <1>3 DEF Undisturbed, ModeInv
      <4>2. /\ refused' = refused + 1 \/ refused' = refused
            /\ strayed' = strayed + 1 \/ strayed' = strayed
        BY <2>1 DEF Background, modeVars, serverVars, vars, Request, TimeOut, ConnectRefused, ServerReads,
           ServerEmits, ServerStrays, OnMessage, Take, TakeLegacyEvent, TakeResponse, TakeNotification,
           TakeInvalid, Respond, Notify
      <4>3. ServerStrays => strayed' = strayed + 1
        BY DEF ServerStrays
      <4> QED
        BY <4>1, <4>2, <4>3
    <3>2. EventInv(e)
      BY <1>3, <3>1 DEF EInv, TablesInv, Undisturbed
    <3> QED
      BY <1>1, <2>1, <3>1, <3>2, EventBackground
  <2>2. ASSUME NEW s \in Subs, Subscribe(s) \/ Unsubscribe(s) PROVE EventInv(e)'
    <3>1. refused = 0 /\ strayed = 0
      BY <1>3, <2>2, CallerFrame DEF Undisturbed
    <3>2. EventInv(e)
      BY <1>3, <3>1 DEF EInv, TablesInv, Undisturbed
    <3>3. CASE e # eventOf[s]
      BY <1>1, <2>2, <3>2, <3>3, EventOther
    <3>4. CASE e = eventOf[s]
      BY <1>1, <1>2, <1>3, <2>2, <3>1, <3>2, <3>4, EventSubscribe, EventUnsubscribe
    <3> QED
      BY <3>3, <3>4
  <2> QED
    BY <2>1, <2>2, Split
<1> QED
  BY <1>2, <1>3 DEF EInv, TablesInv

LEMMA EventInit == ASSUME Init PROVE EInv
<1>1. /\ mutex = Nobody /\ eventList = {} /\ pc = [c \in Callers |-> "new"] /\ DOMAIN eventMap = {}
      /\ inbox = <<>> /\ taken = Idle /\ refused = 0 /\ strayed = 0 /\ legacyRPCv1 = serverLegacy
      /\ serverLegacy \in BOOLEAN /\ ans = [c \in Callers |-> "none"] /\ already = [s \in Subs |-> FALSE]
  BY DEF Init
<1>2. \A h \in Subs : h # Nobody /\ pc[h] = "new"
  BY <1>1, RoutingAssumption DEF Callers
<1>3. CallInv
  BY <1>1, <1>2 DEF CallInv, InCall, Listening
<1>4. LocalTypes
  BY <1>1 DEF LocalTypes
<1>5. ModeInv
  BY <1>1, IdleFields DEF ModeInv
<1>6. FormInv
  BY <1>1 DEF FormInv
<1>7. \A e : EventInv(e)
  BY <1>1, <1>2 DEF EventInv, Settled, InList, Entries
<1> QED
  BY <1>3, <1>4, <1>5, <1>6, <1>7 DEF EInv, TablesInv

\* The invariant about event list, event map and server: at each stage of each
\* call they differ in what the call has not done yet, and in nothing else.
THEOREM EventInvariance == ASSUME MaxIds <= IdSpace PROVE Spec => []EInv
<1>1. Init => EInv
  BY EventInit
<1>2. IInv /\ EInv /\ [Next]_vars => EInv'
  BY EventStep
<1>3. Spec => []IInv
  BY Invariance
<1> QED
  BY <1>1, <1>2, <1>3, PTL DEF Spec

-----------------------------------------------------------------------------
\* Whenever no call is in progress, event list, event map and server agree:
\* subscribe() and unsubscribe() keep the three together, in both protocols,
\* whatever is refused, ignored, answered late or timed out.
THEOREM Agreement == ASSUME MaxIds <= IdSpace PROVE Spec => []SubscriptionsAgree
<1>1. ASSUME IInv, EInv PROVE SubscriptionsAgree
  <2> SUFFICES ASSUME Quiet, Undisturbed PROVE
               /\ \A s \in eventList : Findable(eventOf[s]) =>
                    \E i \in ServedAs(eventOf[s]) :
                      serverLegacy => i \in DOMAIN eventMap /\ eventMap[i] = eventOf[s]
               /\ \A i \in DOMAIN eventMap : Findable(eventMap[i]) =>
                    \E s \in eventList : eventOf[s] = eventMap[i]
    BY DEF SubscriptionsAgree
  <2>1. \A h \in Subs : mutex # h
    BY <1>1 DEF EInv, CallInv, Quiet, InCall
  <2>2. ASSUME NEW e \in Events, Findable(e) PROVE Settled(e)
    BY <1>1, <2>1, <2>2 DEF EInv, TablesInv, EventInv
  <2>3. ASSUME NEW s \in eventList, Findable(eventOf[s])
        PROVE  \E i \in ServedAs(eventOf[s]) :
                 serverLegacy => i \in DOMAIN eventMap /\ eventMap[i] = eventOf[s]
    <3>1. PICK e \in Events : e = eventOf[s]
      BY <1>1 DEF IInv, TypeInv, EInv, CallInv
    <3>2. s \in InList(e)
      BY <3>1 DEF InList
    <3>3. PICK i \in MessageID : Served(e, i)
      BY <2>2, <2>3, <3>1, <3>2 DEF Settled
    <3>4. DOMAIN wire = 1 .. Len(wire)
      BY <1>1 DEF IInv, TypeInv
    <3>5. {k \in DOMAIN wire : wire[k].from \in Subs /\ eventOf[wire[k].from] = e} = {}
      BY <3>3, <3>4 DEF Served, NoAsk, Asks
    <3>6. ServedAs(e) = {l.id : l \in {l \in listening : l.event = e}}
      BY <3>5 DEF ServedAs
    <3>7. ServedAs(e) = {i}
      BY <3>3, <3>6 DEF Served, Ids
    <3>8. serverLegacy => i \in Entries(e)
      BY <3>3 DEF Served, Expected
    <3> QED
      BY <3>1, <3>7, <3>8 DEF Entries
  <2>4. ASSUME NEW i \in DOMAIN eventMap, Findable(eventMap[i])
        PROVE  \E s \in eventList : eventOf[s] = eventMap[i]
    <3>1. PICK e \in Events : e = eventMap[i]
      BY <1>1, OfMap
    <3>2. i \in Entries(e)
      BY <3>1 DEF Entries
    <3>3. InList(e) # {}
      BY <2>2, <2>4, <3>1, <3>2 DEF Settled
    <3> QED
      BY <3>1, <3>3 DEF InList
  <2> QED
    BY <2>3, <2>4
<1> QED
  BY <1>1, Invariance, EventInvariance, PTL

\* An inbox that a message was taken from is not one that a message came to.
LEMMA Shrinks == ASSUME TypeInv, Shifts PROVE inbox' # inbox /\ \A x : inbox' # Append(inbox, x)
<1>1. Len(inbox) \in Nat /\ Len(inbox') = Len(inbox) - 1
  BY DEF Shifts
<1>2. inbox' # inbox
  BY <1>1
<1>3. ASSUME NEW x PROVE inbox' # Append(inbox, x)
  <2>1. PICK S : S = Messages \cup {x}
    OBVIOUS
  <2>2. inbox \in Seq(S) /\ x \in S
    BY <2>1 DEF TypeInv
  <2>3. Len(Append(inbox, x)) = Len(inbox) + 1
    BY <2>2, LastIn
  <2> QED
    BY <1>1, <2>3
<1> QED
  BY <1>2, <1>3

\* An event that the server emits is taken by onMessage() for its own
\* subscribers, under whichever identifier it was asked for last.
THEOREM Dispatch == ASSUME MaxIds <= IdSpace PROVE Spec => EventsDispatched
<1> DEFINE A == \A s \in eventList :
                  /\ Quiet /\ Undisturbed /\ Findable(eventOf[s])
                  /\ inbox # <<>> /\ inbox' = Tail(inbox)
                  /\ Head(inbox).about = About(eventOf[s])
                  => taken'.to = "server" /\ taken'.event = eventOf[s]
<1>1. ASSUME IInv, EInv, [Next]_vars PROVE A
  <2> SUFFICES ASSUME NEW s \in eventList, Quiet, Undisturbed, Findable(eventOf[s]),
                      inbox # <<>>, inbox' = Tail(inbox), Head(inbox).about = About(eventOf[s])
               PROVE  taken'.to = "server" /\ taken'.event = eventOf[s]
    OBVIOUS
  <2>1. Shifts /\ TypeInv
    BY <1>1, Shifting DEF IInv
  <2>2. PICK e \in Events : e = eventOf[s]
    BY <1>1 DEF IInv, TypeInv, EInv, CallInv
  <2>3. PICK m \in Messages : m = inbox[1] /\ m = Head(inbox) /\ m.about = About(e)
    BY <2>1, <2>2 DEF Shifts
  <2>4. legacyRPCv1 = serverLegacy /\ serverLegacy \in BOOLEAN
    BY <1>1 DEF EInv, ModeInv, Undisturbed
  <2>5. PICK i \in MessageID : Served(e, i)
    <3>1. \A h \in Subs : mutex # h
      BY <1>1 DEF EInv, CallInv, Quiet, InCall
    <3>2. EventInv(e)
      BY <1>1, <2>2 DEF EInv, TablesInv
    <3>3. Settled(e) /\ s \in InList(e)
      BY <2>2, <3>1, <3>2 DEF EventInv, InList
    <3> QED
      BY <3>3 DEF Settled
  <2>6. IF serverLegacy THEN m.shape = Reply(i, "value") ELSE m.shape = Notification(e)
    <3>1. IF serverLegacy THEN \E j \in MessageID : m.shape = Reply(j, "value") ELSE m.shape = Notification(e)
      BY <1>1, <2>1, <2>3 DEF EInv, FormInv, Shifts
    <3>2. serverLegacy => m.shape.id = i
      BY <2>1, <2>3, <2>5 DEF Served, Under, Shifts
    <3> QED
      BY <3>1, <3>2, Shapes
  <2>7. Takes \/ TakeInvalid
    <3>1. OnMessage
      <4>1. inbox' # inbox /\ \A x : inbox' # Append(inbox, x)
        BY <2>1, Shrinks
      <4>2. \/ OnMessage \/ inbox' = inbox \/ \E x : inbox' = Append(inbox, x)
        BY <1>1 DEF Next, Subscribe, Unsubscribe, SubscribeCall, SubscribeCheck, SubscribeAdd, SubscribeRecord,
           SubscribeSend, SubscribeAck, SubscribeRollback, SubscribeForget, UnsubscribeCall,
           UnsubscribeRemove, UnsubscribeCheck, UnsubscribeForget, UnsubscribeSend, UnsubscribeAck,
           vars, Request, TimeOut, ConnectRefused, ServerReads, ServerEmits, ServerStrays, Deliver
      <4> QED
        BY <4>1, <4>2
    <3>2. inbox' # inbox
      BY <2>1, Shrinks
    <3> QED
      BY <3>1, <3>2 DEF OnMessage, Takes, Respond, Notify
  <2>8. PICK own \in Owners, sent \in SUBSET Used : Agree(own, sent)
    BY <1>1 DEF IInv, OwnerInv
  <2>9. CASE serverLegacy
    <3>1. m.shape.idKind = "number" /\ m.shape.id = i /\ m.shape.result = "value"
      BY <2>6, <2>9, Shapes
    <3>2. i \in DOMAIN eventMap /\ eventMap[i] = e
      BY <2>5, <2>9 DEF Served, Entries, Expected
    <3>3. ToMessageID(m.shape.id) = i /\ i >= 0
      BY <3>1, Identifiers, RoutingAssumption DEF MessageID
    <3>4. IsResponse(m.shape) /\ IsValue(m.shape)
      BY <3>1 DEF IsResponse, IsValue
    <3>5. IsLegacyEvent(m.shape)
      BY <2>4, <2>9, <3>1, <3>2, <3>3, <3>4 DEF IsLegacyEvent
    <3>6. TakeLegacyEvent
      BY <2>3, <2>7, <3>1, <3>4, <3>5 DEF Takes, TakeResponse, TakeNotification, TakeInvalid,
         Converts, IsNotification, IsMethodCall
    <3>7. taken'.to = "server" /\ taken'.event = eventMap[ToMessageID(m.shape.id)]
      BY <2>1, <2>3, <2>8, <3>6, Deciding DEF Takes
    <3> QED
      BY <2>2, <3>2, <3>3, <3>7
  <2>10. CASE ~serverLegacy
    <3>1. /\ m.shape.idKind = "absent" /\ m.shape.method = e /\ m.shape.result = "absent"
          /\ ~m.shape.error /\ m.shape.params
      <4>1. ASSUME NEW b \in Shape PROVE [b EXCEPT !.method = e, !.params = TRUE].params
        BY DEF Shape
      <4>2. Notification(e).params
        BY <4>1, Shapes DEF Notification
      <4> QED
        BY <2>6, <2>10, <4>2, Shapes
    <3>2. e # "absent" /\ e # "notString"
      BY EventsAssumption
    <3>3. ~IsResponse(m.shape) /\ IsNotification(m.shape)
      BY <3>1, <3>2 DEF IsResponse, IsNotification, IsMethodCall
    <3>4. TakeNotification
      BY <2>3, <2>7, <3>1, <3>2, <3>3 DEF Takes, TakeResponse, TakeLegacyEvent, TakeInvalid, IsLegacyEvent
    <3>5. taken'.to = "server" /\ taken'.event = m.shape.method
      BY <2>1, <2>3, <2>8, <3>4, Deciding DEF Takes
    <3> QED
      BY <2>2, <3>1, <3>5
  <2> QED
    BY <2>9, <2>10
<1>2. IInv /\ EInv /\ [Next]_vars => [A]_vars
  BY <1>1
<1> QED
  BY <1>2, Invariance, EventInvariance, PTL DEF Spec, EventsDispatched
=============================================================================
