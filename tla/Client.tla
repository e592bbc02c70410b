------------------------------- MODULE Client -------------------------------
(* The pending-request table of src/gateway.cpp: class Client, driven by    *)
(*   - one calling thread per request (Client::request),                    *)
(*   - the transport's message worker (Client::response),                   *)
(*   - the gateway's watchdog thread (Client::checkPromises), and           *)
(*   - the threads that run GatewayImpl::cleanupInternalState: the IO       *)
(*     thread after a connection was lost, and the application thread that  *)
(*     called disconnect() (Client::cancelAll).                             *)
(* queue_mtx makes each access to the table one step; everything between    *)
(* two accesses is interleaved with the other threads.  A caller is named   *)
(* by the request it belongs to.  The transport is seen through send():     *)
(* `status` is "Connected" or "Disconnected", the latter standing for every *)
(* other TransportState.  The watchdog is assumed to be running; that the   *)
(* gateway keeps it running is a matter of module Gateway.                  *)
EXTENDS Naturals, FiniteSets

CONSTANTS Requests,   \* the calls of request() in the behaviour
          IdSpace,    \* 2^32 in the code: the values a MessageID can take
          NoCaller    \* an empty slot of the table

\* Fewer requests are made than there are identifiers.
ASSUME ClientAssumption == /\ IsFiniteSet(Requests)
                           /\ NoCaller \notin Requests
                           /\ IdSpace \in Nat
                           /\ Cardinality(Requests) < IdSpace

MessageID == 0 .. (IdSpace - 1)
NoId == IdSpace                       \* not a MessageID: id not allocated yet
Message == [id : MessageID, kind : {"result", "error"}]
Cleaner == {"io", "app"}

Outcome == {"unset", "result", "error", "Timedout", "NotConnected", "General"}
Unset == [kind |-> "unset", id |-> NoId]
Local(error) == [kind |-> error, id |-> NoId]   \* an answer made on this side

VARIABLES
  id_counter,   \* Transport::id_counter_
  pc,           \* where each calling thread is in request()
  id,           \* Caller::id
  result,       \* request()'s local: what send() returned
  promise,      \* Caller::promise
  aged,         \* callers older than runtime_waitTime_ms
  queue,        \* Client::queue
  matched,      \* response()'s local `c`: the caller taken by the worker ...
  reply,        \* ... and the message it is answered with
  timedOut,     \* checkPromises()'s local vector
  toCancel,     \* cancelAll()'s local map
  status,       \* Transport::connectionStatus_, as send() sees it
  cleaning      \* threads in cleanupInternalState() short of cancelAll()

callVars == <<id_counter, pc, id, result>>
holdVars == <<matched, reply, timedOut, toCancel>>
connVars == <<status, cleaning>>
vars == <<callVars, promise, aged, queue, holdVars, connVars>>

Queued == {r \in Requests : \E i \in MessageID : queue[i] = r}

Init == /\ id_counter = 0
        /\ pc = [r \in Requests |-> "idle"]
        /\ id = [r \in Requests |-> NoId]
        /\ result = [r \in Requests |-> "None"]
        /\ promise = [r \in Requests |-> Unset]
        /\ aged = {}
        /\ queue = [i \in MessageID |-> NoCaller]
        /\ matched = NoCaller
        /\ reply = [id |-> 0, kind |-> "result"]
        /\ timedOut = {}
        /\ toCancel = {}
        /\ status = "Disconnected"
        /\ cleaning = {}

-----------------------------------------------------------------------------
(* Client::request, by the calling thread. *)

\* The identifier is drawn - by request() itself, or by its caller
\* GatewayImpl::subscribe - and the Caller object is made.
AllocateIdLost(r) ==
  /\ pc[r] = "idle"
  /\ id_counter' \in {id_counter, (id_counter + 1) % IdSpace}
  /\ id' = [id EXCEPT ![r] = (id_counter + 1) % IdSpace]
  /\ pc' = [pc EXCEPT ![r] = "allocated"]
  /\ UNCHANGED <<result, promise, aged, queue, holdVars, connVars>>

AllocateId(r) ==
  /\ pc[r] = "idle"
  /\ id_counter' = (id_counter + 1) % IdSpace
  /\ id' = [id EXCEPT ![r] = id_counter']
  /\ pc' = [pc EXCEPT ![r] = "allocated"]
  /\ UNCHANGED <<result, promise, aged, queue, holdVars, connVars>>

\* queue[id] = c: replaces whatever the slot held.
Enqueue(r) ==
  /\ pc[r] = "allocated"
  /\ queue' = [queue EXCEPT ![id[r]] = r]
  /\ pc' = [pc EXCEPT ![r] = "queued"]
  /\ UNCHANGED <<id_counter, id, result, promise, aged, holdVars, connVars>>

\* Transport::send first tests the connection's status ...
SendUnchecked(r) ==
  /\ pc[r] = "queued"
  /\ pc' = [pc EXCEPT ![r] = "sending"]
  /\ UNCHANGED <<id_counter, id, result, promise, aged, queue, holdVars, connVars>>

SendCheck(r) ==
  /\ pc[r] = "queued"
  /\ \/ /\ status # "Connected"
        /\ result' = [result EXCEPT ![r] = "NotConnected"]
        /\ pc' = [pc EXCEPT ![r] = "sendFailed"]
     \/ /\ status = "Connected"
        /\ pc' = [pc EXCEPT ![r] = "sending"]
        /\ UNCHANGED result
  /\ UNCHANGED <<id_counter, id, promise, aged, queue, holdVars, connVars>>

\* ... and later hands the message to the websocket client, which takes it
\* or reports an error that mapError() turns into General.
SendWrite(r) ==
  /\ pc[r] = "sending"
  /\ \/ /\ pc' = [pc EXCEPT ![r] = "returned"]
        /\ UNCHANGED result
     \/ /\ result' = [result EXCEPT ![r] = "General"]
        /\ pc' = [pc EXCEPT ![r] = "sendFailed"]
  /\ UNCHANGED <<id_counter, id, promise, aged, queue, holdVars, connVars>>

\* The send failed: ownedByUs = queue.erase(id) > 0.
EraseFailedAlwaysOwned(r) ==
  /\ pc[r] = "sendFailed"
  /\ queue' = [queue EXCEPT ![id[r]] = NoCaller]
  /\ pc' = [pc EXCEPT ![r] = "owned"]
  /\ UNCHANGED <<id_counter, id, result, promise, aged, holdVars, connVars>>

EraseFailedNeverOwned(r) ==
  /\ pc[r] = "sendFailed"
  /\ queue' = [queue EXCEPT ![id[r]] = NoCaller]
  /\ pc' = [pc EXCEPT ![r] = "returned"]
  /\ UNCHANGED <<id_counter, id, result, promise, aged, holdVars, connVars>>

EraseFailed(r) ==
  /\ pc[r] = "sendFailed"
  /\ queue' = [queue EXCEPT ![id[r]] = NoCaller]
  /\ pc' = [pc EXCEPT ![r] = IF queue[id[r]] # NoCaller THEN "owned" ELSE "returned"]
  /\ UNCHANGED <<id_counter, id, result, promise, aged, holdVars, connVars>>

\* if (ownedByUs) c->promise.set_value(result)
FulfilFailed(r) ==
  /\ pc[r] = "owned"
  /\ promise' = [promise EXCEPT ![r] = Local(result[r])]
  /\ pc' = [pc EXCEPT ![r] = "returned"]
  /\ UNCHANGED <<id_counter, id, result, aged, queue, holdVars, connVars>>

-----------------------------------------------------------------------------
(* Client::response, by the message worker.  The server may send any        *)
(* identifier, at any time and any number of times; a message no caller     *)
(* waits for changes nothing ("No receiver for a message").                 *)

ResponseFirst(m) ==
  /\ matched = NoCaller
  /\ \E i \in MessageID : /\ queue[i] # NoCaller
                          /\ matched' = queue[i]
                          /\ queue' = [queue EXCEPT ![i] = NoCaller]
  /\ reply' = m
  /\ UNCHANGED <<callVars, promise, aged, timedOut, toCancel, connVars>>

ResponseMatch(m) ==
  /\ matched = NoCaller
  /\ queue[m.id] # NoCaller
  /\ matched' = queue[m.id]
  /\ reply' = m
  /\ queue' = [queue EXCEPT ![m.id] = NoCaller]
  /\ UNCHANGED <<callVars, promise, aged, timedOut, toCancel, connVars>>

\* A malformed error object is still answered, with General as its code:
\* both are the kind "error".
ResponseFulfil ==
  /\ matched # NoCaller
  /\ promise' = [promise EXCEPT ![matched] = [kind |-> reply.kind, id |-> reply.id]]
  /\ matched' = NoCaller
  /\ UNCHANGED <<callVars, aged, queue, reply, timedOut, toCancel, connVars>>

-----------------------------------------------------------------------------
(* Client::checkPromises, by the watchdog thread. *)

\* The steady clock passes timestamp + runtime_waitTime_ms.
Age(r) ==
  /\ pc[r] # "idle"
  /\ r \notin aged
  /\ aged' = aged \cup {r}
  /\ UNCHANGED <<callVars, promise, queue, holdVars, connVars>>

\* All overdue callers are moved out in one critical section.
CheckPromises ==
  /\ timedOut = {}
  /\ Queued \cap aged # {}
  /\ timedOut' = Queued \cap aged
  /\ queue' = [i \in MessageID |-> IF queue[i] \in aged THEN NoCaller ELSE queue[i]]
  /\ UNCHANGED <<callVars, promise, aged, matched, reply, toCancel, connVars>>

FulfilTimedOut(r) ==
  /\ r \in timedOut
  /\ promise' = [promise EXCEPT ![r] = Local("Timedout")]
  /\ timedOut' = timedOut \ {r}
  /\ UNCHANGED <<callVars, aged, queue, matched, reply, toCancel, connVars>>

-----------------------------------------------------------------------------
(* Client::cancelAll, by a thread in cleanupInternalState (cleanup_mtx lets *)
(* one in at a time), and the connection changes that lead there.           *)

\* onOpen, of this or of a later connection.
Open ==
  /\ status # "Connected"
  /\ status' = "Connected"
  /\ UNCHANGED <<callVars, promise, aged, queue, holdVars, cleaning>>

\* onClose / onFail ("io") or disconnect() ("app") leave the connected state
\* and then go on to cleanupInternalState(); disconnect() does so even when
\* nothing was open.
BeginCleanup(c) ==
  /\ c \notin cleaning
  /\ status' = "Disconnected"
  /\ cleaning' = cleaning \cup {c}
  /\ UNCHANGED <<callVars, promise, aged, queue, holdVars>>

CancelAll(c) ==
  /\ c \in cleaning
  /\ toCancel = {}
  /\ toCancel' = Queued
  /\ queue' = [i \in MessageID |-> NoCaller]
  /\ cleaning' = cleaning \ {c}
  /\ UNCHANGED <<callVars, promise, aged, matched, reply, timedOut, status>>

FulfilCancelled(r) ==
  /\ r \in toCancel
  /\ promise' = [promise EXCEPT ![r] = Local("NotConnected")]
  /\ toCancel' = toCancel \ {r}
  /\ UNCHANGED <<callVars, aged, queue, matched, reply, timedOut, connVars>>

-----------------------------------------------------------------------------
Request(r) == \/ AllocateId(r) \/ Enqueue(r) \/ SendCheck(r) \/ SendWrite(r)
              \/ EraseFailed(r) \/ FulfilFailed(r)

Next == \/ \E r \in Requests : \/ Request(r) \/ Age(r)
                               \/ FulfilTimedOut(r) \/ FulfilCancelled(r)
        \/ \E m \in Message : ResponseMatch(m)
        \/ ResponseFulfil
        \/ CheckPromises
        \/ Open
        \/ \E c \in Cleaner : BeginCleanup(c) \/ CancelAll(c)

Spec == Init /\ [][Next]_vars

\* Threads keep running, the clock advances, and the watchdog runs its cycle;
\* nothing obliges a caller to call, the server to answer or the link to
\* change.
Fairness == /\ \A r \in Requests :
                 /\ WF_vars(pc[r] # "idle" /\ Request(r))
                 /\ WF_vars(Age(r))
                 /\ WF_vars(FulfilTimedOut(r))
                 /\ WF_vars(FulfilCancelled(r))
            /\ WF_vars(ResponseFulfil)
            /\ WF_vars(CheckPromises)

FairSpec == Spec /\ Fairness

-----------------------------------------------------------------------------
(* Properties. *)

\* The variables keep their types: slots, locals and locks hold callers only.
TypeOK ==
  /\ id_counter \in MessageID
  /\ pc \in [Requests -> {"idle", "allocated", "queued", "sending",
                          "sendFailed", "owned", "returned"}]
  /\ id \in [Requests -> MessageID \cup {NoId}]
  /\ result \in [Requests -> {"None", "NotConnected", "General"}]
  /\ promise \in [Requests -> [kind : Outcome, id : MessageID \cup {NoId}]]
  /\ aged \subseteq Requests
  /\ queue \in [MessageID -> Requests \cup {NoCaller}]
  /\ matched \in Requests \cup {NoCaller}
  /\ reply \in Message
  /\ timedOut \subseteq Requests
  /\ toCancel \subseteq Requests
  /\ status \in {"Connected", "Disconnected"}
  /\ cleaning \subseteq Cleaner

\* The places from which some thread will call set_value on r's promise.
Holders(r) == {h \in {"queue", "watchdog", "canceller", "worker", "requester"} :
                 \/ h = "queue" /\ r \in Queued
                 \/ h = "watchdog" /\ r \in timedOut
                 \/ h = "canceller" /\ r \in toCancel
                 \/ h = "worker" /\ matched = r
                 \/ h = "requester" /\ pc[r] = "owned"}

\* A promise that some thread is going to fulfil is unset, and no second
\* thread is going to fulfil it as well: the comment in Client::request
\* ("prevents double set_value() -> std::future_error -> std::terminate").
NoFutureError == \A r \in Requests :
  Holders(r) # {} => promise[r] = Unset /\ \A g, h \in Holders(r) : g = h

\* A caller that was entered in the table and has no answer is still held by
\* some thread: no Caller is destroyed with its promise unset, which would
\* make future.get() throw broken_promise in the calling thread.
NoBrokenPromise == \A r \in Requests :
  pc[r] \notin {"idle", "allocated"} /\ promise[r] = Unset => Holders(r) # {}

\* A request whose send went through is only left waiting in the table while
\* the connection is up or a cleanup that will take it is on its way: a close
\* of the connection that races with send() strands nobody until waitTime_ms.
NotStranded == \A r \in Queued :
  pc[r] \in {"sending", "returned"} => status = "Connected" \/ cleaning # {}

\* The detailed table keeps the contract of RequestContract: fresh
\* identifiers, one answer per future, the server's answers reach the very
\* call they name, no Timedout before waitTime_ms.
RC == INSTANCE RequestContract WITH ident <- id, old <- aged, answer <- promise
Contract == RC!Spec

\* Every call of request() gets its future made ready: by the server, by the
\* watchdog, by a cleanup or by the failing send.
EveryRequestAnswered == \A r \in Requests :
  pc[r] # "idle" ~> promise[r] # Unset
=============================================================================
