--------------------------- MODULE RequestContract ---------------------------
(* What the request layer promises to the threads that call                *)
(* IGateway::request() (include/firebolt/gateway.h): every call gets an    *)
(* identifier no other call has, and its future is made ready at most once *)
(* - with the server's answer to that very call, with Timedout but only    *)
(* after waitTime_ms, or with a transport error.  How the answer is found  *)
(* (queue, watchdog, worker, cleanup) is the business of module Client.    *)
EXTENDS Naturals

CONSTANTS Requests,     \* the calls made
          MessageID,    \* the identifiers a call may be given
          NoId          \* "no identifier yet"

VARIABLES ident,        \* the identifier of each call
          old,          \* the calls older than waitTime_ms
          answer        \* the content of each call's future

vars == <<ident, old, answer>>

Unset == [kind |-> "unset", id |-> NoId]
TransportErrors == {"NotConnected", "General"}

Init == /\ ident = [r \in Requests |-> NoId]
        /\ old = {}
        /\ answer = [r \in Requests |-> Unset]

\* The call is made: it gets a fresh identifier.
Call(r) == /\ ident[r] = NoId
           /\ \E i \in MessageID :
                 /\ \A q \in Requests : ident[q] # i
                 /\ ident' = [ident EXCEPT ![r] = i]
           /\ UNCHANGED <<old, answer>>

\* waitTime_ms has passed since the call.
Expire(r) == /\ ident[r] # NoId
             /\ old' = old \cup {r}
             /\ UNCHANGED <<ident, answer>>

Resolve(r, a) == /\ ident[r] # NoId
                 /\ answer[r] = Unset
                 /\ answer' = [answer EXCEPT ![r] = a]
                 /\ UNCHANGED <<ident, old>>

Reply(r) == \E k \in {"result", "error"} :
               Resolve(r, [kind |-> k, id |-> ident[r]])
TimeOut(r) == r \in old /\ Resolve(r, [kind |-> "Timedout", id |-> NoId])
Refuse(r) == \E e \in TransportErrors : Resolve(r, [kind |-> e, id |-> NoId])

Next == \E r \in Requests :
           Call(r) \/ Expire(r) \/ Reply(r) \/ TimeOut(r) \/ Refuse(r)

Spec == Init /\ [][Next]_vars
=============================================================================
