---------------------------- MODULE ClientProofs ----------------------------
(* Theorems about the pending-request table, for any number of requests.    *)
(* The inductive invariant says where each caller is: the five places from  *)
(* which its promise can be fulfilled are disjoint, a caller in one of them *)
(* has an unset promise, and an entered caller with an unset promise is in  *)
(* one of them.                                                             *)
EXTENDS Client, FiniteSetTheorems, TLAPS

\* The calls that have drawn an identifier.
Started == {r \in Requests : pc[r] # "idle"}
Entered(r) == pc[r] \notin {"idle", "allocated"}

\* id_counter counts the identifiers drawn, so it has not wrapped.
IdsInv ==
  /\ id_counter = Cardinality(Started)
  /\ \A r \in Requests : pc[r] = "idle" <=> id[r] = NoId
  /\ \A r \in Started : id[r] <= id_counter
  /\ \A q, r \in Started : id[q] = id[r] => q = r

\* The table maps an identifier to the caller that was given it.
SlotsInv == \A i \in MessageID : queue[i] \in Requests => id[queue[i]] = i

\* A caller is in one place at most, and only while its promise is unset.
PlaceInv == \A r \in Requests :
  /\ r \in Queued => /\ promise[r] = Unset /\ Entered(r) /\ pc[r] # "owned"
                     /\ r \notin timedOut /\ r \notin toCancel /\ matched # r
  /\ r \in timedOut => /\ promise[r] = Unset /\ Entered(r) /\ pc[r] # "owned"
                       /\ r \notin toCancel /\ matched # r
  /\ r \in toCancel => /\ promise[r] = Unset /\ Entered(r) /\ pc[r] # "owned"
                       /\ matched # r
  /\ matched = r => promise[r] = Unset /\ Entered(r) /\ pc[r] # "owned"
  /\ pc[r] = "owned" => promise[r] = Unset
  /\ ~Entered(r) => promise[r] = Unset

\* An entered caller without an answer is in some place.
HeldInv == \A r \in Requests :
  Entered(r) /\ promise[r] = Unset =>
    r \in Queued \/ r \in timedOut \/ r \in toCancel \/ matched = r \/ pc[r] = "owned"

\* What the threads hold besides the caller itself.
LocalsInv == /\ matched \in Requests => reply.id = id[matched]
             /\ timedOut \subseteq aged
             /\ aged \subseteq Started
             /\ \A r \in Requests : pc[r] \in {"sendFailed", "owned"} => result[r] # "None"

\* The inductive invariant.
IInv == TypeOK /\ IdsInv /\ SlotsInv /\ PlaceInv /\ HeldInv /\ LocalsInv /\ NotStranded

-----------------------------------------------------------------------------
\* A number below the modulus is its own remainder.
LEMMA NoWrap ==
  ASSUME NEW n \in Nat, NEW k \in Nat, n < k PROVE n % k = n
  OBVIOUS

\* The initial state satisfies the inductive invariant.
LEMMA InitInv == Init => IInv
<1> SUFFICES ASSUME Init PROVE IInv
  OBVIOUS
<1>1. IdSpace \in Nat /\ 0 < IdSpace /\ IsFiniteSet(Requests) /\ NoCaller \notin Requests
  BY ClientAssumption, FS_CardinalityType
<1>2. Started = {} /\ Cardinality(Started) = 0
  BY FS_EmptySet DEF Init, Started
<1>3. Queued = {}
  BY <1>1 DEF Init, Queued, MessageID
<1>4. TypeOK
  BY <1>1 DEF Init, TypeOK, MessageID, NoId, Message, Cleaner, Outcome, Unset
<1>5. IdsInv
  BY <1>2 DEF Init, IdsInv, Started
<1>6. SlotsInv
  BY <1>1 DEF Init, SlotsInv
<1>7. PlaceInv /\ HeldInv /\ NotStranded
  BY <1>1, <1>3 DEF Init, PlaceInv, HeldInv, Entered, NotStranded
<1>8. LocalsInv
  BY <1>1 DEF Init, LocalsInv
<1> QED
  BY <1>4, <1>5, <1>6, <1>7, <1>8 DEF IInv

\* Types are preserved by every step.
LEMMA TypeStep == IInv /\ [Next]_vars => TypeOK'
<1> SUFFICES ASSUME TypeOK, LocalsInv, [Next]_vars PROVE TypeOK'
  BY DEF IInv
<1> USE ClientAssumption
<1>0. IdSpace \in Nat /\ 0 < IdSpace
  BY FS_CardinalityType
<1> USE DEF TypeOK, Message, Outcome, Local, callVars, holdVars, connVars
<1>1. ASSUME NEW r \in Requests, AllocateId(r) PROVE TypeOK'
  BY <1>0, <1>1 DEF AllocateId, MessageID
<1>2. ASSUME NEW r \in Requests, Enqueue(r) PROVE TypeOK'
  BY <1>2 DEF Enqueue
<1>3. ASSUME NEW r \in Requests, SendCheck(r) PROVE TypeOK'
  BY <1>3 DEF SendCheck
<1>4. ASSUME NEW r \in Requests, SendWrite(r) PROVE TypeOK'
  BY <1>4 DEF SendWrite
<1>5. ASSUME NEW r \in Requests, EraseFailed(r) PROVE TypeOK'
  BY <1>5 DEF EraseFailed
<1>6. ASSUME NEW r \in Requests, FulfilFailed(r) PROVE TypeOK'
  <2>1. result[r] \in {"NotConnected", "General"}
    BY <1>6 DEF FulfilFailed, LocalsInv
  <2> QED
    BY <1>6, <2>1 DEF FulfilFailed
<1>7. ASSUME NEW r \in Requests, Age(r) PROVE TypeOK'
  BY <1>7 DEF Age
<1>8. ASSUME NEW r \in Requests, FulfilTimedOut(r) PROVE TypeOK'
  BY <1>8 DEF FulfilTimedOut
<1>9. ASSUME NEW r \in Requests, FulfilCancelled(r) PROVE TypeOK'
  BY <1>9 DEF FulfilCancelled
<1>10. ASSUME NEW m \in Message, ResponseMatch(m) PROVE TypeOK'
  BY <1>10 DEF ResponseMatch
<1>11. CASE ResponseFulfil
  BY <1>11 DEF ResponseFulfil
<1>12. CASE CheckPromises
  BY <1>12 DEF CheckPromises, Queued
<1>13. CASE Open
  BY <1>13 DEF Open
<1>14. ASSUME NEW c \in Cleaner, BeginCleanup(c) PROVE TypeOK'
  BY <1>14 DEF BeginCleanup
<1>15. ASSUME NEW c \in Cleaner, CancelAll(c) PROVE TypeOK'
  BY <1>15 DEF CancelAll, Queued
<1>16. CASE UNCHANGED vars
  BY <1>16 DEF vars
<1> QED
  BY <1>1, <1>2, <1>3, <1>4, <1>5, <1>6, <1>7, <1>8, <1>9, <1>10, <1>11, <1>12,
     <1>13, <1>14, <1>15, <1>16 DEF Next, Request

\* Under the invariant a caller is in the table exactly when its own slot
\* holds it, and the slot of an identifier can hold no other caller.
LEMMA QueuedSlot ==
  ASSUME IInv, NEW r \in Requests
  PROVE /\ r \in Queued <=> id[r] \in MessageID /\ queue[id[r]] = r
        /\ r \in Started => id[r] \in MessageID /\ queue[id[r]] \in {r, NoCaller}
<1> USE ClientAssumption DEF IInv, TypeOK, SlotsInv, PlaceInv, Queued
<1>1. r \in Queued <=> id[r] \in MessageID /\ queue[id[r]] = r
  OBVIOUS
<1>2. ASSUME r \in Started PROVE id[r] \in MessageID /\ queue[id[r]] \in {r, NoCaller}
  <2>1. id[r] \in MessageID
    BY <1>2 DEF IdsInv, Started
  <2>2. ASSUME queue[id[r]] \in Requests PROVE queue[id[r]] = r
    <3> DEFINE q == queue[id[r]]
    <3>1. q \in Queued /\ id[q] = id[r]
      BY <2>1, <2>2
    <3>2. q \in Started
      BY <3>1, <2>2 DEF Entered, Started
    <3> QED
      BY <1>2, <2>2, <3>1, <3>2 DEF IdsInv
  <2> QED
    BY <2>1, <2>2
<1> QED
  BY <1>1, <1>2

\* The properties of the table, other than its types, that steps preserve.
TableInv == IdsInv /\ SlotsInv /\ PlaceInv /\ HeldInv /\ LocalsInv /\ NotStranded

\* Drawing an identifier keeps identifiers apart: the counter has not wrapped.
LEMMA AllocateIdStep ==
  ASSUME IInv, TypeOK', NEW r \in Requests, AllocateId(r) PROVE TableInv'
<1> USE ClientAssumption DEF IInv, TypeOK, AllocateId, holdVars, connVars
<1>1. Queued' = Queued
  BY DEF Queued
<1>2. Started' = Started \cup {r} /\ r \notin Started /\ Started \subseteq Requests
  BY DEF Started
<1>3. /\ IsFiniteSet(Started) /\ IsFiniteSet(Started')
      /\ Cardinality(Started') = Cardinality(Started) + 1
      /\ Cardinality(Started') <= Cardinality(Requests)
      /\ Cardinality(Started) \in Nat /\ Cardinality(Requests) \in Nat
  <2>1. IsFiniteSet(Started) /\ Started' \subseteq Requests
    BY <1>2, FS_Subset
  <2> QED
    BY <1>2, <2>1, FS_Subset, FS_AddElement, FS_CardinalityType
<1>4. id_counter' = id_counter + 1 /\ id_counter' = Cardinality(Started') /\ id_counter' < IdSpace
  <2>1. id_counter \in Nat /\ IdSpace \in Nat /\ id_counter + 1 < IdSpace
    BY <1>3 DEF IdsInv
  <2>2. id_counter + 1 \in Nat
    BY <2>1
  <2>3. (id_counter + 1) % IdSpace = id_counter + 1
    BY <2>1, <2>2, NoWrap
  <2> QED
    BY <1>3, <2>1, <2>3 DEF IdsInv
<1>5. id'[r] = id_counter' /\ \A q \in Requests \ {r} : id'[q] = id[q] /\ pc'[q] = pc[q]
  OBVIOUS
<1>6. IdsInv'
  <2>1. \A q \in Requests : pc'[q] = "idle" <=> id'[q] = NoId
    BY <1>4, <1>5 DEF IdsInv, NoId
  <2>2. \A q \in Started : id[q] \in Nat /\ id[q] <= id_counter /\ id'[q] = id[q]
    BY <1>2, <1>5 DEF IdsInv, Started, MessageID, NoId
  <2>3. \A q \in Started' : id'[q] <= id_counter'
    BY <1>2, <1>4, <1>5, <2>2 DEF MessageID
  <2>4. \A p, q \in Started' : id'[p] = id'[q] => p = q
    BY <1>2, <1>4, <1>5, <2>2 DEF IdsInv, MessageID
  <2> QED
    BY <1>4, <2>1, <2>3, <2>4 DEF IdsInv
<1>7. r \notin Queued /\ matched # r /\ r \notin timedOut /\ r \notin toCancel
  BY DEF PlaceInv, Entered
<1>8. SlotsInv'
  BY <1>5, <1>7 DEF SlotsInv, Queued
<1>9. PlaceInv' /\ HeldInv'
  BY <1>1, <1>7 DEF PlaceInv, HeldInv, Entered
<1>10. LocalsInv'
  BY <1>2, <1>5, <1>7 DEF LocalsInv
<1>11. NotStranded'
  BY <1>1, <1>7 DEF NotStranded, Queued
<1> QED
  BY <1>6, <1>8, <1>9, <1>10, <1>11 DEF TableInv

\* Entering a caller finds its slot empty: nobody else has the identifier.
LEMMA EnqueueStep ==
  ASSUME IInv, TypeOK', NEW r \in Requests, Enqueue(r) PROVE TableInv'
<1> USE ClientAssumption DEF IInv, TypeOK, Enqueue, holdVars, connVars
<1>1. Started' = Started /\ r \in Started
  BY DEF Started
<1>2. id[r] \in MessageID
  BY <1>1 DEF IdsInv, Started
<1>3. r \notin Queued /\ queue[id[r]] = NoCaller
  BY <1>1, QueuedSlot DEF PlaceInv, Entered
<1>4. Queued' = Queued \cup {r}
  BY <1>2, <1>3 DEF Queued
<1>5. IdsInv'
  BY <1>1 DEF IdsInv
<1>6. SlotsInv'
  BY <1>2 DEF SlotsInv
<1>7. PlaceInv' /\ HeldInv'
  BY <1>4 DEF PlaceInv, HeldInv, Entered
<1>8. LocalsInv'
  BY <1>1 DEF LocalsInv
<1>9. NotStranded'
  BY <1>4 DEF NotStranded, Queued
<1> QED
  BY <1>5, <1>6, <1>7, <1>8, <1>9 DEF TableInv

\* send() looking at the status leaves the table as it is; NotStranded is why
\* it must look before it writes.
LEMMA SendCheckStep ==
  ASSUME IInv, TypeOK', NEW r \in Requests, SendCheck(r) PROVE TableInv'
<1> USE ClientAssumption DEF IInv, TypeOK, SendCheck, holdVars, connVars
<1>1. Started' = Started /\ Queued' = Queued
  BY DEF Started, Queued
<1>2. IdsInv' /\ SlotsInv'
  BY <1>1 DEF IdsInv, SlotsInv
<1>3. PlaceInv' /\ HeldInv'
  BY <1>1 DEF PlaceInv, HeldInv, Entered
<1>4. LocalsInv'
  BY <1>1 DEF LocalsInv
<1>5. NotStranded'
  BY <1>1 DEF NotStranded, Queued
<1> QED
  BY <1>2, <1>3, <1>4, <1>5 DEF TableInv

\* Whether or not the websocket client takes the message, the caller stays.
LEMMA SendWriteStep ==
  ASSUME IInv, TypeOK', NEW r \in Requests, SendWrite(r) PROVE TableInv'
<1> USE ClientAssumption DEF IInv, TypeOK, SendWrite, holdVars, connVars
<1>1. Started' = Started /\ Queued' = Queued
  BY DEF Started, Queued
<1>2. IdsInv' /\ SlotsInv'
  BY <1>1 DEF IdsInv, SlotsInv
<1>3. PlaceInv' /\ HeldInv'
  BY <1>1 DEF PlaceInv, HeldInv, Entered
<1>4. LocalsInv'
  BY <1>1 DEF LocalsInv
<1>5. NotStranded'
  BY <1>1 DEF NotStranded, Queued
<1> QED
  BY <1>2, <1>3, <1>4, <1>5 DEF TableInv

\* The failing caller takes itself out, or somebody else already holds it.
LEMMA EraseFailedStep ==
  ASSUME IInv, TypeOK', NEW r \in Requests, EraseFailed(r) PROVE TableInv'
<1> USE ClientAssumption DEF IInv, TypeOK, EraseFailed, holdVars, connVars
<1>0. r \in Started /\ id[r] \in MessageID /\ queue[id[r]] \in {r, NoCaller}
      /\ (r \in Queued <=> queue[id[r]] = r)
  BY QueuedSlot DEF Started
<1>1. Started' = Started /\ Queued' = Queued \ {r} /\ (pc'[r] = "owned" <=> r \in Queued)
  BY <1>0 DEF Started, Queued, SlotsInv
<1>2. IdsInv' /\ SlotsInv'
  BY <1>1, <1>0 DEF IdsInv, SlotsInv
<1>3. PlaceInv' /\ HeldInv'
  BY <1>1, <1>0 DEF PlaceInv, HeldInv, Entered
<1>4. LocalsInv'
  BY <1>1 DEF LocalsInv
<1>5. NotStranded'
  <2>1. Queued \subseteq Requests
    BY DEF Queued
  <2>2. \A q \in Queued' : q \in Queued /\ pc'[q] = pc[q]
    BY <1>1, <2>1
  <2> QED
    BY <1>1, <2>2 DEF NotStranded
<1> QED
  BY <1>2, <1>3, <1>4, <1>5 DEF TableInv

\* The owner fulfils a promise nobody else is going to fulfil.
LEMMA FulfilFailedStep ==
  ASSUME IInv, TypeOK', NEW r \in Requests, FulfilFailed(r) PROVE TableInv'
<1> USE ClientAssumption DEF IInv, TypeOK, FulfilFailed, holdVars, connVars, Local, Unset
<1>1. Started' = Started /\ Queued' = Queued /\ promise'[r] # Unset
  BY DEF Started, Queued, LocalsInv
<1>2. IdsInv' /\ SlotsInv'
  BY <1>1 DEF IdsInv, SlotsInv
<1>3. PlaceInv' /\ HeldInv'
  BY <1>1 DEF PlaceInv, HeldInv, Entered
<1>4. LocalsInv'
  BY <1>1 DEF LocalsInv
<1>5. NotStranded'
  <2>1. r \notin Queued
    BY DEF PlaceInv
  <2> QED
    BY <1>1, <2>1 DEF NotStranded, Queued
<1> QED
  BY <1>2, <1>3, <1>4, <1>5 DEF TableInv

\* The worker takes the caller out of the slot the message names.
LEMMA ResponseMatchStep ==
  ASSUME IInv, TypeOK', NEW m \in Message, ResponseMatch(m) PROVE TableInv'
<1> USE ClientAssumption DEF IInv, TypeOK, ResponseMatch, callVars, connVars, Message
<1>0. /\ m.id \in MessageID /\ matched' = queue[m.id] /\ matched' \in Requests
      /\ id[matched'] = m.id /\ matched' \in Queued
  BY DEF SlotsInv, Queued
<1>1. Started' = Started /\ Queued' = Queued \ {matched'}
  BY <1>0 DEF Started, Queued, SlotsInv
<1>2. IdsInv' /\ SlotsInv'
  BY <1>1 DEF IdsInv, SlotsInv
<1>3. PlaceInv' /\ HeldInv'
  BY <1>1, <1>0 DEF PlaceInv, HeldInv, Entered
<1>4. LocalsInv'
  BY <1>1, <1>0 DEF LocalsInv
<1>5. NotStranded'
  BY <1>1 DEF NotStranded, Queued
<1> QED
  BY <1>2, <1>3, <1>4, <1>5 DEF TableInv

\* The worker fulfils the promise of the caller it took.
LEMMA ResponseFulfilStep ==
  ASSUME IInv, TypeOK', ResponseFulfil PROVE TableInv'
<1> USE ClientAssumption DEF IInv, TypeOK, ResponseFulfil, callVars, connVars, Message, Unset
<1>1. Started' = Started /\ Queued' = Queued /\ matched \in Requests /\ promise'[matched] # Unset
  BY DEF Started, Queued
<1>2. IdsInv' /\ SlotsInv'
  BY <1>1 DEF IdsInv, SlotsInv
<1>3. PlaceInv' /\ HeldInv'
  BY <1>1 DEF PlaceInv, HeldInv, Entered
<1>4. LocalsInv'
  BY <1>1 DEF LocalsInv
<1>5. NotStranded'
  BY <1>1 DEF NotStranded, Queued
<1> QED
  BY <1>2, <1>3, <1>4, <1>5 DEF TableInv

\* Time passing leaves the table as it is.
LEMMA AgeStep ==
  ASSUME IInv, TypeOK', NEW r \in Requests, Age(r) PROVE TableInv'
<1> USE ClientAssumption DEF IInv, TypeOK, Age, callVars, holdVars, connVars
<1>1. Started' = Started /\ Queued' = Queued /\ r \in Started
  BY DEF Started, Queued
<1>2. IdsInv' /\ SlotsInv'
  BY <1>1 DEF IdsInv, SlotsInv
<1>3. PlaceInv' /\ HeldInv'
  BY <1>1 DEF PlaceInv, HeldInv, Entered
<1>4. LocalsInv'
  BY <1>1 DEF LocalsInv
<1>5. NotStranded'
  BY <1>1 DEF NotStranded, Queued
<1> QED
  BY <1>2, <1>3, <1>4, <1>5 DEF TableInv

\* The watchdog moves the overdue callers from the table to its own vector.
LEMMA CheckPromisesStep ==
  ASSUME IInv, TypeOK', CheckPromises PROVE TableInv'
<1> USE ClientAssumption DEF IInv, TypeOK, CheckPromises, callVars, connVars
<1>1. Started' = Started /\ Queued' = Queued \ aged
  BY DEF Started, Queued, SlotsInv
<1>2. IdsInv' /\ SlotsInv'
  BY <1>1 DEF IdsInv, SlotsInv
<1>3. PlaceInv' /\ HeldInv'
  BY <1>1 DEF PlaceInv, HeldInv, Entered
<1>4. LocalsInv'
  BY <1>1 DEF LocalsInv
<1>5. NotStranded'
  BY <1>1 DEF NotStranded, Queued
<1> QED
  BY <1>2, <1>3, <1>4, <1>5 DEF TableInv

\* The watchdog fulfils a promise of its own vector.
LEMMA FulfilTimedOutStep ==
  ASSUME IInv, TypeOK', NEW r \in Requests, FulfilTimedOut(r) PROVE TableInv'
<1> USE ClientAssumption DEF IInv, TypeOK, FulfilTimedOut, callVars, connVars, Local, Unset
<1>1. Started' = Started /\ Queued' = Queued /\ promise'[r] # Unset
  BY DEF Started, Queued
<1>2. IdsInv' /\ SlotsInv'
  BY <1>1 DEF IdsInv, SlotsInv
<1>3. PlaceInv' /\ HeldInv'
  BY <1>1 DEF PlaceInv, HeldInv, Entered
<1>4. LocalsInv'
  BY <1>1 DEF LocalsInv
<1>5. NotStranded'
  BY <1>1 DEF NotStranded, Queued
<1> QED
  BY <1>2, <1>3, <1>4, <1>5 DEF TableInv

\* A connection that opens or ends leaves the table as it is; one that ends
\* has a cleanup coming.
LEMMA ConnectionStep ==
  ASSUME IInv, TypeOK', Open \/ \E c \in Cleaner : BeginCleanup(c) PROVE TableInv'
<1> USE ClientAssumption DEF IInv, TypeOK, Open, BeginCleanup, callVars, holdVars, Cleaner
<1>1. Started' = Started /\ Queued' = Queued /\ (status' = "Connected" \/ cleaning' # {})
  BY DEF Started, Queued
<1>2. IdsInv' /\ SlotsInv'
  BY <1>1 DEF IdsInv, SlotsInv
<1>3. PlaceInv' /\ HeldInv'
  BY <1>1 DEF PlaceInv, HeldInv, Entered
<1>4. LocalsInv'
  BY <1>1 DEF LocalsInv
<1>5. NotStranded'
  BY <1>1 DEF NotStranded, Queued
<1> QED
  BY <1>2, <1>3, <1>4, <1>5 DEF TableInv

\* A cleanup moves every caller from the table to its own map.
LEMMA CancelAllStep ==
  ASSUME IInv, TypeOK', NEW c \in Cleaner, CancelAll(c) PROVE TableInv'
<1> USE ClientAssumption DEF IInv, TypeOK, CancelAll, callVars
<1>1. Started' = Started /\ Queued' = {}
  BY DEF Started, Queued
<1>2. IdsInv' /\ SlotsInv'
  BY <1>1 DEF IdsInv, SlotsInv
<1>3. PlaceInv' /\ HeldInv'
  BY <1>1 DEF PlaceInv, HeldInv, Entered
<1>4. LocalsInv'
  BY <1>1 DEF LocalsInv
<1>5. NotStranded'
  BY <1>1 DEF NotStranded, Queued
<1> QED
  BY <1>2, <1>3, <1>4, <1>5 DEF TableInv

\* A cleanup fulfils a promise of its own map.
LEMMA FulfilCancelledStep ==
  ASSUME IInv, TypeOK', NEW r \in Requests, FulfilCancelled(r) PROVE TableInv'
<1> USE ClientAssumption DEF IInv, TypeOK, FulfilCancelled, callVars, connVars, Local, Unset
<1>1. Started' = Started /\ Queued' = Queued /\ promise'[r] # Unset
  BY DEF Started, Queued
<1>2. IdsInv' /\ SlotsInv'
  BY <1>1 DEF IdsInv, SlotsInv
<1>3. PlaceInv' /\ HeldInv'
  BY <1>1 DEF PlaceInv, HeldInv, Entered
<1>4. LocalsInv'
  BY <1>1 DEF LocalsInv
<1>5. NotStranded'
  BY <1>1 DEF NotStranded, Queued
<1> QED
  BY <1>2, <1>3, <1>4, <1>5 DEF TableInv

\* Every step preserves the inductive invariant.
LEMMA InvStep == IInv /\ [Next]_vars => IInv'
<1> SUFFICES ASSUME IInv, [Next]_vars PROVE IInv'
  OBVIOUS
<1>1. TypeOK'
  BY TypeStep
<1>2. CASE Next
  BY <1>1, <1>2, AllocateIdStep, EnqueueStep, SendCheckStep, SendWriteStep,
     EraseFailedStep, FulfilFailedStep, ResponseMatchStep, ResponseFulfilStep,
     AgeStep, CheckPromisesStep, FulfilTimedOutStep, ConnectionStep,
     CancelAllStep, FulfilCancelledStep DEF Next, Request, IInv, TableInv
<1>3. CASE UNCHANGED vars
  BY <1>1, <1>3 DEF vars, callVars, holdVars, connVars, IInv, IdsInv, SlotsInv, PlaceInv,
     HeldInv, LocalsInv, NotStranded, Entered, Started, Queued
<1> QED
  BY <1>2, <1>3

-----------------------------------------------------------------------------
\* Every state of the table satisfies the inductive invariant.
THEOREM Invariance == Spec => []IInv
  BY InitInv, InvStep, PTL DEF Spec

\* Every variable keeps its type: no slot, vector or map of the table ever
\* holds a null caller.
THEOREM TypeCorrect == Spec => []TypeOK
<1>1. IInv => TypeOK
  BY DEF IInv
<1> QED
  BY <1>1, Invariance, PTL

\* No promise is fulfilled twice, whichever of the caller, the worker, the
\* watchdog and the cleanups race for it (Client::request's comment).
THEOREM NoDoubleFulfil == Spec => []NoFutureError
<1>1. IInv => NoFutureError
  BY DEF IInv, PlaceInv, NoFutureError, Holders
<1> QED
  BY <1>1, Invariance, PTL

\* No caller is dropped while its future is still waited for.
THEOREM NoDroppedCaller == Spec => []NoBrokenPromise
<1>1. IInv => NoBrokenPromise
  <2> SUFFICES ASSUME IInv, NEW r \in Requests,
                      pc[r] \notin {"idle", "allocated"}, promise[r] = Unset
               PROVE Holders(r) # {}
    BY DEF NoBrokenPromise
  <2>1. r \in Queued \/ r \in timedOut \/ r \in toCancel \/ matched = r \/ pc[r] = "owned"
    BY DEF IInv, HeldInv, Entered
  <2>2. \/ "queue" \in Holders(r) \/ "watchdog" \in Holders(r) \/ "canceller" \in Holders(r)
        \/ "worker" \in Holders(r) \/ "requester" \in Holders(r)
    BY <2>1 DEF Holders
  <2> QED
    BY <2>2
<1> QED
  BY <1>1, Invariance, PTL

\* A lost connection strands no request: see NotStranded.
THEOREM NobodyStranded == Spec => []NotStranded
<1>1. IInv => NotStranded
  BY DEF IInv
<1> QED
  BY <1>1, Invariance, PTL

-----------------------------------------------------------------------------
(* The table implements RequestContract. *)

\* The empty table is the initial state of the contract.
LEMMA ContractInit == Init => RC!Init
  BY DEF Init, RC!Init, RC!Unset, Unset

\* Every step of the table is a step of the contract or changes nothing that
\* the contract speaks of.
LEMMA ContractStep == IInv /\ IInv' /\ [Next]_vars => [RC!Next]_(RC!vars)
<1> SUFFICES ASSUME IInv, IInv', [Next]_vars PROVE [RC!Next]_(RC!vars)
  OBVIOUS
<1> USE DEF RC!Next, RC!vars
<1>1. ASSUME NEW r \in Requests, AllocateId(r) PROVE RC!Call(r)
  <2>1. id[r] = NoId /\ id'[r] \in MessageID
    BY <1>1 DEF AllocateId, IInv, IdsInv, TypeOK
  <2>2. Started' = Started \cup {r} /\ r \notin Started
    BY <1>1 DEF AllocateId, Started, IInv, TypeOK
  <2>3. \A q \in Requests : id[q] # id'[r]
    <3> SUFFICES ASSUME NEW q \in Requests, id[q] = id'[r] PROVE FALSE
      OBVIOUS
    <3>1. q \in Started
      BY <2>1, ClientAssumption DEF IInv, IdsInv, Started, NoId, MessageID
    <3>2. q # r /\ id'[q] = id[q]
      BY <1>1, <2>2, <3>1 DEF AllocateId, IInv, TypeOK
    <3> QED
      BY <2>2, <3>1, <3>2 DEF IInv, IdsInv
  <2> QED
    BY <1>1, <2>1, <2>3 DEF AllocateId, RC!Call, IInv, TypeOK
<1>2. ASSUME NEW r \in Requests,
             Enqueue(r) \/ SendCheck(r) \/ SendWrite(r) \/ EraseFailed(r)
      PROVE UNCHANGED RC!vars
  BY <1>2 DEF Enqueue, SendCheck, SendWrite, EraseFailed
<1>3. ASSUME NEW r \in Requests, FulfilFailed(r) PROVE RC!Refuse(r)
  <2>1. result[r] \in {"NotConnected", "General"} /\ promise[r] = Unset /\ id[r] # NoId
    BY <1>3 DEF FulfilFailed, IInv, TypeOK, LocalsInv, PlaceInv, IdsInv
  <2> QED
    BY <1>3, <2>1 DEF FulfilFailed, Local, Unset, RC!Refuse, RC!Resolve, RC!Unset, RC!TransportErrors
<1>4. ASSUME NEW r \in Requests, Age(r) PROVE RC!Expire(r)
  BY <1>4 DEF Age, callVars, RC!Expire, IInv, IdsInv
<1>5. ASSUME NEW r \in Requests, FulfilTimedOut(r) PROVE RC!TimeOut(r)
  <2>1. promise[r] = Unset /\ id[r] # NoId /\ r \in aged
    BY <1>5 DEF FulfilTimedOut, IInv, PlaceInv, Entered, IdsInv, LocalsInv
  <2> QED
    BY <1>5, <2>1 DEF FulfilTimedOut, callVars, Local, Unset, RC!TimeOut, RC!Resolve, RC!Unset
<1>6. ASSUME NEW r \in Requests, FulfilCancelled(r) PROVE RC!Refuse(r)
  <2>1. promise[r] = Unset /\ id[r] # NoId
    BY <1>6 DEF FulfilCancelled, IInv, PlaceInv, Entered, IdsInv
  <2> QED
    BY <1>6, <2>1 DEF FulfilCancelled, callVars, Local, Unset, RC!Refuse, RC!Resolve, RC!Unset, RC!TransportErrors
<1>7. ASSUME ResponseFulfil PROVE matched \in Requests /\ RC!Reply(matched)
  <2>1. matched \in Requests /\ promise[matched] = Unset /\ id[matched] # NoId
        /\ reply.id = id[matched] /\ reply.kind \in {"result", "error"}
    BY <1>7 DEF ResponseFulfil, IInv, TypeOK, PlaceInv, Entered, IdsInv, LocalsInv, Message
  <2> QED
    BY <1>7, <2>1 DEF ResponseFulfil, callVars, Unset, RC!Reply, RC!Resolve, RC!Unset
<1>8. ASSUME \/ \E m \in Message : ResponseMatch(m)
             \/ CheckPromises \/ Open
             \/ \E c \in Cleaner : BeginCleanup(c) \/ CancelAll(c)
             \/ UNCHANGED vars
      PROVE UNCHANGED RC!vars
  BY <1>8 DEF ResponseMatch, CheckPromises, Open, BeginCleanup, CancelAll, vars, callVars
<1> QED
  BY <1>1, <1>2, <1>3, <1>4, <1>5, <1>6, <1>7, <1>8 DEF Next, Request

\* The table refines the contract: identifiers are unique, each future is
\* made ready once, a server's answer reaches the call it names, and Timedout
\* is only reported after waitTime_ms.
THEOREM Refinement == Spec => Contract
<1>1. Spec => RC!Init /\ [][RC!Next]_(RC!vars)
  BY ContractInit, ContractStep, Invariance, PTL DEF Spec
<1> QED
  BY <1>1 DEF Contract, RC!Spec
=============================================================================
