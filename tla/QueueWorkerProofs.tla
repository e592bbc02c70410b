------------------------- MODULE QueueWorkerProofs -------------------------
(* Theorems about the worker idiom, for any number of items, stops and      *)
(* restarts.                                                                *)
EXTENDS QueueWorker, TLAPS

\* The mutex and the pushing thread: what the worker found when it tested the
\* predicate still holds until it blocks, because a push needs the mutex, and
\* a passed producer has been counted against the bound.
HandoverInv ==
  /\ worker = "dozing" => queue = <<>>
  /\ producer = "passed" => arrived < MaxItems

\* The inductive invariant.
IInv == TypeOK /\ Fifo /\ PushNeverMissed /\ HandoverInv

-----------------------------------------------------------------------------
\* The initial state satisfies the inductive invariant.
LEMMA InitInv == Init => IInv
<1> SUFFICES ASSUME Init PROVE IInv
  OBVIOUS
<1>1. TypeOK
  <2>1. stop \in BOOLEAN
    BY ZenonT(20) DEF Init
  <2> QED
    BY <2>1, MaxItemsAssumption DEF Init, TypeOK
<1>2. Fifo /\ PushNeverMissed /\ HandoverInv
  BY DEF Init, Fifo, PushNeverMissed, HandoverInv
<1> QED
  BY <1>1, <1>2 DEF IInv

\* Types are preserved by every step.
LEMMA TypeStep == IInv /\ [Next]_vars => TypeOK'
<1> SUFFICES ASSUME IInv, [Next]_vars PROVE TypeOK'
  OBVIOUS
<1> USE MaxItemsAssumption DEF IInv, TypeOK
<1>1. CASE Take
  BY <1>1 DEF Take
<1>2. CASE Push
  <2>1. arrived' = arrived + 1 /\ arrived < MaxItems
    BY <1>2 DEF Push, HandoverInv
  <2>2. queue' \in Seq(Nat)
    BY <1>2, <2>1 DEF Push
  <2> QED
    BY <1>2, <2>1, <2>2 DEF Push
<1>3. CASE Start \/ Finish \/ Exit \/ Doze \/ Sleep \/ SpuriousWake
  <2>1. stop' = FALSE \/ stop' = stop
    BY <1>3, ZenonT(20) DEF Start, Finish, Exit, Doze, Sleep, SpuriousWake
  <2>2. stop' \in BOOLEAN
    BY <2>1
  <2> QED
    BY <1>3, <2>2 DEF Start, Finish, Exit, Doze, Sleep, SpuriousWake
<1>4. CASE PushCheck \/ NotifyOne \/ StopSet \/ NotifyAll \/ Join
  BY <1>4 DEF PushCheck, NotifyOne, StopSet, NotifyAll, Join, Woken
<1>5. CASE UNCHANGED vars
  BY <1>5 DEF vars
<1> QED
  BY <1>1, <1>2, <1>3, <1>4, <1>5 DEF Next

\* Only Take, Finish and Push move items; each keeps them in order.
LEMMA FifoStep == IInv /\ [Next]_vars => Fifo'
<1> SUFFICES ASSUME IInv, [Next]_vars PROVE Fifo'
  OBVIOUS
<1> USE DEF IInv, TypeOK
<1>1. CASE Take
  <2>1. queue # <<>> /\ worker = "ready" /\ worker' = "busy" /\ hand' = queue[1]
        /\ arrived' = arrived /\ handled' = handled
    BY <1>1 DEF Take
  <2>2. Len(queue) >= 1 /\ Len(queue') = Len(queue) - 1
        /\ \A k \in 1 .. Len(queue') : queue'[k] = queue[k + 1]
    BY <1>1 DEF Take
  <2>3. hand' = handled + 1 /\ arrived = handled + Len(queue)
        /\ \A k \in 1 .. Len(queue) : queue[k] = handled + k
    BY <2>1, <2>2 DEF Fifo
  <2> QED
    BY <2>1, <2>2, <2>3 DEF Fifo
<1>2. CASE Finish
  BY <1>2 DEF Finish, Fifo
<1>3. CASE Push
  <2>1. arrived' = arrived + 1 /\ UNCHANGED <<worker, hand, handled>>
    BY <1>3 DEF Push
  <2>2. Len(queue') = Len(queue) + 1 /\ queue'[Len(queue) + 1] = arrived + 1
        /\ \A k \in 1 .. Len(queue) : queue'[k] = queue[k]
    BY <1>3, <2>1 DEF Push
  <2> DEFINE last == handled + (IF worker = "busy" THEN 1 ELSE 0)
  <2>3. /\ last \in Nat /\ Len(queue) \in Nat
        /\ arrived = last + Len(queue)
        /\ \A k \in 1 .. Len(queue) : queue[k] = last + k
    BY DEF Fifo
  <2>4. arrived' = last + Len(queue') /\ queue'[Len(queue')] = last + Len(queue')
    <3> HIDE DEF last
    <3> QED
      BY <2>1, <2>2, <2>3
  <2>5. ASSUME NEW k \in 1 .. Len(queue') PROVE queue'[k] = last + k
    <3> HIDE DEF last
    <3>1. CASE k \in 1 .. Len(queue)
      BY <2>2, <2>3, <3>1
    <3>2. k \in 1 .. Len(queue) \/ k = Len(queue')
      BY <2>2, <2>3
    <3> QED
      BY <2>4, <3>1, <3>2
  <2> QED
    BY <2>1, <2>3, <2>4, <2>5 DEF Fifo
<1>4. CASE Start \/ Exit \/ Doze \/ Sleep \/ SpuriousWake
  BY <1>4 DEF Start, Exit, Doze, Sleep, SpuriousWake, Fifo
<1>5. CASE PushCheck \/ NotifyOne \/ StopSet \/ NotifyAll \/ Join
  BY <1>5 DEF PushCheck, NotifyOne, StopSet, NotifyAll, Join, Woken, Fifo
<1>6. CASE UNCHANGED vars
  BY <1>6 DEF vars, Fifo
<1> QED
  BY <1>1, <1>2, <1>3, <1>4, <1>5, <1>6 DEF Next

\* The worker blocks only on a queue that is still empty: a push cannot fall
\* between its test and its blocking, and is followed by a notification.
LEMMA WakeStep == IInv /\ [Next]_vars => PushNeverMissed' /\ HandoverInv'
<1> SUFFICES ASSUME IInv, [Next]_vars PROVE PushNeverMissed' /\ HandoverInv'
  OBVIOUS
<1> USE DEF IInv, TypeOK, PushNeverMissed, HandoverInv
<1>1. CASE Push
  BY <1>1 DEF Push, MutexFree
<1>2. CASE Start \/ Take \/ Finish \/ Exit \/ Doze \/ Sleep \/ SpuriousWake
  BY <1>2 DEF Start, Take, Finish, Exit, Doze, Sleep, SpuriousWake
<1>3. CASE PushCheck \/ NotifyOne \/ StopSet \/ NotifyAll \/ Join
  BY <1>3 DEF PushCheck, NotifyOne, StopSet, NotifyAll, Join, Woken
<1>4. CASE UNCHANGED vars
  BY <1>4 DEF vars
<1> QED
  BY <1>1, <1>2, <1>3, <1>4 DEF Next

\* The invariant is inductive.
LEMMA InductiveStep == IInv /\ [Next]_vars => IInv'
BY TypeStep, FifoStep, WakeStep DEF IInv

\* Every state of the worker satisfies the inductive invariant.
THEOREM Invariance == Spec => []IInv
BY InitInv, InductiveStep, PTL DEF Spec

\* The worker, its queue and the threads at its door keep to their states.
THEOREM TypeCorrect == Spec => []TypeOK
<1>1. IInv => TypeOK
  BY DEF IInv
<1> QED
  BY <1>1, Invariance, PTL

\* Items are handled in the order of arrival, none lost and none twice, by
\* processQueuedMessages() across any number of stops and restarts.
THEOREM InOrder == Spec => []Fifo
<1>1. IInv => Fifo
  BY DEF IInv
<1> QED
  BY <1>1, Invariance, PTL

\* The notify_one() of onMessage() / notify() is never lost.
THEOREM PushWakes == Spec => []PushNeverMissed
<1>1. IInv => PushNeverMissed
  BY DEF IInv
<1> QED
  BY <1>1, Invariance, PTL
=============================================================================
