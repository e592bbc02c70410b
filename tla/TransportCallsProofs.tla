------------------------- MODULE TransportCallsProofs -------------------------
(* Theorems about the concurrent callers of the transport, for any number of *)
(* threads and connections: when connect() and disconnect() are left to one  *)
(* thread at a time (OneOwner), the atomic connectionStatus_ is enough to    *)
(* keep them and send() apart, without a mutex around the shared objects.    *)
EXTENDS TransportCalls, TLAPS

Stages == {"idle", "checked", "starting", "launching", "assigning", "preparing", "dispatching",
           "leaving", "joining", "resetting", "sending", "thrown"}

States == {"none", "connecting", "open", "closing", "ended"}

\* The variables keep their types; connections are numbered as they are made.
TypeInv ==
  /\ connectionStatus \in {"NotStarted", "Disconnected", "Connecting", "Connected"}
  /\ pc \in [Threads -> Stages]
  /\ inited \in BOOLEAN
  /\ ioThread \in {"none", "idle", "opening", "ending", "calling", "exited"}
  /\ con \in [1 .. MaxConnects -> States]
  /\ made \in 0 .. MaxConnects
  /\ handle = made

\* At most one thread is inside connect() or disconnect().
OwnerInv == \A t, u \in Threads : Owning(t) /\ Owning(u) => t = u

\* What the status is while a call is in progress, and what a call may rely
\* on: start() finds no thread and a fresh client, the receivers are assigned
\* in the state Disconnected, and the client is replaced after the IO thread
\* was joined.
Stage(t) ==
  /\ pc[t] # "thrown"
  /\ pc[t] = "checked" => connectionStatus \in {"NotStarted", "Disconnected"}
  /\ pc[t] = "starting" => connectionStatus = "NotStarted" /\ ~inited
  /\ pc[t] = "launching" => connectionStatus = "NotStarted"
  /\ pc[t] \in {"assigning", "preparing"} => connectionStatus = "Disconnected"
  /\ pc[t] = "dispatching" => connectionStatus = "Connecting" /\ made # 0 /\ con[made] = "none"
  /\ pc[t] \in {"leaving", "joining", "resetting"} => connectionStatus # "NotStarted"
  /\ pc[t] = "resetting" => ioThread = "none"

StageInv == \A t \in Threads : Stage(t)

\* Every connection but the last one has ended, and the status follows the
\* last one, as soon as the IO thread has said so.
LastInv ==
  /\ \A c \in 1 .. MaxConnects : c < made => con[c] = "ended"
  /\ \A c \in 1 .. MaxConnects : c > made => con[c] = "none"
  /\ made # 0 /\ con[made] = "none" => \E t \in Threads : pc[t] = "dispatching"
  /\ connectionStatus \in {"NotStarted", "Disconnected"} => made = 0 \/ con[made] = "ended"
  /\ connectionStatus \in {"Connecting", "Connected"} => made # 0
  /\ connectionStatus = "Connecting" => con[made] \in {"none", "connecting"} \/ ioThread \in {"opening", "ending"}
  /\ connectionStatus = "Connected" => con[made] \in {"open", "closing"} \/ ioThread = "ending"
  /\ ioThread = "opening" => connectionStatus = "Connecting" /\ con[made] = "open"
  /\ ioThread = "ending" => connectionStatus \in {"Connecting", "Connected"} /\ con[made] = "ended"

\* Nothing of the last session is left in the state NotStarted.
IdleInv == connectionStatus = "NotStarted" =>
  /\ ioThread = "none"
  /\ inited => \E t \in Threads : pc[t] = "launching"

IInv == TypeInv /\ OwnerInv /\ StageInv /\ LastInv /\ IdleInv

-----------------------------------------------------------------------------
\* A call moves its own thread only; a thread that enters connect() or
\* disconnect() finds nobody there.
LEMMA Moves ==
  ASSUME OneOwner, IInv, NEW t \in Threads, Connect(t) \/ Disconnect(t) \/ Send(t)
  PROVE  /\ pc' \in [Threads -> Stages]
         /\ \A u \in Threads \ {t} : pc'[u] = pc[u]
         /\ Owning(t)' => Owning(t) \/ \A u \in Threads \ {t} : ~Owning(u)
<1> USE DEF IInv, TypeInv, Stages, Goto
<1>1. CASE ConnectCheck(t) \/ DisconnectCheck(t)
  BY <1>1 DEF ConnectCheck, DisconnectCheck, MayOwn
<1>2. CASE ConnectStarts(t) \/ StartInit(t) \/ StartThreads(t) \/ AssignReceivers(t)
  BY <1>2 DEF ConnectStarts, StartInit, StartThreads, AssignReceivers, Owning
<1>3. CASE ConnectFails(t) \/ ConnectPrepare(t) \/ ConnectDispatch(t)
  BY <1>3 DEF ConnectFails, ConnectPrepare, ConnectDispatch, Owning
<1>4. CASE DisconnectEnd(t) \/ DisconnectJoin(t) \/ DisconnectReset(t)
  BY <1>4 DEF DisconnectEnd, DisconnectJoin, DisconnectReset, Owning
<1>5. CASE Send(t)
  BY <1>5 DEF Send, SendCheck, SendWrite, Owning
<1> QED
  BY <1>1, <1>2, <1>3, <1>4, <1>5 DEF Connect, Disconnect

\* The IO thread and the worker move no application thread.
LEMMA Stays == ASSUME Io \/ WorkerCalls \/ WorkerReturns PROVE pc' = pc
BY DEF Io, Opens, OnOpen, Ends, OnCloseOrFail, OnMessage, ReceiverReturns, IoExit, WorkerCalls, WorkerReturns

\* Only the last connection can still be live.
LEMMA LastLive ==
  ASSUME IInv, NEW c \in 1 .. made, con[c] # "ended"
  PROVE  c = made
BY MaxConnectsAssumption DEF IInv, TypeInv, LastInv

\* One thread at a time owns the transport.
LEMMA OwnerStep == OneOwner /\ IInv /\ [Next]_vars => OwnerInv'
<1> SUFFICES ASSUME OneOwner, IInv, [Next]_vars PROVE OwnerInv'
  OBVIOUS
<1> USE DEF IInv, OwnerInv
<1>1. ASSUME NEW t \in Threads, Connect(t) \/ Disconnect(t) \/ Send(t) PROVE OwnerInv'
  BY <1>1, Moves DEF Owning
<1>2. CASE Io \/ WorkerCalls \/ WorkerReturns
  BY <1>2, Stays DEF Owning
<1>3. CASE UNCHANGED vars
  BY <1>3 DEF vars, Owning
<1> QED
  BY <1>1, <1>2, <1>3 DEF Next

\* Types are preserved by every step.
LEMMA TypeStep == OneOwner /\ IInv /\ [Next]_vars => TypeInv'
<1> SUFFICES ASSUME OneOwner, IInv, [Next]_vars PROVE TypeInv'
  OBVIOUS
<1> USE MaxConnectsAssumption DEF IInv, TypeInv, States
<1>1. ASSUME NEW t \in Threads, Connect(t) PROVE TypeInv'
  <2>1. pc' \in [Threads -> Stages]
    BY <1>1, Moves
  <2>2. CASE ConnectCheck(t) \/ ConnectStarts(t) \/ AssignReceivers(t) \/ ConnectFails(t)
    BY <2>1, <2>2 DEF ConnectCheck, ConnectStarts, AssignReceivers, ConnectFails, clientVars, runVars, conVars
  <2>3. CASE StartInit(t) \/ StartThreads(t)
    BY <2>1, <2>3 DEF StartInit, StartThreads, clientVars, runVars, conVars
  <2>4. CASE ConnectPrepare(t) \/ ConnectDispatch(t)
    BY <2>1, <2>4 DEF ConnectPrepare, ConnectDispatch, clientVars, runVars
  <2> QED
    BY <1>1, <2>2, <2>3, <2>4 DEF Connect
<1>2. ASSUME NEW t \in Threads, Disconnect(t) \/ Send(t) PROVE TypeInv'
  <2>1. pc' \in [Threads -> Stages]
    BY <1>2, Moves
  <2>2. CASE DisconnectCheck(t) \/ DisconnectJoin(t) \/ Send(t)
    BY <2>1, <2>2 DEF DisconnectCheck, DisconnectJoin, Send, SendCheck, SendWrite, clientVars, runVars, conVars
  <2>3. CASE DisconnectEnd(t) \/ DisconnectReset(t)
    BY <2>1, <2>3 DEF DisconnectEnd, DisconnectReset, runVars
  <2> QED
    BY <1>2, <2>2, <2>3 DEF Disconnect
<1>3. CASE Io
  BY <1>3 DEF Io, Opens, OnOpen, Ends, OnCloseOrFail, OnMessage, ReceiverReturns, IoExit, clientVars, conVars
<1>4. CASE WorkerCalls \/ WorkerReturns
  BY <1>4 DEF WorkerCalls, WorkerReturns, clientVars, conVars
<1>5. CASE UNCHANGED vars
  BY <1>5 DEF vars, clientVars, runVars, conVars
<1> QED
  BY <1>1, <1>2, <1>3, <1>4, <1>5 DEF Next

\* While a thread takes a step of connect() or disconnect(), the others are
\* outside, or in send().
LEMMA Alone ==
  ASSUME OneOwner, IInv, NEW t \in Threads, Connect(t) \/ Disconnect(t),
         NEW u \in Threads \ {t}
  PROVE  pc'[u] = pc[u] /\ pc[u] \in {"idle", "sending"}
<1>1. pc'[u] = pc[u]
  BY Moves
<1>2. ~Owning(u)
  <2>1. CASE Owning(t)
    BY <2>1 DEF IInv, OwnerInv
  <2>2. CASE ~Owning(t)
    BY <2>2 DEF Connect, Disconnect, ConnectCheck, ConnectStarts, StartInit, StartThreads, AssignReceivers,
      ConnectFails, ConnectPrepare, ConnectDispatch, DisconnectCheck, DisconnectEnd, DisconnectJoin,
      DisconnectReset, Goto, Owning, MayOwn
  <2> QED
    BY <2>1, <2>2
<1> QED
  BY <1>1, <1>2 DEF Owning, IInv, StageInv, Stage, TypeInv, Stages

\* What a thread inside connect() or disconnect() relies on stays true.
LEMMA StageStep == OneOwner /\ IInv /\ [Next]_vars => StageInv'
<1> SUFFICES ASSUME OneOwner, IInv, [Next]_vars PROVE StageInv'
  OBVIOUS
<1> USE MaxConnectsAssumption DEF IInv, TypeInv, Stages, StageInv, Stage
<1>1. ASSUME NEW t \in Threads, Connect(t) \/ Disconnect(t), NEW u \in Threads PROVE Stage(u)'
  <2>1. CASE u # t
    BY <1>1, <2>1, Alone
  <2>2. CASE u = t
    <3>1. CASE ConnectCheck(t) \/ ConnectStarts(t) \/ StartInit(t)
      <4>1. \A v \in Threads : pc[v] = "launching" => v = t
        BY <1>1, Alone
      <4> QED
        BY <2>2, <3>1, <4>1 DEF IdleInv, ConnectCheck, ConnectStarts, StartInit, Goto, clientVars, runVars, conVars
    <3>2. CASE StartThreads(t) \/ AssignReceivers(t) \/ ConnectFails(t)
      BY <2>2, <3>2 DEF StartThreads, AssignReceivers, ConnectFails, Goto, clientVars, runVars, conVars
    <3>3. CASE ConnectPrepare(t) \/ ConnectDispatch(t)
      BY <2>2, <3>3 DEF ConnectPrepare, ConnectDispatch, Goto, clientVars, runVars, LastInv
    <3>4. CASE Disconnect(t)
      BY <2>2, <3>4 DEF Disconnect, DisconnectCheck, DisconnectEnd, DisconnectJoin, DisconnectReset, Goto,
                        clientVars, runVars, conVars
    <3> QED
      BY <1>1, <3>1, <3>2, <3>3, <3>4 DEF Connect
  <2> QED
    BY <2>1, <2>2
<1>2. ASSUME NEW t \in Threads, Send(t) PROVE StageInv'
  BY <1>2 DEF Send, SendCheck, SendWrite, Goto, clientVars, runVars, conVars
<1>3. CASE Io
  <2>1. ASSUME NEW c \in 1 .. made, Opens(c) \/ Ends(c) PROVE StageInv'
    <3>1. c = made /\ con[c] \in {"connecting", "open", "closing"}
      BY <2>1, LastLive DEF Opens, Ends
    <3>2. connectionStatus \in {"Connecting", "Connected"}
      BY <3>1 DEF LastInv
    <3> QED
      BY <2>1, <3>1, <3>2 DEF Opens, Ends, clientVars
  <2>4. CASE OnOpen \/ OnCloseOrFail
    <3>1. connectionStatus \in {"Connecting", "Connected"} /\ con[made] # "none"
      BY <2>4 DEF OnOpen, OnCloseOrFail, LastInv
    <3> QED
      BY <2>4, <3>1 DEF OnOpen, OnCloseOrFail, clientVars, conVars
  <2>2. ASSUME NEW c \in 1 .. made, OnMessage(c) PROVE StageInv'
    BY <2>2 DEF OnMessage, clientVars, conVars
  <2>3. CASE ReceiverReturns \/ IoExit
    BY <2>3 DEF ReceiverReturns, IoExit, clientVars, conVars
  <2> QED
    BY <1>3, <2>1, <2>2, <2>3, <2>4 DEF Io
<1>4. CASE WorkerCalls \/ WorkerReturns
  BY <1>4 DEF WorkerCalls, WorkerReturns, clientVars, conVars
<1>5. CASE UNCHANGED vars
  BY <1>5 DEF vars, clientVars, runVars, conVars
<1> QED
  BY <1>1, <1>2, <1>3, <1>4, <1>5 DEF Next

\* The status follows the last connection.
LEMMA LastStep == OneOwner /\ IInv /\ [Next]_vars => LastInv'
<1> SUFFICES ASSUME OneOwner, IInv, [Next]_vars PROVE LastInv'
  OBVIOUS
<1> USE MaxConnectsAssumption DEF IInv, TypeInv, Stages, States, StageInv, Stage, LastInv
<1>1. ASSUME NEW t \in Threads, Connect(t) \/ Disconnect(t) PROVE LastInv'
  <2>1. \A u \in Threads : pc[u] = "dispatching" => u = t
    BY <1>1, Alone
  <2>2. CASE \/ ConnectCheck(t) \/ ConnectStarts(t) \/ StartInit(t) \/ AssignReceivers(t) \/ ConnectFails(t)
             \/ DisconnectCheck(t) \/ DisconnectJoin(t)
    <3>1. /\ UNCHANGED <<connectionStatus, con, made>> /\ pc[t] # "dispatching"
          /\ ioThread' = ioThread \/ (ioThread \in {"none", "exited"} /\ ioThread' = "none")
      BY <2>2 DEF ConnectCheck, ConnectStarts, StartInit, AssignReceivers, ConnectFails, DisconnectCheck,
                  DisconnectJoin, Goto, conVars, runVars
    <3> QED
      BY <2>1, <3>1
  <2>3. CASE StartThreads(t)
    <3>1. connectionStatus = "NotStarted" /\ connectionStatus' = "Disconnected" /\ UNCHANGED <<con, made>>
          /\ ioThread' = "idle"
      BY <2>3 DEF StartThreads, Goto, conVars
    <3> QED
      BY <3>1
  <2>4. CASE ConnectPrepare(t)
    <3>1. /\ made + 1 \in 1 .. MaxConnects /\ made' = made + 1 /\ con' = con
          /\ connectionStatus = "Disconnected" /\ connectionStatus' = "Connecting" /\ pc'[t] = "dispatching"
          /\ ioThread' = ioThread
      BY <2>4 DEF ConnectPrepare, Goto, runVars
    <3>2. con[made + 1] = "none" /\ \A c \in 1 .. MaxConnects : c <= made => con[c] = "ended"
      BY <3>1
    <3> QED
      BY <3>1, <3>2
  <2>5. CASE ConnectDispatch(t)
    <3>1. PICK c \in 1 .. made : con[c] = "none" /\ con' = [con EXCEPT ![c] = "connecting"]
      BY <2>5 DEF ConnectDispatch
    <3>2. c = made /\ connectionStatus = "Connecting" /\ UNCHANGED <<connectionStatus, made, ioThread>>
      BY <2>5, <3>1, LastLive DEF ConnectDispatch, Goto, runVars
    <3> QED
      BY <3>1, <3>2
  <2>6. CASE DisconnectEnd(t)
    <3>1. UNCHANGED <<connectionStatus, made, ioThread>> /\ pc[t] # "dispatching"
      BY <2>6 DEF DisconnectEnd, Goto, runVars
    <3>2. /\ con' \in [1 .. MaxConnects -> States]
          /\ \A c \in 1 .. MaxConnects :
               \/ con'[c] = con[c]
               \/ connectionStatus = "Connected" /\ c = made /\ con[c] = "open" /\ con'[c] = "closing"
      BY <2>6 DEF DisconnectEnd
    <3> QED
      BY <2>1, <3>1, <3>2
  <2>7. CASE DisconnectReset(t)
    <3>1. connectionStatus' = "NotStarted" /\ made' = made /\ pc[t] # "dispatching"
          /\ ioThread = "none" /\ ioThread' = ioThread
          /\ con' = [c \in 1 .. MaxConnects |-> IF con[c] = "none" THEN "none" ELSE "ended"]
      BY <2>7 DEF DisconnectReset, Goto, runVars
    <3>2. made = 0 \/ con[made] # "none"
      BY <2>1, <3>1
    <3> QED
      BY <3>1, <3>2
  <2> QED
    BY <1>1, <2>2, <2>3, <2>4, <2>5, <2>6, <2>7 DEF Connect, Disconnect
<1>2. ASSUME NEW t \in Threads, Send(t) PROVE LastInv'
  <2>1. UNCHANGED <<connectionStatus, con, made, ioThread>> /\ pc[t] # "dispatching"
        /\ \A u \in Threads \ {t} : pc'[u] = pc[u]
    BY <1>2 DEF Send, SendCheck, SendWrite, Goto, conVars, runVars
  <2> QED
    BY <2>1
<1>3. CASE Io
  <2>1. ASSUME NEW c \in 1 .. made, Opens(c) \/ Ends(c) PROVE LastInv'
    <3>1. c = made /\ con[c] \in {"connecting", "open", "closing"} /\ ioThread = "idle"
      BY <2>1, LastLive DEF Opens, Ends
    <3>2. /\ made' = made /\ pc' = pc /\ connectionStatus' = connectionStatus
          /\ \/ con[c] = "connecting" /\ con' = [con EXCEPT ![c] = "open"] /\ ioThread' = "opening"
             \/ con' = [con EXCEPT ![c] = "ended"] /\ ioThread' = "ending"
      BY <2>1 DEF Opens, Ends
    <3> QED
      BY <3>1, <3>2
  <2>4. CASE OnOpen \/ OnCloseOrFail
    <3>1. /\ UNCHANGED <<made, pc, con>> /\ ioThread' = "calling"
          /\ \/ ioThread = "opening" /\ connectionStatus' = "Connected"
             \/ ioThread = "ending" /\ connectionStatus' = "Disconnected"
      BY <2>4 DEF OnOpen, OnCloseOrFail, conVars
    <3> QED
      BY <3>1
  <2>2. ASSUME NEW c \in 1 .. made, OnMessage(c) PROVE LastInv'
    BY <2>2 DEF OnMessage, conVars
  <2>3. CASE ReceiverReturns \/ IoExit
    BY <2>3 DEF ReceiverReturns, IoExit, conVars
  <2> QED
    BY <1>3, <2>1, <2>2, <2>3, <2>4 DEF Io
<1>4. CASE WorkerCalls \/ WorkerReturns
  BY <1>4 DEF WorkerCalls, WorkerReturns, conVars
<1>5. CASE UNCHANGED vars
  BY <1>5 DEF vars, conVars, runVars
<1> QED
  BY <1>1, <1>2, <1>3, <1>4, <1>5 DEF Next

\* A session leaves no IO thread and no initialised client behind.
LEMMA IdleStep == OneOwner /\ IInv /\ [Next]_vars => IdleInv'
<1> SUFFICES ASSUME OneOwner, IInv, [Next]_vars PROVE IdleInv'
  OBVIOUS
<1> USE DEF IInv, TypeInv, Stages, StageInv, Stage, IdleInv
<1>1. ASSUME NEW t \in Threads, Connect(t) PROVE IdleInv'
  <2>1. \A u \in Threads : pc[u] = "launching" => u = t
    BY <1>1, Alone
  <2>2. CASE ConnectCheck(t) \/ ConnectStarts(t) \/ AssignReceivers(t) \/ ConnectFails(t) \/ ConnectDispatch(t)
    <3>1. UNCHANGED <<connectionStatus, ioThread, inited>> /\ pc[t] # "launching"
      BY <2>2 DEF ConnectCheck, ConnectStarts, AssignReceivers, ConnectFails, ConnectDispatch, Goto,
                  clientVars, runVars
    <3> QED
      BY <2>1, <3>1
  <2>3. CASE StartInit(t) \/ StartThreads(t) \/ ConnectPrepare(t)
    BY <2>3 DEF StartInit, StartThreads, ConnectPrepare, Goto, runVars
  <2> QED
    BY <1>1, <2>2, <2>3 DEF Connect
<1>2. ASSUME NEW t \in Threads, Disconnect(t) PROVE IdleInv'
  BY <1>2 DEF Disconnect, DisconnectCheck, DisconnectEnd, DisconnectJoin, DisconnectReset, Goto, runVars, clientVars
<1>3. ASSUME NEW t \in Threads, Send(t) PROVE IdleInv'
  <2>1. UNCHANGED <<connectionStatus, ioThread, inited>> /\ pc[t] # "launching"
        /\ \A u \in Threads \ {t} : pc'[u] = pc[u]
    BY <1>3 DEF Send, SendCheck, SendWrite, Goto, runVars, clientVars
  <2> QED
    BY <2>1
<1>4. CASE Io \/ WorkerCalls \/ WorkerReturns
  <2>1. CASE OnOpen \/ OnCloseOrFail
    BY <2>1 DEF OnOpen, OnCloseOrFail
  <2>2. CASE ~OnOpen /\ ~OnCloseOrFail
    BY <1>4, <2>2 DEF Io, Opens, Ends, OnMessage, ReceiverReturns, IoExit, WorkerCalls, WorkerReturns, clientVars
  <2> QED
    BY <2>1, <2>2
<1>5. CASE UNCHANGED vars
  BY <1>5 DEF vars, clientVars, runVars
<1> QED
  BY <1>1, <1>2, <1>3, <1>4, <1>5 DEF Next

-----------------------------------------------------------------------------
\* A transport that was never used satisfies the inductive invariant.
LEMMA InitInv == Init => IInv
<1> SUFFICES ASSUME Init PROVE IInv
  OBVIOUS
<1>1. inited \in BOOLEAN /\ ~inited
  BY Zenon DEF Init
<1>2. TypeInv /\ OwnerInv /\ StageInv
  BY <1>1, MaxConnectsAssumption DEF Init, TypeInv, Stages, States, OwnerInv, Owning, StageInv, Stage
<1>3. LastInv /\ IdleInv
  BY <1>1 DEF Init, LastInv, IdleInv
<1> QED
  BY <1>2, <1>3 DEF IInv

\* With one owner at a time every state satisfies the inductive invariant.
THEOREM Invariance == ASSUME OneOwner PROVE Spec => []IInv
<1>1. IInv /\ [Next]_vars => IInv'
  BY TypeStep, OwnerStep, StageStep, LastStep, IdleStep DEF IInv
<1> QED
  BY <1>1, InitInv, PTL DEF Spec

\* A send() that passes its check of connectionStatus_ finds
\* connectionHandle_ standing for the last connection, which has opened and
\* has not ended, or whose end the IO thread is about to report.
THEOREM HandleOpen == ASSUME OneOwner PROVE Spec => []HandleIsOpen
<1>1. IInv => HandleIsOpen
  BY DEF IInv, TypeInv, LastInv, HandleIsOpen
<1> QED
  BY <1>1, Invariance, PTL

\* connect() assigns the receivers only when no connection is live.
THEOREM AssignedBetween == ASSUME OneOwner PROVE Spec => []AssignsBetweenConnections
<1>1. IInv => AssignsBetweenConnections
  <2> SUFFICES ASSUME IInv, NEW t \in Threads, pc[t] = "assigning", NEW c \in 1 .. MaxConnects
               PROVE  con[c] \in {"none", "ended"}
    BY DEF AssignsBetweenConnections, Live, IInv, TypeInv
  <2>1. connectionStatus = "Disconnected"
    BY DEF IInv, StageInv, Stage
  <2> QED
    BY <2>1, MaxConnectsAssumption DEF IInv, TypeInv, LastInv
<1> QED
  BY <1>1, Invariance, PTL
=============================================================================
