---------------------------- MODULE UtilityProofs ----------------------------
(* Theorems about the three parts that the others use and that use no other: *)
(* the line of a log call (LogLine), the logger (Logger) and the URL of a    *)
(* connection (Url).  They share no state; each has a specification of its   *)
(* own.                                                                      *)
EXTENDS LogLine, Logger, Url, SequenceTheorems, WellFoundedInduction, TLAPS

-----------------------------------------------------------------------------
(* The line of a log call stays inside its buffer, for every buffer size.    *)

\* The inductive invariant of the line.
LineInv == TypeOK /\ InBuffer /\ LongestPrefix

\* snAppend keeps the length inside the buffer and equal to the clamped total.
LEMMA AppendFits ==
  ASSUME LineInv, NEW ret \in Int, SnAppend(ret)
  PROVE  /\ len' \in Nat /\ total' \in Nat
         /\ len' < MaxBufSize
         /\ len' = AtMost(total', MaxBufSize - 1)
BY LogLineAssumption DEF LineInv, TypeOK, InBuffer, LongestPrefix, SnAppend, AtMost

\* The three invariants together are inductive.
LEMMA LineInvariance == LineSpec => []LineInv
<1>1. LineInit => LineInv
  BY LogLineAssumption DEF LineInit, LineInv, TypeOK, InBuffer, LongestPrefix, AtMost
<1>2. LineInv /\ [LineNext]_lineVars => LineInv'
  <2> SUFFICES ASSUME LineInv, [LineNext]_lineVars PROVE LineInv'
    OBVIOUS
  <2>1. ASSUME NEW length \in Returned, NEW newline \in BOOLEAN, FormatText(length, newline)
        PROVE  LineInv'
    <3>1. length \in Int
      BY <2>1, LogLineAssumption DEF Returned
    <3>2. msgLen' \in Nat /\ msgLen' < MaxBufSize
      BY <2>1, <3>1, LogLineAssumption DEF FormatText, AtMost
    <3> QED
      BY <2>1, <3>2 DEF FormatText, LineInv, TypeOK, InBuffer, LongestPrefix, AtMost
  <2>2. ASSUME NEW ret \in Returned, AppendPiece(ret)
        PROVE  LineInv'
    <3>1. ret \in Int
      BY <2>2, LogLineAssumption DEF Returned
    <3>2. SnAppend(ret)
      BY <2>2 DEF AppendPiece
    <3>3. piece' \in {"prefix", "place", "thread", "message"} /\ msgLen' = msgLen
      BY <2>2 DEF AppendPiece, After, Optional
    <3> QED
      BY <3>1, <3>2, <3>3, AppendFits DEF LineInv, TypeOK, InBuffer, LongestPrefix
  <2>3. CASE SkipPiece
    BY <2>3 DEF SkipPiece, After, Optional, LineInv, TypeOK, InBuffer, LongestPrefix, AtMost
  <2>4. CASE AppendMessage
    <3>1. 2 + msgLen \in Int
      BY DEF LineInv, TypeOK
    <3>2. SnAppend(2 + msgLen) /\ piece' = "done" /\ msgLen' = msgLen
      BY <2>4 DEF AppendMessage
    <3> QED
      BY <3>1, <3>2, AppendFits DEF LineInv, TypeOK, InBuffer, LongestPrefix
  <2>5. CASE UNCHANGED lineVars
    BY <2>5 DEF lineVars, LineInv, TypeOK, InBuffer, LongestPrefix, AtMost
  <2> QED
    BY <2>1, <2>2, <2>3, <2>4, <2>5 DEF LineNext
<1> QED
  BY <1>1, <1>2, PTL DEF LineSpec

\* log() never writes outside its two buffers, whatever their size and
\* whatever the pieces are (logger.cpp:363-449).
THEOREM StaysInBuffer == LineSpec => []InBuffer
BY LineInvariance, PTL DEF LineInv

\* The line is the longest prefix that fits.
THEOREM TruncatesOnlyAtTheEnd == LineSpec => []LongestPrefix
BY LineInvariance, PTL DEF LineInv

\* The lengths are natural numbers: no subtraction of the code wraps around.
THEOREM TypeCorrect == LineSpec => []TypeOK
BY LineInvariance, PTL DEF LineInv

-----------------------------------------------------------------------------
(* The logger, for any number of threads, levels, paths, calls of connect()  *)
(* and changes of the environment.                                           *)

\* Configurations; where a thread tests them; what it writes.
Configs == [enabled : BOOLEAN, level : Levels]
Tests == {"macro", "macroLevel", "log", "logLevel"}
Parts == [place : {"stderr", NoFile} \cup Files, part : {"whole", "head"}]

\* The variables keep their types.
TypeInv ==
  /\ envLevel \in LevelValues /\ envFile \in FileValues /\ dirs \subseteq Paths
  /\ loggingEnabled \in BOOLEAN /\ logLevel \in Levels
  /\ connecting \in {NoLevel} \cup 0 .. MaxLevel + 1
  /\ config \in Configs /\ asked \in Configs
  /\ pc \in [Threads -> Tests \cup {"idle", "resolve", "open", "write", "fallback"}]
  /\ level \in [Threads -> Levels]
  /\ seen \in [Threads -> SUBSET Configs]
  /\ cache \in [Threads -> [value : {"unset"} \cup Paths, path : {NoFile} \cup Files]]
  /\ path \in [Threads -> {NoFile} \cup Files]
  /\ retried \in [Threads -> BOOLEAN]
  /\ out \in [Threads -> Seq(Parts)]

\* The two atomics are those of the configurations: the switch is already
\* that of the connect() in progress, the level still that of the last one.
LevelInv ==
  /\ loggingEnabled = asked.enabled
  /\ logLevel = config.level
  /\ connecting = NoLevel => config = asked
  /\ connecting # NoLevel => asked.level = Stored(ResolvedLevel(connecting))
  /\ \A t \in Threads : pc[t] \in Tests => config \in seen[t] /\ asked \in seen[t]

\* A thread caches nothing, or the canonical path of a path whose directory
\* was there, and is there still.
CacheInv == \A t \in Threads :
  \/ cache[t] = NoCache
  \/ cache[t].value \in dirs /\ cache[t].path = Canonical(cache[t].value)

\* Until log() returns, the whole line has been written nowhere.
OutInv == \A t \in Threads :
  /\ pc[t] \in Tests \cup {"resolve", "open"} => out[t] = <<>>
  /\ pc[t] \in {"write", "fallback"} => \A j \in 1 .. Len(out[t]) : out[t][j].part # "whole"

\* The inductive invariant of the logger.
LInv == TypeInv /\ LevelInv /\ CacheInv /\ OutInv

\* The initial state satisfies it.
LEMMA LInit == Init => LInv
<1> SUFFICES ASSUME Init PROVE LInv
  OBVIOUS
<1>1. Config(TRUE, 0) \in Configs
  BY LoggerAssumption DEF Config, Configs, Levels
<1>2. TypeInv
  <2>1. 0 \in Levels
    BY LoggerAssumption DEF Levels
  <2>2. out \in [Threads -> Seq(Parts)] /\ seen \in [Threads -> SUBSET Configs]
    BY DEF Init
  <2>3. cache \in [Threads -> [value : {"unset"} \cup Paths, path : {NoFile} \cup Files]]
    BY DEF Init, NoCache
  <2> QED
    BY <1>1, <2>1, <2>2, <2>3 DEF Init, TypeInv, Tests
<1>3. LevelInv
  BY DEF Init, LevelInv, Config, Tests, NoLevel
<1>4. CacheInv /\ OutInv
  BY DEF Init, CacheInv, OutInv, Tests
<1> QED
  BY <1>2, <1>3, <1>4 DEF LInv

\* What connect() asks for is a configuration, with the level it will store.
LEMMA AskedLevel ==
  ASSUME LInv, connecting = NoLevel, NEW default \in 0 .. MaxLevel + 1
  PROVE  /\ Asked(default) \in Configs
         /\ Asked(default).enabled = ~Disabled
         /\ Asked(default).level = Stored(ResolvedLevel(default))
<1> DEFINE l == ResolvedLevel(default)
<1>1. l \in 0 .. MaxLevel + 1 /\ config.level \in Levels /\ logLevel = config.level
  BY LoggerAssumption DEF LInv, LevelInv, TypeInv, ResolvedLevel, Levels, Configs
<1>2. Stored(l) \in Levels
  BY <1>1, LoggerAssumption DEF Stored, Levels
<1>3. Asked(default) = Config(envLevel # Off, Stored(l))
  <2>1. CASE l \in Levels
    BY <1>1, <2>1, LoggerAssumption DEF Asked, Stored, Levels
  <2>2. CASE l = MaxLevel
    BY <1>1, <2>2, LoggerAssumption DEF Asked, Stored, Levels
  <2>3. CASE l \notin Levels /\ l # MaxLevel
    BY <1>1, <2>3, LoggerAssumption DEF Asked, Stored, Levels
  <2> QED
    BY <2>1, <2>2, <2>3
<1> QED
  BY <1>2, <1>3 DEF Config, Configs, Disabled

\* connect() stores the switch at once and announces the level.
LEMMA LResolveLevel ==
  ASSUME LInv, NEW default \in 0 .. MaxLevel + 1, ResolveLevel(default)
  PROVE  LInv'
<1>1. /\ asked' \in Configs /\ asked'.enabled = ~Disabled
      /\ asked'.level = Stored(ResolvedLevel(default))
  BY AskedLevel DEF ResolveLevel
<1>2. TypeInv'
  <2>1. seen' \in [Threads -> SUBSET Configs]
    BY <1>1 DEF ResolveLevel, LInv, TypeInv
  <2> QED
    BY <1>1, <2>1 DEF ResolveLevel, LInv, TypeInv, Disabled, envVars
<1>3. LevelInv'
  <2>1. connecting' = default /\ default # NoLevel
    BY LoggerAssumption DEF ResolveLevel, NoLevel
  <2>2. Stored(ResolvedLevel(default)) = Stored(ResolvedLevel(connecting))'
    BY <2>1 DEF ResolveLevel, envVars, Stored, ResolvedLevel
  <2>3. ASSUME NEW t \in Threads, pc'[t] \in Tests
        PROVE  config' \in seen'[t] /\ asked' \in seen'[t]
    BY <2>3 DEF ResolveLevel, LInv, LevelInv, Tests
  <2> QED
    BY <1>1, <2>1, <2>2, <2>3 DEF ResolveLevel, LInv, LevelInv
<1>4. CacheInv' /\ OutInv'
  BY DEF ResolveLevel, envVars, LInv, CacheInv, OutInv
<1> QED
  BY <1>2, <1>3, <1>4 DEF LInv

\* The level stored is the one announced.
LEMMA LSetLogLevel == ASSUME LInv, SetLogLevel PROVE LInv'
<1>1. logLevel' = asked.level /\ asked.level \in Levels
  BY DEF SetLogLevel, LInv, LevelInv, TypeInv, Configs
<1>2. TypeInv'
  BY <1>1 DEF SetLogLevel, envVars, LInv, TypeInv
<1>3. LevelInv'
  BY <1>1 DEF SetLogLevel, LInv, LevelInv
<1>4. CacheInv' /\ OutInv'
  BY DEF SetLogLevel, envVars, LInv, CacheInv, OutInv
<1> QED
  BY <1>2, <1>3, <1>4 DEF LInv

\* The level's variable does not change during connect(), directories stay.
LEMMA LChangeEnvironment == ASSUME LInv, ChangeEnvironment PROVE LInv'
<1> USE DEF ChangeEnvironment, levelVars, confVars
<1>1. TypeInv'
  BY DEF LInv, TypeInv
<1>2. LevelInv'
  BY DEF LInv, LevelInv, Stored, ResolvedLevel
<1>3. dirs \subseteq dirs'
  OBVIOUS
<1>4. CacheInv' /\ OutInv'
  BY <1>3 DEF LInv, CacheInv, OutInv
<1> QED
  BY <1>1, <1>2, <1>4 DEF LInv

\* A call starts with an empty line and the configurations then in force.
LEMMA LCall == ASSUME LInv, NEW t \in Threads, NEW l \in Levels, Call(t, l) PROVE LInv'
<1> USE DEF Call, Goto, envVars, levelVars, confVars
<1>1. TypeInv'
  BY DEF LInv, TypeInv, Tests
<1>2. LevelInv'
  BY DEF LInv, LevelInv, TypeInv, Tests, Stored, ResolvedLevel
<1>3. CacheInv'
  BY DEF LInv, CacheInv
<1>4. OutInv'
  BY DEF LInv, OutInv, TypeInv, Tests
<1> QED
  BY <1>1, <1>2, <1>3, <1>4 DEF LInv

\* The tests of the macro and of log() only move the thread.
LEMMA LTest == ASSUME LInv, NEW t \in Threads, TestEnabled(t) \/ TestLevel(t) PROVE LInv'
<1> USE DEF TestEnabled, TestLevel, envVars, levelVars, confVars
<1>1. /\ pc[t] \in Tests
      /\ pc' = [pc EXCEPT ![t] = pc'[t]]
      /\ pc'[t] \in Tests \cup {"idle", "resolve"}
  BY DEF LInv, TypeInv, Tests, Then
<1>2. TypeInv'
  BY <1>1 DEF LInv, TypeInv
<1>3. LevelInv'
  BY <1>1 DEF LInv, LevelInv, TypeInv, Stored, ResolvedLevel
<1>4. CacheInv'
  BY DEF LInv, CacheInv
<1>5. OutInv'
  BY <1>1 DEF LInv, OutInv, TypeInv, Tests
<1> QED
  BY <1>2, <1>3, <1>4, <1>5 DEF LInv

\* resolveLogFilePathFromEnvironment() leaves the canonical path of the
\* variable's value in the cache if it returns it, and none of another value.
LEMMA CachedPath ==
  ASSUME LInv, NEW t \in Threads
  PROVE  LET c == Cached(cache[t])
         IN  /\ c \in [value : {"unset"} \cup Paths, path : {NoFile} \cup Files]
             /\ c = NoCache \/ (c.value \in dirs /\ c.path = Canonical(c.value))
             /\ (IF c.value = envFile THEN c.path ELSE NoFile)
                  = IF envFile \in dirs THEN Canonical(envFile) ELSE NoFile
<1> DEFINE C == [value : {"unset"} \cup Paths, path : {NoFile} \cup Files]
<1> USE PathsAssumption DEF NoCache
<1>1. /\ cache[t] \in C /\ dirs \subseteq Paths /\ envFile \in FileValues
      /\ cache[t] = NoCache \/ (cache[t].value \in dirs /\ cache[t].path = Canonical(cache[t].value))
      /\ NoCache \in C
  BY DEF LInv, TypeInv, CacheInv
<1>2. CASE envFile = "unset"
  <2>1. Cached(cache[t]) = NoCache
    BY <1>1, <1>2 DEF Cached, Cleared
  <2> QED
    BY <1>1, <1>2, <2>1
<1>3. CASE envFile \in dirs \ {cache[t].value}
  <2>1. Cached(cache[t]) = [value |-> envFile, path |-> Canonical(envFile)]
    BY <1>1, <1>3 DEF Cached
  <2>2. Canonical(envFile) \in Files
    BY <1>1, <1>3, LoggerAssumption
  <2> QED
    BY <1>1, <1>3, <2>1, <2>2
<1>4. CASE envFile # "unset" /\ envFile \notin dirs \ {cache[t].value}
  <2>1. Cached(cache[t]) = cache[t]
    BY <1>4 DEF Cached
  <2> QED
    BY <1>1, <1>4, <2>1
<1> QED
  BY <1>2, <1>3, <1>4

\* Resolving the path changes the cache of the thread alone.
LEMMA LResolveFile == ASSUME LInv, NEW t \in Threads, ResolveFile(t) PROVE LInv'
<1> DEFINE c == Cached(cache[t])
<1> USE DEF ResolveFile, Goto, envVars, levelVars, confVars
<1>1. /\ c \in [value : {"unset"} \cup Paths, path : {NoFile} \cup Files]
      /\ c = NoCache \/ (c.value \in dirs /\ c.path = Canonical(c.value))
  BY CachedPath
<1> HIDE DEF c
<1>2. cache' = [cache EXCEPT ![t] = c] /\ cache'[t] = c
  BY DEF LInv, TypeInv, c
<1>3. path' \in [Threads -> {NoFile} \cup Files]
  BY <1>1, <1>2 DEF LInv, TypeInv
<1>4. TypeInv'
  BY <1>1, <1>2, <1>3 DEF LInv, TypeInv, Tests
<1>5. LevelInv'
  BY DEF LInv, LevelInv, TypeInv, Tests, Stored, ResolvedLevel
<1>6. CacheInv'
  BY <1>1, <1>2 DEF LInv, CacheInv, TypeInv
<1>7. OutInv'
  BY DEF LInv, OutInv, TypeInv, Tests
<1> QED
  BY <1>4, <1>5, <1>6, <1>7 DEF LInv

\* Opening the file writes nothing.
LEMMA LOpenFile == ASSUME LInv, NEW t \in Threads, OpenFile(t) PROVE LInv'
<1> USE DEF OpenFile, Goto, envVars, levelVars, confVars
<1>1. TypeInv'
  BY DEF LInv, TypeInv, Tests
<1>2. LevelInv'
  BY DEF LInv, LevelInv, TypeInv, Tests, Stored, ResolvedLevel
<1>3. CacheInv'
  BY DEF LInv, CacheInv
<1>4. OutInv'
  BY DEF LInv, OutInv, TypeInv, Tests
<1> QED
  BY <1>1, <1>2, <1>3, <1>4 DEF LInv

\* A part of the line is added to what the thread has written of it.
LEMMA AppendedPart ==
  ASSUME LInv, NEW t \in Threads, NEW place \in {"stderr", NoFile} \cup Files,
         NEW part \in {"whole", "head"}, Appended(t, place, part)
  PROVE  /\ out' \in [Threads -> Seq(Parts)]
         /\ Len(out'[t]) = Len(out[t]) + 1 /\ Len(out[t]) \in Nat
         /\ \A j \in 1 .. Len(out[t]) : out'[t][j] = out[t][j]
         /\ out'[t][Len(out[t]) + 1].part = part
         /\ \A u \in Threads \ {t} : out'[u] = out[u]
<1> DEFINE p == [place |-> place, part |-> part]
<1>1. p \in Parts /\ p.part = part
  BY DEF Parts
<1>2. out \in [Threads -> Seq(Parts)] /\ out' = [out EXCEPT ![t] = Append(out[t], p)]
  BY DEF LInv, TypeInv, Appended
<1> HIDE DEF p
<1> QED
  BY <1>1, <1>2

\* A short write leaves a head behind, and the whole line is the last thing written.
LEMMA LWrite == ASSUME LInv, NEW t \in Threads, Write(t) \/ Fallback(t) PROVE LInv'
<1> USE DEF Write, Fallback, Goto, envVars, levelVars, confVars
<1>1. /\ pc[t] \in {"write", "fallback"}
      /\ pc' = [pc EXCEPT ![t] = pc'[t]] /\ pc'[t] \in {"idle", "write", "fallback"}
      /\ retried' \in [Threads -> BOOLEAN]
      /\ path[t] \in {NoFile} \cup Files
  BY DEF LInv, TypeInv
<1>2. \/ \E place \in {"stderr", NoFile} \cup Files : Appended(t, place, "whole") /\ pc'[t] = "idle"
      \/ Appended(t, path[t], "head")
      \/ out' = out
  BY <1>1 DEF LInv, TypeInv
<1> DEFINE Kept == /\ out' \in [Threads -> Seq(Parts)]
                   /\ \A u \in Threads \ {t} : out'[u] = out[u]
                   /\ pc'[t] = "idle" \/ \A j \in 1 .. Len(out'[t]) : out'[t][j].part # "whole"
<1>3. Kept
  <2>1. ASSUME NEW place \in {"stderr", NoFile} \cup Files, Appended(t, place, "whole"), pc'[t] = "idle"
        PROVE  Kept
    BY <2>1, AppendedPart
  <2>2. CASE Appended(t, path[t], "head")
    <3>1. path[t] \in {"stderr", NoFile} \cup Files
      BY <1>1
    <3>2. \A j \in 1 .. Len(out[t]) : out[t][j].part # "whole"
      BY <1>1 DEF LInv, OutInv
    <3> QED
      <4>1. /\ out' \in [Threads -> Seq(Parts)]
            /\ Len(out'[t]) = Len(out[t]) + 1 /\ Len(out[t]) \in Nat
            /\ \A j \in 1 .. Len(out[t]) : out'[t][j] = out[t][j]
            /\ out'[t][Len(out[t]) + 1].part = "head"
            /\ \A u \in Threads \ {t} : out'[u] = out[u]
        BY <2>2, <3>1, AppendedPart
      <4>2. ASSUME NEW j \in 1 .. Len(out'[t]) PROVE out'[t][j].part # "whole"
        BY <3>2, <4>1
      <4> QED
        BY <4>1, <4>2
  <2>3. CASE out' = out
    BY <1>1, <2>3 DEF LInv, TypeInv, OutInv
  <2> QED
    BY <1>2, <2>1, <2>2, <2>3
<1>4. TypeInv'
  BY <1>1, <1>3 DEF LInv, TypeInv
<1>5. LevelInv'
  BY <1>1 DEF LInv, LevelInv, TypeInv, Tests, Stored, ResolvedLevel
<1>6. CacheInv'
  BY DEF LInv, CacheInv
<1>7. OutInv'
  <2> SUFFICES ASSUME NEW u \in Threads
               PROVE  /\ pc'[u] \in Tests \cup {"resolve", "open"} => out'[u] = <<>>
                      /\ pc'[u] \in {"write", "fallback"} =>
                           \A j \in 1 .. Len(out'[u]) : out'[u][j].part # "whole"
    BY DEF OutInv
  <2>1. CASE u = t
    BY <1>1, <1>3, <2>1 DEF Tests
  <2>2. CASE u # t
    BY <1>1, <1>3, <2>2 DEF LInv, OutInv, TypeInv
  <2> QED
    BY <2>1, <2>2
<1> QED
  BY <1>4, <1>5, <1>6, <1>7 DEF LInv

\* Every state of the logger satisfies it.
THEOREM LoggerInvariance == Spec => []LInv
<1>1. ASSUME LInv, [Next]_vars PROVE LInv'
  <2>1. CASE UNCHANGED vars
    BY <1>1, <2>1 DEF vars, envVars, levelVars, confVars, LInv, TypeInv, LevelInv, CacheInv, OutInv,
                      Stored, ResolvedLevel
  <2>2. CASE Next
    BY <1>1, <2>2, LResolveLevel, LSetLogLevel, LChangeEnvironment, LCall, LTest, LResolveFile,
       LOpenFile, LWrite DEF Next, LogStep
  <2> QED
    BY <1>1, <2>1, <2>2
<1> QED
  BY <1>1, LInit, PTL DEF Spec

\* A thread is moved by its own steps only.
LEMMA Leaves ==
  ASSUME LInv, [Next]_vars, NEW t \in Threads, pc'[t] # pc[t]
  PROVE  \/ \E l \in Levels : Call(t, l)
         \/ TestEnabled(t) \/ TestLevel(t) \/ ResolveFile(t)
         \/ OpenFile(t) \/ Write(t) \/ Fallback(t)
<1>1. PICK u \in Threads : LogStep(u)
  BY DEF vars, Next, ResolveLevel, SetLogLevel, ChangeEnvironment
<1>2. u = t
  BY <1>1 DEF LInv, TypeInv, LogStep, Call, TestEnabled, TestLevel, ResolveFile, OpenFile, Write,
              Fallback, Goto
<1> QED
  BY <1>1, <1>2 DEF LogStep

\* resolveLogFilePathFromEnvironment() returns the canonical path of what the
\* variable names at that time, or none, whatever the thread has cached.
THEOREM CurrentPath == Spec => PathIsCurrent
<1> DEFINE A == \A t \in Threads : pc[t] = "resolve" /\ pc'[t] = "open" =>
        path'[t] = IF envFile \in dirs THEN Canonical(envFile) ELSE NoFile
<1>1. ASSUME LInv, [Next]_vars PROVE [A]_vars
  <2> SUFFICES ASSUME NEW t \in Threads, pc[t] = "resolve", pc'[t] = "open"
               PROVE  path'[t] = IF envFile \in dirs THEN Canonical(envFile) ELSE NoFile
    BY DEF A
  <2>1. ResolveFile(t)
    BY <1>1, Leaves DEF Call, TestEnabled, TestLevel, OpenFile, Write, Fallback, Goto
  <2>2. cache'[t] = Cached(cache[t])
    BY <1>1, <2>1 DEF ResolveFile, LInv, TypeInv
  <2>3. path'[t] = IF cache'[t].value = envFile THEN cache'[t].path ELSE NoFile
    BY <1>1, <2>1 DEF ResolveFile, LInv, TypeInv
  <2> QED
    BY <1>1, <2>2, <2>3, CachedPath
<1> QED
  BY <1>1, LoggerInvariance, PTL DEF Spec, PathIsCurrent

\* Whatever open(), openat() and write() do, an accepted line is written whole
\* exactly once when log() returns.
THEOREM LineOut == Spec => EveryLineOut
<1> DEFINE A == \A t \in Threads : pc[t] \in {"write", "fallback"} /\ pc'[t] = "idle" =>
        \E i \in DOMAIN out'[t] : \A j \in DOMAIN out'[t] :
          out'[t][j].part = "whole" <=> j = i
<1>1. ASSUME LInv, [Next]_vars PROVE [A]_vars
  <2> SUFFICES ASSUME NEW t \in Threads, pc[t] \in {"write", "fallback"}, pc'[t] = "idle"
               PROVE  \E i \in DOMAIN out'[t] : \A j \in DOMAIN out'[t] :
                        out'[t][j].part = "whole" <=> j = i
    BY DEF A
  <2>1. \E place \in {"stderr", NoFile} \cup Files : Appended(t, place, "whole")
    <3>1. Write(t) \/ Fallback(t)
      BY <1>1, Leaves DEF Call, TestEnabled, TestLevel, ResolveFile, OpenFile, Goto
    <3>2. path[t] \in {NoFile} \cup Files
      BY <1>1 DEF LInv, TypeInv
    <3> QED
      BY <1>1, <3>1, <3>2 DEF Write, Fallback, Goto, LInv, TypeInv
  <2>2. /\ out' \in [Threads -> Seq(Parts)]
        /\ Len(out'[t]) = Len(out[t]) + 1 /\ Len(out[t]) \in Nat
        /\ \A j \in 1 .. Len(out[t]) : out'[t][j] = out[t][j]
        /\ out'[t][Len(out[t]) + 1].part = "whole"
    BY <1>1, <2>1, AppendedPart
  <2>3. \A j \in 1 .. Len(out[t]) : out[t][j].part # "whole"
    BY <1>1 DEF LInv, OutInv
  <2>4. DOMAIN out'[t] = 1 .. Len(out[t]) + 1
    BY <2>2
  <2> QED
    <3>1. Len(out[t]) + 1 \in DOMAIN out'[t]
      BY <2>2, <2>4
    <3>2. ASSUME NEW j \in DOMAIN out'[t]
          PROVE  out'[t][j].part = "whole" <=> j = Len(out[t]) + 1
      BY <2>2, <2>3, <2>4
    <3> QED
      BY <3>1, <3>2
<1> QED
  BY <1>1, LoggerInvariance, PTL DEF Spec, EveryLineOut

\* A line is dropped only if some configuration in force during the call does
\* not permit it, although the tests read the two atomics one after the other
\* while connect() writes them one after the other.
THEOREM Logged == Spec => PermittedIsLogged
<1> DEFINE A == \A t \in Threads :
        pc[t] \in {"macro", "macroLevel", "log", "logLevel"} /\ pc'[t] = "idle" =>
          \E c \in seen[t] : ~Permits(c, level[t])
<1>1. ASSUME LInv, [Next]_vars PROVE [A]_vars
  <2> SUFFICES ASSUME NEW t \in Threads, pc[t] \in Tests, pc'[t] = "idle"
               PROVE  \E c \in seen[t] : ~Permits(c, level[t])
    BY DEF A, Tests
  <2>1. config \in seen[t] /\ asked \in seen[t]
    BY <1>1 DEF LInv, LevelInv
  <2>2. TestEnabled(t) \/ TestLevel(t)
    BY <1>1, Leaves DEF Call, ResolveFile, OpenFile, Write, Fallback, Goto, Tests
  <2>3. CASE TestEnabled(t)
    <3>1. ~loggingEnabled
      BY <1>1, <2>3 DEF TestEnabled, LInv, TypeInv, Then
    <3> QED
      BY <1>1, <2>1, <3>1 DEF LInv, LevelInv, Permits
  <2>4. CASE TestLevel(t)
    <3>1. ~(level[t] <= logLevel)
      BY <1>1, <2>4 DEF TestLevel, LInv, TypeInv, Then
    <3> QED
      BY <1>1, <2>1, <3>1 DEF LInv, LevelInv, Permits
  <2> QED
    BY <2>2, <2>3, <2>4
<1> QED
  BY <1>1, LoggerInvariance, PTL DEF Spec, PermittedIsLogged

-----------------------------------------------------------------------------
(* The URL: texts of any length whose parts are delimited as UrlsAssumption  *)
(* says.  The lemmas compute what each search of the code finds; nothing is  *)
(* assumed about the length of a part.                                       *)

\* The part of a URL in front of its path.
BeforePath(p) == p.scheme \o p.user \o <<"host">>

\* What find() and find_first_of() return: the first such token, or npos.
LEMMA Found ==
  ASSUME NEW s \in Text, NEW T, NEW from \in Nat \ {0}
  PROVE  LET f == Find(s, T, from)
         IN  \/ f = 0 /\ \A i \in from .. Len(s) : s[i] \notin T
             \/ f \in from .. Len(s) /\ s[f] \in T /\ \A i \in from .. f - 1 : s[i] \notin T
<1> DEFINE found == {i \in from .. Len(s) : s[i] \in T}
<1>1. CASE found = {}
  BY <1>1 DEF Find
<1>2. CASE found # {}
  <2>1. PICK x \in found : \A y \in found : ~(<<y, x>> \in OpToRel(<, Nat))
    <3>1. found \subseteq Nat
      BY DEF Text
    <3> QED
      BY <1>2, <3>1, WFMin, NatLessThanWellFounded
  <2>2. \A y \in found : x <= y
    <3> TAKE y \in found
    <3>0. x \in Nat /\ y \in Nat
      BY DEF Text
    <3>1. ~(y < x)
      BY <2>1, <3>0 DEF OpToRel
    <3> QED
      BY <3>0, <3>1
  <2>3. Min(found) \in found /\ \A y \in found : Min(found) <= y
    BY <2>2 DEF Min
  <2>4. Find(s, T, from) = Min(found)
    BY <1>2 DEF Find
  <2>5. Len(s) \in Nat
    BY DEF Text
  <2> DEFINE m == Min(found)
  <2> HIDE DEF m
  <2>6. m \in from .. Len(s) /\ s[m] \in T /\ \A y \in from .. Len(s) : s[y] \in T => m <= y
    BY <2>3 DEF m
  <2>7. \A i \in from .. m - 1 : s[i] \notin T
    BY <2>5, <2>6
  <2> QED
    BY <2>4, <2>6, <2>7 DEF m
<1> QED
  BY <1>1, <1>2

\* A token with none like it before it is the one that is found.
LEMMA FoundAt ==
  ASSUME NEW s \in Text, NEW T, NEW from \in Nat \ {0}, NEW k \in from .. Len(s), s[k] \in T,
         \A i \in from .. k - 1 : s[i] \notin T
  PROVE  Find(s, T, from) = k
<1> DEFINE f == Find(s, T, from)
<1>1. \/ f = 0 /\ \A i \in from .. Len(s) : s[i] \notin T
      \/ f \in from .. Len(s) /\ s[f] \in T /\ \A i \in from .. f - 1 : s[i] \notin T
  BY Found
<1> HIDE DEF f
<1>2. Len(s) \in Nat
  BY DEF Text
<1>3. f \in from .. Len(s) /\ s[f] \in T /\ \A i \in from .. f - 1 : s[i] \notin T
  BY <1>1
<1>4. ~(f < k) /\ ~(k < f)
  BY <1>2, <1>3
<1> QED
  BY <1>2, <1>3, <1>4 DEF f

\* Nothing is found where there is no such token.
LEMMA FoundNot ==
  ASSUME NEW s \in Text, NEW T, NEW from \in Nat \ {0}, \A i \in from .. Len(s) : s[i] \notin T
  PROVE  Find(s, T, from) = 0
BY Found DEF Text

\* The tokens of a URL with a given rest after the host.
LEMMA Tokens ==
  ASSUME NEW p, WellFormed(p), NEW x \in Text
  PROVE  LET c == Len(p.scheme)
             n == Len(BeforePath(p))
             s == BeforePath(p) \o x
         IN  /\ BeforePath(p) \in Text /\ s \in Text
             /\ c \in Nat /\ n \in Nat /\ n = c + Len(p.user) + 1 /\ Len(s) = n + Len(x)
             /\ \A i \in 1 .. c : s[i] = p.scheme[i]
             /\ \A i \in c + 1 .. n - 1 : s[i] = p.user[i - c]
             /\ s[n] = "host"
             /\ \A i \in n + 1 .. n + Len(x) : s[i] = x[i - n]
<1> DEFINE a == p.scheme
           b == p.user
<1>1. a \in Text /\ b \in Text /\ <<"host">> \in Text /\ Len(<<"host">>) = 1 /\ <<"host">>[1] = "host"
  <2>1. a \in Text /\ b \in Text
    BY DEF WellFormed, Text
  <2>3. <<"host">> \in Text
    BY DEF Token, Text
  <2> QED
    BY <2>1, <2>3
<1> HIDE DEF a, b
<1>2. a \o b \in Text /\ Len(a \o b) = Len(a) + Len(b)
      /\ \A i \in 1 .. Len(a) + Len(b) : (a \o b)[i] = IF i <= Len(a) THEN a[i] ELSE b[i - Len(a)]
  BY <1>1, ConcatProperties DEF Text
<1> DEFINE ab == a \o b
           h == <<"host">>
           F == ab \o h
<1> HIDE DEF ab, h
<1>3. F \in Text /\ Len(F) = Len(ab) + 1
      /\ \A i \in 1 .. Len(ab) + 1 : F[i] = IF i <= Len(ab) THEN ab[i] ELSE h[i - Len(ab)]
  BY <1>1, <1>2, ConcatProperties DEF Text, ab, h
<1> HIDE DEF F
<1>4. F \o x \in Text /\ Len(F \o x) = Len(F) + Len(x)
      /\ \A i \in 1 .. Len(F) + Len(x) : (F \o x)[i] = IF i <= Len(F) THEN F[i] ELSE x[i - Len(F)]
  <2>1. F \in Seq(Token) /\ x \in Seq(Token)
    BY <1>3 DEF Text
  <2> QED
    BY <2>1, ConcatProperties DEF Text
<1>5. Len(a) \in Nat /\ Len(b) \in Nat /\ Len(x) \in Nat
  BY <1>1 DEF Text
<1>6. BeforePath(p) = F
  BY DEF F, ab, h, a, b, BeforePath
<1>7. \A i \in 1 .. Len(a) : (F \o x)[i] = a[i]
  BY <1>2, <1>3, <1>4, <1>5 DEF ab
<1>8. \A i \in Len(a) + 1 .. Len(F) - 1 : (F \o x)[i] = b[i - Len(a)]
  BY <1>2, <1>3, <1>4, <1>5 DEF ab
<1>9. (F \o x)[Len(F)] = "host"
  BY <1>1, <1>2, <1>3, <1>4, <1>5 DEF ab, h
<1>10. \A i \in Len(F) + 1 .. Len(F) + Len(x) : (F \o x)[i] = x[i - Len(F)]
  BY <1>3, <1>4, <1>5
<1>11. Len(F) \in Nat /\ Len(F) = Len(a) + Len(b) + 1
  BY <1>2, <1>3, <1>5 DEF ab
<1> QED
  BY <1>3, <1>4, <1>5, <1>6, <1>7, <1>8, <1>9, <1>10, <1>11 DEF a, b

\* The host, with the user in front of it, starts behind the scheme.
LEMMA AtHost ==
  ASSUME NEW p, WellFormed(p), NEW x \in Text, p.scheme = <<>> => Avoids(x, {"://"})
  PROVE  HostStart(BeforePath(p) \o x) = Len(p.scheme) + 1
<1> DEFINE s == BeforePath(p) \o x
           c == Len(p.scheme)
           n == Len(BeforePath(p))
           T == {"://"}
<1>1. /\ s \in Text
      /\ c \in Nat /\ n \in Nat /\ n = c + Len(p.user) + 1 /\ Len(s) = n + Len(x)
  BY Tokens
<1>2. /\ \A i \in 1 .. c : s[i] = p.scheme[i]
      /\ s[n] = "host"
      /\ \A i \in n + 1 .. n + Len(x) : s[i] = x[i - n]
  BY Tokens
<1>3. p.scheme \in Text /\ p.user \in Text /\ Len(x) \in Nat /\ Len(p.user) \in Nat
  BY DEF WellFormed, Text
<1>4. HostStart(s) = Find(s, T, 1) + 1
  BY DEF HostStart
<1>5. "://" \in T /\ \A y : y # "://" => y \notin T
  OBVIOUS
<1> HIDE DEF s, n, c, T
<1>6. CASE p.scheme = <<>>
  <2>1. p.user = <<>> /\ c = 0 /\ n = 1
    BY <1>1, <1>6 DEF WellFormed, c
  <2>2. ASSUME NEW i \in 1 .. Len(s) PROVE s[i] \notin T
    <3>1. CASE i = 1
      BY <1>2, <1>5, <2>1, <3>1
    <3>2. CASE i # 1
      <4>1. i \in n + 1 .. n + Len(x) /\ i - n \in 1 .. Len(x)
        BY <1>1, <1>3, <2>1, <2>2, <3>2
      <4>2. s[i] = x[i - n]
        BY <1>2, <4>1
      <4>3. x[i - n] # "://"
        BY <1>6, <4>1 DEF Avoids
      <4> QED
        BY <1>5, <4>2, <4>3
    <3> QED
      BY <3>1, <3>2
  <2>3. Find(s, T, 1) = 0
    BY <1>1, <2>2, FoundNot
  <2> QED
    BY <1>4, <2>1, <2>3 DEF s, c
<1>7. CASE p.scheme # <<>>
  <2>1. c \in 1 .. Len(s)
    <3>1. c # 0
      BY <1>3, <1>7 DEF Text, c
    <3> QED
      BY <1>1, <1>3, <3>1
  <2>2. p.scheme[c] = "://" /\ \A i \in 1 .. c - 1 : p.scheme[i] # "://"
    BY <1>7 DEF WellFormed, EndsWith, Delimiters, c
  <2>3. s[c] \in T /\ \A i \in 1 .. c - 1 : s[i] \notin T
    BY <1>1, <1>2, <1>5, <2>1, <2>2
  <2>4. Find(s, T, 1) = c
    BY <1>1, <2>1, <2>3, FoundAt
  <2> QED
    BY <1>4, <2>4 DEF s, c
<1> QED
  BY <1>6, <1>7

\* A token of the user's part is text or the '@' at its end.
LEMMA UserTokens ==
  ASSUME NEW p, WellFormed(p), NEW i \in 1 .. Len(p.user)
  PROVE  /\ i < Len(p.user) => p.user[i] \notin Delimiters
         /\ i = Len(p.user) => p.user[i] = "@"
<1>1. p.user \in Text /\ p.user # <<>>
  BY DEF WellFormed, Text
<1>2. p.user[Len(p.user)] = "@" /\ \A j \in 1 .. Len(p.user) - 1 : p.user[j] \notin Delimiters
  BY <1>1 DEF WellFormed, EndsWith
<1>3. Len(p.user) \in Nat
  BY <1>1 DEF Text
<1> QED
  BY <1>2, <1>3

\* Nothing between scheme and path is taken for the beginning of a later part.
LEMMA FoundBehind ==
  ASSUME NEW p, WellFormed(p), NEW x \in Text, NEW T \in SUBSET (Slashes \cup {"?", "#"})
  PROVE  LET f == Find(x, T, 1)
         IN  Find(BeforePath(p) \o x, T, Len(p.scheme) + 1) = IF f = 0 THEN 0 ELSE Len(BeforePath(p)) + f
<1> DEFINE s == BeforePath(p) \o x
           c == Len(p.scheme)
           n == Len(BeforePath(p))
           f == Find(x, T, 1)
<1>1. /\ s \in Text
      /\ c \in Nat /\ n \in Nat /\ n = c + Len(p.user) + 1 /\ Len(s) = n + Len(x)
  BY Tokens
<1>2. /\ \A i \in c + 1 .. n - 1 : s[i] = p.user[i - c]
      /\ s[n] = "host"
      /\ \A i \in n + 1 .. n + Len(x) : s[i] = x[i - n]
  BY Tokens
<1>3. Len(x) \in Nat /\ Len(p.user) \in Nat
  BY DEF WellFormed, Text
<1>4. \/ f = 0 /\ \A i \in 1 .. Len(x) : x[i] \notin T
      \/ f \in 1 .. Len(x) /\ x[f] \in T /\ \A i \in 1 .. f - 1 : x[i] \notin T
  BY Found
<1>5. \A y : y = "host" \/ y = "@" \/ y \notin Delimiters => y \notin T
  BY DEF Delimiters, Slashes
<1> HIDE DEF s, n, c, f
<1>6. ASSUME NEW i \in c + 1 .. n PROVE s[i] \notin T
  <2>1. CASE i = n
    BY <1>2, <1>5, <2>1
  <2>2. CASE i # n
    <3>1. i \in c + 1 .. n - 1 /\ i - c \in 1 .. Len(p.user)
      BY <1>1, <1>3, <1>6, <2>2
    <3>2. s[i] = p.user[i - c]
      BY <1>2, <3>1
    <3>3. p.user[i - c] = "@" \/ p.user[i - c] \notin Delimiters
      BY <1>3, <3>1, UserTokens
    <3> QED
      BY <1>5, <3>2, <3>3
  <2> QED
    BY <2>1, <2>2
<1>7. CASE f = 0
  <2>1. ASSUME NEW i \in c + 1 .. Len(s) PROVE s[i] \notin T
    <3>1. CASE i <= n
      BY <1>1, <1>6, <2>1, <3>1
    <3>2. CASE i > n
      <4>1. i \in Int /\ i <= n + Len(x)
        BY <1>1, <1>3, <2>1
      <4>2. i \in n + 1 .. n + Len(x) /\ i - n \in 1 .. Len(x)
        <5>1. n \in Nat
          BY <1>1
        <5> QED
          BY <1>3, <3>2, <4>1, <5>1
      <4>3. s[i] = x[i - n]
        BY <1>2, <4>2
      <4>4. \A j \in 1 .. Len(x) : x[j] \notin T
        BY <1>4, <1>7
      <4> QED
        BY <4>2, <4>3, <4>4
    <3> QED
      BY <1>1, <2>1, <3>1, <3>2
  <2>2. c + 1 \in Nat \ {0}
    BY <1>1
  <2>3. Find(s, T, c + 1) = 0
    BY <1>1, <2>1, <2>2, FoundNot
  <2> QED
    BY <1>7, <2>3 DEF s, c, f
<1>8. CASE f # 0
  <2>1. f \in 1 .. Len(x) /\ x[f] \in T /\ \A i \in 1 .. f - 1 : x[i] \notin T
    BY <1>4, <1>8
  <2>2. n + f \in c + 1 .. Len(s) /\ n + f \in n + 1 .. n + Len(x) /\ (n + f) - n = f
    BY <1>1, <1>3, <2>1
  <2>3. s[n + f] \in T
    BY <1>2, <2>1, <2>2
  <2>4. ASSUME NEW i \in c + 1 .. (n + f) - 1 PROVE s[i] \notin T
    <3>1. CASE i <= n
      BY <1>1, <1>6, <2>4, <3>1
    <3>2. CASE i > n
      <4>1. i \in n + 1 .. n + Len(x) /\ i - n \in 1 .. f - 1
        BY <1>1, <1>3, <2>1, <2>4, <3>2
      <4> QED
        BY <1>2, <2>1, <4>1
    <3> QED
      BY <1>1, <2>4, <3>1, <3>2
  <2>5. c + 1 \in Nat \ {0}
    BY <1>1
  <2> DEFINE k == n + f
             from == c + 1
  <2>6. k \in from .. Len(s) /\ s[k] \in T /\ \A i \in from .. k - 1 : s[i] \notin T
    <3>1. k \in from .. Len(s) /\ s[k] \in T
      BY <2>2, <2>3
    <3> QED
      BY <2>4, <3>1
  <2>7. from \in Nat \ {0}
    BY <2>5
  <2> HIDE DEF k, from
  <2>8. Find(s, T, from) = k
    BY <1>1, <2>6, <2>7, FoundAt
  <2> QED
    BY <1>8, <2>8 DEF s, c, f, n, k, from
<1> QED
  BY <1>7, <1>8

-----------------------------------------------------------------------------
\* What is behind the host, with a '/' ...
Inserted(x) ==
  IF Find(x, Slashes, 1) # 0 THEN x
  ELSE IF Find(x, {"?"}, 1) = 0 THEN Append(x, "/") ELSE InsertAt(x, Find(x, {"?"}, 1), "/")

\* ... and with the RPCv2 argument.
Separator(x) == IF Find(x, {"?"}, 1) = 0 THEN "?" ELSE "&"
Completed(x, legacy) ==
  IF legacy THEN Inserted(x) ELSE Inserted(x) \o <<Separator(Inserted(x)), "RPCv2">>

\* The tokens of a text with one more in it.
LEMMA InsertedToken ==
  ASSUME NEW s \in Text, NEW q \in 1 .. Len(s)
  PROVE  LET t == InsertAt(s, q, "/")
         IN  /\ t \in Text /\ Len(t) = Len(s) + 1
             /\ \A i \in 1 .. q - 1 : t[i] = s[i]
             /\ t[q] = "/"
             /\ \A i \in q + 1 .. Len(s) + 1 : t[i] = s[i - 1]
<1> DEFINE a == SubSeq(s, 1, q - 1)
           h == <<"/">>
           b == SubSeq(s, q, Len(s))
<1>0. s \in Seq(Token) /\ Len(s) \in Nat /\ q \in Nat
  BY DEF Text
<1>1. a \in Seq(Token) /\ Len(a) = q - 1 /\ \A i \in 1 .. q - 1 : a[i] = s[i]
  <2>1. \A i \in 1 .. q - 1 : s[i] \in Token
    BY <1>0
  <2> QED
    BY <1>0, <2>1, SubSeqProperties
<1>2. b \in Seq(Token) /\ Len(b) = Len(s) - q + 1 /\ \A i \in 1 .. Len(s) - q + 1 : b[i] = s[q + i - 1]
  <2>1. \A i \in q .. Len(s) : s[i] \in Token
    BY <1>0
  <2> QED
    BY <1>0, <2>1, SubSeqProperties
<1>3. h \in Seq(Token) /\ Len(h) = 1 /\ h[1] = "/"
  BY DEF Token, Delimiters
<1> HIDE DEF a, h, b
<1>4. a \o h \in Seq(Token) /\ Len(a \o h) = q
      /\ \A i \in 1 .. q : (a \o h)[i] = IF i <= q - 1 THEN a[i] ELSE h[i - (q - 1)]
  <2>1. Len(a) + Len(h) = q
    BY <1>0, <1>1, <1>3
  <2>2. a \o h \in Seq(Token) /\ Len(a \o h) = Len(a) + Len(h)
        /\ \A i \in 1 .. Len(a) + Len(h) : (a \o h)[i] = IF i <= Len(a) THEN a[i] ELSE h[i - Len(a)]
    BY <1>1, <1>3, ConcatProperties
  <2> QED
    BY <1>1, <2>1, <2>2
<1> DEFINE ah == a \o h
<1>5. (\A i \in 1 .. q - 1 : ah[i] = s[i]) /\ ah[q] = "/"
  BY <1>0, <1>1, <1>3, <1>4
<1>6. ah \in Seq(Token) /\ Len(ah) = q
  BY <1>4
<1> HIDE DEF ah
<1>7. /\ ah \o b \in Seq(Token) /\ Len(ah \o b) = Len(s) + 1
      /\ \A i \in 1 .. Len(s) + 1 : (ah \o b)[i] = IF i <= q THEN ah[i] ELSE b[i - q]
  <2>1. Len(ah) + Len(b) = Len(s) + 1
    BY <1>0, <1>2, <1>6
  <2>2. ah \o b \in Seq(Token) /\ Len(ah \o b) = Len(ah) + Len(b)
        /\ \A i \in 1 .. Len(ah) + Len(b) : (ah \o b)[i] = IF i <= Len(ah) THEN ah[i] ELSE b[i - Len(ah)]
    BY <1>2, <1>6, ConcatProperties
  <2> QED
    BY <1>6, <2>1, <2>2
<1>8. InsertAt(s, q, "/") = ah \o b
  BY DEF InsertAt, ah, a, h, b
<1>9. /\ \A i \in 1 .. q - 1 : (ah \o b)[i] = s[i]
      /\ (ah \o b)[q] = "/"
  BY <1>0, <1>5, <1>7
<1>10. ASSUME NEW i \in q + 1 .. Len(s) + 1 PROVE (ah \o b)[i] = s[i - 1]
  <2>1. i - q \in 1 .. Len(s) - q + 1 /\ q + (i - q) - 1 = i - 1 /\ i \in 1 .. Len(s) + 1 /\ ~(i <= q)
    BY <1>0, <1>10
  <2>2. (ah \o b)[i] = b[i - q]
    BY <1>7, <2>1
  <2>3. b[i - q] = s[q + (i - q) - 1]
    BY <1>2, <2>1
  <2> QED
    BY <2>1, <2>2, <2>3
<1> QED
  BY <1>7, <1>8, <1>9, <1>10 DEF Text

\* Inserting behind a prefix is inserting in the whole.
LEMMA Spliced ==
  ASSUME NEW F \in Text, NEW x \in Text, NEW q \in 1 .. Len(x)
  PROVE  InsertAt(F \o x, Len(F) + q, "/") = F \o InsertAt(x, q, "/")
<1> DEFINE n == Len(F)
           s == F \o x
           y == InsertAt(x, q, "/")
           t == F \o y
           m == n + q
           z == InsertAt(s, m, "/")
<1>1. /\ y \in Text /\ Len(y) = Len(x) + 1
      /\ \A i \in 1 .. q - 1 : y[i] = x[i]
      /\ y[q] = "/"
      /\ \A i \in q + 1 .. Len(x) + 1 : y[i] = x[i - 1]
  BY InsertedToken
<1>2. s \in Text /\ m \in 1 .. Len(s)
  <2>1. s \in Text /\ Len(s) = n + Len(x)
    BY ConcatProperties DEF Text
  <2>2. n \in Nat /\ Len(x) \in Nat
    BY DEF Text
  <2> QED
    BY <2>1, <2>2
<1> HIDE DEF m, s
<1>3. /\ z \in Text /\ Len(z) = Len(s) + 1
      /\ \A i \in 1 .. m - 1 : z[i] = s[i]
      /\ z[m] = "/"
      /\ \A i \in m + 1 .. Len(s) + 1 : z[i] = s[i - 1]
  BY <1>2, InsertedToken
<1> HIDE DEF y, z
<1>4. F \in Seq(Token) /\ x \in Seq(Token) /\ y \in Seq(Token) /\ z \in Seq(Token)
  BY <1>1, <1>3 DEF Text
<1>5. n \in Nat /\ Len(x) \in Nat /\ q \in Nat /\ 1 <= q /\ q <= Len(x)
  BY <1>4
<1>6. Len(s) = n + Len(x) /\ \A i \in 1 .. n + Len(x) : s[i] = IF i <= n THEN F[i] ELSE x[i - n]
  BY <1>4, ConcatProperties DEF s
<1>7. t \in Seq(Token) /\ Len(t) = n + Len(y)
      /\ \A i \in 1 .. n + Len(y) : t[i] = IF i <= n THEN F[i] ELSE y[i - n]
  BY <1>4, ConcatProperties
<1>8. \A i \in 1 .. (n + q) - 1 : z[i] = s[i]
  BY <1>3, Zenon DEF m
<1>9. \A i \in (n + q) + 1 .. Len(s) + 1 : z[i] = s[i - 1]
  BY <1>3, Zenon DEF m
<1>10. z[n + q] = "/"
  BY <1>3 DEF m
<1>11. Len(z) = Len(t) /\ Len(z) = n + Len(x) + 1
  BY <1>5, <1>6, <1>7, <1>1, <1>3
<1> HIDE DEF n, t
<1>12. ASSUME NEW i \in 1 .. Len(z) PROVE z[i] = t[i]
  <2>0. i \in 1 .. n + Len(y) /\ i \in Nat
    BY <1>5, <1>7, <1>11
  <2>1. CASE i <= n
    <3>1. i \in 1 .. (n + q) - 1 /\ i \in 1 .. n + Len(x)
      BY <1>5, <2>0, <2>1
    <3> QED
      BY <1>6, <1>7, <1>8, <2>0, <2>1, <3>1
  <2>2. CASE i > n /\ i < n + q
    <3>1. i \in 1 .. (n + q) - 1 /\ i \in 1 .. n + Len(x) /\ i - n \in 1 .. q - 1 /\ ~(i <= n)
      BY <1>5, <2>0, <2>2
    <3>2. z[i] = x[i - n]
      BY <1>6, <1>8, <3>1
    <3>3. t[i] = y[i - n]
      BY <1>7, <2>0, <3>1
    <3> QED
      BY <1>1, <3>1, <3>2, <3>3
  <2>3. CASE i = n + q
    <3>1. i - n = q /\ ~(i <= n)
      BY <1>5, <2>3
    <3>2. t[i] = y[q]
      BY <1>7, <2>0, <3>1
    <3> QED
      BY <1>10, <1>1, <2>3, <3>2
  <2>4. CASE i > n + q
    <3>1. i <= n + Len(x) + 1
      BY <1>11, <1>12
    <3>2. /\ i \in (n + q) + 1 .. Len(s) + 1 /\ i - 1 \in 1 .. n + Len(x) /\ ~(i <= n) /\ ~(i - 1 <= n)
          /\ i - n \in q + 1 .. Len(x) + 1 /\ (i - n) - 1 = (i - 1) - n
      BY <1>5, <1>6, <2>0, <2>4, <3>1
    <3>3. z[i] = x[(i - 1) - n]
      BY <1>6, <1>9, <3>2
    <3>4. t[i] = y[i - n]
      BY <1>7, <2>0, <3>2
    <3>5. y[i - n] = x[(i - n) - 1]
      BY <1>1, <3>2
    <3> QED
      BY <3>2, <3>3, <3>4, <3>5
  <2> QED
    BY <1>5, <2>0, <2>1, <2>2, <2>3, <2>4
<1>13. z = t
  BY <1>4, <1>7, <1>11, <1>12, SeqEqual
<1> QED
  BY <1>13 DEF t, z, y, s, m, n

\* A '/' is inserted behind the host, and the argument added behind that.
LEMMA PathInserted ==
  ASSUME NEW p, WellFormed(p), NEW x \in Text, p.scheme = <<>> => Avoids(x, {"://"})
  PROVE  /\ Inserted(x) \in Text
         /\ WithPath(BeforePath(p) \o x) = BeforePath(p) \o Inserted(x)
<1> DEFINE F == BeforePath(p)
           s == F \o x
           n == Len(F)
           slash == Find(x, Slashes, 1)
           q == Find(x, {"?"}, 1)
           h == <<"/">>
<1>1. /\ F \in Text /\ s \in Text /\ n \in Nat /\ Len(s) = n + Len(x) /\ Len(x) \in Nat
  <2>1. Len(x) \in Nat
    BY DEF Text
  <2> QED
    BY <2>1, Tokens
<1>2. HostStart(s) = Len(p.scheme) + 1
  BY AtHost
<1>3. Find(s, Slashes, HostStart(s)) = IF slash = 0 THEN 0 ELSE n + slash
  <2> DEFINE T == Slashes
  <2>1. T \in SUBSET (Slashes \cup {"?", "#"})
    OBVIOUS
  <2> HIDE DEF T
  <2>2. Find(s, T, HostStart(s)) = IF Find(x, T, 1) = 0 THEN 0 ELSE n + Find(x, T, 1)
    BY <1>2, <2>1, FoundBehind
  <2> QED
    BY <2>2 DEF T
<1>4. Find(s, {"?"}, HostStart(s)) = IF q = 0 THEN 0 ELSE n + q
  <2> DEFINE T == {"?"}
  <2>1. T \in SUBSET (Slashes \cup {"?", "#"})
    OBVIOUS
  <2> HIDE DEF T
  <2>2. Find(s, T, HostStart(s)) = IF Find(x, T, 1) = 0 THEN 0 ELSE n + Find(x, T, 1)
    BY <1>2, <2>1, FoundBehind
  <2> QED
    BY <2>2 DEF T
<1>5. slash \in 0 .. Len(x) /\ q \in 0 .. Len(x)
  <2> DEFINE T == Slashes
             U == {"?"}
  <2> HIDE DEF T, U
  <2>1. Find(x, T, 1) \in 0 .. Len(x) /\ Find(x, U, 1) \in 0 .. Len(x)
    BY <1>1, Found
  <2> QED
    BY <2>1 DEF T, U
<1> HIDE DEF slash, q
<1>6. CASE slash # 0
  <2>1. Inserted(x) = x
    BY <1>6 DEF Inserted, slash
  <2>2. WithPath(s) = s
    BY <1>1, <1>3, <1>5, <1>6 DEF WithPath
  <2> QED
    BY <2>1, <2>2
<1>7. CASE slash = 0 /\ q = 0
  <2>1. Inserted(x) = Append(x, "/")
    BY <1>7 DEF Inserted, slash, q
  <2>2. WithPath(s) = Append(s, "/")
    BY <1>1, <1>3, <1>4, <1>5, <1>7 DEF WithPath
  <2>3. "/" \in Token
    BY DEF Token, Delimiters
  <2>4. F \in Seq(Token) /\ x \in Seq(Token) /\ s \in Seq(Token) /\ "/" \in Token
    BY <1>1, <2>3 DEF Text
  <2> HIDE DEF F
  <2>5. h \in Seq(Token)
    BY <2>4
  <2>6. Append(x, "/") = x \o h /\ Append(s, "/") = s \o h /\ x \o h \in Seq(Token)
    BY <2>4, <2>5, AppendIsConcat, ConcatProperties
  <2>7. s \o h = F \o (x \o h)
    BY <2>4, <2>5, ConcatAssociative
  <2>8. Inserted(x) \in Text
    BY <2>1, <2>6 DEF Text
  <2> QED
    BY <2>1, <2>2, <2>6, <2>7, <2>8 DEF F
<1>8. CASE slash = 0 /\ q # 0
  <2>1. Inserted(x) = InsertAt(x, q, "/")
    BY <1>8 DEF Inserted, slash, q
  <2>2. WithPath(s) = InsertAt(s, n + q, "/")
    BY <1>1, <1>3, <1>4, <1>5, <1>8 DEF WithPath
  <2>3. q \in 1 .. Len(x)
    BY <1>1, <1>5, <1>8
  <2>4. InsertAt(x, q, "/") \in Text
    BY <2>3, InsertedToken
  <2> HIDE DEF F
  <2>5. InsertAt(s, n + q, "/") = F \o InsertAt(x, q, "/")
    BY <1>1, <2>3, Spliced
  <2> QED
    BY <2>1, <2>2, <2>4, <2>5 DEF F
<1> QED
  BY <1>6, <1>7, <1>8

\* Neither adds a "://".
LEMMA InsertedAvoids ==
  ASSUME NEW x \in Text, Avoids(x, {"://"})
  PROVE  Avoids(Inserted(x), {"://"})
<1> DEFINE slash == Find(x, Slashes, 1)
           q == Find(x, {"?"}, 1)
<1>1. q \in 0 .. Len(x) /\ Len(x) \in Nat
  <2> DEFINE U == {"?"}
  <2> HIDE DEF U
  <2>1. Find(x, U, 1) \in 0 .. Len(x) /\ Len(x) \in Nat
    BY Found DEF Text
  <2> QED
    BY <2>1 DEF U
<1>2. \A i \in 1 .. Len(x) : x[i] # "://"
  BY DEF Avoids
<1> HIDE DEF slash, q
<1>3. CASE slash # 0
  BY <1>3 DEF Inserted, slash
<1>4. CASE slash = 0 /\ q = 0
  <2>1. Inserted(x) = Append(x, "/")
    BY <1>4 DEF Inserted, slash, q
  <2>2. /\ Len(Append(x, "/")) = Len(x) + 1 /\ Append(x, "/")[Len(x) + 1] = "/"
        /\ \A i \in 1 .. Len(x) : Append(x, "/")[i] = x[i]
    <3>1. x \in Seq(Token)
      BY DEF Text
    <3> QED
      BY <3>1
  <2>3. \A i \in 1 .. Len(x) + 1 : Append(x, "/")[i] # "://"
    BY <1>1, <1>2, <2>2
  <2> QED
    BY <2>1, <2>2, <2>3 DEF Avoids
<1>5. CASE slash = 0 /\ q # 0
  <2> DEFINE y == InsertAt(x, q, "/")
  <2>1. Inserted(x) = y
    BY <1>5 DEF Inserted, slash, q
  <2>2. q \in 1 .. Len(x)
    BY <1>1, <1>5
  <2>3. /\ Len(y) = Len(x) + 1
        /\ \A i \in 1 .. q - 1 : y[i] = x[i]
        /\ y[q] = "/"
        /\ \A i \in q + 1 .. Len(x) + 1 : y[i] = x[i - 1]
    BY <2>2, InsertedToken
  <2> HIDE DEF y
  <2>4. ASSUME NEW i \in 1 .. Len(x) + 1 PROVE y[i] # "://"
    <3>1. CASE i < q
      <4>1. i \in 1 .. q - 1 /\ i \in 1 .. Len(x)
        BY <2>2, <2>4, <3>1
      <4> QED
        BY <1>2, <2>3, <4>1
    <3>2. CASE i = q
      BY <2>3, <3>2
    <3>3. CASE i > q
      <4>1. i \in q + 1 .. Len(x) + 1 /\ i - 1 \in 1 .. Len(x)
        BY <2>2, <2>4, <3>3
      <4> QED
        BY <1>2, <2>3, <4>1
    <3> QED
      BY <2>2, <2>4, <3>1, <3>2, <3>3
  <2> QED
    BY <2>1, <2>3, <2>4 DEF Avoids
<1> QED
  BY <1>3, <1>4, <1>5

\* buildGatewayUrl() changes what is behind the host, and nothing before it.
LEMMA BuiltBehind ==
  ASSUME NEW p, WellFormed(p), NEW x \in Text, p.scheme = <<>> => Avoids(x, {"://"}),
         NEW legacy \in BOOLEAN
  PROVE  /\ Completed(x, legacy) \in Text
         /\ BuildGatewayUrl(BeforePath(p) \o x, legacy) = BeforePath(p) \o Completed(x, legacy)
<1> DEFINE F == BeforePath(p)
           y == Inserted(x)
           v == <<Separator(y), "RPCv2">>
           u == F \o y
<1>1. y \in Text /\ WithPath(F \o x) = u
  BY PathInserted
<1>2. p.scheme = <<>> => Avoids(y, {"://"})
  BY InsertedAvoids
<1> HIDE DEF y
<1>3. HostStart(u) = Len(p.scheme) + 1
  BY <1>1, <1>2, AtHost
<1>4. Find(u, {"?"}, HostStart(u)) = 0 <=> Find(y, {"?"}, 1) = 0
  <2> DEFINE T == {"?"}
  <2>1. T \in SUBSET (Slashes \cup {"?", "#"})
    OBVIOUS
  <2> HIDE DEF T
  <2>2. Find(u, T, HostStart(u)) = IF Find(y, T, 1) = 0 THEN 0 ELSE Len(F) + Find(y, T, 1)
    BY <1>1, <1>3, <2>1, FoundBehind
  <2>3. Len(F) \in Nat
    BY <1>1, Tokens
  <2>4. Find(y, T, 1) \in Nat
    <3>1. Len(y) \in Nat
      BY <1>1 DEF Text
    <3> QED
      BY <1>1, <3>1, Found
  <2>5. Find(u, T, HostStart(u)) = 0 <=> Find(y, T, 1) = 0
    BY <2>2, <2>3, <2>4
  <2> QED
    BY <2>5 DEF T
<1>5. F \in Seq(Token) /\ y \in Seq(Token)
  BY <1>1, Tokens DEF Text
<1>6. v \in Seq(Token)
  BY DEF Token, Separator, Delimiters
<1>7. BuildGatewayUrl(F \o x, legacy) = IF legacy THEN u ELSE u \o v
  BY <1>1, <1>4 DEF BuildGatewayUrl, Separator
<1>8. Completed(x, legacy) = IF legacy THEN y ELSE y \o v
  BY DEF Completed, y
<1> HIDE DEF F, v
<1>9. y \o v \in Seq(Token) /\ u \o v = F \o (y \o v)
  BY <1>5, <1>6, ConcatProperties, ConcatAssociative
<1>10. Completed(x, legacy) \in Seq(Token)
  BY <1>5, <1>8, <1>9
<1> QED
  BY <1>7, <1>8, <1>9, <1>10 DEF F, Text

-----------------------------------------------------------------------------
\* The part of a URL behind its path.
AfterPath(p) == p.query \o p.fragment

\* A path and what may follow it.
IsPath(a) == a \in Text /\ StartsWith(a, "/") /\ Avoids(a, {"?", "#"})
IsTail(b) == b \in Text /\ (b # <<>> => b[1] \in {"?", "#"})

\* The text is a path, or the '/' that stands for none, and a tail.
Splits(y, way) ==
  \E a, b \in Text : /\ y = a \o b
                     /\ a = way \/ (way = <<>> /\ a = <<"/">>)
                     /\ IsTail(b)

\* A text that is not empty has a first token, and concatenation keeps it.
LEMMA FirstToken ==
  ASSUME NEW a \in Text, NEW b \in Text, a # <<>>
  PROVE  /\ a \o b \in Text /\ Len(a) \in Nat \ {0} /\ Len(b) \in Nat
         /\ Len(a \o b) = Len(a) + Len(b) /\ 1 \in 1 .. Len(a \o b)
         /\ a \o b # <<>> /\ (a \o b)[1] = a[1]
<1>1. a \in Seq(Token) /\ b \in Seq(Token)
  BY DEF Text
<1>2. Len(a) \in Nat \ {0} /\ Len(b) \in Nat
  BY <1>1
<1>3. /\ a \o b \in Seq(Token) /\ Len(a \o b) = Len(a) + Len(b)
      /\ \A i \in 1 .. Len(a) + Len(b) : (a \o b)[i] = IF i <= Len(a) THEN a[i] ELSE b[i - Len(a)]
  BY <1>1, ConcatProperties
<1>4. 1 \in 1 .. Len(a) + Len(b) /\ 1 <= Len(a)
  BY <1>2
<1>5. a \o b # <<>>
  BY <1>2, <1>3
<1> QED
  BY <1>2, <1>3, <1>4, <1>5 DEF Text

\* Tokens that neither of two texts has.
LEMMA AvoidsBoth ==
  ASSUME NEW a \in Text, NEW b \in Text, NEW T, Avoids(a, T), Avoids(b, T)
  PROVE  Avoids(a \o b, T)
<1>1. a \in Seq(Token) /\ b \in Seq(Token)
  BY DEF Text
<1>2. Len(a) \in Nat /\ Len(b) \in Nat
  BY <1>1
<1>3. /\ Len(a \o b) = Len(a) + Len(b)
      /\ \A i \in 1 .. Len(a) + Len(b) : (a \o b)[i] = IF i <= Len(a) THEN a[i] ELSE b[i - Len(a)]
  BY <1>1, ConcatProperties
<1>4. ASSUME NEW i \in 1 .. Len(a) + Len(b) PROVE (a \o b)[i] \notin T
  <2>1. CASE i <= Len(a)
    <3>1. i \in 1 .. Len(a) /\ (a \o b)[i] = a[i]
      BY <1>2, <1>3, <1>4, <2>1
    <3> QED
      BY <3>1 DEF Avoids
  <2>2. CASE ~(i <= Len(a))
    <3>1. i - Len(a) \in 1 .. Len(b) /\ (a \o b)[i] = b[i - Len(a)]
      BY <1>2, <1>3, <1>4, <2>2
    <3> QED
      BY <3>1 DEF Avoids
  <2> QED
    BY <2>1, <2>2
<1> QED
  BY <1>3, <1>4 DEF Avoids

\* Inserting in front.
LEMMA Prefixed ==
  ASSUME NEW t \in Text
  PROVE  InsertAt(t, 1, "/") = <<"/">> \o t
<1>1. t \in Seq(Token) /\ <<"/">> \in Seq(Token)
  BY DEF Token, Text, Delimiters
<1>2. SubSeq(t, 1, 1 - 1) = <<>> /\ SubSeq(t, 1, Len(t)) = t
  BY <1>1, SubSeqEmpty, SubSeqFull
<1>3. <<>> \o <<"/">> = <<"/">>
  BY <1>1, ConcatEmptySeq
<1> QED
  BY <1>2, <1>3 DEF InsertAt

\* An empty part leaves no trace.
LEMMA ConcatNothing ==
  ASSUME NEW a \in Text
  PROVE  a \o <<>> = a /\ <<>> \o a = a /\ <<>> \in Text
BY ConcatEmptySeq DEF Text

\* A first token is found first.
LEMMA FoundFirst ==
  ASSUME NEW s \in Text, s # <<>>, NEW T, s[1] \in T
  PROVE  Find(s, T, 1) = 1
<1>1. 1 \in 1 .. Len(s)
  BY DEF Text
<1>2. \A i \in 1 .. 1 - 1 : s[i] \notin T
  OBVIOUS
<1> QED
  BY <1>1, <1>2, FoundAt

\* Nothing is found in an empty text.
LEMMA FoundInNothing == ASSUME NEW T PROVE Find(<<>>, T, 1) = 0
<1>1. <<>> \in Text /\ \A i \in 1 .. Len(<<>>) : <<>>[i] \notin T
  BY DEF Text
<1> QED
  BY <1>1, FoundNot

\* The parts of a URL that follow the host.
LEMMA PartsBehind ==
  ASSUME NEW p, WellFormed(p)
  PROVE  /\ p.scheme \in Text /\ IsPath(p.path) /\ IsTail(AfterPath(p))
         /\ p.path \o AfterPath(p) \in Text
         /\ Assembled(p) = BeforePath(p) \o (p.path \o AfterPath(p))
         /\ p.scheme = <<>> => Avoids(p.path \o AfterPath(p), {"://"})
<1> DEFINE F == BeforePath(p)
           a == p.path
           q == p.query
           f == p.fragment
<1>1. p.scheme \in Text /\ a \in Text /\ q \in Text /\ f \in Text /\ IsPath(a)
  BY DEF WellFormed, IsPath
<1>2. F \in Text
  BY <1>1, Tokens
<1>3. (q # <<>> => q[1] = "?") /\ (f # <<>> => f[1] = "#")
  BY DEF WellFormed, StartsWith
<1>4. p.scheme = <<>> => Avoids(a, {"://"}) /\ Avoids(q, {"://"}) /\ Avoids(f, {"://"})
  BY DEF WellFormed
<1>5. Assembled(p) = ((F \o a) \o q) \o f
  BY DEF Assembled, BeforePath
<1>6. AfterPath(p) = q \o f
  BY DEF AfterPath
<1> HIDE DEF F, a, q, f
<1>7. F \in Seq(Token) /\ a \in Seq(Token) /\ q \in Seq(Token) /\ f \in Seq(Token)
  BY <1>1, <1>2 DEF Text
<1>8. q \o f \in Seq(Token) /\ F \o a \in Seq(Token) /\ a \o (q \o f) \in Seq(Token)
  BY <1>7, ConcatProperties
<1>9. ((F \o a) \o q) \o f = F \o (a \o (q \o f))
  <2>1. ((F \o a) \o q) \o f = (F \o a) \o (q \o f)
    BY <1>7, <1>8, ConcatAssociative
  <2>2. (F \o a) \o (q \o f) = F \o (a \o (q \o f))
    <3> DEFINE qf == q \o f
    <3>1. qf \in Seq(Token)
      BY <1>8
    <3> HIDE DEF qf
    <3>2. (F \o a) \o qf = F \o (a \o qf)
      BY <1>7, <3>1, ConcatAssociative
    <3> QED
      BY <3>2 DEF qf
  <2> QED
    BY <2>1, <2>2
<1>10. IsTail(q \o f)
  <2>1. CASE q = <<>>
    <3>1. q \o f = f
      BY <1>1, <2>1, ConcatNothing
    <3> QED
      BY <1>1, <1>3, <3>1 DEF IsTail
  <2>2. CASE q # <<>>
    BY <1>1, <1>3, <2>2, FirstToken DEF IsTail
  <2> QED
    BY <2>1, <2>2
<1>11. ASSUME p.scheme = <<>> PROVE Avoids(a \o (q \o f), {"://"})
  <2>1. Avoids(q \o f, {"://"})
    BY <1>1, <1>4, <1>11, AvoidsBoth
  <2>2. q \o f \in Text
    BY <1>8 DEF Text
  <2> QED
    BY <1>1, <1>4, <1>11, <2>1, <2>2, AvoidsBoth
<1>12. a \o (q \o f) \in Text
  BY <1>8 DEF Text
<1> QED
  BY <1>1, <1>5, <1>6, <1>9, <1>10, <1>11, <1>12 DEF F, a, q, f

\* WithPath leaves a path and a tail.
LEMMA InsertedSplits ==
  ASSUME NEW way, IsPath(way), NEW t, IsTail(t)
  PROVE  Splits(Inserted(way \o t), way)
<1> DEFINE x == way \o t
           S == Slashes
           Q == {"?"}
<1>1. way \in Text /\ t \in Text
  BY DEF IsPath, IsTail
<1>2. "/" \in S /\ "?" \in Q /\ \A y : y \in Q => y = "?"
  BY DEF Slashes
<1>3. Inserted(x) = IF Find(x, S, 1) # 0 THEN x
                    ELSE IF Find(x, Q, 1) = 0 THEN Append(x, "/") ELSE InsertAt(x, Find(x, Q, 1), "/")
  BY DEF Inserted
<1> HIDE DEF S, Q
<1>4. CASE way # <<>>
  <2>1. x \in Text /\ x # <<>> /\ x[1] = "/"
    BY <1>1, <1>4, FirstToken DEF IsPath, StartsWith
  <2> HIDE DEF x
  <2>2. Find(x, S, 1) = 1
    BY <1>2, <2>1, FoundFirst
  <2>3. Inserted(x) = x
    BY <1>3, <2>2
  <2> QED
    BY <1>1, <2>3 DEF Splits, x
<1>5. CASE way = <<>> /\ t = <<>>
  <2>1. x = <<>>
    BY <1>1, <1>5, ConcatNothing
  <2>2. Find(<<>>, S, 1) = 0 /\ Find(<<>>, Q, 1) = 0
    BY FoundInNothing
  <2>3. Inserted(x) = <<"/">>
    BY <1>3, <2>1, <2>2
  <2>4. <<"/">> \in Text
    BY DEF Token, Text, Delimiters
  <2>5. <<"/">> = <<"/">> \o <<>> /\ <<>> \in Text
    BY <2>4, ConcatNothing
  <2>6. IsTail(<<>>)
    BY <2>5 DEF IsTail
  <2> QED
    BY <1>5, <2>3, <2>4, <2>5, <2>6 DEF Splits
<1>6. CASE way = <<>> /\ t # <<>>
  <2>1. x = t /\ t[1] \in {"?", "#"} /\ <<>> \in Text
    BY <1>1, <1>6, ConcatNothing DEF IsTail
  <2> SUFFICES Splits(Inserted(x), way)
    OBVIOUS
  <2> HIDE DEF x
  <2>2. ASSUME NEW y, IsTail(y) PROVE Splits(y, way)
    <3>1. y \in Text /\ y = <<>> \o y
      BY <2>2, ConcatNothing DEF IsTail
    <3> QED
      BY <1>6, <2>1, <2>2, <3>1 DEF Splits
  <2>3. CASE Find(x, S, 1) # 0
    BY <1>3, <2>1, <2>2, <2>3
  <2>4. CASE Find(x, S, 1) = 0 /\ Find(x, Q, 1) = 0
    <3>1. Inserted(x) = Append(t, "/")
      BY <1>3, <2>1, <2>4
    <3>2. "/" \in Token
      BY DEF Token, Delimiters
    <3>3. <<"/">> \in Text /\ Append(t, "/") = t \o <<"/">>
      BY <1>1, <3>2, AppendIsConcat DEF Text
    <3>4. IsTail(t \o <<"/">>)
      BY <1>1, <1>6, <2>1, <3>3, FirstToken DEF IsTail
    <3> QED
      BY <2>2, <3>1, <3>3, <3>4
  <2>5. CASE Find(x, S, 1) = 0 /\ Find(x, Q, 1) # 0
    <3> DEFINE q == Find(t, Q, 1)
    <3>1. q \in 1 .. Len(t) /\ t[q] \in Q
      BY <1>1, <2>1, <2>5, Found
    <3> HIDE DEF q
    <3>2. Inserted(x) = InsertAt(t, q, "/")
      BY <1>3, <2>1, <2>5 DEF q
    <3>3. CASE q = 1
      <4>1. InsertAt(t, 1, "/") = <<"/">> \o t
        BY <1>1, Prefixed
      <4>2. <<"/">> \in Text
        BY DEF Token, Text, Delimiters
      <4> QED
        BY <1>1, <1>6, <3>2, <3>3, <4>1, <4>2 DEF Splits
    <3>4. CASE q # 1
      <4> DEFINE y == InsertAt(t, q, "/")
      <4>1. y \in Text /\ \A i \in 1 .. q - 1 : y[i] = t[i]
        BY <1>1, <3>1, InsertedToken
      <4> HIDE DEF y
      <4>2. 1 \in 1 .. q - 1
        BY <3>1, <3>4
      <4>3. IsTail(y)
        BY <2>1, <4>1, <4>2 DEF IsTail
      <4> QED
        BY <2>2, <3>2, <4>3 DEF y
    <3> QED
      BY <3>3, <3>4
  <2> QED
    BY <2>3, <2>4, <2>5
<1> QED
  BY <1>4, <1>5, <1>6

\* So does buildGatewayUrl().
LEMMA CompletedSplits ==
  ASSUME NEW way, IsPath(way), NEW t, IsTail(t), NEW legacy \in BOOLEAN
  PROVE  Splits(Completed(way \o t, legacy), way)
<1> DEFINE y == Inserted(way \o t)
           v == <<Separator(y), "RPCv2">>
<1>1. Splits(y, way)
  BY InsertedSplits
<1>2. Completed(way \o t, legacy) = IF legacy THEN y ELSE y \o v
  BY DEF Completed
<1> HIDE DEF y
<1>3. v \in Text /\ v # <<>> /\ v[1] = Separator(y)
  BY DEF Token, Text, Separator, Delimiters
<1> HIDE DEF v
<1>4. CASE legacy
  BY <1>1, <1>2, <1>4
<1>5. CASE ~legacy
  <2>1. PICK a \in Text, b \in Text : /\ y = a \o b
                                      /\ a = way \/ (way = <<>> /\ a = <<"/">>)
                                      /\ IsTail(b)
    BY <1>1 DEF Splits
  <2>2. b \o v \in Text /\ y \o v = a \o (b \o v)
    <3>1. a \in Seq(Token) /\ b \in Seq(Token) /\ v \in Seq(Token)
      BY <1>3 DEF Text
    <3>2. b \o v \in Seq(Token) /\ (a \o b) \o v = a \o (b \o v)
      BY <3>1, ConcatProperties, ConcatAssociative
    <3> QED
      BY <2>1, <3>2 DEF Text
  <2>3. IsTail(b \o v)
    <3>1. CASE b # <<>>
      BY <1>3, <2>1, <3>1, FirstToken DEF IsTail
    <3>2. CASE b = <<>>
      <4>1. y = a /\ b \o v = v
        BY <1>3, <2>1, <3>2, ConcatNothing
      <4>2. \A i \in 1 .. Len(a) : a[i] # "?"
        <5>1. CASE a = way
          BY <5>1 DEF IsPath, Avoids
        <5>2. CASE a = <<"/">>
          BY <5>2
        <5> QED
          BY <2>1, <5>1, <5>2
      <4>3. Find(a, {"?"}, 1) = 0
        <5> DEFINE T == {"?"}
        <5>1. \A i \in 1 .. Len(a) : a[i] \notin T
          BY <4>2
        <5> HIDE DEF T
        <5>2. Find(a, T, 1) = 0
          BY <5>1, FoundNot
        <5> QED
          BY <5>2 DEF T
      <4>4. v[1] = "?"
        BY <1>3, <4>1, <4>3 DEF Separator
      <4> QED
        BY <1>3, <4>1, <4>4 DEF IsTail
    <3> QED
      BY <3>1, <3>2
  <2> DEFINE w == b \o v
  <2>4. w \in Text /\ IsTail(w) /\ Completed(way \o t, legacy) = a \o w
    BY <1>2, <1>5, <2>2, <2>3
  <2> HIDE DEF w
  <2> QED
    BY <2>1, <2>4 DEF Splits
<1> QED
  BY <1>4, <1>5

-----------------------------------------------------------------------------
\* Cutting at a token leaves what is in front of its first occurrence.
LEMMA CutAt ==
  ASSUME NEW s \in Text, NEW token
  PROVE  LET r == Cut(s, token)
         IN  /\ r \in Text /\ Len(r) \in Nat /\ Len(r) <= Len(s)
             /\ \A i \in 1 .. Len(r) : r[i] = s[i] /\ s[i] # token
             /\ Len(r) < Len(s) => s[Len(r) + 1] = token
<1> DEFINE T == {token}
           f == Find(s, T, 1)
           r == Cut(s, token)
<1>1. r = IF f = 0 THEN s ELSE SubSeq(s, 1, f - 1)
  BY DEF Cut
<1>2. \A y : y \in T <=> y = token
  OBVIOUS
<1> HIDE DEF T
<1>3. \/ f = 0 /\ \A i \in 1 .. Len(s) : s[i] \notin T
      \/ f \in 1 .. Len(s) /\ s[f] \in T /\ \A i \in 1 .. f - 1 : s[i] \notin T
  BY Found
<1>4. s \in Seq(Token)
  BY DEF Text
<1> HIDE DEF f, r
<1>5. Len(s) \in Nat
  BY <1>4
<1>6. CASE f = 0
  <2>1. r = s
    BY <1>1, <1>6
  <2>2. \A i \in 1 .. Len(s) : s[i] # token
    BY <1>2, <1>3, <1>6
  <2> QED
    BY <1>5, <2>1, <2>2 DEF r
<1>7. CASE f # 0
  <2>1. f \in 1 .. Len(s) /\ s[f] = token /\ \A i \in 1 .. f - 1 : s[i] # token
    BY <1>2, <1>3, <1>7
  <2>2. r = SubSeq(s, 1, f - 1)
    BY <1>1, <1>7
  <2>3. \A i \in 1 .. f - 1 : s[i] \in Token
    BY <1>4, <2>1
  <2>4. r \in Seq(Token) /\ Len(r) = f - 1 /\ \A i \in 1 .. f - 1 : r[i] = s[i]
    BY <1>5, <2>1, <2>2, <2>3, SubSeqProperties
  <2>5. r \in Text
    BY <2>4 DEF Text
  <2>6. Len(r) \in Nat /\ Len(r) <= Len(s) /\ Len(r) + 1 = f
    BY <1>5, <2>1, <2>4
  <2>7. \A i \in 1 .. Len(r) : r[i] = s[i] /\ s[i] # token
    BY <2>1, <2>4
  <2> QED
    BY <2>1, <2>5, <2>6, <2>7 DEF r
<1> QED
  BY <1>6, <1>7

\* What both cuts leave is everything in front of query and fragment.
LEMMA CutsTail ==
  ASSUME NEW g \in Text, Avoids(g, {"?", "#"}), NEW b, IsTail(b)
  PROVE  Cut(Cut(g \o b, "?"), "#") = g
<1> DEFINE s == g \o b
           r == Cut(s, "?")
           u == Cut(r, "#")
           n == Len(g)
<1>1. g \in Seq(Token) /\ b \in Seq(Token)
  BY DEF Text, IsTail
<1>2. n \in Nat /\ Len(b) \in Nat
  BY <1>1
<1>3. s \in Text
  BY <1>1, ConcatProperties DEF Text
<1>4. /\ Len(s) = n + Len(b)
      /\ \A i \in 1 .. n + Len(b) : s[i] = IF i <= n THEN g[i] ELSE b[i - n]
  BY <1>1, ConcatProperties
<1> HIDE DEF s
<1>5. /\ r \in Text /\ Len(r) \in Nat /\ Len(r) <= Len(s)
      /\ \A i \in 1 .. Len(r) : r[i] = s[i] /\ s[i] # "?"
      /\ Len(r) < Len(s) => s[Len(r) + 1] = "?"
  BY <1>3, CutAt
<1> HIDE DEF r
<1>6. /\ u \in Text /\ Len(u) \in Nat /\ Len(u) <= Len(r)
      /\ \A i \in 1 .. Len(u) : u[i] = r[i] /\ r[i] # "#"
      /\ Len(u) < Len(r) => r[Len(u) + 1] = "#"
  BY <1>5, CutAt
<1> HIDE DEF u
<1>7. \A i \in 1 .. n : s[i] = g[i] /\ s[i] # "?" /\ s[i] # "#"
  <2>1. \A i \in 1 .. n : g[i] # "?" /\ g[i] # "#"
    BY DEF Avoids
  <2>2. \A i \in 1 .. n : i \in 1 .. n + Len(b) /\ i <= n
    BY <1>2
  <2> QED
    BY <1>4, <2>1, <2>2
<1>8. Len(r) >= n
  <2> SUFFICES ASSUME Len(r) < n PROVE FALSE
    BY <1>2, <1>5
  <2>1. Len(r) < Len(s) /\ Len(r) + 1 \in 1 .. n
    BY <1>2, <1>4, <1>5
  <2> QED
    BY <1>5, <1>7, <2>1
<1>9. Len(u) >= n
  <2> SUFFICES ASSUME Len(u) < n PROVE FALSE
    BY <1>2, <1>6
  <2>1. Len(u) < Len(r) /\ Len(u) + 1 \in 1 .. n /\ Len(u) + 1 \in 1 .. Len(r)
    BY <1>2, <1>5, <1>6, <1>8
  <2>2. s[Len(u) + 1] = "#"
    BY <1>5, <1>6, <2>1
  <2> QED
    BY <1>7, <2>1, <2>2
<1>10. ~(Len(u) > n)
  <2> SUFFICES ASSUME Len(u) > n PROVE FALSE
    OBVIOUS
  <2>1. /\ n + 1 \in 1 .. Len(u) /\ n + 1 \in 1 .. Len(r) /\ n + 1 \in 1 .. n + Len(b)
        /\ ~(n + 1 <= n) /\ (n + 1) - n = 1 /\ Len(b) # 0
    BY <1>2, <1>4, <1>5, <1>6
  <2>2. s[n + 1] = b[1]
    BY <1>4, <2>1
  <2>3. b # <<>>
    BY <2>1
  <2>4. b[1] \in {"?", "#"}
    BY <2>3 DEF IsTail
  <2>5. s[n + 1] # "?" /\ s[n + 1] # "#"
    BY <1>5, <1>6, <2>1
  <2> QED
    BY <2>2, <2>4, <2>5
<1>11. Len(u) = n
  BY <1>2, <1>6, <1>9, <1>10
<1>12. \A i \in 1 .. Len(u) : u[i] = g[i]
  <2> TAKE i \in 1 .. Len(u)
  <2>1. i \in 1 .. n /\ i \in 1 .. Len(r)
    BY <1>2, <1>5, <1>8, <1>11
  <2> QED
    BY <1>5, <1>6, <1>7, <2>1
<1>13. u \in Seq(Token)
  BY <1>6 DEF Text
<1>14. u = g
  BY <1>1, <1>11, <1>12, <1>13, SeqEqual
<1> QED
  BY <1>14 DEF u, r, s

\* The '@' that ends the user's part is found if there is a user; one in a
\* later part is not taken for it.
LEMMA UserRemoved ==
  ASSUME NEW p, WellFormed(p), NEW y \in Text, p.scheme = <<>> => Avoids(y, {"://"}),
         y # <<>> => y[1] \in {"/", "?", "#"}
  PROVE  WithoutUser(BeforePath(p) \o y) = (p.scheme \o <<"host">>) \o y
<1> DEFINE s == BeforePath(p) \o y
           c == Len(p.scheme)
           l == Len(p.user)
           n == Len(BeforePath(p))
           At == {"@"}
           Ends == Slashes \cup {"?", "#"}
           at == Find(s, At, c + 1)
           end == Find(s, Ends, c + 1)
           e == Find(y, Ends, 1)
<1>1. /\ s \in Text
      /\ c \in Nat /\ n \in Nat /\ n = c + l + 1 /\ Len(s) = n + Len(y)
  BY Tokens
<1>2. /\ \A i \in 1 .. c : s[i] = p.scheme[i]
      /\ \A i \in c + 1 .. n - 1 : s[i] = p.user[i - c]
      /\ s[n] = "host"
      /\ \A i \in n + 1 .. n + Len(y) : s[i] = y[i - n]
  BY Tokens
<1>3. p.scheme \in Text /\ p.user \in Text /\ l \in Nat /\ Len(y) \in Nat
  BY DEF WellFormed, Text
<1>4. HostStart(s) = c + 1
  BY AtHost
<1>5. WithoutUser(s) = IF c + 1 > 1 /\ at # 0 /\ (end = 0 \/ at < end)
                         THEN SubSeq(s, 1, (c + 1) - 1) \o SubSeq(s, at + 1, Len(s)) ELSE s
  BY <1>4 DEF WithoutUser
<1>6. "@" \in At /\ \A z : z # "@" => z \notin At
  OBVIOUS
<1>7. end = IF e = 0 THEN 0 ELSE n + e
  <2>1. Ends \in SUBSET (Slashes \cup {"?", "#"})
    OBVIOUS
  <2> HIDE DEF Ends
  <2> QED
    BY <2>1, FoundBehind
<1>8. (y = <<>> => e = 0) /\ (y # <<>> => e = 1)
  <2>1. y # <<>> => y[1] \in Ends
    BY DEF Slashes
  <2> HIDE DEF Ends
  <2> QED
    BY <2>1, FoundFirst, FoundInNothing
<1> HIDE DEF At, Ends, e
<1>9. /\ at \in Nat
      /\ \/ at = 0
         \/ at \in c + 1 .. Len(s) /\ s[at] \in At /\ \A i \in c + 1 .. at - 1 : s[i] \notin At
  <2>1. c + 1 \in Nat \ {0}
    BY <1>1
  <2> DEFINE from == c + 1
  <2> HIDE DEF from
  <2>2. \/ Find(s, At, from) = 0
        \/ /\ Find(s, At, from) \in from .. Len(s) /\ s[Find(s, At, from)] \in At
           /\ \A i \in from .. Find(s, At, from) - 1 : s[i] \notin At
    BY <1>1, <2>1, Found DEF from
  <2>3. \/ at = 0
        \/ at \in c + 1 .. Len(s) /\ s[at] \in At /\ \A i \in c + 1 .. at - 1 : s[i] \notin At
    BY <2>2 DEF from
  <2> HIDE DEF s, c, at
  <2>4. Len(s) \in Nat
    BY <1>1, <1>3
  <2> QED
    BY <1>1, <2>3, <2>4
<1>10. s \in Seq(Token) /\ p.scheme \in Seq(Token) /\ y \in Seq(Token) /\ <<"host">> \in Seq(Token)
  BY <1>1, <1>3 DEF Token, Text
<1> HIDE DEF s, n, c, l, at, end
<1>11. CASE p.user = <<>>
  <2>1. l = 0 /\ n = c + 1
    BY <1>1, <1>11 DEF l
  <2>2. at # 0 => end # 0 /\ ~(at < end)
    <3> SUFFICES ASSUME at # 0 PROVE end # 0 /\ ~(at < end)
      OBVIOUS
    <3>1. at \in c + 1 .. Len(s) /\ s[at] = "@"
      BY <1>6, <1>9
    <3>2. at # n
      BY <1>2, <3>1
    <3>3. at \in n + 1 .. n + Len(y)
      BY <1>1, <1>3, <2>1, <3>1, <3>2
    <3>4. y # <<>>
      BY <1>1, <1>3, <3>3
    <3> QED
      BY <1>1, <1>3, <1>7, <1>8, <3>3, <3>4
  <2>3. WithoutUser(s) = s
    BY <1>5, <2>2
  <2>4. BeforePath(p) = p.scheme \o <<"host">>
    BY <1>3, <1>11, ConcatNothing DEF BeforePath
  <2> QED
    BY <2>3, <2>4 DEF s
<1>12. CASE p.user # <<>>
  <2>1. l >= 1 /\ p.scheme # <<>> /\ c >= 1
    <3>1. p.scheme # <<>>
      BY <1>12 DEF WellFormed
    <3>2. l # 0 /\ c # 0
      BY <1>3, <1>12, <3>1 DEF Text, l, c
    <3> QED
      BY <1>1, <1>3, <3>1, <3>2
  <2>2. ASSUME NEW i \in c + 1 .. c + l PROVE (s[i] \in At) <=> i = c + l
    <3>1. i - c \in 1 .. l /\ i \in c + 1 .. n - 1
      BY <1>1, <1>3, <2>2
    <3>2. /\ i - c < l => p.user[i - c] \notin Delimiters
          /\ i - c = l => p.user[i - c] = "@"
      BY <3>1, UserTokens DEF l
    <3>3. s[i] = p.user[i - c]
      BY <1>2, <3>1
    <3>4. i - c < l => s[i] # "@"
      BY <3>2, <3>3 DEF Delimiters
    <3>5. i - c < l => s[i] \notin At
      BY <1>6, <3>4
    <3>6. i = c + l => s[i] \in At
      BY <1>1, <1>3, <1>6, <3>2, <3>3
    <3> QED
      BY <1>1, <1>3, <3>1, <3>5, <3>6
  <2>3. at = c + l
    <3> DEFINE k == c + l
               from == c + 1
    <3>1. k \in from .. Len(s) /\ s[k] \in At /\ from \in Nat \ {0}
      BY <1>1, <1>3, <2>1, <2>2
    <3>2. \A i \in from .. k - 1 : s[i] \notin At
      BY <1>1, <1>3, <2>2
    <3> HIDE DEF k, from
    <3>3. Find(s, At, from) = k
      BY <1>1, <3>1, <3>2, FoundAt
    <3> QED
      BY <3>3 DEF at, k, from
  <2>4. at # 0 /\ (end = 0 \/ at < end)
    BY <1>1, <1>3, <1>7, <1>8, <2>1, <2>3
  <2> DEFINE a == SubSeq(s, 1, c)
             b == SubSeq(s, n, Len(s))
             hy == <<"host">> \o y
  <2>5. WithoutUser(s) = a \o b
    <3>1. (c + 1) - 1 = c /\ at + 1 = n /\ c + 1 > 1
      BY <1>1, <1>3, <2>1, <2>3
    <3> QED
      BY <1>5, <2>4, <3>1
  <2>6. Len(s) \in Nat /\ n >= 1 /\ c <= Len(s) /\ n <= Len(s)
    BY <1>1, <1>3
  <2>7. \A i \in 1 .. Len(s) : s[i] \in Token
    BY <1>10
  <2>8. a \in Seq(Token) /\ Len(a) = c /\ \A i \in 1 .. c : a[i] = s[i]
    <3>1. \A i \in 1 .. c : s[i] \in Token
      BY <1>1, <2>6, <2>7
    <3> QED
      BY <1>1, <3>1, SubSeqProperties
  <2>9. b \in Seq(Token) /\ Len(b) = Len(y) + 1 /\ \A i \in 1 .. Len(y) + 1 : b[i] = s[n + i - 1]
    <3>1. \A i \in n .. Len(s) : s[i] \in Token
      BY <1>1, <2>6, <2>7
    <3>2. /\ b \in Seq(Token) /\ Len(b) = IF n <= Len(s) THEN Len(s) - n + 1 ELSE 0
          /\ \A i \in 1 .. Len(s) - n + 1 : b[i] = s[n + i - 1]
      <4>1. n \in Int /\ Len(s) \in Int
        BY <1>1, <2>6
      <4> DEFINE m == Len(s)
      <4> HIDE DEF m
      <4>2. \A i \in n .. m : s[i] \in Token
        BY <3>1 DEF m
      <4>3. m \in Int
        BY <4>1 DEF m
      <4>4. /\ SubSeq(s, n, m) \in Seq(Token) /\ Len(SubSeq(s, n, m)) = IF n <= m THEN m - n + 1 ELSE 0
            /\ \A i \in 1 .. m - n + 1 : SubSeq(s, n, m)[i] = s[n + i - 1]
        BY <4>1, <4>2, <4>3, SubSeqProperties
      <4> QED
        BY <4>4 DEF m, b
    <3>3. Len(s) - n + 1 = Len(y) + 1
      BY <1>1, <1>3
    <3> QED
      BY <2>6, <3>2, <3>3
  <2> HIDE DEF a, b
  <2>10. a = p.scheme
    <3>1. Len(p.scheme) = c /\ \A i \in 1 .. c : a[i] = p.scheme[i]
      BY <1>2, <2>8 DEF c
    <3> QED
      BY <1>10, <2>8, <3>1, SeqEqual
  <2>11. /\ hy \in Seq(Token) /\ Len(hy) = 1 + Len(y)
         /\ \A i \in 1 .. 1 + Len(y) : hy[i] = IF i <= 1 THEN <<"host">>[i] ELSE y[i - 1]
    <3> DEFINE h == <<"host">>
    <3>1. h \in Seq(Token) /\ Len(h) = 1
      BY <1>10
    <3> HIDE DEF h
    <3>2. /\ h \o y \in Seq(Token) /\ Len(h \o y) = Len(h) + Len(y)
          /\ \A i \in 1 .. Len(h) + Len(y) : (h \o y)[i] = IF i <= Len(h) THEN h[i] ELSE y[i - Len(h)]
      BY <1>10, <3>1, ConcatProperties
    <3>3. /\ h \o y \in Seq(Token) /\ Len(h \o y) = 1 + Len(y)
          /\ \A i \in 1 .. 1 + Len(y) : (h \o y)[i] = IF i <= 1 THEN h[i] ELSE y[i - 1]
      BY <3>1, <3>2
    <3> QED
      BY <3>3 DEF h
  <2> HIDE DEF hy
  <2>12. ASSUME NEW i \in 1 .. Len(b) PROVE b[i] = hy[i]
    <3>0. i \in 1 .. Len(y) + 1 /\ i \in 1 .. 1 + Len(y) /\ b[i] = s[n + i - 1]
      BY <1>3, <2>9
    <3>1. CASE i = 1
      <4>1. n + i - 1 = n
        BY <1>1, <3>1
      <4>2. hy[1] = "host"
        BY <2>11, <3>0, <3>1
      <4> QED
        BY <1>2, <3>0, <3>1, <4>1, <4>2
    <3>2. CASE i # 1
      <4>1. n + i - 1 \in n + 1 .. n + Len(y) /\ (n + i - 1) - n = i - 1 /\ ~(i <= 1)
        BY <1>1, <1>3, <3>0, <3>2
      <4>2. s[n + i - 1] = y[i - 1]
        BY <1>2, <4>1
      <4> QED
        BY <2>11, <3>0, <4>1, <4>2
    <3> QED
      BY <3>1, <3>2
  <2>13. b = hy
    <3>1. Len(b) = Len(hy)
      BY <1>3, <2>9, <2>11
    <3> QED
      BY <2>9, <2>11, <2>12, <3>1, SeqEqual
  <2>14. p.scheme \o hy = (p.scheme \o <<"host">>) \o y
    <3> DEFINE h == <<"host">>
    <3>1. h \in Seq(Token)
      BY <1>10
    <3> HIDE DEF h
    <3> DEFINE sch == p.scheme
    <3>2. sch \in Seq(Token)
      BY <1>10
    <3> HIDE DEF sch
    <3>3. (sch \o h) \o y = sch \o (h \o y)
      BY <1>10, <3>1, <3>2, ConcatAssociative
    <3> QED
      BY <3>3 DEF h, hy, sch
  <2> QED
    BY <2>5, <2>10, <2>13, <2>14 DEF s
<1> QED
  BY <1>11, <1>12

\* buildGatewayUrl() adds no "://".
LEMMA CompletedAvoids ==
  ASSUME NEW x \in Text, Avoids(x, {"://"}), Inserted(x) \in Text, NEW legacy \in BOOLEAN
  PROVE  Avoids(Completed(x, legacy), {"://"})
<1> DEFINE y == Inserted(x)
           v == <<Separator(y), "RPCv2">>
           T == {"://"}
<1>1. Avoids(y, T)
  BY InsertedAvoids
<1>2. Completed(x, legacy) = IF legacy THEN y ELSE y \o v
  BY DEF Completed
<1>3. y \in Text
  OBVIOUS
<1> HIDE DEF y
<1>4. v \in Text /\ Avoids(v, T)
  BY DEF Token, Text, Separator, Delimiters, Avoids
<1> HIDE DEF v, T
<1>5. Avoids(y \o v, T)
  BY <1>1, <1>3, <1>4, AvoidsBoth
<1>6. Avoids(Completed(x, legacy), T)
  BY <1>1, <1>2, <1>5
<1> QED
  BY <1>6 DEF T

\* What is logged of the URL connected to: the place given, with a '/' where
\* there was no path.
LEMMA Redaction ==
  ASSUME NEW p, WellFormed(p), NEW legacy \in BOOLEAN
  PROVE  LET r == Redacted(BuildGatewayUrl(Assembled(p), legacy))
         IN  IsPrefix(Place(p), r) /\ \A i \in DOMAIN r : r[i] # "s"
<1> DEFINE way == p.path
           x == way \o AfterPath(p)
           y == Completed(x, legacy)
           h == p.scheme \o <<"host">>
<1>1. /\ p.scheme \in Text /\ IsPath(way) /\ IsTail(AfterPath(p)) /\ x \in Text
      /\ Assembled(p) = BeforePath(p) \o x
      /\ p.scheme = <<>> => Avoids(x, {"://"})
  BY PartsBehind
<1>2. Splits(y, way)
  BY <1>1, CompletedSplits
<1> HIDE DEF x, way
<1>3. y \in Text /\ BuildGatewayUrl(Assembled(p), legacy) = BeforePath(p) \o y
  BY <1>1, BuiltBehind
<1>4. p.scheme = <<>> => Avoids(y, {"://"})
  BY <1>1, PathInserted, CompletedAvoids
<1> HIDE DEF y
<1>5. PICK a \in Text, b \in Text : /\ y = a \o b
                                    /\ a = way \/ (way = <<>> /\ a = <<"/">>)
                                    /\ IsTail(b)
  BY <1>2 DEF Splits
<1>6. y # <<>> => y[1] \in {"/", "?", "#"}
  <2>1. CASE a = <<>>
    <3>1. y = b
      BY <1>5, <2>1, ConcatNothing
    <3> QED
      BY <1>5, <3>1 DEF IsTail
  <2>2. CASE a # <<>>
    <3>1. a[1] = "/"
      BY <1>1, <1>5, <2>2 DEF IsPath, StartsWith
    <3>2. y[1] = a[1]
      BY <1>5, <2>2, FirstToken
    <3> QED
      BY <3>1, <3>2
  <2> QED
    BY <2>1, <2>2
<1>7. WithoutUser(BeforePath(p) \o y) = h \o y
  BY <1>3, <1>4, <1>6, UserRemoved
<1>8. h \in Text /\ Avoids(h, {"?", "#"}) /\ Avoids(h, {"s"})
  <2>1. <<"host">> \in Text
    BY DEF Token, Text
  <2>2. h \in Text
    BY <1>1, <2>1, ConcatProperties DEF Text
  <2>3. Avoids(p.scheme, {"?", "#"}) /\ Avoids(p.scheme, {"s"})
    <3>1. Avoids(p.scheme, {"s"})
      BY DEF WellFormed
    <3>2. ASSUME NEW i \in 1 .. Len(p.scheme) PROVE p.scheme[i] \notin {"?", "#"}
      <4>1. p.scheme # <<>> /\ Len(p.scheme) \in Nat
        BY <1>1, <3>2 DEF Text
      <4>2. /\ p.scheme[Len(p.scheme)] = "://"
            /\ \A j \in 1 .. Len(p.scheme) - 1 : p.scheme[j] \notin Delimiters
        BY <4>1 DEF WellFormed, EndsWith
      <4>3. i = Len(p.scheme) \/ i \in 1 .. Len(p.scheme) - 1
        BY <3>2, <4>1
      <4> QED
        BY <4>2, <4>3 DEF Delimiters
    <3> QED
      BY <3>1, <3>2 DEF Avoids
  <2>4. Avoids(<<"host">>, {"?", "#"}) /\ Avoids(<<"host">>, {"s"})
    BY DEF Avoids
  <2> DEFINE U == {"?", "#"}
             V == {"s"}
             w == <<"host">>
  <2>5. Avoids(p.scheme, U) /\ Avoids(p.scheme, V) /\ Avoids(w, U) /\ Avoids(w, V) /\ w \in Text
    BY <2>1, <2>3, <2>4
  <2> HIDE DEF U, V, w
  <2>6. Avoids(p.scheme \o w, U) /\ Avoids(p.scheme \o w, V)
    BY <1>1, <2>5, AvoidsBoth
  <2> QED
    BY <2>2, <2>6 DEF U, V, w
<1>9. Place(p) = h \o way
  BY DEF Place, way
<1>10. way \in Text /\ Avoids(way, {"?", "#"}) /\ Avoids(way, {"s"})
  BY <1>1 DEF IsPath, WellFormed, way
<1> HIDE DEF h
<1>11. Avoids(a, {"?", "#"}) /\ Avoids(a, {"s"})
  BY <1>5, <1>10 DEF Avoids
<1> DEFINE g == h \o a
<1>12. g \in Text /\ Avoids(g, {"?", "#"}) /\ Avoids(g, {"s"})
  <2> DEFINE U == {"?", "#"}
             V == {"s"}
  <2>1. Avoids(h, U) /\ Avoids(h, V) /\ Avoids(a, U) /\ Avoids(a, V)
    BY <1>8, <1>11
  <2> HIDE DEF U, V
  <2>2. Avoids(g, U) /\ Avoids(g, V)
    BY <1>5, <1>8, <2>1, AvoidsBoth
  <2>3. g \in Text
    BY <1>5, <1>8, ConcatProperties DEF Text
  <2> QED
    BY <2>2, <2>3 DEF U, V
<1>13. h \o y = g \o b
  <2>1. h \in Seq(Token) /\ a \in Seq(Token) /\ b \in Seq(Token)
    BY <1>5, <1>8 DEF Text
  <2>2. h \o (a \o b) = (h \o a) \o b
    BY <2>1, ConcatAssociative
  <2> QED
    BY <1>5, <2>2
<1> HIDE DEF g
<1>14. Redacted(BuildGatewayUrl(Assembled(p), legacy)) = g
  <2>1. Cut(Cut(g \o b, "?"), "#") = g
    BY <1>5, <1>12, CutsTail
  <2> QED
    BY <1>3, <1>7, <1>13, <2>1 DEF Redacted
<1>15. IsPrefix(Place(p), g)
  <2>1. g \in Text /\ Len(g) \in Nat
    BY <1>12 DEF Text
  <2>2. CASE a = way
    BY <1>9, <2>1, <2>2 DEF IsPrefix, g
  <2>3. CASE way = <<>>
    <3>1. Place(p) = h
      BY <1>8, <1>9, <2>3, ConcatNothing
    <3>2. Len(h) \in Nat /\ Len(g) = Len(h) + Len(a) /\ Len(a) \in Nat
      BY <1>5, <1>8 DEF Text, g
    <3>3. SubSeq(h, 1, Len(h)) = h /\ SubSeq(g, 1, Len(h)) = h
      <4> DEFINE m == Len(h)
                 r == SubSeq(g, 1, m)
      <4>1. h \in Seq(Token) /\ a \in Seq(Token) /\ g \in Seq(Token)
        BY <1>5, <1>8, <1>12 DEF Text
      <4>2. \A i \in 1 .. Len(h) + Len(a) : g[i] = IF i <= Len(h) THEN h[i] ELSE a[i - Len(h)]
        BY <4>1, ConcatProperties DEF g
      <4>3. \A i \in 1 .. m : g[i] = h[i] /\ g[i] \in Token
        BY <3>2, <4>1, <4>2
      <4> HIDE DEF m
      <4>4. m \in Nat
        BY <3>2 DEF m
      <4>5. r \in Seq(Token) /\ Len(r) = m /\ \A i \in 1 .. m : r[i] = g[i]
        BY <4>3, <4>4, SubSeqProperties
      <4> HIDE DEF r
      <4>6. Len(r) = Len(h) /\ \A i \in 1 .. Len(r) : r[i] = h[i]
        BY <4>3, <4>5 DEF m
      <4>7. r = h
        BY <4>1, <4>5, <4>6, SeqEqual
      <4> QED
        BY <4>1, <4>7, SubSeqFull DEF r, m
    <3> QED
      BY <3>1, <3>2, <3>3 DEF IsPrefix
  <2> QED
    BY <1>5, <2>2, <2>3
<1>16. ASSUME NEW i \in DOMAIN g PROVE g[i] # "s"
  <2>1. i \in 1 .. Len(g)
    BY <1>12, <1>16 DEF Text
  <2> QED
    BY <1>12, <2>1 DEF Avoids
<1> QED
  BY <1>14, <1>15, <1>16

\* Without a fragment, the '/' goes between host and query, and "?" or "&" in
\* front of the argument is chosen by whether there is a query.
LEMMA Completion ==
  ASSUME NEW p, WellFormed(p), p.fragment = <<>>, NEW legacy \in BOOLEAN
  PROVE  LET way == IF p.path = <<>> THEN <<"/">> ELSE p.path
             added == IF p.query = <<>> THEN <<"?", "RPCv2">> ELSE p.query \o <<"&", "RPCv2">>
         IN  /\ way \in Text /\ added \in Text
             /\ Completed(p.path \o p.query, legacy) = way \o (IF legacy THEN p.query ELSE added)
<1> DEFINE way == IF p.path = <<>> THEN <<"/">> ELSE p.path
           q == p.query
           x == p.path \o q
           S == Slashes
           Q == {"?"}
<1>1. p.path \in Text /\ q \in Text /\ IsPath(p.path) /\ (q # <<>> => q[1] = "?")
      /\ (p.path = <<>> => Avoids(q, S))
  BY DEF WellFormed, IsPath, StartsWith
<1>2. "/" \in S /\ "?" \in Q /\ \A y : (y \in Q <=> y = "?") /\ (y \in S <=> y \in {"/", "://"})
  BY DEF Slashes
<1>3. Inserted(x) = IF Find(x, S, 1) # 0 THEN x
                    ELSE IF Find(x, Q, 1) = 0 THEN Append(x, "/") ELSE InsertAt(x, Find(x, Q, 1), "/")
  BY DEF Inserted
<1>4. Separator(way \o q) = IF Find(way \o q, Q, 1) = 0 THEN "?" ELSE "&"
  BY DEF Separator
<1>5. way \in Text /\ way # <<>> /\ \A i \in 1 .. Len(way) : way[i] # "?"
  <2>1. CASE p.path = <<>>
    BY <2>1 DEF Token, Text, Delimiters
  <2>2. CASE p.path # <<>>
    BY <1>1, <2>2 DEF IsPath, Avoids
  <2> QED
    BY <2>1, <2>2
<1> HIDE DEF S, Q, q
<1>6. Inserted(x) = way \o q
  <2>1. CASE p.path # <<>>
    <3>1. x \in Text /\ x # <<>> /\ x[1] = "/"
      BY <1>1, <2>1, FirstToken DEF IsPath, StartsWith
    <3> HIDE DEF x
    <3>2. Find(x, S, 1) = 1
      BY <1>2, <3>1, FoundFirst
    <3> QED
      BY <1>3, <2>1, <3>2 DEF x
  <2>2. CASE p.path = <<>>
    <3>1. x = q
      BY <1>1, <2>2, ConcatNothing
    <3> HIDE DEF x
    <3>2. Find(q, S, 1) = 0
      <4>1. \A i \in 1 .. Len(q) : q[i] \notin S
        BY <1>1, <1>2, <2>2 DEF Avoids
      <4> QED
        BY <1>1, <4>1, FoundNot
    <3>3. CASE q = <<>>
      <4>1. Find(q, Q, 1) = 0
        BY <3>3, FoundInNothing
      <4>2. Inserted(x) = <<"/">>
        BY <1>3, <3>1, <3>2, <3>3, <4>1
      <4>3. way = <<"/">> /\ way \o q = way
        BY <1>5, <2>2, <3>3, ConcatNothing
      <4> QED
        BY <4>2, <4>3
    <3>4. CASE q # <<>>
      <4>1. Find(q, Q, 1) = 1
        BY <1>1, <1>2, <3>4, FoundFirst
      <4>2. Inserted(x) = InsertAt(q, 1, "/")
        BY <1>3, <3>1, <3>2, <4>1
      <4> QED
        BY <1>1, <2>2, <4>2, Prefixed
    <3> QED
      BY <3>3, <3>4
  <2> QED
    BY <2>1, <2>2
<1> HIDE DEF way
<1>7. Find(way \o q, Q, 1) = 0 <=> q = <<>>
  <2>1. \A i \in 1 .. Len(way) : way[i] \notin Q
    BY <1>2, <1>5
  <2>2. CASE q = <<>>
    <3>1. way \o q = way
      BY <1>5, <2>2, ConcatNothing
    <3> QED
      BY <1>5, <2>1, <2>2, <3>1, FoundNot
  <2>3. CASE q # <<>>
    <3> DEFINE s == way \o q
               k == Len(way) + 1
    <3>1. s \in Text /\ Len(s) = Len(way) + Len(q) /\ Len(way) \in Nat /\ Len(q) \in Nat /\ Len(q) # 0
      BY <1>1, <1>5, <2>3 DEF Text
    <3>2. \A i \in 1 .. Len(way) + Len(q) : s[i] = IF i <= Len(way) THEN way[i] ELSE q[i - Len(way)]
      BY <1>1, <1>5, ConcatProperties DEF Text
    <3> HIDE DEF s
    <3>3. k \in 1 .. Len(s) /\ k \in 1 .. Len(way) + Len(q) /\ ~(k <= Len(way)) /\ k - Len(way) = 1
      BY <3>1
    <3>4. s[k] \in Q
      BY <1>1, <1>2, <2>3, <3>2, <3>3
    <3>5. k \in 1 .. Len(s) /\ Find(s, Q, 1) # 0
      <4> HIDE DEF k
      <4> QED
        BY <3>1, <3>3, <3>4, Found
    <3> QED
      BY <2>3, <3>5 DEF s
  <2> QED
    BY <2>2, <2>3
<1> DEFINE added == IF q = <<>> THEN <<"?", "RPCv2">> ELSE q \o <<"&", "RPCv2">>
           v == <<Separator(way \o q), "RPCv2">>
<1>8. v = IF q = <<>> THEN <<"?", "RPCv2">> ELSE <<"&", "RPCv2">>
  BY <1>4, <1>7
<1>9. v \in Text
  BY <1>8 DEF Token, Text, Delimiters
<1> HIDE DEF v
<1>10. added = q \o v
  <2>1. CASE q = <<>>
    BY <1>8, <1>9, <2>1, ConcatNothing
  <2>2. CASE q # <<>>
    BY <1>8, <2>2
  <2> QED
    BY <2>1, <2>2
<1>11. q \o v \in Text /\ (way \o q) \o v = way \o (q \o v)
  <2>1. way \in Seq(Token) /\ q \in Seq(Token) /\ v \in Seq(Token)
    BY <1>1, <1>5, <1>9 DEF Text
  <2>2. q \o v \in Seq(Token) /\ (way \o q) \o v = way \o (q \o v)
    BY <2>1, ConcatProperties, ConcatAssociative
  <2> QED
    BY <2>2 DEF Text
<1>12. Completed(x, legacy) = IF legacy THEN way \o q ELSE (way \o q) \o v
  BY <1>6 DEF Completed, v
<1> HIDE DEF x, added
<1>13. Completed(x, legacy) = way \o (IF legacy THEN q ELSE added) /\ added \in Text
  BY <1>10, <1>11, <1>12
<1> QED
  BY <1>5, <1>13 DEF x, way, added, q

\* buildGatewayUrl() puts the URL together as the reference does.
LEMMA Building ==
  ASSUME NEW p, WellFormed(p), p.fragment = <<>>, NEW legacy \in BOOLEAN
  PROVE  BuildGatewayUrl(Assembled(p), legacy)
           = Assembled(IF legacy THEN WithSlash(p) ELSE WithVersion(WithSlash(p)))
<1> DEFINE way == IF p.path = <<>> THEN <<"/">> ELSE p.path
           added == IF p.query = <<>> THEN <<"?", "RPCv2">> ELSE p.query \o <<"&", "RPCv2">>
           query == IF legacy THEN p.query ELSE added
           w == IF legacy THEN WithSlash(p) ELSE WithVersion(WithSlash(p))
           F == BeforePath(p)
<1>1. p.path \o AfterPath(p) \in Text /\ Assembled(p) = F \o (p.path \o AfterPath(p))
      /\ (p.scheme = <<>> => Avoids(p.path \o AfterPath(p), {"://"}))
  BY PartsBehind
<1>2. p.query \in Text
  BY DEF WellFormed
<1>3. AfterPath(p) = p.query
  BY <1>2, ConcatNothing DEF AfterPath
<1>4. way \in Text /\ added \in Text /\ Completed(p.path \o p.query, legacy) = way \o query
  BY Completion
<1>5. BuildGatewayUrl(Assembled(p), legacy) = F \o Completed(p.path \o p.query, legacy)
  BY <1>1, <1>3, BuiltBehind
<1>6. w.scheme = p.scheme /\ w.user = p.user /\ w.path = way /\ w.query = query /\ w.fragment = <<>>
  <2>1. p \in [scheme : Text, user : Text, path : Text, query : Text, fragment : Text]
    BY DEF WellFormed
  <2> QED
    BY <2>1 DEF WithSlash, WithVersion
<1>7. Assembled(w) = ((F \o way) \o query) \o <<>>
  BY <1>6 DEF Assembled, BeforePath
<1>8. F \in Text /\ query \in Text
  BY <1>1, <1>2, <1>4, Tokens
<1> HIDE DEF way, added, w, query, F
<1>9. (F \o way) \o query = F \o (way \o query) /\ (F \o way) \o query \in Text
  <2>1. way \in Seq(Token) /\ query \in Seq(Token) /\ F \in Seq(Token)
    BY <1>4, <1>8 DEF Text
  <2>2. F \o way \in Seq(Token)
    BY <2>1, ConcatProperties
  <2>3. (F \o way) \o query = F \o (way \o query) /\ (F \o way) \o query \in Seq(Token)
    BY <2>1, <2>2, ConcatProperties, ConcatAssociative
  <2> QED
    BY <2>3 DEF Text
<1>10. Assembled(w) = F \o (way \o query)
  BY <1>7, <1>9, ConcatNothing
<1> QED
  BY <1>4, <1>5, <1>10 DEF w

-----------------------------------------------------------------------------
\* What is connected to and logged is computed from what was given.
UrlInv ==
  /\ given \in Urls /\ legacyRPCv1 \in BOOLEAN
  /\ stage = "called" => url = Assembled(given)
  /\ stage # "called" => /\ url = BuildGatewayUrl(Assembled(given), legacyRPCv1)
                         /\ logged = Redacted(url)

\* Both connect()s log the URL that the gateway built.
LEMMA UrlInvariance == UrlSpec => []UrlInv
<1>1. UrlInit => UrlInv
  BY DEF UrlInit, UrlInv
<1>2. UrlInv /\ [UrlNext]_urlVars => UrlInv'
  BY DEF UrlInv, UrlNext, urlVars, GatewayConnect, TransportConnect
<1> QED
  BY <1>1, <1>2, PTL DEF UrlSpec

\* buildGatewayUrl() adds '/' and RPCv2=true to the right parts of every URL
\* without a fragment, of whatever length, and changes nothing else.
THEOREM Built == UrlSpec => []BuiltFromItsParts
<1>1. UrlInv => BuiltFromItsParts
  BY Building, UrlsAssumption DEF UrlInv, BuiltFromItsParts
<1> QED
  BY <1>1, UrlInvariance, PTL

\* Both connect()s log scheme, host and path of the URL given, and nothing of
\* its user, query or fragment, wherever an '@', '?' or '#' occurs in them.
THEOREM LoggedPlace == UrlSpec => []LogsPlaceOnly
<1>1. UrlInv => LogsPlaceOnly
  <2> SUFFICES ASSUME UrlInv, stage # "called"
               PROVE  IsPrefix(Place(given), logged) /\ \A i \in DOMAIN logged : logged[i] # "s"
    BY DEF LogsPlaceOnly
  <2>1. WellFormed(given) /\ legacyRPCv1 \in BOOLEAN
    BY UrlsAssumption DEF UrlInv
  <2>2. logged = Redacted(BuildGatewayUrl(Assembled(given), legacyRPCv1))
    BY DEF UrlInv
  <2> QED
    BY <2>1, <2>2, Redaction
<1> QED
  BY <1>1, UrlInvariance, PTL
=============================================================================
