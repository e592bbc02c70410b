-------------------------------- MODULE Logger --------------------------------
(* The logger of src/logger.cpp: the two atomics connect() sets from the    *)
(* configuration and the environment, the tests a logging thread makes      *)
(* without a lock, the log file's path cached per thread, and the writing   *)
(* of a line to that file or, failing that, to stderr (or syslog).          *)
(* Threads: one that calls connect() and changes the environment between    *)
(* its calls, and threads that log.  Reading an environment variable is one *)
(* step.  How a line is put together is the subject of LogLine.             *)
EXTENDS Integers, Sequences

CONSTANTS Threads,      \* the threads that log
          MaxLevel,     \* LogLevel::MaxLevel; 0 is Error, MaxLevel - 1 Debug
          Paths,        \* absolute paths FIREBOLT_TRANSPORT_LOG_FILE may name
          Files,        \* canonical paths
          Canonical(_), \* the canonical path of each: realpath() of its directory
          MaxConnects,  \* bound on the calls of connect()
          MaxChanges    \* bound on the changes of environment and file system

ASSUME LoggerAssumption == /\ \A p \in Paths : Canonical(p) \in Files
                           /\ MaxLevel \in Nat \ {0}
                           /\ MaxConnects \in Nat
                           /\ MaxChanges \in Nat

\* An absolute path is neither of the values that name no file.
ASSUME PathsAssumption == Paths \cap {"unset", "other"} = {}

Levels == 0 .. MaxLevel - 1
NoFile == "none"        \* the empty path

\* Values of the two variables: a level, Off (one of four words), or NoLevel
\* (unset, unknown or too long); a path, "unset", or "other" (relative, too
\* long, or without a file name).
NoLevel == -1
Off == -2
LevelValues == {NoLevel, Off} \cup Levels
FileValues == {"unset", "other"} \cup Paths

VARIABLES
  envLevel,     \* FIREBOLT_TRANSPORT_LOG_LEVEL
  envFile,      \* FIREBOLT_TRANSPORT_LOG_FILE
  changes,      \* how often environment and file system were changed
  dirs,         \* paths whose directory exists: realpath() succeeds
  loggingEnabled, logLevel,
  connecting,   \* connect()'s argument cfg.log.level while it runs, else NoLevel
  connects,     \* how often it was called
  config,       \* the configuration last set by a connect() ...
  asked,        \* ... and the one the current connect() asks for
  pc, level,    \* where each thread is; the level of its line
  seen,         \* the configurations in force at some time of the current call
  cache,        \* thread_local cachedEnvValue and cachedCanonicalPath
  path,         \* the path resolved in the current call
  retried,      \* write() was interrupted once
  out           \* what each thread wrote of its line, and where

envVars == <<envLevel, envFile, changes, dirs>>
levelVars == <<loggingEnabled, logLevel, connecting, connects>>
confVars == <<config, asked>>
vars == <<envVars, levelVars, confVars, pc, level, seen, cache, path, retried, out>>

Config(e, l) == [enabled |-> e, level |-> l]
NoCache == [value |-> "unset", path |-> NoFile]
Permits(c, l) == c.enabled /\ l <= c.level

Init == /\ envLevel \in LevelValues
        /\ envFile \in FileValues
        /\ changes = 0
        /\ dirs \in SUBSET Paths
        /\ loggingEnabled = TRUE /\ logLevel = 0
        /\ connecting = NoLevel /\ connects = 0
        /\ config = Config(TRUE, 0) /\ asked = config
        /\ pc = [t \in Threads |-> "idle"]
        /\ level = [t \in Threads |-> 0]
        /\ seen = [t \in Threads |-> {}]
        /\ cache = [t \in Threads |-> NoCache]
        /\ path = [t \in Threads |-> NoFile]
        /\ retried = [t \in Threads |-> FALSE]
        /\ out = [t \in Threads |-> <<>>]

Goto(t, here, there) == pc[t] = here /\ pc' = [pc EXCEPT ![t] = there]

-----------------------------------------------------------------------------
(* The part of connect() that configures the logger. *)

\* isEnvLogDisabled() and parseEnvLogLevel(), with cfg.log.level as default.
Disabled == envLevel = Off
ResolvedLevel(default) == IF envLevel \in Levels THEN envLevel ELSE default

\* What the environment and the application together ask for: the highest
\* value stands for Debug, one beyond it changes nothing.
Asked(default) ==
  LET l == ResolvedLevel(default)
  IN  Config(envLevel # Off, CASE l \in Levels   -> l
                               [] l = MaxLevel  -> MaxLevel - 1
                               [] OTHER         -> config.level)

\* resolveLogLevelFromEnvironment(): _loggingEnabled is stored at once.
ResolveLevel(default) ==
  /\ connecting = NoLevel
  /\ connects < MaxConnects
  /\ connects' = connects + 1
  /\ connecting' = default
  /\ loggingEnabled' = ~Disabled
  /\ asked' = Asked(default)
  /\ seen' = [t \in Threads |-> IF pc[t] = "idle" THEN {} ELSE seen[t] \cup {asked'}]
  /\ UNCHANGED <<envVars, logLevel, config, pc, level, cache, path, retried, out>>

StoredNoMax(l) == IF l < MaxLevel THEN l ELSE logLevel

\* setLogLevel(): MaxLevel stands for Debug, what is beyond it is ignored.
Stored(l) == IF l < MaxLevel THEN l
             ELSE IF l = MaxLevel THEN MaxLevel - 1 ELSE logLevel

\* The level is stored later.
SetLogLevel ==
  /\ connecting # NoLevel
  /\ logLevel' = Stored(ResolvedLevel(connecting))
  /\ connecting' = NoLevel
  /\ config' = asked
  /\ UNCHANGED <<envVars, loggingEnabled, connects, asked, pc, level, seen, cache, path,
                 retried, out>>

\* Between two connects the application may change the level's variable; the
\* file's variable and the file system may change at any time.
ChangeEnvironment ==
  /\ changes < MaxChanges
  /\ changes' = changes + 1
  /\ \/ envFile' \in FileValues \ {envFile} /\ UNCHANGED <<envLevel, dirs>>
     \/ connecting = NoLevel /\ envLevel' \in LevelValues \ {envLevel} /\ UNCHANGED <<envFile, dirs>>
     \/ \E p \in Paths \ dirs : dirs' = dirs \cup {p} /\ UNCHANGED <<envLevel, envFile>>
  /\ UNCHANGED <<levelVars, confVars, pc, level, seen, cache, path, retried, out>>

-----------------------------------------------------------------------------
(* FIREBOLT_LOG: isLogLevelEnabled() in the macro, the same test in log();  *)
(* each loads the two atomics one after the other.                          *)

Call(t, l) ==
  /\ Goto(t, "idle", "macro")
  /\ level' = [level EXCEPT ![t] = l]
  /\ out' = [out EXCEPT ![t] = <<>>]
  /\ seen' = [seen EXCEPT ![t] = {config, asked}]
  /\ UNCHANGED <<envVars, levelVars, confVars, cache, path, retried>>

Then(label) == CASE label = "macro" -> "macroLevel" [] label = "macroLevel" -> "log"
                 [] label = "log" -> "logLevel" [] label = "logLevel" -> "resolve"

TestEnabled(t) ==
  /\ pc[t] \in {"macro", "log"}
  /\ pc' = [pc EXCEPT ![t] = IF loggingEnabled THEN Then(pc[t]) ELSE "idle"]
  /\ UNCHANGED <<envVars, levelVars, confVars, level, seen, cache, path, retried, out>>

TestLevel(t) ==
  /\ pc[t] \in {"macroLevel", "logLevel"}
  /\ pc' = [pc EXCEPT ![t] = IF level[t] <= logLevel THEN Then(pc[t]) ELSE "idle"]
  /\ UNCHANGED <<envVars, levelVars, confVars, level, seen, cache, path, retried, out>>

-----------------------------------------------------------------------------
(* resolveLogFilePathFromEnvironment() *)

HalfCleared(c) == [c EXCEPT !.path = NoFile]
Cleared(c) == NoCache

\* Unset: the cache is cleared.  A usable path whose directory exists is
\* cached.  Any other value is rejected and leaves the cache alone.
Cached(c) == CASE envFile = "unset"            -> Cleared(c)
               [] envFile \in dirs \ {c.value} -> [value |-> envFile, path |-> Canonical(envFile)]
               [] OTHER                        -> c

ResolveFile(t) ==
  /\ Goto(t, "resolve", "open")
  /\ cache' = [cache EXCEPT ![t] = Cached(@)]
  /\ path' = [path EXCEPT ![t] = IF cache'[t].value = envFile THEN cache'[t].path ELSE NoFile]
  /\ UNCHANGED <<envVars, levelVars, confVars, level, seen, retried, out>>

-----------------------------------------------------------------------------
(* tryWriteToConfiguredLogFile(), and the fallback.                         *)

\* open() and openat(): without a path, or when either fails, to stderr.
OpenFile(t) ==
  /\ \/ path[t] # NoFile /\ Goto(t, "open", "write")
     \/ Goto(t, "open", "fallback")
  /\ retried' = [retried EXCEPT ![t] = FALSE]
  /\ UNCHANGED <<envVars, levelVars, confVars, level, seen, cache, path, out>>

Appended(t, place, part) ==
  out' = [out EXCEPT ![t] = Append(@, [place |-> place, part |-> part])]

WriteAnyLength(t) ==
  /\ pc[t] = "write"
  /\ \/ Appended(t, path[t], "whole") /\ Goto(t, "write", "idle") /\ UNCHANGED retried
     \/ Appended(t, path[t], "head") /\ Goto(t, "write", "idle") /\ UNCHANGED retried
     \/ Goto(t, "write", "fallback") /\ UNCHANGED <<out, retried>>
  /\ UNCHANGED <<envVars, levelVars, confVars, level, seen, cache, path>>

\* One write() of the whole line with O_APPEND, and one more if a signal came
\* first.  A short write leaves a truncated line and counts as a failure.
Write(t) ==
  /\ pc[t] = "write"
  /\ \/ Appended(t, path[t], "whole") /\ Goto(t, "write", "idle") /\ UNCHANGED retried
     \/ Appended(t, path[t], "head") /\ Goto(t, "write", "fallback") /\ UNCHANGED retried
     \/ Goto(t, "write", "fallback") /\ UNCHANGED <<out, retried>>
     \/ /\ ~retried[t]
        /\ retried' = [retried EXCEPT ![t] = TRUE]
        /\ UNCHANGED <<pc, out>>
  /\ UNCHANGED <<envVars, levelVars, confVars, level, seen, cache, path>>

Fallback(t) ==
  /\ Goto(t, "fallback", "idle")
  /\ Appended(t, "stderr", "whole")
  /\ UNCHANGED <<envVars, levelVars, confVars, level, seen, cache, path, retried>>

-----------------------------------------------------------------------------
LogStep(t) == \/ \E l \in Levels : Call(t, l)
              \/ TestEnabled(t) \/ TestLevel(t) \/ ResolveFile(t)
              \/ OpenFile(t) \/ Write(t) \/ Fallback(t)

Next == \/ \E default \in 0 .. MaxLevel + 1 : ResolveLevel(default)
        \/ SetLogLevel \/ ChangeEnvironment
        \/ \E t \in Threads : LogStep(t)

Spec == Init /\ [][Next]_vars

-----------------------------------------------------------------------------
\* "Read on each log call, so changes take effect immediately" (README.md:145):
\* the path a thread uses, cached or not, is that of the variable's value at
\* the time of the call - none for a rejected value, and again the right one
\* when the variable goes back to an earlier value.
PathIsCurrent ==
  [][\A t \in Threads : pc[t] = "resolve" /\ pc'[t] = "open" =>
        path'[t] = IF envFile \in dirs THEN Canonical(envFile) ELSE NoFile]_vars

\* A line that log() accepted is written whole exactly once, to the file or
\* to stderr, when log() returns - also after an interrupted or short write.
EveryLineOut ==
  [][\A t \in Threads : pc[t] \in {"write", "fallback"} /\ pc'[t] = "idle" =>
        \E i \in DOMAIN out'[t] : \A j \in DOMAIN out'[t] :
          out'[t][j].part = "whole" <=> j = i]_vars

\* A line that every configuration in force during the call permits is not
\* dropped, although the two atomics are read, twice, one after the other.
PermittedIsLogged ==
  [][\A t \in Threads :
        pc[t] \in {"macro", "macroLevel", "log", "logLevel"} /\ pc'[t] = "idle" =>
          \E c \in seen[t] : ~Permits(c, level[t])]_vars
=============================================================================
