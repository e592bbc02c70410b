---------------------------- MODULE MCUtilities ----------------------------
(* Instances of Logger, LogLine and Url for TLC.  The three share no state: *)
(* each behaviour is one of a single module, with the other two at rest.    *)
EXTENDS Logger, LogLine, Url

CONSTANTS p1, p2, f1, f2

\* Two paths in two directories.
TwoFiles(p) == IF p = p1 THEN f1 ELSE f2

Parts(schemes, users) ==
  [scheme : schemes, user : users,
   path : {<<>>, <<"/">>, <<"/", "json">>, <<"/", "@", "/", "json">>},
   query : {<<>>, <<"?">>, <<"?", "s">>, <<"?", "s", "@", "s">>, <<"?", "s", "?", "s">>,
            <<"?", "s", "/", "s">>, <<"?", "s", "://", "s">>},
   fragment : {<<>>, <<"#", "s">>, <<"#", "s", "@", "?", "s">>}]

\* URLs with the delimiters of one part inside another, and URLs without a
\* scheme, which buildGatewayUrl() accepts too.
AllUrls == {u \in Parts({<<"ws", "://">>}, {<<>>, <<"s", "@">>, <<"s", "s", "@">>})
                    \cup Parts({<<>>}, {<<>>}) : WellFormed(u)}

VARIABLE module  \* the module whose behaviour this is

LoggerAtRest == envLevel = NoLevel /\ envFile = "unset" /\ dirs = {}
UrlAtRest == given = (CHOOSE u \in Urls : TRUE) /\ legacyRPCv1 = FALSE

UtilInit == /\ \/ module = "Logger" /\ UrlAtRest
               \/ module = "LogLine" /\ LoggerAtRest /\ UrlAtRest
               \/ module = "Url" /\ LoggerAtRest
            /\ Init /\ LineInit /\ UrlInit

UtilNext == /\ UNCHANGED module
            /\ \/ module = "Logger" /\ Next /\ UNCHANGED <<lineVars, urlVars>>
               \/ module = "LogLine" /\ LineNext /\ UNCHANGED <<vars, urlVars>>
               \/ module = "Url" /\ UrlNext /\ UNCHANGED <<vars, lineVars>>

UtilSpec == UtilInit /\ [][UtilNext]_<<module, vars, lineVars, urlVars>>
=============================================================================
