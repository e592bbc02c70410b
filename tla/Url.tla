--------------------------------- MODULE Url ---------------------------------
(* The URL of a connection: buildGatewayUrl() of src/utils.cpp, and the     *)
(* redaction of the URL before it is logged, written out once in            *)
(* GatewayImpl::connect() and once in Transport::connect().  A URL is a     *)
(* sequence of tokens: the delimiters, "s" for text that may be secret      *)
(* (user, query, fragment), other text, and "RPCv2" for RPCv2=true.         *)
EXTENDS Integers, Sequences, SequencesExt, FiniteSetsExt

CONSTANTS Words,  \* text that is not secret
          Urls    \* the URLs given by applications, as records of their parts

Delimiters == {"://", "/", "?", "#", "@"}
Slashes == {"/", "://"}  \* the tokens in which a search for '/' ends
Token == Delimiters \cup {"s", "host", "&", "RPCv2"} \cup Words
Text == Seq(Token)

Avoids(s, tokens) == \A i \in 1 .. Len(s) : s[i] \notin tokens

\* Empty, or with its delimiter at the end, or at the beginning.
EndsWith(s, delimiter) ==
  s # <<>> => s[Len(s)] = delimiter /\ \A i \in 1 .. Len(s) - 1 : s[i] \notin Delimiters
StartsWith(s, delimiter) == s # <<>> => s[1] = delimiter

\* The parts of a URL.  A user comes with a scheme, and without a scheme there
\* is no "://" at all.  A '/' in the query, alone or in a "://", comes after
\* one in the path: WithPath would take it for the path's.
WellFormed(p) ==
  /\ p \in [scheme : Text, user : Text, path : Text, query : Text, fragment : Text]
  /\ EndsWith(p.scheme, "://") /\ EndsWith(p.user, "@")
  /\ StartsWith(p.path, "/") /\ StartsWith(p.query, "?") /\ StartsWith(p.fragment, "#")
  /\ Avoids(p.path, {"?", "#"}) /\ Avoids(p.query, {"#"})
  /\ Avoids(p.scheme, {"s"}) /\ Avoids(p.path, {"s"})
  /\ p.scheme = <<>> => /\ p.user = <<>>
                        /\ \A part \in {p.path, p.query, p.fragment} : Avoids(part, {"://"})
  /\ p.path = <<>> => Avoids(p.query, Slashes)

ASSUME UrlsAssumption == \A p \in Urls : WellFormed(p)

VARIABLES given, legacyRPCv1,  \* what connect() was called with
          url,                 \* what is connected to
          logged,              \* what the log shows
          stage

urlVars == <<given, legacyRPCv1, url, logged, stage>>

\* The reference: a URL put together from its parts.  A query or fragment is
\* a sequence of tokens with its delimiter, or empty.
Place(p) == p.scheme \o <<"host">> \o p.path
Assembled(p) == p.scheme \o p.user \o <<"host">> \o p.path \o p.query \o p.fragment

UrlInit == /\ given \in Urls
           /\ legacyRPCv1 \in BOOLEAN
           /\ url = Assembled(given)
           /\ logged = <<>>
           /\ stage = "called"

\* std::string::find / find_first_of from a position; 0 is npos.
Find(s, tokens, from) ==
  LET found == {i \in from .. Len(s) : s[i] \in tokens}
  IN  IF found = {} THEN 0 ELSE Min(found)

HostStart(s) == Find(s, {"://"}, 1) + 1

WithPathAtEnd(s) ==
  IF Find(s, Slashes, HostStart(s)) # 0 THEN s ELSE Append(s, "/")

\* A URL without a '/' behind the host gets one, before its query.
WithPath(s) ==
  LET query == Find(s, {"?"}, HostStart(s))
  IN  IF Find(s, Slashes, HostStart(s)) # 0 THEN s
      ELSE IF query = 0 THEN Append(s, "/") ELSE InsertAt(s, query, "/")

BuildGatewayUrl(s, legacy) ==
  LET u == WithPath(s)
      separator == IF Find(u, {"?"}, HostStart(u)) = 0 THEN "?" ELSE "&"
  IN  IF legacy THEN u ELSE u \o <<separator, "RPCv2">>

\* Everything from the first such token on is cut.
Cut(s, token) == IF Find(s, {token}, 1) = 0 THEN s ELSE SubSeq(s, 1, Find(s, {token}, 1) - 1)

WithoutUserAnywhere(s) ==
  LET at == Find(s, {"@"}, HostStart(s))
  IN  IF at = 0 THEN s ELSE SubSeq(s, 1, HostStart(s) - 1) \o SubSeq(s, at + 1, Len(s))

\* An '@' before the end of the authority ends the user's part of it.
WithoutUser(s) ==
  LET start == HostStart(s)
      end   == Find(s, Slashes \cup {"?", "#"}, start)
      at    == Find(s, {"@"}, start)
  IN  IF start > 1 /\ at # 0 /\ (end = 0 \/ at < end)
        THEN SubSeq(s, 1, start - 1) \o SubSeq(s, at + 1, Len(s)) ELSE s

Redacted(s) == Cut(Cut(WithoutUser(s), "?"), "#")

-----------------------------------------------------------------------------
GatewayConnect ==
  /\ stage = "called"
  /\ url' = BuildGatewayUrl(url, legacyRPCv1)
  /\ logged' = Redacted(url')
  /\ stage' = "connecting"
  /\ UNCHANGED <<given, legacyRPCv1>>

TransportConnect ==
  /\ stage = "connecting"
  /\ logged' = Redacted(url)
  /\ stage' = "done"
  /\ UNCHANGED <<given, legacyRPCv1, url>>

UrlNext == GatewayConnect \/ TransportConnect

UrlSpec == UrlInit /\ [][UrlNext]_urlVars
-----------------------------------------------------------------------------
WithSlash(p) == [p EXCEPT !.path = IF @ = <<>> THEN <<"/">> ELSE @]
WithVersion(p) == [p EXCEPT !.query = IF @ = <<>> THEN <<"?", "RPCv2">> ELSE @ \o <<"&", "RPCv2">>]

\* "Add / at the end of URL, otherwise query arguments were not sent"
\* (CHANGELOG.md:89): the path and, unless legacy, the RPCv2 argument are
\* added to the right part of the URL, and nothing else of it changes.  (A
\* fragment, which a websocket URL must not have, is not looked for.)
BuiltFromItsParts ==
  stage # "called" /\ given.fragment = <<>> =>
    url = Assembled(IF legacyRPCv1 THEN WithSlash(given) ELSE WithVersion(WithSlash(given)))

\* "Redact the URL to avoid leaking tokens/credentials ... avoid mis-redacting
\* '@' in the path" (transport.cpp:170-173): the log shows scheme, host and
\* path as they were given, and no user, query or fragment.
LogsPlaceOnly ==
  stage # "called" => /\ IsPrefix(Place(given), logged)
                      /\ \A i \in DOMAIN logged : logged[i] # "s"
=============================================================================
