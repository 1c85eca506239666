--------------------------- MODULE GrantPatterns ---------------------------
(***************************************************************************)
(* Targets, patterns and coverage: the pure half of the approval gate and  *)
(* of the egress mediator (packages/approval/src/grants.js, pattern.js,    *)
(* fingerprint.js, packages/egress-proxy/src/proxy.js).                    *)
(*                                                                         *)
(* A target is what a gated call names: a host as spelled, a port, a       *)
(* parsed URL.  URL paths are sequences of segments; the query is a set of *)
(* <<name, value>> pairs (parameter order is no part of its identity).     *)
(***************************************************************************)
EXTENDS Integers, Sequences, FiniteSets

CONSTANTS
  LowerOf,       (* host spelling -> its lowercase form                     *)
  SubdomainOf,   (* set of pairs <<h, d>>: h ends with '.' followed by d    *)
  SegmentPrefix, (* set of pairs <<s, t>>: segment s is a string prefix of t *)
  Credential     (* the parameter names that are credential-shaped          *)

None == "none"

NoUrl == [scheme |-> None]
HasUrl(t) == t.url.scheme # None

SchemePort == [http |-> "80", https |-> "443"]

-----------------------------------------------------------------------------
(* fingerprint.js *)

(* The canonical target: lowercased host, no query, and no port when the   *)
(* port is the default of the URL's scheme.                                *)
CanonicalTarget(t) ==
  [host |-> IF t.host = None THEN None ELSE LowerOf[t.host],
   port |-> IF HasUrl(t) /\ t.port = SchemePort[t.url.scheme] THEN None ELSE t.port,
   url  |-> IF HasUrl(t) THEN [t.url EXCEPT !.query = {}] ELSE NoUrl]

Targetless(t) == t.host = None /\ t.port = None /\ ~HasUrl(t)

(* queryShape: the parameter names of a URL's query, never the values. *)
QueryNames(t) == IF HasUrl(t) THEN { p[1] : p \in t.url.query } ELSE {}

(* The replay identity of an operation.  A command joins it when the call  *)
(* is targetless or its local effect is not provably read-only.            *)
Fingerprint(o) ==
  [tool   |-> o.tool,
   target |-> CanonicalTarget(o.target),
   cmd    |-> IF Targetless(o.target) \/ o.effect = "null" THEN o.cmd ELSE None,
   class  |-> IF o.methodClass \in {"read", "write"} THEN o.methodClass ELSE None,
   query  |-> IF HasUrl(o.target) THEN o.target.url.query ELSE {}]

-----------------------------------------------------------------------------
(* grants.js: the query axis and pattern matching *)

FreeParams == [mode |-> "absent", names |-> {}]

ParamsAllows(params, t) ==
  \/ params.mode \in {"absent", "free"}
  \/ params.mode = "fixed" /\ QueryNames(t) = {}
  \/ params.mode = "allow" /\ QueryNames(t) \subseteq params.names

(* Is path p under prefix q?  A prefix that ends with a separator covers   *)
(* whole segments only; one that does not also covers any path whose next  *)
(* segment merely starts with its last one.                                *)
PathUnder(q, anchored, p) ==
  /\ Len(q) <= Len(p)
  /\ \A i \in 1..Len(q) :
       \/ q[i] = p[i]
       \/ i = Len(q) /\ ~anchored /\ <<q[i], p[i]>> \in SegmentPrefix

UrlPrefixMatches(pattern, t) ==
  /\ HasUrl(t)
  /\ t.url.scheme = pattern.scheme
  /\ t.url.host = pattern.host
  /\ t.url.port = pattern.port
  /\ PathUnder(pattern.path, pattern.anchored, t.url.path)

HostMatches(pattern, t) ==
  /\ t.host # None
  /\ \/ /\ pattern.kind = "ExactHost"
        /\ t.host = pattern.host /\ t.port = None
     \/ /\ pattern.kind = "HostSuffix"
        /\ t.host = pattern.host \/ <<t.host, pattern.host>> \in SubdomainOf
        /\ t.port = None
     \/ /\ pattern.kind = "HostAndPort"
        /\ t.host = pattern.host /\ t.port = pattern.port

(* Structural coverage, the query axis ignored (patternPrefixMatches). *)
PatternPrefixMatches(pattern, t) ==
  IF pattern.kind = "UrlPrefix" THEN UrlPrefixMatches(pattern, t) ELSE HostMatches(pattern, t)

PatternMatches(pattern, t) == PatternPrefixMatches(pattern, t) /\ ParamsAllows(pattern.params, t)

ExactHost(h) == [kind |-> "ExactHost", host |-> h, params |-> FreeParams]
HostAndPort(h, p) == [kind |-> "HostAndPort", host |-> h, port |-> p, params |-> FreeParams]
UrlPrefix(u, path, params) ==
  [kind |-> "UrlPrefix", scheme |-> u.scheme, host |-> u.host, port |-> u.port,
   path |-> path, anchored |-> TRUE, params |-> params]

(* pattern.js: a URL pattern typed with a query gets its trailing slash    *)
(* appended after the query, so the path it stores may not end with one.   *)
ParseUrlPattern(u, slash) ==
  LET names == { p[1] : p \in u.query } IN
  [UrlPrefix(u, u.path, IF names = {} THEN FreeParams ELSE [mode |-> "allow", names |-> names])
     EXCEPT !.anchored = (u.query = {} \/ slash \/ u.path = <<>>)]

NoPattern == [kind |-> None]

(* The connection-shaped pattern of a target: what an egress grant names. *)
EgressPatternFor(t) ==
  IF HasUrl(t)
    THEN HostAndPort(t.url.host, IF t.url.port = None THEN SchemePort[t.url.scheme] ELSE t.url.port)
  ELSE IF t.host = None THEN NoPattern
  ELSE IF t.port = None THEN ExactHost(LowerOf[t.host])
  ELSE HostAndPort(LowerOf[t.host], t.port)

(* The method-class axis at the gate. *)
ClassCovers(class, methodClass, egress) ==
  \/ methodClass = "undeclared"
  \/ class # None /\ (class = "write" \/ class = methodClass)
  \/ class = None /\ egress # "proxy"

-----------------------------------------------------------------------------
(* index.js: the pattern answers an ask can carry, narrowest scope first *)

OfferScopes(path) ==
  { path, IF path = <<>> THEN <<>> ELSE SubSeq(path, 1, Len(path) - 1), <<>> }

PatternOffers(o, egress) ==
  LET t     == CanonicalTarget(o.target)
      names == QueryNames(o.target) \ Credential
  IN
  IF o.refs # {} \/ o.effect = "null" \/ (egress = "proxy" /\ o.methodClass \notin {"read", "write"})
    THEN {}
  ELSE IF HasUrl(t)
    THEN { UrlPrefix(t.url, s, FreeParams) : s \in OfferScopes(t.url.path) }
         \cup { UrlPrefix(t.url, t.url.path, [mode |-> "allow", names |-> ns]) : ns \in {names} \ {{}} }
  ELSE IF t.host = None THEN {}
  ELSE { EgressPatternFor(t) }

-----------------------------------------------------------------------------
(* proxy.js: the mediator's reading of the same rows *)

(* A connection: host, port, and the absolute URL of a plain-HTTP request  *)
(* (NoUrl for a CONNECT tunnel).                                           *)
PatternReaches(pattern, c) ==
  CASE pattern.kind = "UrlPrefix" -> ~c.tunnel /\ PatternMatches(pattern, [host |-> None, port |-> None, url |-> c.url])
    [] pattern.kind \in {"ExactHost", "HostSuffix"} -> PatternMatches(pattern, [host |-> c.host, port |-> None, url |-> NoUrl])
    [] pattern.kind = "HostAndPort" -> PatternMatches(pattern, [host |-> c.host, port |-> c.port, url |-> NoUrl])
    [] OTHER -> FALSE

=============================================================================
