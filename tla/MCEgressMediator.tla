-------------------------- MODULE MCEgressMediator --------------------------
(***************************************************************************)
(* A small instance of EgressMediator: a session, its child and one        *)
(* listener between them, one host, a plain read and a tunnel to it.       *)
(***************************************************************************)
EXTENDS EgressMediator

CONSTANTS parent, child

MCLowerOf == [h |-> "h"]
NoPairs == {}
MCCredential == {}
MCDescends == { <<child, parent>> }

Plain(class) ==
  [host |-> "h", port |-> "80", class |-> class, tunnel |-> FALSE,
   url |-> [scheme |-> "http", host |-> "h", port |-> None, path |-> <<"get">>, query |-> {}]]
Tunnel == [host |-> "h", port |-> "443", class |-> None, tunnel |-> TRUE, url |-> NoUrl]

Row(pattern, class, addresses, scope, ttl) ==
  [pattern |-> pattern, class |-> class, addresses |-> addresses, scope |-> scope, ttl |-> ttl]

MCRequests == { Plain("read"), Tunnel }

(* A session's pinned row that carries reads and writes and outlives a     *)
(* period of the reaper, one no connection may ride, and a row naming a    *)
(* port, of a lineage or of all.                                           *)
MCMints ==
  { Row(ExactHost("h"), "write", {"a"}, "session", 2), Row(ExactHost("h"), None, {}, "all", 1),
    Row(HostAndPort("h", "443"), "read", {}, "lineage", 2), Row(HostAndPort("h", "443"), "read", {}, "all", 1) }
=============================================================================
