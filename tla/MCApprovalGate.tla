--------------------------- MODULE MCApprovalGate ---------------------------
(***************************************************************************)
(* Small instances of ApprovalGate for TLC: one session, one host, and the *)
(* few operations that tell the layers apart.                              *)
(***************************************************************************)
EXTENDS ApprovalGate

Url(path, query) == [scheme |-> "https", host |-> "h", port |-> None, path |-> path, query |-> query]
At(u) == [host |-> u.host, port |-> None, url |-> u]
NetworkOp(t, class) ==
  [tool |-> "bash", target |-> t, effect |-> "read", methodClass |-> class, delivery |-> class # "undeclared",
   refs |-> {}, cmd |-> "curl"]

(* A read of a route with a query, and a fetch from a host.                *)
GetQuery   == NetworkOp(At(Url(<<"get">>, {<<"q", "1">>})), "read")
FetchHost  == NetworkOp([host |-> "h", port |-> None, url |-> NoUrl], "read")

(* A command that names a declared secret. *)
PushSecret == [tool |-> "bash", target |-> [host |-> None, port |-> None, url |-> NoUrl],
               effect |-> "null", methodClass |-> "undeclared", delivery |-> FALSE,
               refs |-> {"GH_TOKEN"}, cmd |-> "push"]

MCLowerOf == [h |-> "h", H |-> "h"]
MCSubdomainOf == {}
MCSegmentPrefix == {}
MCCredential == {"token"}

OneSession == {"s"}
OneRoot == [s \in OneSession |-> s]
NoPairs == {}

NarrowRow(uses, class) ==
  [pattern |-> ParseUrlPattern(Url(<<"get">>, {<<"p", "1">>}), FALSE),
   class |-> class, ttl |-> 1, maxUses |-> uses, runtime |-> FALSE]

(* Consent: what is decided, cached and spent under the mediated posture.  *)
(* The desk row is narrower than GetQuery, so that act is a params edge.   *)
ConsentOps == {GetQuery, PushSecret}
ConsentDesk == { NarrowRow(1, "read") }
(* Commands whose local effect is unprovable: their text is their identity. *)
PendingOps == { [FetchHost EXCEPT !.effect = "null", !.cmd = c] : c \in {"curl && make", "curl && tar"} }
PlanRows == { ExactHost("h") }
None0 == {}
=============================================================================
