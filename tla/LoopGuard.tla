------------------------------ MODULE LoopGuard ------------------------------
(***************************************************************************)
(* The loop guard of one session (packages/loopguard/src).  The guard      *)
(* counts calls, results, refusals and provider failures; twelve trips     *)
(* latch the session's work until the Principal's next message, or halt    *)
(* it for good.  The host is external: it dispatches calls, several of     *)
(* them in flight at once, appends to the session's log, and starts turns. *)
(*                                                                         *)
(* trips.js is the record `guard' and the operators on it; index.js is the *)
(* actions.  A corrective message is modelled by its signature only, and   *)
(* the list of refusals, which no code reads, is left out.                 *)
(***************************************************************************)
EXTENDS Integers, Sequences, FiniteSets, Bags

CONSTANTS Works,        \* loop fingerprints of work calls
          Floor,        \* loop fingerprints of floor calls: escalate, petition, exit
          Tool,         \* the tool of a fingerprint
          GatePrint,    \* the approval gate's fingerprint of a work call
          Spawns,       \* the work calls that spawn a child
          Children,     \* the work calls dispatched under a parent
          Classes,      \* error classes of a failure that is not terminal
          Limit,        \* limit(tripKey)
          CallWindow, PollWindow, LoopPenalty, RepairBudget,
          MaxSeq,       \* bound: events of the session's log
          MaxInFlight,  \* bound: calls in flight at once
          None

Behavioral == {"LG-1", "LG-2", "LG-3", "LG-4", "LG-5", "LG-6",
               "LG-8", "LG-9", "LG-10", "LG-11", "LG-12"}
Trips == Behavioral \cup {"LG-7"}
Ops == Works \cup Floor
InvalidShape == "invalid-shape"

ASSUME NoneIsNoTrip == None \notin Trips
ASSUME OpsAreApart == /\ Works \cap Floor = {} /\ None \notin Ops
                      /\ Spawns \subseteq Works /\ Children \subseteq Works
ASSUME LimitsArePositive == Limit \in [Behavioral -> Nat \ {0}]
ASSUME WindowsHold == /\ CallWindow \in Nat /\ PollWindow \in Nat \ {0}
                      /\ PollWindow <= CallWindow
                      /\ {RepairBudget, LoopPenalty, MaxSeq, MaxInFlight} \subseteq Nat

VARIABLES
  guard,      \* the session's Guard
  wired,      \* does the host carry session/event to the plugin?
  seq,        \* length of the session's log
  lastStart,  \* place of its last turn/start
  inflight,   \* calls between tools/pre-execute and tools/result
  signalled   \* ghost: a turn/start was appended since the latch was raised

vars == <<guard, wired, seq, lastStart, inflight, signalled>>

\* Number.MAX_SAFE_INTEGER: past every place of the log.
Unplaced == MaxSeq + 1
\* A call, and what was decided of it: the guard passed or denied it, the gate
\* behind the guard asked about it or refused it.
Calls == [op : Ops, fate : {"passed", "denied", "asked", "refused"}]
InFlight == BagToSet(inflight)

----------------------------------------------------------------------------
(* trips.js *)

\* (map.get(k) ?? 0), and set(k, that + n).
Tally(f, k) == IF k \in DOMAIN f THEN f[k] ELSE 0
Add(f, k, n) == [x \in DOMAIN f \cup {k} |-> Tally(f, x) + (IF x = k THEN n ELSE 0)]

NoTrip == [key |-> None]

NewGuard ==
  [calls |-> <<>>, failuresByTool |-> <<>>, childFailureFps |-> <<>>,
   childFailures |-> 0, errorSignatures |-> <<>>, rejectionsByFp |-> <<>>,
   refusalsSinceAllow |-> 0, consecutiveLlmFailures |-> 0,
   spawnIdentities |-> <<>>, annotations |-> <<>>, latch |-> NoTrip,
   denyAll |-> NoTrip, repairs |-> <<>>, floorRun |-> [fp |-> None, n |-> 0],
   currentSeq |-> Unplaced]

Stopped(g) == g.denyAll.key # None \/ g.latch.key # None
Standing(g) == IF g.denyAll.key # None THEN g.denyAll ELSE g.latch

\* A mutant: the last repair of the budget already halts.
RaiseEarly(g, key, message) ==
  LET trip == [key |-> key, message |-> message]
      h == [g EXCEPT !.repairs = Add(@, key, 1)]
  IN IF Stopped(g) THEN g
     ELSE IF key \notin Behavioral THEN [g EXCEPT !.denyAll = trip]
     ELSE IF h.repairs[key] >= RepairBudget THEN [h EXCEPT !.denyAll = trip]
     ELSE [h EXCEPT !.latch = [key |-> key, message |-> message, atSeq |-> g.currentSeq]]

\* raise(tripKey, message): a trip latches, or halts when it is not behavioral
\* or its repairs are spent.  A raise while stopped changes nothing.
Raise(g, key, message) ==
  LET trip == [key |-> key, message |-> message]
      h == [g EXCEPT !.repairs = Add(@, key, 1)]
  IN IF Stopped(g) THEN g
     ELSE IF key \notin Behavioral THEN [g EXCEPT !.denyAll = trip]
     ELSE IF h.repairs[key] > RepairBudget THEN [h EXCEPT !.denyAll = trip]
     ELSE [h EXCEPT !.latch = [key |-> key, message |-> message, atSeq |-> g.currentSeq]]

LastCalls(s, n) == SubSeq(s, Len(s) - n + 1, Len(s))
Elements(s) == {s[i] : i \in 1 .. Len(s)}
Windowed(s) == IF Len(s) > CallWindow THEN LastCalls(s, CallWindow) ELSE s

\* LG-5: the same operation `limit' times in a row.
Repeats(c) == /\ Len(c) >= Limit["LG-5"]
              /\ Cardinality(Elements(LastCalls(c, Limit["LG-5"]))) = 1
\* LG-3: a repeated operation, in a window of few operations.
Rotates(c) == /\ Len(c) >= PollWindow
              /\ c[Len(c)] \in {c[i] : i \in Len(c) - PollWindow + 1 .. Len(c) - 1}
              /\ Cardinality(Elements(LastCalls(c, PollWindow))) <= Limit["LG-3"]
\* LG-1: nothing in the last `limit' calls that the window had not seen before.
Stalls(c) == LET n == Len(c) - Limit["LG-1"]
             IN n >= 0 /\ Elements(LastCalls(c, Limit["LG-1"])) \subseteq Elements(SubSeq(c, 1, n))

\* The first trip, in the order the code tries them, whose limit is reached.
First(order, due) ==
  IF due = {} THEN None
  ELSE order[CHOOSE i \in DOMAIN order :
               order[i] \in due /\ \A j \in 1 .. i - 1 : order[j] \notin due]

ShapeTrip(c) ==
  First(<<"LG-5", "LG-3", "LG-1">>,
        {k \in {"LG-5", "LG-3", "LG-1"} : \/ k = "LG-5" /\ Repeats(c)
                                          \/ k = "LG-3" /\ Rotates(c)
                                          \/ k = "LG-1" /\ Stalls(c)})

ShapeMessage(c) ==
  <<Tool[c[Len(c)]], "",
    IF ShapeTrip(c) = "LG-3" THEN Cardinality(Elements(LastCalls(c, PollWindow))) ELSE 0>>

\* LG-10: the identical spawn.
ObserveSpawn(g, op) ==
  LET h == [g EXCEPT !.spawnIdentities = Add(@, op, 1)]
      n == h.spawnIdentities[op]
  IN IF n >= Limit["LG-10"] THEN Raise(h, "LG-10", <<"", "", n>>) ELSE h

ObserveCall(g, op) ==
  LET c == Windowed(Append(g.calls, op))
      h == [g EXCEPT !.calls = c]
  IN IF Stopped(g) THEN g
     ELSE IF ShapeTrip(c) # None THEN Raise(h, ShapeTrip(c), ShapeMessage(c))
     ELSE IF op \in Spawns THEN ObserveSpawn(h, op)
     ELSE h

\* A floor call is judged by its own identical repetition alone.
ObserveFloorCall(g, op) ==
  [g EXCEPT !.floorRun = [fp |-> op, n |-> IF @.fp = op THEN @.n + 1 ELSE 1]]
FloorRefused(g) == g.floorRun.n >= Limit["LG-5"]

\* The counts of a failure: of its tool, of its child, of its signature.
Failed(g, op, class) ==
  LET h == [g EXCEPT !.failuresByTool = Add(@, Tool[op], 1),
                     !.errorSignatures = Add(@, <<Tool[op], class>>, 1)]
  IN IF op \notin Children THEN h
     ELSE [h EXCEPT !.childFailureFps = Add(@, op, 1),
                    !.childFailures = @ + 1 + (IF Tally(g.childFailureFps, op) > 0
                                               THEN LoopPenalty ELSE 0)]

ObserveFailure(g, op, class) ==
  LET h == Failed(g, op, class)
      n == [k \in {"LG-2", "LG-4", "LG-8"} |->
              CASE k = "LG-2" -> h.failuresByTool[Tool[op]]
                [] k = "LG-4" -> h.childFailures
                [] k = "LG-8" -> h.errorSignatures[<<Tool[op], class>>]]
      trip == IF class = "terminal" THEN "LG-7"
              ELSE First(<<"LG-2", "LG-4", "LG-8">>, {k \in DOMAIN n : n[k] >= Limit[k]})
  IN IF trip = None THEN h
     ELSE Raise(h, trip, <<IF trip = "LG-4" THEN "" ELSE Tool[op], class,
                           IF trip = "LG-7" THEN 0 ELSE n[trip]>>)

ObserveResult(g, op, outcome) ==
  IF outcome = "success" THEN [g EXCEPT !.refusalsSinceAllow = 0]
  ELSE ObserveFailure(g, op, outcome)

\* LG-9: one operation denied again and again; LG-12: refused without one allowance.
ObserveRefusal(g, fp, kind) ==
  LET h == [g EXCEPT !.refusalsSinceAllow = @ + 1,
                     !.rejectionsByFp = IF kind = "deny" THEN Add(@, fp, 1) ELSE @]
      r == Tally(h.rejectionsByFp, fp)
  IN IF kind = "deny" /\ r >= Limit["LG-9"] THEN Raise(h, "LG-9", <<"", "", r>>)
     ELSE IF h.refusalsSinceAllow >= Limit["LG-12"]
          THEN Raise(h, "LG-12", <<"", "", h.refusalsSinceAllow>>)
     ELSE h

ObserveLlmFailure(g) ==
  LET h == [g EXCEPT !.consecutiveLlmFailures = @ + 1]
      n == h.consecutiveLlmFailures
  IN IF n >= Limit["LG-6"] THEN Raise(h, "LG-6", <<"", "", n>>) ELSE h

\* LG-11, of the trip about to be told: the same prose twice.
Prose(g) == <<Standing(g).key, Standing(g).message, g.denyAll.key # None>>
ObserveAnnotation(g) ==
  LET h == [g EXCEPT !.annotations = Add(@, Prose(g), 1)]
      n == h.annotations[Prose(g)]
  IN IF n >= Limit["LG-11"] THEN Raise(h, "LG-11", <<"", "", n>>) ELSE h

\* A mutant: the message lifts a halt as well.
ClearEverything(g) ==
  [g EXCEPT !.calls = <<>>, !.latch = NoTrip, !.denyAll = NoTrip,
            !.consecutiveLlmFailures = 0, !.floorRun = [fp |-> None, n |-> 0]]

\* The Principal's message lifts a latch, and never a halt.
ClearOnUserSignal(g) ==
  [g EXCEPT !.calls = IF g.latch.key # None THEN <<>> ELSE @,
            !.latch = NoTrip,
            !.consecutiveLlmFailures = 0,
            !.floorRun = [fp |-> None, n |-> 0]]

----------------------------------------------------------------------------
(* index.js *)

\* syncLatchFromLog: a turn/start at or past the place where the latch was raised.
Synced(g) == IF g.latch.key # None /\ lastStart >= g.latch.atSeq
             THEN ClearOnUserSignal(g) ELSE g

\* classifyToolResult: a success, a terminal failure, or a failure of a class.
Outcomes == {"success", "terminal"} \cup Classes

Placed(g) == [g EXCEPT !.currentSeq = seq]

\* The ghost, given the guard as the step leaves it.
Watched(h) ==
  LET raised == h.latch.key # None /\ h.latch # guard.latch
  IN signalled' = (~raised /\ signalled)

Init ==
  /\ guard = NewGuard
  /\ wired \in BOOLEAN
  /\ seq = 1 /\ lastStart = 0
  /\ inflight = EmptyBag
  /\ signalled = FALSE

\* The event a step appends to the session's log.
Logged == seq < MaxSeq /\ seq' = seq + 1

Dispatched(op, fate) ==
  /\ BagCardinality(inflight) < MaxInFlight
  /\ inflight' = inflight (+) SetToBag({[op |-> op, fate |-> fate]})

Returned(c) == c \in InFlight /\ inflight' = inflight (-) SetToBag({c})

\* tools/pre-execute of a work call.
PreExecute(op) ==
  LET h == ObserveCall(Placed(Synced(guard)), op)
      told == IF Stopped(h) THEN ObserveAnnotation(h) ELSE h
  IN /\ Logged
     /\ Dispatched(op, IF Stopped(h) THEN "denied" ELSE "passed")
     /\ guard' = told
     /\ Watched(told)
     /\ UNCHANGED <<wired, lastStart>>

\* tools/pre-execute of a floor call.
PreExecuteFloor(op) ==
  LET h == ObserveFloorCall(Placed(Synced(guard)), op)
  IN /\ Logged
     /\ Dispatched(op, IF FloorRefused(h) THEN "denied" ELSE "passed")
     /\ guard' = h
     /\ Watched(h)
     /\ UNCHANGED <<wired, lastStart>>

\* isOwnDenial: what this guard refused is no evidence that the tool fails.
OwnDenial(c) == c.fate = "denied"

\* tools/result: the outcome of a call, as classifyToolResult reads it.
Result(c, outcome) ==
  LET counted == c.op \notin Floor /\ ~OwnDenial(c)
      h == IF counted THEN ObserveResult(Placed(guard), c.op, outcome) ELSE guard
  IN /\ Returned(c)
     /\ outcome = "success" => c.fate \in {"passed", "asked"}
     /\ outcome = "terminal" => c.fate \in {"passed", "asked"}
     /\ Logged
     /\ guard' = h
     /\ Watched(h)
     /\ UNCHANGED <<wired, lastStart>>

\* tools/post-execute: a success without a value is blocked and counted; the
\* result the host then reports is the guard's own denial.
ResultWithoutValue(c) ==
  LET h == ObserveResult(Placed(guard), c.op, InvalidShape)
  IN /\ Returned(c) /\ c.fate \in {"passed", "asked"}
     /\ Logged
     /\ guard' = h
     /\ Watched(h)
     /\ UNCHANGED <<wired, lastStart>>

\* REFUSAL_EVENT: the gate behind the guard asks about a call, or denies it.
Refusal(c, kind) ==
  LET h == ObserveRefusal(guard, GatePrint[c.op], kind)
      fate == IF kind = "deny" THEN "refused" ELSE "asked"
  IN /\ c \in InFlight /\ c.fate = "passed" /\ c.op \in Works
     /\ inflight' = (inflight (-) SetToBag({c})) (+) SetToBag({[c EXCEPT !.fate = fate]})
     /\ guard' = h
     /\ Watched(h)
     /\ UNCHANGED <<wired, seq, lastStart>>

\* agent/error: the host's loop failed at the provider.
AgentError ==
  LET h == ObserveLlmFailure(guard)
  IN /\ Logged
     /\ guard' = h
     /\ Watched(h)
     /\ UNCHANGED <<wired, lastStart, inflight>>

\* The Principal's message: a turn/start, which a wired host also announces.
TurnStart ==
  LET h == IF wired THEN ClearOnUserSignal(guard) ELSE guard
  IN /\ Logged
     /\ lastStart' = seq
     /\ guard' = h
     /\ signalled' = TRUE
     /\ UNCHANGED <<wired, inflight>>

Next ==
  \/ \E op \in Works : PreExecute(op)
  \/ \E op \in Floor : PreExecuteFloor(op)
  \/ \E c \in InFlight : \/ \E o \in Outcomes : Result(c, o)
                         \/ ResultWithoutValue(c)
                         \/ \E kind \in {"ask", "deny"} : Refusal(c, kind)
  \/ AgentError
  \/ TurnStart

Spec == Init /\ [][Next]_vars

----------------------------------------------------------------------------
(* Properties *)

\* A message, by what varies in it: a tool, a class, a count.
Message(m) == m[1] \in {Tool[op] : op \in Ops} \cup {""} /\ m[3] \in Nat

\* The calls this step puts in flight.
Copies(c, B) == IF BagIn(c, B) THEN B[c] ELSE 0
Taken == {c \in InFlight' : Copies(c, inflight') > Copies(c, inflight)}

\* Types: every part of the guard holds what its Map, array or field holds.
LoopGuardTypeOK ==
  /\ guard.calls \in Seq(Works) /\ Len(guard.calls) <= CallWindow
  /\ DOMAIN guard.failuresByTool \subseteq {Tool[op] : op \in Ops}
  /\ DOMAIN guard.childFailureFps \subseteq Children
  /\ DOMAIN guard.spawnIdentities \subseteq Spawns
  /\ DOMAIN guard.repairs \subseteq Behavioral
  /\ guard.latch # NoTrip => /\ guard.latch.key \in Behavioral /\ Message(guard.latch.message)
                           /\ guard.latch.atSeq \in 0 .. Unplaced
  /\ guard.denyAll # NoTrip => guard.denyAll.key \in Trips /\ Message(guard.denyAll.message)
  /\ guard.floorRun.fp \in Floor \cup {None}
  /\ seq \in 1 .. MaxSeq /\ lastStart \in 0 .. seq - 1
  /\ InFlight \subseteq Calls /\ BagCardinality(inflight) <= MaxInFlight

\* The trips raised by an event that carries no place of the log: index.js sets
\* currentSeq in the hooks of a call and not for a refusal or a provider failure.
Placeless == {"LG-6", "LG-9", "LG-12"}

\* A halt is for ever and no latch leaks (trips.js:66-67): work enters flight
\* only when nothing halts the session and no latch stands that the Principal
\* has not answered.
WorkWaitsForThePrincipal ==
  [][/\ guard.denyAll.key # None => guard'.denyAll = guard.denyAll
     /\ \A c \in Taken :
          c.op \in Works /\ c.fate = "passed" =>
            /\ guard.denyAll.key = None
            /\ guard.latch.key # None => signalled \/ guard.latch.key \in Placeless]_vars

\* Repairs are bounded, class by class (trips.js:226-230): a class latches the
\* session at most RepairBudget times, the next trip of it halts, and no halt
\* but a terminal workflow comes before the budget is spent.
RepairsEndTheSession ==
  \A k \in Behavioral :
    /\ Tally(guard.repairs, k) <= RepairBudget + 1
    /\ Tally(guard.repairs, k) > RepairBudget
         <=> guard.denyAll.key = k

=============================================================================
