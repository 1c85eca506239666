---------------------------- MODULE AgentProofs ----------------------------
(***************************************************************************)
(* Theorems about what bounds an agent: the guard that stops it, the       *)
(* delegation and departure that open and close its relations, and the     *)
(* community's engine that gives it its turns.  The three specifications   *)
(* share no variable and are proved about side by side.                    *)
(*                                                                         *)
(* The loop guard, for any tools, limits, windows and budget: a class of   *)
(* trip latches the session within its budget and then halts it, and no    *)
(* work enters flight past a halt, nor past a latch the Principal has not  *)
(* answered.  Whatever the trackers count, an observation changes the      *)
(* counts alone, or raises one trip: the first section says so of each of  *)
(* them, and what is proved of Raise is then proved of them all.           *)
(*                                                                         *)
(* Delegation and departure, for any agents, kinds and depths: the last    *)
(* notice a parent had is the truth about its runs; an agent's attention   *)
(* opens by a delegation and by nothing else; and an agent that is gone    *)
(* left a record of all that was owed.                                     *)
(*                                                                         *)
(* A community's run, for any members, charter and operator: it ends for   *)
(* the reason it gives, and a process that resumes it goes on from the     *)
(* start of the board that was posted.                                     *)
(***************************************************************************)
EXTENDS LoopGuard, Departure, Community, SequenceTheorems, FiniteSetTheorems,
        WellFoundedInduction, TLAPS

-----------------------------------------------------------------------------
(* What an observation does to the guard *)

Fields == {"calls", "failuresByTool", "childFailureFps", "childFailures", "errorSignatures",
           "rejectionsByFp", "refusalsSinceAllow", "consecutiveLlmFailures", "spawnIdentities",
           "annotations", "latch", "denyAll", "repairs", "floorRun", "currentSeq"}

\* h has what g has, but for counts.
Counted(g, h) ==
  /\ DOMAIN g = Fields /\ DOMAIN h = Fields
  /\ h.latch = g.latch /\ h.denyAll = g.denyAll /\ h.repairs = g.repairs
  /\ h.currentSeq = g.currentSeq

\* h counts what g does not, or then raises a trip of one of the keys.
Observes(g, h, keys) ==
  \/ Counted(g, h)
  \/ \E k \in keys : \E message, i : Counted(g, i) /\ h = Raise(i, k, message)

LEMMA CallObserved ==
  ASSUME NEW g, NEW op, DOMAIN g = Fields
  PROVE  \E keys : Observes(g, ObserveCall(g, op), keys)
<1> DEFINE c == Windowed(Append(g.calls, op))
           h == [g EXCEPT !.calls = c]
<1>1. Counted(g, h)
  BY DEF Counted, Fields
<1> HIDE DEF c, h
<1>2. CASE ObserveCall(g, op) = h
  BY <1>1, <1>2 DEF Observes
<1>3. CASE ObserveCall(g, op) = Raise(h, ShapeTrip(c), ShapeMessage(c))
  <2>1. Observes(g, ObserveCall(g, op), {ShapeTrip(c)})
    BY <1>1, <1>3 DEF Observes
  <2> QED BY <2>1
<1>4. CASE ObserveCall(g, op) = ObserveSpawn(h, op)
  <2> DEFINE k == [h EXCEPT !.spawnIdentities = Add(@, op, 1)]
             n == k.spawnIdentities[op]
  <2>1. Counted(g, k)
    BY <1>1 DEF Counted, Fields
  <2>2. ObserveSpawn(h, op) = k \/ ObserveSpawn(h, op) = Raise(k, "LG-10", <<"", "", n>>)
    BY DEF ObserveSpawn
  <2> HIDE DEF k, n
  <2>3. Observes(g, ObserveCall(g, op), {"LG-10"})
    BY <1>4, <2>1, <2>2 DEF Observes
  <2> QED BY <2>3
<1>5. CASE ObserveCall(g, op) = g
  BY <1>5 DEF Observes, Counted
<1>6. \/ ObserveCall(g, op) = g
      \/ ObserveCall(g, op) = h
      \/ ObserveCall(g, op) = Raise(h, ShapeTrip(c), ShapeMessage(c))
      \/ ObserveCall(g, op) = ObserveSpawn(h, op)
  BY DEF ObserveCall, c, h
<1> QED BY <1>2, <1>3, <1>4, <1>5, <1>6

LEMMA FloorCallObserved ==
  ASSUME NEW g, NEW op, DOMAIN g = Fields
  PROVE  Counted(g, ObserveFloorCall(g, op))
BY DEF ObserveFloorCall, Counted, Fields

LEMMA ResultObserved ==
  ASSUME NEW g, NEW op, NEW outcome, DOMAIN g = Fields
  PROVE  \E keys : Observes(g, ObserveResult(g, op, outcome), keys)
<1>1. CASE outcome = "success"
  <2>1. Counted(g, [g EXCEPT !.refusalsSinceAllow = 0])
    BY DEF Counted, Fields
  <2> QED BY <1>1, <2>1 DEF ObserveResult, Observes
<1>2. CASE outcome # "success"
  <2>1. Counted(g, Failed(g, op, outcome))
    BY DEF Failed, Counted, Fields
  <2>2. \/ ObserveFailure(g, op, outcome) = Failed(g, op, outcome)
        \/ \E k, message : ObserveFailure(g, op, outcome) = Raise(Failed(g, op, outcome), k, message)
    BY DEF ObserveFailure
  <2>3. CASE ObserveFailure(g, op, outcome) = Failed(g, op, outcome)
    BY <1>2, <2>1, <2>3 DEF ObserveResult, Observes
  <2>4. ASSUME NEW k, NEW message, ObserveFailure(g, op, outcome) = Raise(Failed(g, op, outcome), k, message)
        PROVE  \E keys : Observes(g, ObserveResult(g, op, outcome), keys)
    <3>1. Observes(g, ObserveResult(g, op, outcome), {k})
      BY <1>2, <2>1, <2>4 DEF ObserveResult, Observes
    <3> QED BY <3>1
  <2> QED BY <2>2, <2>3, <2>4
<1> QED BY <1>1, <1>2

LEMMA RefusalObserved ==
  ASSUME NEW g, NEW fp, NEW kind, DOMAIN g = Fields
  PROVE  Observes(g, ObserveRefusal(g, fp, kind), Placeless)
<1> DEFINE h == [g EXCEPT !.refusalsSinceAllow = @ + 1,
                          !.rejectionsByFp = IF kind = "deny" THEN Add(@, fp, 1) ELSE @]
           r == Tally(h.rejectionsByFp, fp)
<1>1. Counted(g, h)
  BY DEF Counted, Fields
<1>2. \/ ObserveRefusal(g, fp, kind) = h
      \/ ObserveRefusal(g, fp, kind) = Raise(h, "LG-9", <<"", "", r>>)
      \/ ObserveRefusal(g, fp, kind) = Raise(h, "LG-12", <<"", "", h.refusalsSinceAllow>>)
  BY DEF ObserveRefusal
<1> HIDE DEF h, r
<1> QED BY <1>1, <1>2 DEF Observes, Placeless

LEMMA LlmFailureObserved ==
  ASSUME NEW g, DOMAIN g = Fields
  PROVE  Observes(g, ObserveLlmFailure(g), Placeless)
<1> DEFINE h == [g EXCEPT !.consecutiveLlmFailures = @ + 1]
           n == h.consecutiveLlmFailures
<1>1. Counted(g, h)
  BY DEF Counted, Fields
<1>2. ObserveLlmFailure(g) = h \/ ObserveLlmFailure(g) = Raise(h, "LG-6", <<"", "", n>>)
  BY DEF ObserveLlmFailure
<1> HIDE DEF h, n
<1> QED BY <1>1, <1>2 DEF Observes, Placeless

LEMMA AnnotationObserved ==
  ASSUME NEW g, DOMAIN g = Fields
  PROVE  \E keys : Observes(g, ObserveAnnotation(g), keys)
<1> DEFINE h == [g EXCEPT !.annotations = Add(@, Prose(g), 1)]
           n == h.annotations[Prose(g)]
<1>1. Counted(g, h)
  BY DEF Counted, Fields
<1>2. ObserveAnnotation(g) = h \/ ObserveAnnotation(g) = Raise(h, "LG-11", <<"", "", n>>)
  BY DEF ObserveAnnotation
<1> HIDE DEF h, n
<1>3. Observes(g, ObserveAnnotation(g), {"LG-11"})
  BY <1>1, <1>2 DEF Observes
<1> QED BY <1>3

-----------------------------------------------------------------------------
(* What raising a trip does *)

LEMMA AddCounts ==
  ASSUME NEW f, NEW k
  PROVE  /\ \A x : x # k => Tally(Add(f, k, 1), x) = Tally(f, x) + 0
         /\ Tally(Add(f, k, 1), k) = Tally(f, k) + 1
         /\ Add(f, k, 1)[k] = Tally(f, k) + 1
BY DEF Add, Tally

\* The repairs of each class, and the halt that ends them.
RepairsBounded(g) ==
  /\ DOMAIN g = Fields
  /\ \A k \in Behavioral :
       /\ Tally(g.repairs, k) \in Nat
       /\ Tally(g.repairs, k) <= RepairBudget + 1
       /\ Tally(g.repairs, k) > RepairBudget <=> g.denyAll.key = k

\* h is g with the trip k raised.
Raised(g, k, message, h) ==
  /\ DOMAIN h = Fields
  /\ Stopped(g) => h = g
  /\ ~Stopped(g) /\ k \notin Behavioral =>
       h.denyAll.key = k /\ h.repairs = g.repairs /\ h.latch = g.latch
  /\ ~Stopped(g) /\ k \in Behavioral =>
       /\ h.repairs = Add(g.repairs, k, 1)
       /\ \/ h.repairs[k] > RepairBudget /\ h.denyAll.key = k /\ h.latch = g.latch
          \/ /\ ~(h.repairs[k] > RepairBudget) /\ h.denyAll = g.denyAll
             /\ h.latch.key = k /\ h.latch.atSeq = g.currentSeq

LEMMA RaiseShape ==
  ASSUME NEW g, NEW k, NEW message, DOMAIN g = Fields
  PROVE  Raised(g, k, message, Raise(g, k, message))
<1> DEFINE r == Add(g.repairs, k, 1)
           trip == [key |-> k, message |-> message]
           latched == [key |-> k, message |-> message, atSeq |-> g.currentSeq]
           h == [g EXCEPT !.repairs = r]
<1>1. Raise(g, k, message) =
        IF Stopped(g) THEN g
        ELSE IF k \notin Behavioral THEN [g EXCEPT !.denyAll = trip]
        ELSE IF h.repairs[k] > RepairBudget THEN [h EXCEPT !.denyAll = trip]
        ELSE [h EXCEPT !.latch = latched]
  BY DEF Raise
<1>2. trip.key = k /\ latched.key = k /\ latched.atSeq = g.currentSeq
  OBVIOUS
<1>3. DOMAIN h = Fields /\ h.repairs = r /\ h.denyAll = g.denyAll /\ h.latch = g.latch
  BY DEF Fields
<1> HIDE DEF r, trip, latched, h
<1>4. /\ DOMAIN [g EXCEPT !.denyAll = trip] = Fields /\ [g EXCEPT !.denyAll = trip].denyAll = trip
      /\ [g EXCEPT !.denyAll = trip].latch = g.latch /\ [g EXCEPT !.denyAll = trip].repairs = g.repairs
  BY DEF Fields
<1>5. /\ DOMAIN [h EXCEPT !.denyAll = trip] = Fields /\ [h EXCEPT !.denyAll = trip].denyAll = trip
      /\ [h EXCEPT !.denyAll = trip].latch = h.latch /\ [h EXCEPT !.denyAll = trip].repairs = h.repairs
  BY <1>3 DEF Fields
<1>6. /\ DOMAIN [h EXCEPT !.latch = latched] = Fields /\ [h EXCEPT !.latch = latched].latch = latched
      /\ [h EXCEPT !.latch = latched].denyAll = h.denyAll /\ [h EXCEPT !.latch = latched].repairs = h.repairs
  BY <1>3 DEF Fields
<1> QED BY <1>1, <1>2, <1>3, <1>4, <1>5, <1>6 DEF Raised, r

LEMMA RaiseBounds ==
  ASSUME NEW g, NEW k, NEW message, RepairsBounded(g)
  PROVE  RepairsBounded(Raise(g, k, message))
<1> DEFINE h == Raise(g, k, message)
<1>0. Raised(g, k, message, h)
  BY RaiseShape DEF RepairsBounded
<1> SUFFICES RepairsBounded(h)
  OBVIOUS
<1> HIDE DEF h
<1>1. CASE Stopped(g)
  BY <1>0, <1>1 DEF Raised
<1>2. CASE ~Stopped(g) /\ k \notin Behavioral
  <2>1. DOMAIN h = Fields /\ h.denyAll.key = k /\ h.repairs = g.repairs
    BY <1>0, <1>2 DEF Raised
  <2>2. g.denyAll.key \notin Behavioral
    BY <1>2, NoneIsNoTrip DEF Stopped, Trips
  <2> QED BY <1>2, <2>1, <2>2 DEF RepairsBounded
<1>3. CASE ~Stopped(g) /\ k \in Behavioral
  <2>1. /\ DOMAIN h = Fields /\ h.repairs = Add(g.repairs, k, 1)
        /\ h.repairs[k] > RepairBudget => h.denyAll.key = k
        /\ ~(h.repairs[k] > RepairBudget) => h.denyAll = g.denyAll
    BY <1>0, <1>3 DEF Raised
  <2>2. g.denyAll.key = None /\ None \notin Behavioral
    BY <1>3, NoneIsNoTrip DEF Stopped, Trips
  <2>3. RepairBudget \in Nat
    BY WindowsHold
  <2>4. h.repairs[k] = Tally(g.repairs, k) + 1 /\ Tally(h.repairs, k) = Tally(g.repairs, k) + 1
        /\ \A x : x # k => Tally(h.repairs, x) = Tally(g.repairs, x) + 0
    BY <2>1, AddCounts
  <2>5. \A x \in Behavioral : Tally(g.repairs, x) \in Nat /\ Tally(g.repairs, x) <= RepairBudget
    BY <2>2, <2>3 DEF RepairsBounded
  <2>6. ASSUME NEW x \in Behavioral
        PROVE  /\ Tally(h.repairs, x) \in Nat /\ Tally(h.repairs, x) <= RepairBudget + 1
               /\ Tally(h.repairs, x) > RepairBudget <=> h.denyAll.key = x
    <3>1. Tally(g.repairs, x) \in Nat /\ Tally(g.repairs, x) <= RepairBudget /\ x # None
      BY <2>2, <2>5
    <3>2. CASE x = k
      BY <2>1, <2>2, <2>3, <2>4, <3>1, <3>2
    <3>3. CASE x # k
      BY <2>1, <2>2, <2>3, <2>4, <3>1, <3>3
    <3> QED BY <3>2, <3>3
  <2> QED BY <2>1, <2>6 DEF RepairsBounded
<1> QED BY <1>1, <1>2, <1>3 DEF h

\* Raising keeps a halt, and a latch, for good.
LEMMA RaiseKeepsHalts ==
  ASSUME NEW g, NEW k, NEW message, DOMAIN g = Fields
  PROVE  /\ g.denyAll.key # None => Raise(g, k, message).denyAll = g.denyAll
         /\ Stopped(g) => Raise(g, k, message) = g
BY RaiseShape DEF Stopped, Raised

-----------------------------------------------------------------------------
(* What an observation does *)

LEMMA ObservesKeeps ==
  ASSUME NEW g, NEW h, NEW keys, Observes(g, h, keys)
  PROVE  /\ DOMAIN g = Fields /\ DOMAIN h = Fields
         /\ RepairsBounded(g) => RepairsBounded(h)
         /\ g.denyAll.key # None => h.denyAll = g.denyAll
         /\ Stopped(g) => h.latch = g.latch /\ h.denyAll = g.denyAll /\ Stopped(h)
         /\ \/ h.latch = g.latch
            \/ h.latch.key \in keys /\ h.latch.atSeq = g.currentSeq
<1>1. CASE Counted(g, h)
  BY <1>1 DEF Counted, RepairsBounded, Stopped
<1>2. ASSUME NEW k \in keys, NEW message, NEW i, Counted(g, i), h = Raise(i, k, message)
      PROVE  /\ DOMAIN g = Fields /\ DOMAIN h = Fields
             /\ RepairsBounded(g) => RepairsBounded(h)
             /\ g.denyAll.key # None => h.denyAll = g.denyAll
             /\ Stopped(g) => h.latch = g.latch /\ h.denyAll = g.denyAll /\ Stopped(h)
             /\ \/ h.latch = g.latch
                \/ h.latch.key \in keys /\ h.latch.atSeq = g.currentSeq
  <2>1. /\ DOMAIN g = Fields /\ DOMAIN i = Fields /\ i.latch = g.latch /\ i.denyAll = g.denyAll
        /\ i.repairs = g.repairs /\ i.currentSeq = g.currentSeq
    BY <1>2 DEF Counted
  <2>2. RepairsBounded(g) => RepairsBounded(h)
    BY <1>2, <2>1, RaiseBounds DEF RepairsBounded
  <2>3. (Stopped(g) <=> Stopped(i)) /\ (Stopped(i) => h = i) /\ (g.denyAll.key # None => h.denyAll = g.denyAll)
    BY <1>2, <2>1, RaiseKeepsHalts DEF Stopped
  <2>4. DOMAIN h = Fields
    BY <1>2, <2>1, RaiseShape DEF Raised
  <2>5. h.latch = i.latch \/ (h.latch.key = k /\ h.latch.atSeq = i.currentSeq)
    BY <1>2, <2>1, RaiseShape DEF Raised
  <2> QED BY <1>2, <2>1, <2>2, <2>3, <2>4, <2>5
<1> QED BY <1>1, <1>2 DEF Observes

-----------------------------------------------------------------------------
(* The calls in flight *)

LEMMA OnePutInFlight ==
  ASSUME NEW B, IsABag(B), NEW c
  PROVE  /\ IsABag(B (+) SetToBag({c}))
         /\ DOMAIN (B (+) SetToBag({c})) = DOMAIN B \cup {c}
         /\ \A d : Copies(d, B (+) SetToBag({c})) > Copies(d, B) => d = c
<1> DEFINE S == SetToBag({c})
<1>1. DOMAIN S = {c} /\ S[c] = 1
  BY DEF SetToBag
<1>2. B (+) S = [e \in DOMAIN B \cup DOMAIN S |->
                   (IF e \in DOMAIN B THEN B[e] ELSE 0) + (IF e \in DOMAIN S THEN S[e] ELSE 0)]
  BY DEF (+)
<1>3. \A e \in DOMAIN B : B[e] \in Nat /\ B[e] > 0
  BY DEF IsABag
<1> HIDE DEF S
<1>4. DOMAIN (B (+) S) = DOMAIN B \cup {c}
  BY <1>1, <1>2
<1>5. \A e \in DOMAIN B \cup {c} : (B (+) S)[e] = (IF e \in DOMAIN B THEN B[e] ELSE 0) + (IF e = c THEN 1 ELSE 0)
  BY <1>1, <1>2
<1>6. \A e \in DOMAIN B \cup {c} : (B (+) S)[e] \in {n \in Nat : n > 0}
  BY <1>3, <1>5
<1>7. IsABag(B (+) S)
  BY <1>1, <1>2, <1>4, <1>6 DEF IsABag
<1>8. ASSUME NEW d, d # c
      PROVE  ~(Copies(d, B (+) S) > Copies(d, B))
  BY <1>3, <1>4, <1>5, <1>8 DEF Copies, BagIn, BagToSet
<1> QED BY <1>4, <1>7, <1>8 DEF S

LEMMA OneReturned ==
  ASSUME NEW B, IsABag(B), NEW c
  PROVE  /\ IsABag(B (-) SetToBag({c}))
         /\ DOMAIN (B (-) SetToBag({c})) \subseteq DOMAIN B
         /\ \A d : Copies(d, B (-) SetToBag({c})) <= Copies(d, B)
<1> DEFINE S == SetToBag({c})
           D == [e \in DOMAIN B |-> IF e \in DOMAIN S THEN B[e] - S[e] ELSE B[e]]
<1>1. DOMAIN S = {c} /\ S[c] = 1
  BY DEF SetToBag
<1>2. B (-) S = [e \in {d \in DOMAIN D : D[d] > 0} |-> D[e]]
  BY DEF (-)
<1>3. \A e \in DOMAIN B : B[e] \in Nat /\ B[e] > 0
  BY DEF IsABag
<1>4. DOMAIN D = DOMAIN B /\ \A e \in DOMAIN B : D[e] \in Int /\ D[e] <= B[e]
  BY <1>1, <1>3
<1> HIDE DEF S, D
<1>5. /\ DOMAIN (B (-) S) = {d \in DOMAIN B : D[d] > 0}
      /\ \A e \in DOMAIN (B (-) S) : (B (-) S)[e] = D[e] /\ D[e] \in {n \in Nat : n > 0}
  BY <1>2, <1>4
<1>6. IsABag(B (-) S)
  BY <1>2, <1>5 DEF IsABag
<1>7. \A d : Copies(d, B (-) S) <= Copies(d, B)
  BY <1>3, <1>4, <1>5 DEF Copies, BagIn, BagToSet
<1> QED BY <1>5, <1>6, <1>7 DEF S

-----------------------------------------------------------------------------
(* The inductive invariant *)

\* A latch of a call, which the Principal has not answered, was raised after the last turn
\* began: only the next turn lifts it.
LatchWaits ==
  guard.latch.key # None /\ guard.latch.key \notin Placeless /\ ~signalled => ~(lastStart >= guard.latch.atSeq)

GuardInv ==
  /\ RepairsBounded(guard)
  /\ LatchWaits
  /\ seq \in Nat /\ lastStart \in Nat /\ lastStart < seq
  /\ IsABag(inflight) /\ InFlight \subseteq Calls
  /\ signalled \in BOOLEAN

LEMMA GuardMoves ==
  ASSUME GuardInv, NEW h, RepairsBounded(h),
         \/ h.latch = guard.latch \/ h.latch.key = None
         \/ h.latch.key \in Placeless \/ h.latch.atSeq = seq,
         guard' = h, Watched(h), UNCHANGED lastStart, seq' = seq \/ seq' = seq + 1, IsABag(inflight'), InFlight' \subseteq Calls
  PROVE  GuardInv'
<1>1. RepairsBounded(guard)'
  BY DEF RepairsBounded
<1>2. signalled' \in BOOLEAN
  BY DEF Watched
<1>3. LatchWaits'
  <2> SUFFICES ASSUME h.latch.key # None, h.latch.key \notin Placeless, ~signalled'
               PROVE  ~(lastStart >= h.latch.atSeq)
    BY DEF LatchWaits
  <2>1. CASE h.latch = guard.latch
    <3>1. ~signalled
      BY <2>1 DEF Watched, GuardInv
    <3> QED BY <2>1, <3>1 DEF GuardInv, LatchWaits
  <2>2. CASE h.latch.atSeq = seq
    BY <2>2 DEF GuardInv
  <2> QED BY <2>1, <2>2
<1> QED BY <1>1, <1>2, <1>3 DEF GuardInv

\* Where a hook begins: the guard, a latch answered or not, and the place of the event.
LEMMA PlacedGuard ==
  ASSUME GuardInv, NEW g, g = guard \/ g = Synced(guard)
  PROVE  /\ DOMAIN Placed(g) = Fields /\ RepairsBounded(Placed(g))
         /\ Placed(g).currentSeq = seq /\ Placed(g).denyAll = guard.denyAll
         /\ Placed(g).latch = guard.latch \/ Placed(g).latch.key = None
         /\ guard.latch.key # None /\ guard.latch.key \notin Placeless /\ ~signalled =>
              Placed(g).latch = guard.latch
<1>1. DOMAIN guard = Fields
  BY DEF GuardInv, RepairsBounded
<1>2. /\ DOMAIN ClearOnUserSignal(guard) = Fields
      /\ ClearOnUserSignal(guard).latch.key = None
      /\ ClearOnUserSignal(guard).denyAll = guard.denyAll
      /\ ClearOnUserSignal(guard).repairs = guard.repairs
  BY <1>1 DEF ClearOnUserSignal, NoTrip, Fields
<1>3. g = guard \/ (g = ClearOnUserSignal(guard) /\ guard.latch.key # None /\ lastStart >= guard.latch.atSeq)
  BY DEF Synced
<1>4. /\ DOMAIN g = Fields /\ g.denyAll = guard.denyAll /\ g.repairs = guard.repairs
      /\ g.latch = guard.latch \/ g.latch.key = None
  BY <1>1, <1>2, <1>3
<1>5. /\ DOMAIN Placed(g) = Fields /\ Placed(g).denyAll = g.denyAll /\ Placed(g).repairs = g.repairs
      /\ Placed(g).latch = g.latch /\ Placed(g).currentSeq = seq
  BY <1>4 DEF Placed, Fields
<1>6. RepairsBounded(Placed(g))
  BY <1>4, <1>5 DEF GuardInv, RepairsBounded
<1>7. guard.latch.key # None /\ guard.latch.key \notin Placeless /\ ~signalled => g = guard
  <2> SUFFICES ASSUME guard.latch.key # None, guard.latch.key \notin Placeless, ~signalled,
                      lastStart >= guard.latch.atSeq
               PROVE  FALSE
    BY <1>3
  <2> QED BY DEF GuardInv, LatchWaits
<1> QED BY <1>4, <1>5, <1>6, <1>7

-----------------------------------------------------------------------------
(* The hooks *)

\* What WorkWaitsForThePrincipal says of a step.
Waits ==
  /\ guard.denyAll.key # None => guard'.denyAll = guard.denyAll
  /\ \A c \in Taken :
       c.op \in Works /\ c.fate = "passed" =>
         /\ guard.denyAll.key = None
         /\ guard.latch.key # None => signalled \/ guard.latch.key \in Placeless

\* A work call: what the hook leaves, and when it lets the call pass.
LEMMA PreExecuteSteps ==
  ASSUME GuardInv, NEW op \in Works, PreExecute(op)
  PROVE  GuardInv' /\ Waits
<1> DEFINE g == Placed(Synced(guard))
           h == ObserveCall(g, op)
           heard == IF Stopped(h) THEN ObserveAnnotation(h) ELSE h
           fate == IF Stopped(h) THEN "denied" ELSE "passed"
           call == [op |-> op, fate |-> fate]
<1>1. guard' = heard /\ Watched(heard) /\ UNCHANGED lastStart /\ seq' = seq + 1
      /\ inflight' = inflight (+) SetToBag({call})
  BY DEF PreExecute, Logged, Dispatched
<1>2. /\ DOMAIN g = Fields /\ RepairsBounded(g) /\ g.currentSeq = seq /\ g.denyAll = guard.denyAll
      /\ g.latch = guard.latch \/ g.latch.key = None
      /\ guard.latch.key # None /\ guard.latch.key \notin Placeless /\ ~signalled => g.latch = guard.latch
  BY PlacedGuard
<1> HIDE DEF g
<1>3. PICK keys : Observes(g, h, keys)
  BY <1>2, CallObserved
<1>4. /\ DOMAIN h = Fields /\ RepairsBounded(h)
      /\ g.denyAll.key # None => h.denyAll = g.denyAll
      /\ Stopped(g) => h.latch = g.latch /\ h.denyAll = g.denyAll /\ Stopped(h)
      /\ h.latch = g.latch \/ h.latch.atSeq = g.currentSeq
  <2> HIDE DEF h
  <2> QED BY <1>2, <1>3, ObservesKeeps
<1> HIDE DEF h
<1>5. RepairsBounded(heard) /\ heard.latch = h.latch /\ heard.denyAll = h.denyAll
  <2>1. CASE Stopped(h)
    <3>1. PICK k2 : Observes(h, ObserveAnnotation(h), k2)
      BY <1>4, AnnotationObserved
    <3> QED BY <1>4, <2>1, <3>1, ObservesKeeps
  <2>2. CASE ~Stopped(h)
    BY <1>4, <2>2
  <2> QED BY <2>1, <2>2
<1> HIDE DEF heard
<1>6. /\ IsABag(inflight') /\ InFlight' \subseteq Calls
      /\ \A c \in Taken : c = call
  <2>1. call \in Calls
    BY DEF Calls, Ops
  <2> HIDE DEF call
  <2>2. /\ IsABag(inflight') /\ DOMAIN inflight' = DOMAIN inflight \cup {call}
        /\ \A d : Copies(d, inflight') > Copies(d, inflight) => d = call
    BY <1>1, OnePutInFlight DEF GuardInv
  <2> QED BY <2>1, <2>2 DEF GuardInv, Taken, InFlight, BagToSet
<1>7. GuardInv'
  <2>1. \/ heard.latch = guard.latch \/ heard.latch.key = None
        \/ heard.latch.key \in Placeless \/ heard.latch.atSeq = seq
    BY <1>2, <1>4, <1>5
  <2> QED BY <1>1, <1>5, <1>6, <2>1, GuardMoves
<1>8. Waits
  <2>1. guard.denyAll.key # None => guard'.denyAll = guard.denyAll
    BY <1>1, <1>2, <1>4, <1>5
  <2>2. call.fate = "passed" => ~Stopped(g)
    BY <1>4
  <2>3. ~Stopped(g) => /\ guard.denyAll.key = None
                       /\ guard.latch.key # None => signalled \/ guard.latch.key \in Placeless
    BY <1>2 DEF Stopped
  <2> QED BY <1>6, <2>1, <2>2, <2>3 DEF Waits
<1> QED BY <1>7, <1>8

LEMMA PreExecuteFloorSteps ==
  ASSUME GuardInv, NEW op \in Floor, PreExecuteFloor(op)
  PROVE  GuardInv' /\ Waits
<1> DEFINE g == Placed(Synced(guard))
           h == ObserveFloorCall(g, op)
           call == [op |-> op, fate |-> IF FloorRefused(h) THEN "denied" ELSE "passed"]
<1>1. guard' = h /\ Watched(h) /\ UNCHANGED lastStart /\ seq' = seq + 1
      /\ inflight' = inflight (+) SetToBag({call})
  BY DEF PreExecuteFloor, Logged, Dispatched
<1>2. /\ DOMAIN g = Fields /\ RepairsBounded(g) /\ g.denyAll = guard.denyAll
      /\ g.latch = guard.latch \/ g.latch.key = None
  BY PlacedGuard
<1> HIDE DEF g
<1>3. Counted(g, h)
  BY <1>2, FloorCallObserved
<1> HIDE DEF h
<1>4. RepairsBounded(h) /\ h.latch = g.latch /\ h.denyAll = g.denyAll
  BY <1>2, <1>3 DEF Counted, RepairsBounded
<1>5. /\ IsABag(inflight') /\ InFlight' \subseteq Calls
      /\ (\A c \in Taken : c = call) /\ call.op \notin Works
  <2>1. call \in Calls
    BY DEF Calls, Ops
  <2>2. call.op \notin Works
    BY OpsAreApart
  <2> HIDE DEF call
  <2>3. /\ IsABag(inflight') /\ DOMAIN inflight' = DOMAIN inflight \cup {call}
        /\ \A d : Copies(d, inflight') > Copies(d, inflight) => d = call
    BY <1>1, OnePutInFlight DEF GuardInv
  <2> QED BY <2>1, <2>2, <2>3 DEF GuardInv, Taken, InFlight, BagToSet
<1> HIDE DEF call
<1>6. GuardInv'
  BY <1>1, <1>2, <1>4, <1>5, GuardMoves
<1>7. Waits
  BY <1>1, <1>2, <1>4, <1>5 DEF Waits
<1> QED BY <1>6, <1>7

LEMMA ReturnedTakesNone ==
  ASSUME GuardInv, NEW c \in InFlight, Returned(c)
  PROVE  IsABag(inflight') /\ InFlight' \subseteq Calls /\ Taken = {}
<1>1. inflight' = inflight (-) SetToBag({c}) /\ IsABag(inflight)
  BY DEF Returned, GuardInv
<1>2. /\ IsABag(inflight') /\ InFlight' \subseteq InFlight
      /\ \A d : Copies(d, inflight') <= Copies(d, inflight)
  BY <1>1, OneReturned DEF InFlight, BagToSet
<1>3. \A d : Copies(d, inflight) \in Nat /\ Copies(d, inflight') \in Nat
  BY <1>1, <1>2 DEF Copies, BagIn, BagToSet, IsABag
<1> QED BY <1>2, <1>3 DEF Taken, GuardInv

\* A result, whatever it was, is observed of the guard where the event stands.
LEMMA ResultSteps ==
  ASSUME GuardInv, NEW c \in InFlight, NEW outcome, Returned(c), UNCHANGED lastStart, seq' = seq + 1,
         NEW h, guard' = h, Watched(h), h = guard \/ h = ObserveResult(Placed(guard), c.op, outcome)
  PROVE  GuardInv' /\ Waits
<1>1. /\ DOMAIN Placed(guard) = Fields /\ RepairsBounded(Placed(guard))
      /\ Placed(guard).currentSeq = seq /\ Placed(guard).denyAll = guard.denyAll
      /\ Placed(guard).latch = guard.latch \/ Placed(guard).latch.key = None
  BY PlacedGuard
<1>2. IsABag(inflight') /\ InFlight' \subseteq Calls /\ Taken = {}
  BY ReturnedTakesNone
<1>3. /\ RepairsBounded(h)
      /\ guard.denyAll.key # None => h.denyAll = guard.denyAll
      /\ h.latch = guard.latch \/ h.latch.key = None \/ h.latch.atSeq = seq
  <2>1. CASE h = guard
    BY <2>1 DEF GuardInv
  <2>2. CASE h = ObserveResult(Placed(guard), c.op, outcome)
    <3>1. PICK keys : Observes(Placed(guard), h, keys)
      BY <1>1, <2>2, ResultObserved
    <3> QED BY <1>1, <3>1, ObservesKeeps
  <2> QED BY <2>1, <2>2
<1>4. GuardInv'
  BY <1>2, <1>3, GuardMoves
<1> QED BY <1>2, <1>3, <1>4 DEF Waits

\* What comes with no place of the log raises a trip of its own keys, or none.
LEMMA PlacelessSteps ==
  ASSUME GuardInv, NEW h, Observes(guard, h, Placeless), guard' = h, Watched(h), UNCHANGED lastStart,
         seq' = seq \/ seq' = seq + 1, IsABag(inflight'), InFlight' \subseteq Calls,
         \A c \in Taken : c.fate # "passed"
  PROVE  GuardInv' /\ Waits
<1>1. /\ RepairsBounded(h)
      /\ guard.denyAll.key # None => h.denyAll = guard.denyAll
      /\ h.latch = guard.latch \/ h.latch.key \in Placeless
  BY ObservesKeeps DEF GuardInv
<1>2. GuardInv'
  BY <1>1, GuardMoves
<1> QED BY <1>1, <1>2 DEF Waits

LEMMA RefusalSteps ==
  ASSUME GuardInv, NEW c \in InFlight, NEW kind \in {"ask", "deny"}, Refusal(c, kind)
  PROVE  GuardInv' /\ Waits
<1> DEFINE h == ObserveRefusal(guard, GatePrint[c.op], kind)
           fate == IF kind = "deny" THEN "refused" ELSE "asked"
           B == inflight (-) SetToBag({c})
           d == [c EXCEPT !.fate = fate]
<1>1. /\ guard' = h /\ Watched(h) /\ UNCHANGED <<seq, lastStart>>
      /\ inflight' = B (+) SetToBag({d}) /\ c.fate = "passed"
  BY DEF Refusal
<1>2. Observes(guard, h, Placeless)
  BY RefusalObserved DEF GuardInv, RepairsBounded
<1> HIDE DEF h
<1>3. c \in Calls
  BY DEF GuardInv
<1>4. d \in Calls /\ d.fate # "passed"
  BY <1>3 DEF Calls
<1>5. IsABag(inflight) /\ DOMAIN B \subseteq InFlight /\ IsABag(B) /\ \A e : Copies(e, B) <= Copies(e, inflight)
  BY OneReturned DEF GuardInv, InFlight, BagToSet
<1> HIDE DEF B, d
<1>6. IsABag(inflight') /\ InFlight' \subseteq InFlight \cup {d} /\ \A e : Copies(e, inflight') > Copies(e, B) => e = d
  BY <1>1, <1>5, OnePutInFlight DEF InFlight, BagToSet
<1>7. \A e : Copies(e, inflight) \in Nat /\ Copies(e, B) \in Nat /\ Copies(e, inflight') \in Nat
  BY <1>5, <1>6 DEF Copies, BagIn, BagToSet, IsABag
<1>8. \A e \in Taken : e = d
  BY <1>5, <1>6, <1>7 DEF Taken
<1>9. InFlight' \subseteq Calls
  BY <1>6, <1>4 DEF GuardInv
<1> QED BY <1>1, <1>2, <1>6, <1>8, <1>9, <1>4, PlacelessSteps

LEMMA AgentErrorSteps ==
  ASSUME GuardInv, AgentError
  PROVE  GuardInv' /\ Waits
<1> DEFINE h == ObserveLlmFailure(guard)
<1>1. guard' = h /\ Watched(h) /\ UNCHANGED <<lastStart, inflight>> /\ seq' = seq + 1
  BY DEF AgentError, Logged
<1>2. Observes(guard, h, Placeless)
  BY LlmFailureObserved DEF GuardInv, RepairsBounded
<1> HIDE DEF h
<1>3. \A c : Copies(c, inflight) \in Nat
  BY DEF GuardInv, Copies, BagIn, BagToSet, IsABag
<1>4. Taken = {} /\ IsABag(inflight') /\ InFlight' \subseteq Calls
  BY <1>1, <1>3 DEF Taken, GuardInv, InFlight
<1> QED BY <1>1, <1>2, <1>4, PlacelessSteps

LEMMA TurnStartSteps ==
  ASSUME GuardInv, TurnStart
  PROVE  GuardInv' /\ Waits
<1>1. /\ guard' = guard \/ guard' = ClearOnUserSignal(guard)
      /\ lastStart' = seq /\ seq' = seq + 1 /\ signalled' = TRUE /\ UNCHANGED inflight
  BY DEF TurnStart, Logged
<1>2. DOMAIN guard = Fields
  BY DEF GuardInv, RepairsBounded
<1>3. DOMAIN guard' = Fields /\ guard'.denyAll = guard.denyAll /\ guard'.repairs = guard.repairs
  BY <1>1, <1>2 DEF ClearOnUserSignal, Fields
<1>4. \A c : Copies(c, inflight) \in Nat
  BY DEF GuardInv, Copies, BagIn, BagToSet, IsABag
<1>5. Taken = {} /\ IsABag(inflight') /\ InFlight' \subseteq Calls
  BY <1>1, <1>4 DEF Taken, GuardInv, InFlight
<1>6. GuardInv'
  BY <1>1, <1>3, <1>5 DEF GuardInv, RepairsBounded, LatchWaits
<1> QED BY <1>3, <1>5, <1>6 DEF Waits

LEMMA GuardSteps ==
  ASSUME GuardInv, Next
  PROVE  GuardInv' /\ Waits
<1>1. ASSUME NEW c \in InFlight, NEW o \in Outcomes, Result(c, o)
      PROVE  GuardInv' /\ Waits
  <2> DEFINE h == IF c.op \notin Floor /\ ~OwnDenial(c) THEN ObserveResult(Placed(guard), c.op, o) ELSE guard
  <2>1. Returned(c) /\ UNCHANGED lastStart /\ seq' = seq + 1 /\ guard' = h /\ Watched(h)
        /\ (h = guard \/ h = ObserveResult(Placed(guard), c.op, o))
    BY <1>1 DEF Result, Logged
  <2> HIDE DEF h
  <2> QED BY <2>1, ResultSteps
<1>2. ASSUME NEW c \in InFlight, ResultWithoutValue(c)
      PROVE  GuardInv' /\ Waits
  <2> DEFINE h == ObserveResult(Placed(guard), c.op, InvalidShape)
  <2>1. Returned(c) /\ UNCHANGED lastStart /\ seq' = seq + 1 /\ guard' = h /\ Watched(h)
    BY <1>2 DEF ResultWithoutValue, Logged
  <2>2. h = ObserveResult(Placed(guard), c.op, InvalidShape)
    OBVIOUS
  <2> HIDE DEF h
  <2> QED BY <2>1, <2>2, ResultSteps
<1> QED BY <1>1, <1>2, PreExecuteSteps, PreExecuteFloorSteps, RefusalSteps, AgentErrorSteps, TurnStartSteps DEF Next

LEMMA GuardInvInit == Init => GuardInv
<1> SUFFICES ASSUME Init
             PROVE  GuardInv
  OBVIOUS
<1>1. guard = NewGuard /\ seq = 1 /\ lastStart = 0 /\ inflight = EmptyBag /\ signalled = FALSE
  BY DEF Init
<1>2. DOMAIN guard = Fields /\ guard.repairs = <<>> /\ guard.latch.key = None /\ guard.denyAll.key = None
  BY <1>1 DEF NewGuard, NoTrip, Fields
<1>3. \A k : Tally(guard.repairs, k) = 0
  BY <1>2 DEF Tally
<1>4. RepairsBounded(guard)
  BY <1>2, <1>3, WindowsHold, NoneIsNoTrip DEF RepairsBounded, Trips
<1>5. IsABag(inflight) /\ InFlight \subseteq Calls
  BY <1>1 DEF EmptyBag, SetToBag, IsABag, InFlight, BagToSet
<1>6. LatchWaits
  BY <1>2 DEF LatchWaits
<1>7. seq \in Nat /\ lastStart \in Nat /\ lastStart < seq /\ signalled \in BOOLEAN
  <2>1. seq = 1 /\ lastStart = 0
    BY <1>1
  <2>2. signalled \in BOOLEAN
    BY <1>1
  <2>3. seq \in Nat /\ lastStart \in Nat
    BY <2>1
  <2>4. lastStart < seq
    BY <2>1
  <2> QED BY <2>2, <2>3, <2>4
<1> QED BY <1>4, <1>5, <1>6, <1>7 DEF GuardInv

-----------------------------------------------------------------------------
(* The theorems *)

\* The guard's invariant: repairs within their budget or a halt of their class, and a
\* latch of a call standing until a turn begins after it.
THEOREM LoopGuardInvariant == Spec => []GuardInv
<1>1. GuardInv /\ UNCHANGED vars => GuardInv'
  BY DEF vars, GuardInv, RepairsBounded, LatchWaits, InFlight
<1>2. GuardInv /\ [Next]_vars => GuardInv'
  BY <1>1, GuardSteps
<1> QED BY <1>2, GuardInvInit, PTL DEF Spec

\* Repairs are bounded, class by class: the trip past the budget of a class halts the
\* session for that class, and no halt of a class comes sooner (trips.js:226-230).
THEOREM RepairsAlwaysEnd == Spec => []RepairsEndTheSession
<1>1. GuardInv => RepairsEndTheSession
  BY DEF GuardInv, RepairsBounded, RepairsEndTheSession
<1> QED BY <1>1, LoopGuardInvariant, PTL

\* A halt is for ever, and no work passes a halt or a latch of a call that the Principal
\* has not answered (trips.js:66-67).
THEOREM WorkAlwaysWaits == Spec => WorkWaitsForThePrincipal
<1>1. GuardInv /\ [Next]_vars => [Waits]_vars
  BY GuardSteps
<1>2. Spec => [][Waits]_vars
  BY <1>1, LoopGuardInvariant, PTL DEF Spec
<1> QED BY <1>2 DEF Waits, WorkWaitsForThePrincipal

-----------------------------------------------------------------------------
(* The inductive invariant of the delegation *)

RunRecords == [child : Agents, ended : BOOLEAN, process : Nat]
Scopes     == [recipient : Agents, sender : Agents, kinds : SUBSET Kinds]

DelegationTypeOK ==
  /\ DOMAIN header \subseteq Agents
  /\ \A a \in DOMAIN header : header[a].parent \in Agents \cup {NoAgent}
  /\ live \subseteq DOMAIN header
  /\ runs \in Seq(RunRecords)
  /\ told \in [Agents -> SUBSET [run : Nat, state : {"running", "settled"}]]
  /\ scopes \in Seq(Scopes)
  /\ restarts \in Nat

\* Every run is of this process or an earlier one, of an agent that has a header, and
\* its parent has one too.
LineageKnown ==
  \A r \in DOMAIN runs : /\ runs[r].process <= restarts
                         /\ runs[r].child \in DOMAIN header
                         /\ header[runs[r].child].parent \in DOMAIN header

StateOf(entry) == IF entry.ended THEN "settled" ELSE "running"

\* The registry has a record of every run of this process, and it says of it what
\* the host would.
RecordsAreTheRuns ==
  /\ DOMAIN records = {r \in DOMAIN runs : runs[r].process = restarts}
  /\ \A r \in DOMAIN records :
       records[r] = [parent |-> header[runs[r].child].parent,
                     child |-> runs[r].child, state |-> StateOf(runs[r])]

\* Every live agent has the registry's picture, and who is not there yet has none.
NoticesAreCurrent ==
  /\ \A p \in live : told[p] = ChildrenOf(records, p)
  /\ \A a \in Agents \ DOMAIN header : told[a] = {}

DelegationInv == /\ DelegationTypeOK /\ LineageKnown
                 /\ RecordsAreTheRuns /\ NoticesAreCurrent

\* What a record says, field by field.
LEMMA RecordSays ==
  ASSUME RecordsAreTheRuns, NEW r \in DOMAIN records
  PROVE  /\ r \in DOMAIN runs /\ runs[r].process = restarts
         /\ records[r].parent = header[runs[r].child].parent
         /\ records[r].child = runs[r].child
         /\ records[r].state = StateOf(runs[r])
<1>1. r \in DOMAIN runs /\ runs[r].process = restarts
  BY DEF RecordsAreTheRuns
<1>2. records[r] = [parent |-> header[runs[r].child].parent,
                    child |-> runs[r].child, state |-> StateOf(runs[r])]
  BY DEF RecordsAreTheRuns
<1> QED BY <1>1, <1>2

\* The invariant says of each notice what the property does.
LEMMA TruthFromInv ==
  ASSUME DelegationInv
  PROVE  ParentsSeeTheirChildren
<1> SUFFICES ASSUME NEW p \in live
             PROVE  told[p] = {[run |-> r, state |-> StateOf(runs[r])] :
                                 r \in {r \in DOMAIN runs : /\ header[runs[r].child].parent = p
                                                            /\ runs[r].process = restarts}}
  BY DEF ParentsSeeTheirChildren, StateOf
<1>1. told[p] = ChildrenOf(records, p)
  BY DEF DelegationInv, NoticesAreCurrent
<1>2. {r \in DOMAIN records : records[r].parent = p}
        = {r \in DOMAIN runs : /\ header[runs[r].child].parent = p
                               /\ runs[r].process = restarts}
  <2>1. DOMAIN records = {r \in DOMAIN runs : runs[r].process = restarts}
    BY DEF DelegationInv, RecordsAreTheRuns
  <2>2. \A r \in DOMAIN records : records[r].parent = header[runs[r].child].parent
    BY RecordSays DEF DelegationInv
  <2> QED BY <2>1, <2>2
<1>3. \A r \in DOMAIN records : records[r].state = StateOf(runs[r])
  BY RecordSays DEF DelegationInv
<1> QED BY <1>1, <1>2, <1>3 DEF ChildrenOf

LEMMA InitDelegation == DelegationInit => DelegationInv
<1> SUFFICES ASSUME DelegationInit
             PROVE  DelegationInv
  OBVIOUS
<1> USE DEF DelegationInit, Nothing
<1>1. DelegationTypeOK
  BY RootIsAnAgent DEF DelegationTypeOK
<1>2. LineageKnown /\ RecordsAreTheRuns
  BY DEF LineageKnown, RecordsAreTheRuns
<1>3. NoticesAreCurrent
  BY RootIsAnAgent DEF NoticesAreCurrent, ChildrenOf
<1> QED BY <1>1, <1>2, <1>3 DEF DelegationInv

\* A start keeps it.
LEMMA StartKeeps ==
  ASSUME DelegationInv, NEW p \in live, NEW c \in Agents \ {Root}, Start(p, c)
  PROVE  DelegationInv'
<1> DEFINE n   == Len(runs) + 1
           entry == [child |-> c, ended |-> FALSE, process |-> restarts]
           rec == [parent |-> p, child |-> c, state |-> "running"]
<1> USE DEF DelegationInv
<1>1. /\ n \in Nat /\ n \notin DOMAIN runs /\ n \notin DOMAIN records
      /\ DOMAIN runs = 1..Len(runs) /\ entry \in RunRecords
      /\ p \in DOMAIN header /\ p \in Agents
  BY DEF DelegationTypeOK, RecordsAreTheRuns, RunRecords
<1>2. /\ runs' \in Seq(RunRecords) /\ Len(runs') = n /\ DOMAIN runs' = DOMAIN runs \cup {n}
      /\ runs'[n] = entry /\ \A r \in DOMAIN runs : runs'[r] = runs[r]
  <2>1. runs' = Append(runs, entry) /\ runs \in Seq(RunRecords)
    BY DEF Start, DelegationTypeOK
  <2> HIDE DEF entry
  <2> QED BY <1>1, <2>1, AppendProperties
<1>3. /\ DOMAIN header' = DOMAIN header \cup {c} /\ header'[c].parent = p
      /\ \A a \in DOMAIN header : header'[a].parent = header[a].parent
  <2>1. \A a \in DOMAIN header : a = c => header[a].parent = p
    BY DEF Start
  <2>2. /\ DOMAIN header' = DOMAIN header \cup {c} /\ header'[c].parent = p
        /\ \A a \in DOMAIN header : a # c => header'[a] = header[a]
    BY DEF Start, Put
  <2> QED BY <2>1, <2>2
<1>4. /\ DOMAIN records' = DOMAIN records \cup {n} /\ records'[n] = rec
      /\ \A r \in DOMAIN records : records'[r] = records[r]
  BY <1>1 DEF Start, Put
<1>5. live' = live \cup {c} /\ restarts' = restarts /\ c \in Agents
  BY DEF Start
<1>6. told' = [told EXCEPT ![p] = ChildrenOf(records', p)]
  BY DEF Start, Inform
<1>7. LineageKnown'
  <2>1. runs'[n].process = restarts /\ runs'[n].child = c /\ restarts \in Nat
    BY <1>2 DEF DelegationTypeOK
  <2>2. runs'[n].process <= restarts' /\ runs'[n].child \in DOMAIN header'
        /\ header'[runs'[n].child].parent \in DOMAIN header'
    BY <1>1, <1>3, <1>5, <2>1
  <2>3. \A r \in DOMAIN runs : /\ runs'[r].process <= restarts'
                               /\ runs'[r].child \in DOMAIN header'
                               /\ header'[runs'[r].child].parent \in DOMAIN header'
    BY <1>2, <1>3, <1>5 DEF LineageKnown
  <2> QED BY <1>2, <2>2, <2>3 DEF LineageKnown
<1>8. RecordsAreTheRuns'
  <2>1. DOMAIN records' = {r \in DOMAIN runs' : runs'[r].process = restarts'}
    BY <1>1, <1>2, <1>4, <1>5 DEF RecordsAreTheRuns
  <2>2. ASSUME NEW r \in DOMAIN records
        PROVE  records'[r] = [parent |-> header'[runs'[r].child].parent,
                              child |-> runs'[r].child, state |-> StateOf(runs'[r])]
    <3>1. r \in DOMAIN runs /\ runs'[r] = runs[r] /\ runs[r].child \in DOMAIN header
      BY <1>2 DEF RecordsAreTheRuns, LineageKnown
    <3> QED BY <1>3, <1>4, <3>1 DEF RecordsAreTheRuns
  <2>3. records'[n] = [parent |-> header'[runs'[n].child].parent,
                       child |-> runs'[n].child, state |-> StateOf(runs'[n])]
    BY <1>2, <1>3, <1>4 DEF StateOf
  <2> QED BY <1>4, <2>1, <2>2, <2>3 DEF RecordsAreTheRuns
<1>9. \A q : q # p => ChildrenOf(records', q) = ChildrenOf(records, q)
  <2> SUFFICES ASSUME NEW q, q # p
               PROVE  ChildrenOf(records', q) = ChildrenOf(records, q)
    OBVIOUS
  <2>1. {r \in DOMAIN records' : records'[r].parent = q} = {r \in DOMAIN records : records[r].parent = q}
    BY <1>1, <1>4
  <2> QED BY <1>4, <2>1 DEF ChildrenOf
<1>10. c \notin DOMAIN header => ChildrenOf(records, c) = {}
  BY RecordSays DEF ChildrenOf, LineageKnown
<1>11. ChildrenOf(records', p) \subseteq [run : Nat, state : {"running", "settled"}]
  <2>1. DOMAIN records' \subseteq Nat
    BY <1>1, <1>4 DEF RecordsAreTheRuns
  <2>2. \A r \in DOMAIN records' : records'[r].state \in {"running", "settled"}
    BY <1>4, RecordSays DEF StateOf
  <2> QED BY <2>1, <2>2 DEF ChildrenOf
<1>12. told' \in [Agents -> SUBSET [run : Nat, state : {"running", "settled"}]]
       /\ told'[p] = ChildrenOf(records', p) /\ \A a \in Agents : a # p => told'[a] = told[a]
  BY <1>1, <1>6, <1>11 DEF DelegationTypeOK
<1>13. NoticesAreCurrent'
  <2>1. ASSUME NEW a \in live'
        PROVE  told'[a] = ChildrenOf(records', a)
    <3>1. CASE a = p
      BY <3>1, <1>12
    <3>2. CASE a # p /\ a \in live
      BY <3>2, <1>9, <1>12 DEF NoticesAreCurrent, DelegationTypeOK
    <3>3. CASE a # p /\ a \notin live
      <4>1. a = c /\ c \notin DOMAIN header
        BY <3>3, <1>5 DEF Start
      <4>2. told[c] = {}
        BY <4>1, <1>5 DEF NoticesAreCurrent
      <4> QED BY <3>3, <4>1, <4>2, <1>5, <1>9, <1>10, <1>12
    <3> QED BY <3>1, <3>2, <3>3
  <2>2. \A a \in Agents \ DOMAIN header' : told'[a] = {}
    BY <1>1, <1>3, <1>12 DEF NoticesAreCurrent
  <2> QED BY <2>1, <2>2 DEF NoticesAreCurrent
<1>14. DelegationTypeOK'
  <2>1. Declare(c, p) \in Scopes /\ Declare(p, c) \in Scopes
    BY <1>1, <1>5 DEF Declare, Scopes
  <2>2. <<Declare(c, p), Declare(p, c)>> \in Seq(Scopes)
    BY <2>1
  <2>3. scopes' \in Seq(Scopes)
    <3>1. scopes' = scopes \o <<Declare(c, p), Declare(p, c)>> /\ scopes \in Seq(Scopes)
      BY DEF Start, DelegationTypeOK
    <3> QED BY <2>2, <3>1, ConcatProperties
  <2>4. (\A a \in DOMAIN header : header[a].parent \in Agents \cup {NoAgent})'
    BY <1>1, <1>3 DEF DelegationTypeOK
  <2> QED BY <1>1, <1>2, <1>3, <1>5, <1>12, <2>3, <2>4 DEF DelegationTypeOK
<1> QED BY <1>7, <1>8, <1>13, <1>14

\* A run's end keeps it.
LEMMA EndKeeps ==
  ASSUME DelegationInv, NEW entry \in DOMAIN runs, End(entry)
  PROVE  DelegationInv'
<1> USE DEF DelegationInv
<1>1. /\ DOMAIN runs = 1..Len(runs) /\ runs[entry] \in RunRecords
      /\ runs' = [runs EXCEPT ![entry].ended = TRUE]
      /\ header' = header /\ live' = live /\ scopes' = scopes /\ restarts' = restarts
  BY DEF DelegationTypeOK, End
<1>2. /\ runs' \in Seq(RunRecords) /\ Len(runs') = Len(runs) /\ DOMAIN runs' = DOMAIN runs
      /\ runs'[entry] = [runs[entry] EXCEPT !.ended = TRUE]
      /\ \A r \in DOMAIN runs : r # entry => runs'[r] = runs[r]
  <2> DEFINE v == [runs[entry] EXCEPT !.ended = TRUE]
  <2>1. v \in RunRecords
    BY <1>1 DEF RunRecords
  <2>2. runs' = [runs EXCEPT ![entry] = v] /\ runs \in Seq(RunRecords)
    BY <1>1 DEF DelegationTypeOK
  <2> HIDE DEF v
  <2>3. /\ runs' \in Seq(RunRecords) /\ Len(runs') = Len(runs) /\ DOMAIN runs' = DOMAIN runs
        /\ runs'[entry] = v /\ \A r \in DOMAIN runs : r # entry => runs'[r] = runs[r]
    <3> DEFINE after == [runs EXCEPT ![entry] = v]
    <3>1. /\ after \in Seq(RunRecords) /\ Len(after) = Len(runs)
          /\ \A j \in 1..Len(runs) : after[j] = IF j = entry THEN v ELSE runs[j]
      BY <1>1, <2>1, <2>2, ExceptSeq
    <3>2. runs' = after
      BY <2>2
    <3> HIDE DEF after
    <3>3. DOMAIN after = 1..Len(after)
      BY <3>1
    <3> QED BY <1>1, <3>1, <3>2, <3>3
  <2> QED BY <2>3 DEF v
<1>3. \A r \in DOMAIN runs : /\ runs'[r].child = runs[r].child
                             /\ runs'[r].process = runs[r].process
                             /\ r # entry => runs'[r].ended = runs[r].ended
  BY <1>1, <1>2 DEF RunRecords
<1>4. runs'[entry].ended = TRUE
  BY <1>1, <1>2 DEF RunRecords
<1>5. /\ DOMAIN records' = DOMAIN records
      /\ \A r \in DOMAIN records : r # entry => records'[r] = records[r]
      /\ entry \in DOMAIN records => records'[entry] = [records[entry] EXCEPT !.state = "settled"]
  BY DEF End, Settle
<1>6. LineageKnown'
  BY <1>1, <1>2, <1>3 DEF LineageKnown
<1>7. ASSUME NEW r \in DOMAIN records
      PROVE  records'[r] = [parent |-> header[runs[r].child].parent, child |-> runs[r].child,
                            state |-> StateOf(runs'[r])]
  <2>1. records[r] = [parent |-> header[runs[r].child].parent,
                      child |-> runs[r].child, state |-> StateOf(runs[r])]
    BY DEF RecordsAreTheRuns
  <2>2. CASE r = entry
    <3>1. StateOf(runs'[r]) = "settled"
      BY <1>4, <2>2 DEF StateOf
    <3>2. records'[r] = [records[r] EXCEPT !.state = "settled"]
      BY <1>5, <2>2
    <3> QED BY <2>1, <3>1, <3>2
  <2>3. CASE r # entry
    <3>1. StateOf(runs'[r]) = StateOf(runs[r])
      BY <1>3, <2>3, RecordSays DEF StateOf
    <3> QED BY <1>5, <2>1, <2>3, <3>1
  <2> QED BY <2>2, <2>3
<1>8. RecordsAreTheRuns'
  <2>1. DOMAIN records' = {r \in DOMAIN runs' : runs'[r].process = restarts'}
    BY <1>1, <1>2, <1>3, <1>5 DEF RecordsAreTheRuns
  <2>2. \A r \in DOMAIN records' :
          records'[r] = [parent |-> header'[runs'[r].child].parent,
                         child |-> runs'[r].child, state |-> StateOf(runs'[r])]
    <3> TAKE r \in DOMAIN records'
    <3>1. r \in DOMAIN records
      BY <1>5
    <3>2. r \in DOMAIN runs
      BY <3>1, RecordSays
    <3>3. runs'[r].child = runs[r].child /\ header' = header
      BY <1>1, <1>3, <3>2
    <3> QED BY ONLY <1>7, <3>1, <3>3
  <2> QED BY <2>1, <2>2 DEF RecordsAreTheRuns
<1>9. \A r \in DOMAIN records : records'[r].parent = records[r].parent
  <2> TAKE r \in DOMAIN records
  <2>1. records'[r] = [parent |-> header[runs[r].child].parent, child |-> runs[r].child,
                       state |-> StateOf(runs'[r])]
    BY <1>7
  <2>2. records'[r].parent = header[runs[r].child].parent
    BY <2>1
  <2> QED BY <2>2, RecordSays
<1>10. ASSUME NEW q, entry \in DOMAIN records => q # records[entry].parent
       PROVE  ChildrenOf(records', q) = ChildrenOf(records, q)
  <2>1. {r \in DOMAIN records' : records'[r].parent = q} = {r \in DOMAIN records : records[r].parent = q}
    BY <1>5, <1>9
  <2>2. \A r \in DOMAIN records : records[r].parent = q => records'[r] = records[r]
    BY <1>5, <1>10
  <2> QED BY <2>1, <2>2 DEF ChildrenOf
<1>11. CASE entry \notin DOMAIN records
  <2>1. told' = told
    BY <1>11 DEF End
  <2>2. NoticesAreCurrent'
    BY <1>1, <1>10, <1>11, <2>1 DEF NoticesAreCurrent
  <2>3. DelegationTypeOK'
    BY <1>1, <1>2, <2>1 DEF DelegationTypeOK
  <2> QED BY <1>6, <1>8, <2>2, <2>3
<1>12. CASE entry \in DOMAIN records
  <2> DEFINE p == records[entry].parent
  <2>1. p \in DOMAIN header /\ p \in Agents
    BY <1>12, RecordSays DEF LineageKnown, DelegationTypeOK
  <2>2. told' = IF p \in live THEN [told EXCEPT ![p] = ChildrenOf(records', p)] ELSE told
    BY <1>12 DEF End, Inform
  <2>3. ChildrenOf(records', p) \subseteq [run : Nat, state : {"running", "settled"}]
    <3>1. DOMAIN records' \subseteq Nat
      BY <1>1, <1>5, RecordSays
    <3>2. \A r \in DOMAIN records' : records'[r].state \in {"running", "settled"}
      BY <1>5, <1>7 DEF StateOf
    <3> QED BY <3>1, <3>2 DEF ChildrenOf
  <2> HIDE DEF p
  <2>4. /\ told' \in [Agents -> SUBSET [run : Nat, state : {"running", "settled"}]]
        /\ p \in live => told'[p] = ChildrenOf(records', p)
        /\ \A a \in Agents : a # p => told'[a] = told[a]
        /\ p \notin live => told' = told
    BY <2>1, <2>2, <2>3 DEF DelegationTypeOK
  <2>5. NoticesAreCurrent'
    <3>1. ASSUME NEW a \in live'
          PROVE  told'[a] = ChildrenOf(records', a)
      <4>1. a \in live /\ a \in Agents
        BY <1>1 DEF DelegationTypeOK
      <4>2. CASE a = p
        BY <2>4, <4>1, <4>2
      <4>3. CASE a # p
        BY <1>10, <2>4, <4>1, <4>3 DEF NoticesAreCurrent, p
      <4> QED BY <4>2, <4>3
    <3>2. \A a \in Agents \ DOMAIN header' : told'[a] = {}
      BY <1>1, <2>1, <2>4 DEF NoticesAreCurrent
    <3> QED BY <3>1, <3>2 DEF NoticesAreCurrent
  <2>6. DelegationTypeOK'
    BY <1>1, <1>2, <2>4 DEF DelegationTypeOK
  <2> QED BY <1>6, <1>8, <2>5, <2>6
<1> QED BY <1>11, <1>12

\* Disposals, withdrawals and narrowings keep it.
LEMMA LeaveKeeps ==
  ASSUME DelegationInv, NEW a, Leave(a)
  PROVE  DelegationInv'
<1> USE DEF DelegationInv, Leave
<1>1. DelegationTypeOK'
  BY DEF DelegationTypeOK
<1>2. LineageKnown' /\ RecordsAreTheRuns'
  BY DEF LineageKnown, RecordsAreTheRuns, StateOf
<1>3. NoticesAreCurrent'
  BY DEF NoticesAreCurrent, ChildrenOf
<1> QED BY <1>1, <1>2, <1>3

\* A scope that keeps some of its kinds is a scope.
LEMMA ScopeShrinks ==
  ASSUME scopes \in Seq(Scopes), NEW i \in DOMAIN scopes, NEW keep \in SUBSET scopes[i].kinds
  PROVE  LET after == [scopes EXCEPT ![i].kinds = keep]
         IN  /\ after \in Seq(Scopes) /\ DOMAIN after = DOMAIN scopes
             /\ \A j \in DOMAIN scopes : /\ after[j].recipient = scopes[j].recipient
                                         /\ after[j].sender = scopes[j].sender
                                         /\ after[j].kinds \subseteq scopes[j].kinds
<1> DEFINE v     == [scopes[i] EXCEPT !.kinds = keep]
           after == [scopes EXCEPT ![i] = v]
<1>1. \A j \in DOMAIN scopes : scopes[j] \in Scopes
  OBVIOUS
<1>2. v \in Scopes /\ v.recipient = scopes[i].recipient /\ v.sender = scopes[i].sender /\ v.kinds = keep
  BY <1>1 DEF Scopes
<1>3. after = [scopes EXCEPT ![i].kinds = keep]
  OBVIOUS
<1> HIDE DEF v
<1>4. after \in Seq(Scopes) /\ DOMAIN after = DOMAIN scopes
  BY <1>2, ExceptSeq
<1>5. \A j \in DOMAIN scopes : after[j] = IF j = i THEN v ELSE scopes[j]
  OBVIOUS
<1> HIDE DEF after
<1> QED BY <1>2, <1>3, <1>4, <1>5

LEMMA ScopesKeep ==
  ASSUME DelegationInv, scopes' \in Seq(Scopes), UNCHANGED <<header, live, runs, records, told, restarts>>
  PROVE  DelegationInv'
<1> USE DEF DelegationInv
<1>1. DelegationTypeOK'
  BY DEF DelegationTypeOK
<1>2. LineageKnown' /\ RecordsAreTheRuns'
  BY DEF LineageKnown, RecordsAreTheRuns, StateOf
<1>3. NoticesAreCurrent'
  BY DEF NoticesAreCurrent, ChildrenOf
<1> QED BY <1>1, <1>2, <1>3

LEMMA WithdrawKeeps ==
  ASSUME DelegationInv, NEW a, NEW i \in DOMAIN scopes, Withdraw(a, i)
  PROVE  DelegationInv'
<1>1. scopes' \in Seq(Scopes)
  BY ScopeShrinks DEF Withdraw, DelegationInv, DelegationTypeOK
<1> QED BY <1>1, ScopesKeep DEF Withdraw

LEMMA NarrowKeeps ==
  ASSUME DelegationInv, NEW a, NEW i \in DOMAIN scopes, NEW keep \in SUBSET Kinds, Narrow(a, i, keep)
  PROVE  DelegationInv'
<1>1. Kept(scopes[i], keep) \in SUBSET scopes[i].kinds
  BY DEF Kept
<1>2. scopes' \in Seq(Scopes)
  BY <1>1, ScopeShrinks DEF Narrow, DelegationInv, DelegationTypeOK
<1> QED BY <1>2, ScopesKeep DEF Narrow
\* A restart keeps it: both registries start empty.
LEMMA RestartKeeps ==
  ASSUME DelegationInv, Restart
  PROVE  DelegationInv'
<1> USE DEF DelegationInv
<1>1. /\ records' = <<>> /\ scopes' = <<>> /\ restarts' = restarts + 1 /\ restarts \in Nat
      /\ told' = [a \in Agents |-> {}] /\ header' = header /\ live' = live /\ runs' = runs
      /\ runs \in Seq(RunRecords) /\ DOMAIN header \subseteq Agents /\ live \subseteq DOMAIN header
  BY DEF DelegationTypeOK, Restart, Nothing
<1>2. \A r \in DOMAIN runs : runs[r].process \in Nat /\ runs[r].process <= restarts
  <2>1. \A r \in DOMAIN runs : runs[r] \in RunRecords
    BY <1>1
  <2> QED BY <2>1 DEF LineageKnown, RunRecords
<1>3. DelegationTypeOK'
  <2>1. (\A a \in DOMAIN header : header[a].parent \in Agents \cup {NoAgent})'
    BY <1>1 DEF DelegationTypeOK
  <2> QED BY <1>1, <2>1 DEF DelegationTypeOK
<1>4. LineageKnown'
  BY <1>1, <1>2 DEF LineageKnown
<1>5. RecordsAreTheRuns'
  BY <1>1, <1>2 DEF RecordsAreTheRuns
<1>6. NoticesAreCurrent'
  BY <1>1 DEF NoticesAreCurrent, ChildrenOf
<1> QED BY <1>3, <1>4, <1>5, <1>6

-----------------------------------------------------------------------------
(* What opens an agent's attention *)

\* What the action property says of one step.
OpenedByDelegation ==
  \A s, r \in Agents, kind \in Kinds :
    MayAddress(scopes', r, s, kind) /\ ~MayAddress(scopes, r, s, kind) =>
      /\ Len(runs') = Len(runs) + 1
      /\ LET c == Last(runs').child IN {s, r} = {c, header'[c].parent}

\* A step that adds no scope, moves none to others and widens none opens nothing.
LEMMA NothingOpens ==
  ASSUME DOMAIN scopes' \subseteq DOMAIN scopes,
         \A j \in DOMAIN scopes' : /\ scopes'[j].recipient = scopes[j].recipient
                                   /\ scopes'[j].sender = scopes[j].sender
                                   /\ scopes'[j].kinds \subseteq scopes[j].kinds
  PROVE  OpenedByDelegation
<1> SUFFICES ASSUME NEW s \in Agents, NEW r \in Agents, NEW kind \in Kinds,
                    MayAddress(scopes', r, s, kind), ~MayAddress(scopes, r, s, kind)
             PROVE  FALSE
  BY DEF OpenedByDelegation
<1>1. PICK i \in DOMAIN scopes' : /\ scopes'[i].recipient = r /\ scopes'[i].sender = s
                                  /\ kind \in scopes'[i].kinds
  BY DEF MayAddress, Covers
<1>2. scopes[i].recipient = r /\ scopes[i].sender = s /\ kind \in scopes[i].kinds
  BY <1>1
<1> QED BY <1>1, <1>2 DEF MayAddress, Covers

\* A start opens the two agents of the delegation to one another.
LEMMA StartOpensThePair ==
  ASSUME DelegationInv, NEW p \in live, NEW c \in Agents \ {Root}, Start(p, c)
  PROVE  OpenedByDelegation
<1> DEFINE m   == Len(scopes)
           new == <<Declare(c, p), Declare(p, c)>>
<1>1. scopes \in Seq(Scopes) /\ scopes' = scopes \o new /\ new \in Seq(Scopes) /\ runs \in Seq(RunRecords)
      /\ c \in Agents /\ p \in Agents
  BY DEF DelegationInv, DelegationTypeOK, Start, Declare, Scopes
<1>2. m \in Nat /\ DOMAIN scopes = 1..m /\ DOMAIN scopes' = 1..(m + 2)
      /\ \A j \in DOMAIN scopes : scopes'[j] = scopes[j]
  BY <1>1
<1>3. scopes'[m + 1] = Declare(c, p) /\ scopes'[m + 2] = Declare(p, c)
  BY <1>1, <1>2
<1>4. Len(runs') = Len(runs) + 1 /\ Last(runs').child = c
  BY <1>1 DEF Start, Last
<1>5. header'[c].parent = p
  BY DEF Start, Put
<1> SUFFICES ASSUME NEW s \in Agents, NEW r \in Agents, NEW kind \in Kinds,
                    MayAddress(scopes', r, s, kind), ~MayAddress(scopes, r, s, kind)
             PROVE  {s, r} = {c, p}
  BY <1>4, <1>5 DEF OpenedByDelegation
<1> HIDE DEF m, new
<1>6. PICK i \in DOMAIN scopes' : /\ scopes'[i].recipient = r /\ scopes'[i].sender = s
                                  /\ kind \in scopes'[i].kinds
  BY DEF MayAddress, Covers
<1>7. i \notin DOMAIN scopes
  BY <1>2, <1>6 DEF MayAddress, Covers
<1>8. i = m + 1 \/ i = m + 2
  BY <1>2, <1>6, <1>7
<1> QED BY <1>3, <1>6, <1>8 DEF Declare

-----------------------------------------------------------------------------
(* The steps of exit *)

\* What moves the delegation under exit: one of its own steps or none.
DelegationMoves ==
  \/ \E p \in live, c \in Agents \ {Root} : Start(p, c)
  \/ \E r \in DOMAIN runs : End(r)
  \/ \E a \in live, i \in DOMAIN scopes : Withdraw(a, i)
  \/ \E a \in live, i \in DOMAIN scopes, keep \in SUBSET Kinds : Narrow(a, i, keep)

LEMMA ExitStep ==
  ASSUME [NextExit]_allVars
  PROVE  \/ UNCHANGED delegationVars
         \/ DelegationMoves
         \/ \E a \in Agents : Leave(a)
         \/ Restart
BY DEF NextExit, DelegationMoves, Ask, Answer, DeclareDeparture, Dispose, RestartAll, allVars, delegationVars

LEMMA DelegationStep ==
  ASSUME DelegationInv, [NextExit]_allVars
  PROVE  DelegationInv'
<1>1. CASE UNCHANGED delegationVars
  <2>1. DelegationTypeOK'
    BY <1>1 DEF DelegationInv, DelegationTypeOK, delegationVars
  <2>2. LineageKnown' /\ RecordsAreTheRuns'
    BY <1>1 DEF DelegationInv, LineageKnown, RecordsAreTheRuns, StateOf, delegationVars
  <2>3. NoticesAreCurrent'
    BY <1>1 DEF DelegationInv, NoticesAreCurrent, ChildrenOf, delegationVars
  <2> QED BY <2>1, <2>2, <2>3 DEF DelegationInv
<1>2. CASE DelegationMoves
  BY <1>2, StartKeeps, EndKeeps, WithdrawKeeps, NarrowKeeps DEF DelegationMoves
<1>3. CASE \E a \in Agents : Leave(a)
  BY <1>3, LeaveKeeps
<1>4. CASE Restart
  BY <1>4, RestartKeeps
<1> QED BY <1>1, <1>2, <1>3, <1>4, ExitStep

LEMMA OpeningStep ==
  ASSUME DelegationInv, [NextExit]_allVars
  PROVE  OpenedByDelegation
<1>0. scopes \in Seq(Scopes)
  BY DEF DelegationInv, DelegationTypeOK
<1>1. CASE UNCHANGED delegationVars
  <2>1. scopes' = scopes
    BY <1>1 DEF delegationVars
  <2> QED BY <2>1, NothingOpens
<1>2. ASSUME NEW p \in live, NEW c \in Agents \ {Root}, Start(p, c)
      PROVE  OpenedByDelegation
  BY <1>2, StartOpensThePair
<1>3. ASSUME NEW r \in DOMAIN runs, End(r)
      PROVE  OpenedByDelegation
  BY <1>3, NothingOpens DEF End
<1>4. ASSUME NEW a \in live, NEW i \in DOMAIN scopes, Withdraw(a, i)
      PROVE  OpenedByDelegation
  <2>1. scopes' = [scopes EXCEPT ![i].kinds = {}]
    BY <1>4 DEF Withdraw
  <2> QED BY <1>0, <2>1, ScopeShrinks, NothingOpens
<1>5. ASSUME NEW a \in live, NEW i \in DOMAIN scopes, NEW keep \in SUBSET Kinds, Narrow(a, i, keep)
      PROVE  OpenedByDelegation
  <2>1. scopes' = [scopes EXCEPT ![i].kinds = Kept(scopes[i], keep)]
    BY <1>5 DEF Narrow
  <2>2. Kept(scopes[i], keep) \in SUBSET scopes[i].kinds
    BY DEF Kept
  <2> QED BY <1>0, <2>1, <2>2, ScopeShrinks, NothingOpens
<1>6. ASSUME NEW a \in Agents, Leave(a)
      PROVE  OpenedByDelegation
  BY <1>6, NothingOpens DEF Leave
<1>7. ASSUME Restart
      PROVE  OpenedByDelegation
  BY <1>7, NothingOpens DEF Restart, Nothing
<1> QED BY <1>1, <1>2, <1>3, <1>4, <1>5, <1>6, <1>7, ExitStep DEF DelegationMoves

\* The registry and the notices are in step with the host, whatever agents do.
THEOREM DelegationInvariant == SpecExit => []DelegationInv
<1>1. InitExit => DelegationInv
  BY InitDelegation DEF InitExit
<1>2. DelegationInv /\ [NextExit]_allVars => DelegationInv'
  BY DelegationStep
<1> QED BY <1>1, <1>2, PTL DEF SpecExit

\* MA-3: every live parent's last notice is the truth about its runs (child-state.js).
THEOREM ParentsAlwaysSee == SpecExit => []ParentsSeeTheirChildren
<1>1. DelegationInv => ParentsSeeTheirChildren
  BY TruthFromInv
<1> QED BY <1>1, DelegationInvariant, PTL

\* MA-4: an agent's attention opens by a delegation between the two and by nothing
\* else (consent.js).
THEOREM OnlyDelegationEverOpens == SpecExit => OnlyDelegationOpens
<1>1. DelegationInv /\ [NextExit]_allVars => [OpenedByDelegation]_delegationVars
  BY OpeningStep
<1>2. [][OpenedByDelegation]_delegationVars => OnlyDelegationOpens
  BY PTL DEF OnlyDelegationOpens, OpenedByDelegation
<1> QED BY <1>1, <1>2, DelegationInvariant, PTL DEF SpecExit

-----------------------------------------------------------------------------
(* What a departure leaves on record *)

\* A record is stamped with the runs and asks of its time, and names whatever of
\* them still runs or still waits.
Stamped(rec) == rec.at.runs \in 0..Len(runs) /\ rec.at.asks \in 0..Len(asks)

NamesWhatRuns(rec) ==
  \A r \in DOMAIN records :
    r <= rec.at.runs /\ records[r].parent = rec.subject /\ records[r].state = "running" =>
      Recorded(rec, [kind |-> "child", ref |-> records[r].child])

NamesWhatWaits(rec) ==
  \A n \in DOMAIN asks :
    n <= rec.at.asks /\ asks[n] = rec.subject => Recorded(rec, [kind |-> "gate", ref |-> n])

Complete(rec) == rec.subject \in Agents /\ Stamped(rec) /\ NamesWhatRuns(rec) /\ NamesWhatWaits(rec)

OnRecord(a) == \E i \in DOMAIN departures : departures[i].subject = a

Debts == [kind : {"gate", "child"}, ref : Nat \cup Agents]

DepartureRecords == [subject : Agents, settled : SUBSET Debts, orphaned : SUBSET Debts,
                     at : [runs : Nat, asks : Nat]]

\* Whoever declared or is gone is on record, and every record is complete.
ExitInv ==
  /\ asks \in Seq(Agents \cup {NoAgent})
  /\ departures \in Seq(DepartureRecords)
  /\ DOMAIN declared = Agents
  /\ departed \subseteq Agents
  /\ \A i \in DOMAIN departures : Complete(departures[i])
  /\ \A a \in Agents : declared[a] # NoAgent \/ a \in departed => OnRecord(a)

LEMMA DebtsFromInv ==
  ASSUME ExitInv
  PROVE  DebtsOutliveTheDebtor
<1> SUFFICES ASSUME NEW a \in departed
             PROVE  \E i \in DOMAIN departures : departures[i].subject = a /\ Complete(departures[i])
  BY DEF DebtsOutliveTheDebtor, Complete, NamesWhatRuns, NamesWhatWaits
<1> QED BY DEF ExitInv, OnRecord

\* Settled by the handover or not, every debt read is on the record.
LEMMA EveryDebtIsOnIt ==
  ASSUME NEW a, NEW handover, NEW d \in ObligationLedger(a)
  PROVE  Recorded(DepartureRecord(a, SettleLedger(ObligationLedger(a), handover)), d)
BY DEF Recorded, DepartureRecord, SettleLedger, Orphans

\* A record made now is complete.
LEMMA CompleteWhenMade ==
  ASSUME DelegationInv, ExitInv, NEW a \in Agents, NEW handover
  PROVE  LET rec == DepartureRecord(a, SettleLedger(ObligationLedger(a), handover))
         IN  Complete(rec) /\ rec.subject = a /\ rec \in DepartureRecords
<1> DEFINE rec == DepartureRecord(a, SettleLedger(ObligationLedger(a), handover))
<1>1. rec.subject = a /\ rec.at.runs = Len(runs) /\ rec.at.asks = Len(asks)
  BY DEF DepartureRecord
<1>2. Len(runs) \in Nat /\ Len(asks) \in Nat
  BY DEF DelegationInv, DelegationTypeOK, ExitInv
<1>3. \A d \in ObligationLedger(a) : Recorded(rec, d)
  BY EveryDebtIsOnIt
<1>7. rec \in DepartureRecords
  <2>1. PendingGatesOf(a) \subseteq Debts
    <3>1. DOMAIN asks \subseteq Nat
      BY DEF ExitInv
    <3> QED BY <3>1 DEF PendingGatesOf, Debts
  <2>2. InFlightOf(a) \subseteq Debts
    <3>1. \A r \in DOMAIN records : records[r].child \in Agents
      BY RecordSays DEF DelegationInv, LineageKnown, DelegationTypeOK
    <3> QED BY <3>1 DEF InFlightOf, Debts
  <2> QED BY <1>2, <2>1, <2>2 DEF DepartureRecord, SettleLedger, Orphans, ObligationLedger, DepartureRecords
<1> HIDE DEF rec
<1>4. NamesWhatRuns(rec)
  <2> SUFFICES ASSUME NEW r \in DOMAIN records, records[r].parent = a, records[r].state = "running"
               PROVE  Recorded(rec, [kind |-> "child", ref |-> records[r].child])
    BY <1>1 DEF NamesWhatRuns
  <2>1. [kind |-> "child", ref |-> records[r].child] \in ObligationLedger(a)
    BY DEF ObligationLedger, InFlightOf
  <2> QED BY <1>3, <2>1
<1>5. NamesWhatWaits(rec)
  <2> SUFFICES ASSUME NEW n \in DOMAIN asks, asks[n] = a
               PROVE  Recorded(rec, [kind |-> "gate", ref |-> n])
    BY <1>1 DEF NamesWhatWaits
  <2>1. [kind |-> "gate", ref |-> n] \in ObligationLedger(a)
    BY DEF ObligationLedger, PendingGatesOf
  <2> QED BY <1>3, <2>1
<1>6. Complete(rec)
  BY <1>1, <1>2, <1>4, <1>5 DEF Complete, Stamped
<1> QED BY <1>1, <1>6, <1>7 DEF rec

\* What a step may do to what a complete record names: runs and asks are only added
\* past its stamp, and what was there only settles.
RunsOnlySettle ==
  /\ Len(runs) \in Nat /\ Len(runs') \in Nat /\ Len(runs) <= Len(runs')
  /\ \A r \in DOMAIN records' :
       r <= Len(runs) /\ records'[r].state = "running" =>
         /\ r \in DOMAIN records /\ records[r].state = "running"
         /\ records'[r].parent = records[r].parent /\ records'[r].child = records[r].child

AsksOnlyAnswered ==
  /\ Len(asks) \in Nat /\ Len(asks') \in Nat /\ Len(asks) <= Len(asks')
  /\ \A n \in DOMAIN asks' :
       n <= Len(asks) /\ asks'[n] # NoAgent => n \in DOMAIN asks /\ asks[n] = asks'[n]

LEMMA StaysComplete ==
  ASSUME RunsOnlySettle, AsksOnlyAnswered, DOMAIN records' \subseteq Nat, DOMAIN asks' \subseteq Nat,
         NEW rec, Complete(rec)
  PROVE  /\ rec.subject \in Agents
         /\ rec.at.runs \in 0..Len(runs') /\ rec.at.asks \in 0..Len(asks')
         /\ \A r \in DOMAIN records' :
              r <= rec.at.runs /\ records'[r].parent = rec.subject /\ records'[r].state = "running" =>
                Recorded(rec, [kind |-> "child", ref |-> records'[r].child])
         /\ \A n \in DOMAIN asks' :
              n <= rec.at.asks /\ asks'[n] = rec.subject => Recorded(rec, [kind |-> "gate", ref |-> n])
<1>1. rec.subject \in Agents /\ rec.subject # NoAgent
  BY NoneIsNoAgent DEF Complete
<1>2. rec.at.runs \in 0..Len(runs') /\ rec.at.asks \in 0..Len(asks')
      /\ rec.at.runs <= Len(runs) /\ rec.at.asks <= Len(asks) /\ rec.at.runs \in Nat /\ rec.at.asks \in Nat
  BY DEF Complete, Stamped, RunsOnlySettle, AsksOnlyAnswered
<1>3. ASSUME NEW r \in DOMAIN records', r <= rec.at.runs, records'[r].parent = rec.subject,
             records'[r].state = "running"
      PROVE  Recorded(rec, [kind |-> "child", ref |-> records'[r].child])
  <2>1. r \in Nat /\ r <= Len(runs) /\ Len(runs) \in Nat
    BY <1>2, <1>3 DEF RunsOnlySettle
  <2>2. /\ r \in DOMAIN records /\ records[r].state = "running"
        /\ records'[r].parent = records[r].parent /\ records'[r].child = records[r].child
    BY <1>3, <2>1 DEF RunsOnlySettle
  <2> QED BY <1>3, <2>2 DEF Complete, NamesWhatRuns
<1>4. ASSUME NEW n \in DOMAIN asks', n <= rec.at.asks, asks'[n] = rec.subject
      PROVE  Recorded(rec, [kind |-> "gate", ref |-> n])
  <2>1. n \in Nat /\ n <= Len(asks) /\ Len(asks) \in Nat
    BY <1>2, <1>4 DEF AsksOnlyAnswered
  <2>2. n \in DOMAIN asks /\ asks[n] = asks'[n]
    BY <1>1, <1>4, <2>1 DEF AsksOnlyAnswered
  <2> QED BY <1>4, <2>2 DEF Complete, NamesWhatWaits
<1> QED BY <1>1, <1>2, <1>3, <1>4

\* A step that answers or raises asks, settles or starts runs, and puts at most one
\* record down, complete and about whoever it declares or disposes of, keeps it.
LEMMA ExitKeeps ==
  ASSUME ExitInv, asks' \in Seq(Agents \cup {NoAgent}), DOMAIN declared' = Agents,
         departed' \subseteq Agents, RunsOnlySettle, AsksOnlyAnswered, DOMAIN records' \subseteq Nat,
         departures' \in Seq(DepartureRecords),
         \A i \in DOMAIN departures : i \in DOMAIN departures' /\ departures'[i] = departures[i],
         \A i \in DOMAIN departures' : i \in DOMAIN departures \/ Complete(departures'[i]),
         \A a \in Agents : declared'[a] # NoAgent \/ a \in departed' =>
           OnRecord(a) \/ \E i \in DOMAIN departures' : departures'[i].subject = a
  PROVE  ExitInv'
<1>1. \A i \in DOMAIN departures' : Complete(departures'[i])
  BY DEF ExitInv
<1>2. DOMAIN asks' \subseteq Nat
  OBVIOUS
<1>3. (\A i \in DOMAIN departures : Complete(departures[i]))'
  BY <1>1, <1>2, StaysComplete DEF Complete, Stamped, NamesWhatRuns, NamesWhatWaits
<1>4. (\A a \in Agents : declared[a] # NoAgent \/ a \in departed => OnRecord(a))'
  BY DEF OnRecord
<1> QED BY <1>3, <1>4 DEF ExitInv

\* Nothing on the record side moves when only the delegation does.
LEMMA AsksStay ==
  ASSUME ExitInv, asks' = asks
  PROVE  AsksOnlyAnswered /\ asks' \in Seq(Agents \cup {NoAgent})
BY DEF ExitInv, AsksOnlyAnswered

LEMMA RunsStay ==
  ASSUME DelegationInv, runs' = runs, records' = records
  PROVE  RunsOnlySettle
BY DEF DelegationInv, DelegationTypeOK, RunsOnlySettle

LEMMA RecordPlaces ==
  ASSUME DelegationInv
  PROVE  DOMAIN records \subseteq Nat
BY RecordSays DEF DelegationInv, DelegationTypeOK

\* The delegation's own steps only settle and start runs.
LEMMA MovesOnlySettle ==
  ASSUME DelegationInv, DelegationMoves \/ UNCHANGED delegationVars \/ \E a \in Agents : Leave(a)
  PROVE  RunsOnlySettle
<1>1. CASE UNCHANGED <<runs, records>>
  BY <1>1, RunsStay
<1>2. ASSUME NEW p \in live, NEW c \in Agents \ {Root}, Start(p, c)
      PROVE  RunsOnlySettle
  <2>1. Len(runs) \in Nat /\ runs \in Seq(RunRecords)
    BY DEF DelegationInv, DelegationTypeOK
  <2>2. Len(runs') = Len(runs) + 1
    BY <1>2, <2>1 DEF Start
  <2>3. \A r \in DOMAIN records' : r # Len(runs) + 1 => r \in DOMAIN records /\ records'[r] = records[r]
    BY <1>2 DEF Start, Put
  <2>4. \A r \in DOMAIN records' : r <= Len(runs) => r # Len(runs) + 1
    BY <2>1
  <2> QED BY <2>1, <2>2, <2>3, <2>4 DEF RunsOnlySettle
<1>3. ASSUME NEW entry \in DOMAIN runs, End(entry)
      PROVE  RunsOnlySettle
  <2>1. Len(runs) \in Nat /\ Len(runs') = Len(runs)
    BY <1>3 DEF DelegationInv, DelegationTypeOK, End
  <2>2. /\ DOMAIN records' = DOMAIN records
        /\ \A r \in DOMAIN records : r # entry => records'[r] = records[r]
        /\ entry \in DOMAIN records => records'[entry] = [records[entry] EXCEPT !.state = "settled"]
    BY <1>3 DEF End, Settle
  <2>3. entry \in DOMAIN records => records'[entry].state = "settled"
    <3> SUFFICES ASSUME entry \in DOMAIN records
                 PROVE  records'[entry].state = "settled"
      OBVIOUS
    <3>1. records[entry] = [parent |-> header[runs[entry].child].parent,
                          child |-> runs[entry].child, state |-> StateOf(runs[entry])]
      BY DEF DelegationInv, RecordsAreTheRuns
    <3> QED BY <2>2, <3>1
  <2> QED BY <2>1, <2>2, <2>3 DEF RunsOnlySettle
<1> QED BY <1>1, <1>2, <1>3 DEF DelegationMoves, Withdraw, Narrow, Leave, delegationVars

\* A step that puts no record down and has none due.
LEMMA NothingNew ==
  ASSUME ExitInv, asks' \in Seq(Agents \cup {NoAgent}), RunsOnlySettle, AsksOnlyAnswered,
         DOMAIN records' \subseteq Nat, UNCHANGED <<declared, departed, departures>>
  PROVE  ExitInv'
<1>1. departures \in Seq(DepartureRecords) /\ DOMAIN declared = Agents /\ departed \subseteq Agents
      /\ \A a \in Agents : declared[a] # NoAgent \/ a \in departed => OnRecord(a)
  BY DEF ExitInv
<1> QED BY <1>1, ExitKeeps

\* One record more.
LEMMA OneMore ==
  ASSUME ExitInv, NEW made \in DepartureRecords, departures' = Append(departures, made)
  PROVE  LET n == Len(departures) + 1
         IN  /\ departures' \in Seq(DepartureRecords)
             /\ \A i \in DOMAIN departures : i \in DOMAIN departures' /\ departures'[i] = departures[i]
             /\ \A i \in DOMAIN departures' : i \in DOMAIN departures \/ i = n
             /\ n \in DOMAIN departures' /\ departures'[n] = made
BY AppendProperties DEF ExitInv

LEMMA DeclareKeeps ==
  ASSUME DelegationInv, ExitInv, NEW a \in Agents, DeclareDeparture(a)
  PROVE  ExitInv'
<1>1. PICK handover \in [ObligationLedger(a) -> {"settles", "by nobody", "nothing"}] :
        LET rec == DepartureRecord(a, SettleLedger(ObligationLedger(a), handover))
        IN  /\ departures' = Append(departures, rec)
            /\ declared' = [declared EXCEPT ![a] = rec]
  BY DEF DeclareDeparture
<1>2. PICK made \in DepartureRecords :
        /\ Complete(made) /\ made.subject = a
        /\ departures' = Append(departures, made) /\ declared' = [declared EXCEPT ![a] = made]
  BY <1>1, CompleteWhenMade
<1>3. UNCHANGED delegationVars /\ asks' = asks /\ departed' = departed
  BY DEF DeclareDeparture
<1>4. /\ DOMAIN declared = Agents /\ departed \subseteq Agents
      /\ \A b \in Agents : declared[b] # NoAgent \/ b \in departed => OnRecord(b)
  BY DEF ExitInv
<1>5. RunsOnlySettle /\ AsksOnlyAnswered /\ asks' \in Seq(Agents \cup {NoAgent}) /\ DOMAIN records' \subseteq Nat
  BY <1>3, AsksStay, MovesOnlySettle, RecordPlaces DEF delegationVars
<1>6. \A b \in Agents : declared'[b] # NoAgent \/ b \in departed' =>
        OnRecord(b) \/ \E i \in DOMAIN departures' : departures'[i].subject = b
  <2> SUFFICES ASSUME NEW b \in Agents, declared'[b] # NoAgent \/ b \in departed'
               PROVE  OnRecord(b) \/ \E i \in DOMAIN departures' : departures'[i].subject = b
    OBVIOUS
  <2>1. CASE b = a
    BY <1>2, <2>1, OneMore
  <2>2. CASE b # a
    BY <1>2, <1>3, <1>4, <2>2
  <2> QED BY <2>1, <2>2
<1>7. DOMAIN declared' = Agents /\ departed' \subseteq Agents
  BY <1>2, <1>3, <1>4
<1> QED BY <1>2, <1>5, <1>6, <1>7, OneMore, ExitKeeps

LEMMA DisposeKeeps ==
  ASSUME DelegationInv, ExitInv, NEW a \in Agents, Dispose(a)
  PROVE  ExitInv'
<1>1. Leave(a) /\ departed' = departed \cup {a} /\ asks' = asks /\ declared' = declared
      /\ departures' = IF declared[a] # NoAgent THEN departures ELSE Append(departures, Undeclared(a))
  BY DEF Dispose
<1>2. Complete(Undeclared(a)) /\ Undeclared(a).subject = a /\ Undeclared(a) \in DepartureRecords
  BY CompleteWhenMade DEF Undeclared
<1>3. /\ departures \in Seq(DepartureRecords) /\ DOMAIN declared = Agents /\ departed \subseteq Agents
      /\ \A b \in Agents : declared[b] # NoAgent \/ b \in departed => OnRecord(b)
  BY DEF ExitInv
<1>4. RunsOnlySettle /\ AsksOnlyAnswered /\ asks' \in Seq(Agents \cup {NoAgent})
  BY <1>1, AsksStay, MovesOnlySettle
<1>5. DOMAIN records' \subseteq Nat
  BY <1>1, RecordPlaces DEF Leave
<1>6. CASE declared[a] # NoAgent
  <2>1. departures' = departures
    BY <1>1, <1>6
  <2> QED BY <1>1, <1>3, <1>4, <1>5, <1>6, <2>1, ExitKeeps
<1>7. CASE declared[a] = NoAgent
  <2>1. departures' = Append(departures, Undeclared(a))
    BY <1>1, <1>7
  <2>2. \A b \in Agents : declared'[b] # NoAgent \/ b \in departed' =>
          OnRecord(b) \/ \E i \in DOMAIN departures' : departures'[i].subject = b
    BY <1>1, <1>2, <1>3, <2>1, OneMore
  <2> QED BY <1>1, <1>2, <1>3, <1>4, <1>5, <2>1, <2>2, OneMore, ExitKeeps
<1> QED BY <1>6, <1>7

LEMMA AskKeeps ==
  ASSUME DelegationInv, ExitInv, NEW a \in Agents, Ask(a)
  PROVE  ExitInv'
<1>1. RootOf(a) \in Agents \cup {NoAgent}
  BY DEF Ask, DelegationInv, DelegationTypeOK, RootOf
<1>2. asks \in Seq(Agents \cup {NoAgent}) /\ asks' = Append(asks, RootOf(a))
      /\ UNCHANGED delegationVars /\ UNCHANGED <<declared, departed, departures>>
  BY DEF Ask, ExitInv
<1>3. asks' \in Seq(Agents \cup {NoAgent})
  BY <1>1, <1>2, AppendProperties
<1>4. AsksOnlyAnswered
  <2>1. Len(asks) \in Nat /\ Len(asks') = Len(asks) + 1 /\ DOMAIN asks = 1..Len(asks)
        /\ DOMAIN asks' = 1..Len(asks') /\ \A n \in 1..Len(asks) : asks'[n] = asks[n]
    BY <1>1, <1>2, AppendProperties
  <2> QED BY <2>1 DEF AsksOnlyAnswered
<1>5. RunsOnlySettle /\ DOMAIN records' \subseteq Nat
  BY <1>2, MovesOnlySettle, RecordPlaces DEF delegationVars
<1> QED BY <1>2, <1>3, <1>4, <1>5, NothingNew

LEMMA AnswerKeeps ==
  ASSUME DelegationInv, ExitInv, NEW n \in DOMAIN asks, Answer(n)
  PROVE  ExitInv'
<1>1. asks \in Seq(Agents \cup {NoAgent}) /\ asks' = [asks EXCEPT ![n] = NoAgent]
      /\ UNCHANGED delegationVars /\ UNCHANGED <<declared, departed, departures>>
  BY DEF Answer, ExitInv
<1>2. asks' \in Seq(Agents \cup {NoAgent}) /\ AsksOnlyAnswered
  <2>1. n \in 1..Len(asks) /\ DOMAIN asks = 1..Len(asks) /\ NoAgent \in Agents \cup {NoAgent}
    BY <1>1
  <2>2. asks' \in Seq(Agents \cup {NoAgent}) /\ Len(asks') = Len(asks)
    BY <1>1, <2>1, ExceptSeq
  <2>3. DOMAIN asks' = DOMAIN asks /\ \A m \in DOMAIN asks : m # n => asks'[m] = asks[m]
    BY <1>1
  <2>4. asks'[n] = NoAgent
    BY <1>1
  <2> QED BY <1>1, <2>2, <2>3, <2>4 DEF AsksOnlyAnswered
<1>3. RunsOnlySettle /\ DOMAIN records' \subseteq Nat
  BY <1>1, MovesOnlySettle, RecordPlaces DEF delegationVars
<1> QED BY <1>1, <1>2, <1>3, NothingNew

\* The process forgets the records with what they were about.
LEMMA RestartAllKeeps ==
  ASSUME RestartAll
  PROVE  ExitInv'
<1>1. asks' = <<>> /\ departures' = <<>> /\ departed' = {} /\ declared' = [a \in Agents |-> NoAgent]
  BY DEF RestartAll, Nothing
<1> QED BY <1>1 DEF ExitInv

LEMMA ExitInvStep ==
  ASSUME DelegationInv, ExitInv, [NextExit]_allVars
  PROVE  ExitInv'
<1>1. CASE UNCHANGED exitVars /\ (DelegationMoves \/ UNCHANGED delegationVars)
  <2>1. asks' = asks /\ UNCHANGED <<declared, departed, departures>>
    BY <1>1 DEF exitVars
  <2>2. DOMAIN records' \subseteq Nat
    <3>1. DelegationInv'
      BY DelegationStep
    <3>2. (DOMAIN records \subseteq Nat)'
      BY <3>1, RecordPlaces, PTL
    <3> QED BY <3>2
  <2> QED BY <1>1, <2>1, <2>2, AsksStay, MovesOnlySettle, NothingNew
<1>2. ASSUME NEW a \in Agents, Ask(a)
      PROVE  ExitInv'
  BY <1>2, AskKeeps
<1>3. ASSUME NEW a \in Agents, DeclareDeparture(a)
      PROVE  ExitInv'
  BY <1>3, DeclareKeeps
<1>4. ASSUME NEW a \in Agents, Dispose(a)
      PROVE  ExitInv'
  BY <1>4, DisposeKeeps
<1>5. ASSUME NEW n \in DOMAIN asks, Answer(n)
      PROVE  ExitInv'
  BY <1>5, AnswerKeeps
<1>6. CASE RestartAll
  BY <1>6, RestartAllKeeps
<1> QED BY <1>1, <1>2, <1>3, <1>4, <1>5, <1>6 DEF NextExit, DelegationMoves, allVars, delegationVars, exitVars

LEMMA InitExitInv == InitExit => ExitInv
BY DEF InitExit, Nothing, ExitInv

THEOREM ExitInvariant == SpecExit => []ExitInv
<1>1. InitExit => ExitInv
  BY InitExitInv
<1>2. DelegationInv /\ ExitInv /\ [NextExit]_allVars => ExitInv'
  BY ExitInvStep
<1> QED BY <1>1, <1>2, DelegationInvariant, PTL DEF SpecExit

\* R-12: who is gone left a record of all that was owed (ledger.js, exit's index.js).
THEOREM DebtsAlwaysOutlive == SpecExit => []DebtsOutliveTheDebtor
<1>1. ExitInv => DebtsOutliveTheDebtor
  BY DebtsFromInv
<1> QED BY <1>1, ExitInvariant, PTL

-----------------------------------------------------------------------------
(* A community's run: the state it is in *)

Dockets == [filed : Nat, judged : SUBSET Nat]
PostRows == [seq : Nat, by : Members \cup {Nobody}]
BenchStages == {"bench", "benchReady", "benchTurn"}
WorkerStages == {"worker", "workerReady", "workerTurn"}
Readings == Nat \X Nat \X Dockets

Stages == {"round", "ended"} \cup BenchStages \cup WorkerStages
Reasons == {"none", "budget", "operator", "roundsComplete", "quiet", "fence"}
Runs == [at : Stages, k : Nat, rows : SUBSET Nat, round : Nat, start : {<<>>} \cup Readings,
         autoPaused : BOOLEAN, endReason : Reasons]
Seatings == [Members -> [turns : Nat, wokenFor : SUBSET Nat]]
Turns == [by : Members \cup {Nobody}, acts : Nat, card : {"none", "floor", "ask"}, over : BOOLEAN]

PostsAreRows == board \in Seq(PostRows) /\ ledger \in Seq(PostRows)

RunTypeOK ==
  /\ controls \in [paused : BOOLEAN, stopMode : {"none", "graceful", "now"}]
  /\ run \in Runs
  /\ seats \in Seatings
  /\ turn \in Turns
  /\ court \in Dockets
  /\ signs \in [trips : Nat, timeouts : Nat, overrun : BOOLEAN]
  /\ PostsAreRows

\* The engine wakes and drives the members there are.
SeatsAreThere ==
  /\ (run.at = "bench" /\ run.rows # {}) \/ run.at \in {"benchReady", "benchTurn"} => run.k \in DOMAIN Bench
  /\ run.at \in {"workerReady", "workerTurn"} => run.k \in DOMAIN Workers

\* A turn is in flight only where the engine drives one.
TurnsAreDriven == turn.by # Nobody \/ turn.card # "none" => run.at \in {"benchTurn", "workerTurn"}

InRound == run.at \in BenchStages \cup WorkerStages

\* The docket a round began with only grows during the round.
RoundsBegan ==
  InRound => /\ run.start \in Readings
             /\ run.start[3].filed <= court.filed /\ run.start[3].judged \subseteq court.judged

Unjudged == (1..court.filed) \ court.judged
HeardBy(i) == Unjudged \subseteq seats[Bench[i]].wokenFor

\* While the docket is as the round found it, the seats already passed have been woken
\* for every unjudged case, and the seat at its turn for all but those in its row.
SeatsHeard ==
  InRound /\ run.start[3] = court =>
    \A i \in DOMAIN Bench :
      /\ run.at \in WorkerStages \/ i < run.k => HeardBy(i)
      /\ run.at \in BenchStages /\ i = run.k => Unjudged \subseteq seats[Bench[i]].wokenFor \cup run.rows

StopsAreTold == Ended /\ StopAsked => run.endReason \in {"operator", "budget"}

QuietIsHeard ==
  run.endReason = "quiet" =>
    Ended /\ run.start[2] = signs.timeouts /\ \A i \in DOMAIN Bench : HeardBy(i)

\* What a replay of the ledger would read is the start of the board.
ReplaysTheBoard ==
  \A n \in 0..Len(ledger) :
    (\A i \in 1..n : Continues(ledger[i], i)) => n <= Len(board) /\ \A i \in 1..n : ledger[i] = board[i]

RunInv == /\ RunTypeOK /\ SeatsAreThere /\ TurnsAreDriven /\ RoundsBegan /\ SeatsHeard
          /\ StopsAreTold /\ QuietIsHeard /\ ReplaysTheBoard

LEMMA BenchSeats ==
  ASSUME NEW i \in DOMAIN Bench
  PROVE  Bench[i] \in Members
<1>1. Bench \in Seq(Members)
  BY MembersAreInOrder
<1> QED BY <1>1

LEMMA WorkerSeats ==
  ASSUME NEW i \in DOMAIN Workers
  PROVE  Workers[i] \in Members
<1>1. Workers \in Seq(Members)
  BY MembersAreInOrder
<1> QED BY <1>1

\* The state a process starts in satisfies all but what the ledger says.
LEMMA BootHolds ==
  ASSUME Boot, PostsAreRows
  PROVE  RunTypeOK /\ SeatsAreThere /\ TurnsAreDriven /\ RoundsBegan /\ SeatsHeard /\ StopsAreTold /\ QuietIsHeard
<1> USE DEF Boot, NoStop, Fresh, NoTurn, BenchStages, WorkerStages
<1>1. RunTypeOK
  <2>1. run \in Runs
    BY DEF Runs, Stages, Reasons
  <2>2. turn \in Turns
    BY DEF Turns
  <2>3. seats \in Seatings /\ court \in Dockets
    BY DEF Seatings, Dockets
  <2> QED BY <2>1, <2>2, <2>3 DEF RunTypeOK, PostsAreRows
<1>2. SeatsAreThere /\ TurnsAreDriven /\ ~InRound
  BY DEF SeatsAreThere, TurnsAreDriven, InRound
<1>3. ~Ended /\ run.endReason # "quiet"
  BY DEF Ended
<1> QED BY <1>1, <1>2, <1>3 DEF RoundsBegan, SeatsHeard, StopsAreTold, QuietIsHeard

-----------------------------------------------------------------------------
(* The end is final *)

LEMMA NothingAfterTheEnd ==
  ASSUME RunInv, Ended, RunNext
  PROVE  FALSE
<1>1. turn.by = Nobody /\ turn.card = "none" /\ run.at = "ended"
  BY DEF RunInv, TurnsAreDriven, Ended
<1>2. ~Awaiting
  BY <1>1 DEF Awaiting
<1>3. ~Engine
  BY <1>1 DEF Engine, BeginRound, NextBench, Wake, Budgets, StopRead, EndRound, Drive
<1>4. ~TurnDone /\ ~ModelActs /\ ~Answered /\ ~TimesOut
  BY <1>1 DEF TurnDone, ModelActs, Acting, Answered, TimesOut
<1>5. ~Pause /\ ~Resume /\ ~Stop /\ ~Interrupted /\ ~StopNow /\ ~Overruns /\ ~Kill
  BY <1>2 DEF Pause, Resume, Stop, Interrupted, StopNow, Overruns, Kill, Presses
<1> QED BY <1>3, <1>4, <1>5 DEF RunNext

\* Before the end no reason is given, and a step that is not the end gives none.
LEMMA NotYetTold ==
  ASSUME RunTypeOK, QuietIsHeard, ~Ended
  PROVE  run.endReason # "quiet"
BY DEF QuietIsHeard

-----------------------------------------------------------------------------
(* The engine's steps *)

LEMMA EngineKeepsTypes ==
  ASSUME RunTypeOK, SeatsAreThere, Engine
  PROVE  RunTypeOK' /\ SeatsAreThere'
<1>1. ASSUME NEW k \in Nat PROVE (IF k \in DOMAIN Bench THEN Unheard(Bench[k]) ELSE {}) \in SUBSET Nat
  BY DEF Unheard, RunTypeOK, PostsAreRows, Dockets
<1>3. Activity \in Readings
  <2>1. Len(board) \in Nat /\ signs.timeouts \in Nat /\ court \in Dockets
    BY LenProperties DEF RunTypeOK, PostsAreRows
  <2> QED BY <2>1 DEF Activity, Readings
<1>2. run' \in Runs
  <2> USE DEF Stages, BenchStages, WorkerStages, Reasons
  <2>0. run \in Runs /\ run.k + 1 \in Nat /\ run.round + 1 \in Nat
    BY DEF RunTypeOK, PostsAreRows, Runs
  <2>1. CASE BeginRound
    <3>1. run' = [[run EXCEPT !.round = @ + 1, !.start = Activity] EXCEPT
                     !.at = "bench", !.k = 1, !.rows = IF 1 \in DOMAIN Bench THEN Unheard(Bench[1]) ELSE {}]
      BY <2>1 DEF BeginRound, BenchAt
    <3>2. [run EXCEPT !.round = @ + 1, !.start = Activity] \in Runs
      BY <1>3, <2>0 DEF Runs
    <3>3. ASSUME NEW r \in Runs, NEW rows \in SUBSET Nat
          PROVE  [r EXCEPT !.at = "bench", !.k = 1, !.rows = rows] \in Runs
      BY <3>3 DEF Runs
    <3> QED BY <1>1, <3>1, <3>2, <3>3
  <2>2. CASE NextBench
    <3>1. ASSUME NEW rows \in SUBSET Nat
          PROVE  [run EXCEPT !.at = "bench", !.k = run.k + 1, !.rows = rows] \in Runs
      BY <2>0, <3>1 DEF Runs
    <3>2. [run EXCEPT !.at = "worker", !.k = 1] \in Runs
      BY <2>0 DEF Runs
    <3> QED BY <1>1, <2>0, <2>2, <3>1, <3>2 DEF NextBench, BenchAt
  <2>3. CASE Wake
    <3>1. PICK c \in run.rows : run' = [run EXCEPT !.at = "benchReady", !.rows = run.rows \ {c}]
      BY <2>3 DEF Wake
    <3> QED BY <2>0, <3>1 DEF Runs
  <2>4. CASE Budgets
    BY <2>0, <2>4 DEF Budgets, Ends, Goes, Runs
  <2>5. CASE StopRead
    BY <2>0, <2>5 DEF StopRead, Ends, Runs
  <2>6. CASE EndRound
    BY <2>0, <2>6 DEF EndRound, LastRound, Ends, Goes, Runs
  <2>7. CASE Drive
    BY <2>0, <2>7 DEF Drive, Runs
  <2> QED BY <2>1, <2>2, <2>3, <2>4, <2>5, <2>6, <2>7 DEF Engine
<1>4. UNCHANGED <<controls, court, signs, board, ledger>>
  BY DEF Engine, BeginRound, NextBench, Wake, Budgets, StopRead, EndRound, Drive, BetweenTurns
<1>5. seats' \in Seatings
  <2>1. CASE Wake
    <3>1. PICK c \in run.rows : seats' = [seats EXCEPT ![Bench[run.k]].wokenFor = @ \cup {c}]
      BY <2>1 DEF Wake
    <3>2. c \in Nat
      BY DEF RunTypeOK, PostsAreRows, Runs
    <3> QED BY <3>1, <3>2 DEF RunTypeOK, PostsAreRows, Seatings
  <2>2. CASE ~Wake
    BY <2>2 DEF RunTypeOK, PostsAreRows, Engine, BeginRound, NextBench, Budgets, StopRead, EndRound, Drive
  <2> QED BY <2>1, <2>2
<1>6. turn' \in Turns
  <2>1. CASE Drive
    <3>1. PICK m : /\ m = IF run.at = "benchReady" THEN Bench[run.k] ELSE Workers[run.k]
                   /\ turn' = [NoTurn EXCEPT !.by = m, !.card = IF m \in Humans THEN "floor" ELSE "none"]
      BY <2>1 DEF Drive
    <3>2. m \in Members
      BY <2>1, <3>1, BenchSeats, WorkerSeats DEF Drive, SeatsAreThere
    <3> QED BY <3>1, <3>2 DEF Turns, NoTurn
  <2>2. CASE ~Drive
    BY <2>2 DEF RunTypeOK, PostsAreRows, Engine, BeginRound, NextBench, Wake, Budgets, StopRead, EndRound, BetweenTurns
  <2> QED BY <2>1, <2>2
<1>7. RunTypeOK'
  BY <1>2, <1>4, <1>5, <1>6 DEF RunTypeOK, PostsAreRows
<1>8. SeatsAreThere'
  <2> USE DEF SeatsAreThere
  <2>0. run \in Runs /\ Bench \in Seq(Members)
    BY MembersAreInOrder DEF RunTypeOK, PostsAreRows
  <2>1. CASE BeginRound
    BY <2>0, <2>1 DEF BeginRound, BenchAt, Runs
  <2>2. CASE NextBench
    BY <2>0, <2>2 DEF NextBench, BenchAt, Runs
  <2>3. CASE Wake
    BY <2>0, <2>3 DEF Wake, Runs
  <2>4. CASE Budgets
    BY <2>0, <2>4 DEF Budgets, Ends, Goes, Runs
  <2>5. CASE StopRead
    BY <2>0, <2>5 DEF StopRead, Ends, Runs
  <2>6. CASE EndRound
    BY <2>0, <2>6 DEF EndRound, LastRound, Ends, Goes, Runs
  <2>7. CASE Drive
    BY <2>0, <2>7 DEF Drive, Runs
  <2> QED BY <2>1, <2>2, <2>3, <2>4, <2>5, <2>6, <2>7 DEF Engine
<1> QED BY <1>7, <1>8

-----------------------------------------------------------------------------
(* The steps of a turn, of the operator and of the process *)

LEMMA TurnDoneKeepsTypes ==
  ASSUME RunTypeOK, SeatsAreThere, TurnDone
  PROVE  RunTypeOK' /\ SeatsAreThere'
<1>0. run \in Runs /\ run.k + 1 \in Nat
  BY DEF RunTypeOK, PostsAreRows, Runs
<1>1. /\ \/ run' = [run EXCEPT !.at = "bench"] /\ run.at = "benchTurn"
         \/ run' = [run EXCEPT !.at = "worker", !.k = run.k + 1]
         \/ run' = [run EXCEPT !.at = "worker", !.k = run.k + 1, !.autoPaused = TRUE]
         \/ run' = [run EXCEPT !.at = "ended", !.endReason = "fence"]
      /\ controls' = controls \/ controls' = [controls EXCEPT !.paused = TRUE]
  BY DEF TurnDone, Fence, Goes, Ends
<1>2. run' \in Runs
  BY <1>0, <1>1 DEF Runs, Stages, BenchStages, WorkerStages, Reasons
<1>3. seats' \in Seatings
  <2>1. seats' = [seats EXCEPT ![turn.by].turns = @ + 1]
    BY DEF TurnDone
  <2>2. turn.by \in Members
    BY DEF TurnDone, RunTypeOK, PostsAreRows, Turns
  <2>3. seats[turn.by].turns + 1 \in Nat
    BY <2>2 DEF RunTypeOK, PostsAreRows, Seatings
  <2> QED BY <2>1, <2>2, <2>3 DEF RunTypeOK, PostsAreRows, Seatings
<1>4. turn' \in Turns
  BY DEF TurnDone, NoTurn, Turns
<1>5. SeatsAreThere'
  BY <1>0, <1>1 DEF SeatsAreThere, Runs
<1>6. controls' \in [paused : BOOLEAN, stopMode : {"none", "graceful", "now"}]
  BY <1>1 DEF RunTypeOK, PostsAreRows
<1>7. UNCHANGED <<court, signs, board, ledger>>
  BY DEF TurnDone
<1> QED BY <1>2, <1>3, <1>4, <1>5, <1>6, <1>7 DEF RunTypeOK, PostsAreRows

LEMMA WritesKeepTypes ==
  ASSUME RunTypeOK, Writes
  PROVE  board' \in Seq(PostRows) /\ ledger' \in Seq(PostRows)
<1>1. Posted(board, turn.by) = Append(board, [seq |-> Len(board) + 1, by |-> turn.by])
  BY DEF Posted
<1>2. [seq |-> Len(board) + 1, by |-> turn.by] \in PostRows
  BY LenProperties DEF RunTypeOK, PostsAreRows, Turns, PostRows
<1>3. board' \in Seq(PostRows) /\ Last(board') = [seq |-> Len(board) + 1, by |-> turn.by]
  BY <1>1, <1>2, AppendProperties DEF Writes, RunTypeOK, PostsAreRows, Last
<1>4. ledger' = ledger \/ ledger' = Append(ledger, Last(board'))
  BY DEF Writes, Appended
<1>5. Append(ledger, Last(board')) \in Seq(PostRows)
  BY <1>2, <1>3, AppendProperties DEF RunTypeOK, PostsAreRows
<1> QED BY <1>3, <1>4, <1>5 DEF RunTypeOK, PostsAreRows

\* What an act of a turn leaves: the turn itself, the docket, the signs and the posts.
LEMMA ActsKeepTypes ==
  ASSUME RunTypeOK, SeatsAreThere, ModelActs \/ Answered \/ TimesOut
  PROVE  RunTypeOK' /\ SeatsAreThere'
<1>1. turn' \in Turns
  <2>1. \/ turn' = [turn EXCEPT !.card = "none"]
        \/ turn' = [turn EXCEPT !.card = "none", !.over = (turn.card = "floor")]
        \/ \E card \in {"none", "floor", "ask"}, over \in BOOLEAN :
             turn' = [turn EXCEPT !.acts = turn.acts + 1, !.card = card, !.over = over]
    BY DEF ModelActs, Answered, TimesOut, Acts
  <2>2. turn \in Turns /\ turn.acts + 1 \in Nat
    BY DEF RunTypeOK, PostsAreRows, Turns
  <2> QED BY <2>1, <2>2 DEF Turns
<1>2. court' \in Dockets
  <2>1. \/ court' = court
        \/ court' = [court EXCEPT !.filed = @ + 1]
        \/ \E c \in 1..court.filed : court' = [court EXCEPT !.judged = @ \cup {c}]
    BY DEF ModelActs, Answered, TimesOut
  <2> QED BY <2>1 DEF RunTypeOK, PostsAreRows, Dockets
<1>3. signs' \in [trips : Nat, timeouts : Nat, overrun : BOOLEAN]
  <2>1. \/ signs' = signs
        \/ signs' = [signs EXCEPT !.trips = @ + 1]
        \/ signs' = [signs EXCEPT !.timeouts = @ + 1]
    BY DEF ModelActs, Answered, TimesOut
  <2> QED BY <2>1 DEF RunTypeOK, PostsAreRows
<1>4. board' \in Seq(PostRows) /\ ledger' \in Seq(PostRows)
  <2>1. Writes \/ UNCHANGED <<board, ledger>>
    BY DEF ModelActs, Answered, TimesOut
  <2> QED BY <2>1, WritesKeepTypes DEF RunTypeOK, PostsAreRows
<1>5. UNCHANGED <<controls, run, seats>>
  BY DEF ModelActs, Answered, TimesOut, InTurn
<1> QED BY <1>1, <1>2, <1>3, <1>4, <1>5 DEF RunTypeOK, PostsAreRows, SeatsAreThere

Presser == Pause \/ Resume \/ Stop \/ Interrupted \/ StopNow \/ Overruns

LEMMA PressesKeepTypes ==
  ASSUME RunTypeOK, SeatsAreThere, Presser
  PROVE  RunTypeOK' /\ SeatsAreThere'
<1>1. controls' \in [paused : BOOLEAN, stopMode : {"none", "graceful", "now"}]
  <2>1. \/ controls' = controls
        \/ controls' = [controls EXCEPT !.paused = TRUE] \/ controls' = [controls EXCEPT !.paused = FALSE]
        \/ controls' = [controls EXCEPT !.stopMode = "graceful"] \/ controls' = [controls EXCEPT !.stopMode = "now"]
        \/ controls' = [paused |-> FALSE, stopMode |-> "graceful"]
    BY DEF Presser, Pause, Resume, Stop, Interrupted, StopNow, Overruns
  <2>2. controls \in [paused : BOOLEAN, stopMode : {"none", "graceful", "now"}]
    BY DEF RunTypeOK, PostsAreRows
  <2>3. \A b \in BOOLEAN : [controls EXCEPT !.paused = b] \in [paused : BOOLEAN, stopMode : {"none", "graceful", "now"}]
    BY ONLY <2>2
  <2>4. \A mode \in {"none", "graceful", "now"} :
          [controls EXCEPT !.stopMode = mode] \in [paused : BOOLEAN, stopMode : {"none", "graceful", "now"}]
    BY ONLY <2>2
  <2>5. [paused |-> FALSE, stopMode |-> "graceful"] \in [paused : BOOLEAN, stopMode : {"none", "graceful", "now"}]
    OBVIOUS
  <2> QED BY <2>1, <2>2, <2>3, <2>4, <2>5
<1>2. turn' \in Turns
  <2>1. turn' = turn \/ turn' = [turn EXCEPT !.card = "none", !.over = TRUE]
    BY DEF Presser, Pause, Resume, Stop, Interrupted, StopNow, Overruns
  <2> QED BY <2>1 DEF RunTypeOK, PostsAreRows, Turns
<1>3. signs' \in [trips : Nat, timeouts : Nat, overrun : BOOLEAN]
  BY DEF RunTypeOK, PostsAreRows, Presser, Pause, Resume, Stop, Interrupted, StopNow, Overruns
<1>4. UNCHANGED <<run, seats, court, board, ledger>>
  BY DEF Presser, Pause, Resume, Stop, Interrupted, StopNow, Overruns
<1> QED BY <1>1, <1>2, <1>3, <1>4 DEF RunTypeOK, PostsAreRows, SeatsAreThere

-----------------------------------------------------------------------------
(* The ledger *)

LEMMA LeastNumber ==
  ASSUME NEW S \in SUBSET Nat, S # {}
  PROVE  \E i \in S : \A j \in S : i <= j
<1> DEFINE Below == {0..k : k \in S}
<1>1. Below \subseteq FiniteSubsetsOf(Nat) /\ Below # {}
  <2>1. \A k \in S : 0..k \in SUBSET Nat /\ IsFiniteSet(0..k)
    BY FS_Interval
  <2> QED BY <2>1 DEF FiniteSubsetsOf
<1>2. PICK X \in Below : \A Y \in Below : ~(<<Y, X>> \in StrictSubsetOrdering(Nat))
  <2> HIDE DEF Below
  <2> QED BY <1>1, FS_StrictSubsetOrderingWellFounded, WFMin
<1>3. PICK m \in S : X = 0..m
  BY <1>2
<1>4. ASSUME NEW k \in S, k < m PROVE FALSE
  <2>1. 0..k \in SUBSET Nat /\ 0..m \in SUBSET Nat /\ 0..k \subseteq 0..m
    BY <1>4
  <2>2. m \in 0..m /\ m \notin 0..k
    BY <1>4
  <2>3. 0..k # 0..m
    BY <2>2
  <2>4. <<0..k, 0..m>> \in StrictSubsetOrdering(Nat)
    BY <2>1, <2>3 DEF StrictSubsetOrdering
  <2>5. 0..k \in Below
    OBVIOUS
  <2> HIDE DEF Below
  <2> QED BY <1>2, <1>3, <2>4, <2>5
<1> QED BY <1>3, <1>4

\* The longest start of the rows that reads as a board's.
Readable(rows) == {n \in 0..Len(rows) : \A i \in 1..n : Continues(rows[i], i)}

LEMMA ReadableHasMax ==
  ASSUME NEW rows \in Seq(PostRows)
  PROVE  Max(Readable(rows)) \in Readable(rows) /\ \A n \in Readable(rows) : n <= Max(Readable(rows))
<1> DEFINE N == Len(rows)
           gaps == {N - n : n \in Readable(rows)}
<1>1. N \in Nat /\ 0 \in Readable(rows) /\ Readable(rows) \subseteq 0..N
  BY LenProperties DEF Readable
<1>2. gaps \in SUBSET Nat /\ gaps # {}
  BY <1>1
<1>3. PICK g \in gaps : \A h \in gaps : g <= h
  <2> HIDE DEF gaps
  <2> QED BY <1>2, LeastNumber
<1>4. PICK m \in Readable(rows) : g = N - m
  BY <1>3
<1>5. \A n \in Readable(rows) : m >= n
  <2> SUFFICES ASSUME NEW n \in Readable(rows) PROVE m >= n
    OBVIOUS
  <2>1. g <= N - n
    BY <1>3
  <2>2. m \in Nat /\ n \in Nat
    BY <1>1
  <2> QED BY ONLY <1>1, <1>4, <2>1, <2>2
<1>6. \E x \in Readable(rows) : \A y \in Readable(rows) : x >= y
  BY <1>5
<1>7. /\ Max(Readable(rows)) \in Readable(rows)
      /\ \A y \in Readable(rows) : Max(Readable(rows)) >= y
  <2> DEFINE S == Readable(rows)
  <2> HIDE DEF S
  <2>1. (\E x \in S : \A y \in S : x >= y) => Max(S) \in S /\ \A y \in S : Max(S) >= y
    BY DEF Max
  <2> QED BY <1>6, <2>1 DEF S
<1>8. \A n \in Readable(rows) : n \in Nat
  BY <1>1
<1> QED BY <1>7, <1>8

\* What Forum.replay gives back: as much of the ledger as continues from row to row.
LEMMA ReplayIsTheLongestStart ==
  ASSUME NEW rows \in Seq(PostRows)
  PROVE  /\ Replay(rows) \in Seq(PostRows) /\ Len(Replay(rows)) \in Readable(rows)
         /\ \A i \in 1..Len(Replay(rows)) : Replay(rows)[i] = rows[i]
         /\ \A n \in Readable(rows) : n <= Len(Replay(rows))
<1> DEFINE n == Max(Readable(rows))
<1>1. n \in Readable(rows) /\ \A m \in Readable(rows) : m <= n
  BY ReadableHasMax
<1>2. n \in 0..Len(rows) /\ Len(rows) \in Nat
  BY <1>1, LenProperties DEF Readable
<1>3. Replay(rows) = SubSeq(rows, 1, n)
  BY DEF Replay, Readable
<1> HIDE DEF n
<1>4. /\ SubSeq(rows, 1, n) \in Seq(PostRows) /\ Len(SubSeq(rows, 1, n)) = n
      /\ \A i \in 1..n : SubSeq(rows, 1, n)[i] = rows[i]
  BY <1>2, SubSeqProperties
<1> QED BY <1>1, <1>3, <1>4

LEMMA BootImplies ==
  Boot /\ PostsAreRows =>
    RunTypeOK /\ SeatsAreThere /\ TurnsAreDriven /\ RoundsBegan /\ SeatsHeard /\ StopsAreTold /\ QuietIsHeard
BY BootHolds

LEMMA BootHoldsNext ==
  ASSUME Boot', PostsAreRows'
  PROVE  (RunTypeOK /\ SeatsAreThere /\ TurnsAreDriven /\ RoundsBegan /\ SeatsHeard /\ StopsAreTold /\ QuietIsHeard)'
BY BootImplies, PTL

LEMMA WholeIsPrefix ==
  ASSUME NEW s \in Seq(PostRows)
  PROVE  IsPrefix(s, s)
BY LenProperties DEF IsPrefix

LEMMA KillKeepsTheInvariant ==
  ASSUME RunInv, Kill
  PROVE  RunInv' /\ IsPrefix(board', board)
<1>1. board \in Seq(PostRows) /\ ledger \in Seq(PostRows) /\ ledger' = ledger /\ board' = Replay(ledger)
  BY DEF RunInv, RunTypeOK, PostsAreRows, Kill
<1>2. /\ board' \in Seq(PostRows) /\ Len(board') \in Readable(ledger)
      /\ \A i \in 1..Len(board') : board'[i] = ledger[i]
      /\ \A n \in Readable(ledger) : n <= Len(board')
  BY <1>1, ReplayIsTheLongestStart
<1>3. Len(board') <= Len(board) /\ \A i \in 1..Len(board') : ledger[i] = board[i]
  BY <1>2 DEF RunInv, ReplaysTheBoard, Readable
<1>4. IsPrefix(board', board)
  <2>1. Len(board') \in Nat /\ Len(board) \in Nat
    BY <1>1, <1>2, LenProperties
  <2>2. SubSeq(board, 1, Len(board')) = board'
    <3>1. /\ SubSeq(board, 1, Len(board')) \in Seq(PostRows)
          /\ Len(SubSeq(board, 1, Len(board'))) = Len(board')
          /\ \A i \in 1..Len(board') : SubSeq(board, 1, Len(board'))[i] = board[i]
      BY <1>1, <1>3, <2>1, SubSeqProperties
    <3> QED BY <1>2, <1>3, <3>1, SeqEqual
  <2>3. SubSeq(board', 1, Len(board')) = board'
    <3>1. /\ SubSeq(board', 1, Len(board')) \in Seq(PostRows)
          /\ Len(SubSeq(board', 1, Len(board'))) = Len(board')
          /\ \A i \in 1..Len(board') : SubSeq(board', 1, Len(board'))[i] = board'[i]
      BY <1>2, <2>1, SubSeqProperties
    <3> QED BY <1>2, <3>1, SeqEqual
  <2> QED BY <1>3, <2>2, <2>3 DEF IsPrefix
<1>5. ReplaysTheBoard'
  BY <1>1, <1>2 DEF ReplaysTheBoard, Readable
<1>6. Boot'
  BY DEF Kill, Boot
<1>7. PostsAreRows'
  BY <1>1, <1>2 DEF PostsAreRows
<1>8. (RunTypeOK /\ SeatsAreThere /\ TurnsAreDriven /\ RoundsBegan /\ SeatsHeard /\ StopsAreTold /\ QuietIsHeard)'
  BY <1>6, <1>7, BootHoldsNext
<1> QED BY <1>4, <1>5, <1>8 DEF RunInv

\* A post extends the board by its next number; its row, if it is written, is read back
\* only when every row before it was.
LEMMA WritesKeepTheBoard ==
  ASSUME RunTypeOK, ReplaysTheBoard, Writes
  PROVE  ReplaysTheBoard' /\ IsPrefix(board, board')
<1> DEFINE post == [seq |-> Len(board) + 1, by |-> turn.by]
<1>1. board \in Seq(PostRows) /\ ledger \in Seq(PostRows) /\ post \in PostRows
  BY LenProperties DEF RunTypeOK, PostsAreRows, Turns, PostRows
<1>2. board' = Append(board, post)
  BY DEF Writes, Posted
<1> HIDE DEF post
<1>3. /\ board' \in Seq(PostRows) /\ Len(board') = Len(board) + 1 /\ board'[Len(board) + 1] = post
      /\ \A i \in 1..Len(board) : board'[i] = board[i]
  BY <1>1, <1>2, AppendProperties
<1>4. Len(board) \in Nat /\ Len(ledger) \in Nat
  BY <1>1, LenProperties
<1>5. IsPrefix(board, board')
  <2>1. /\ SubSeq(board', 1, Len(board)) \in Seq(PostRows)
        /\ Len(SubSeq(board', 1, Len(board))) = Len(board)
        /\ \A i \in 1..Len(board) : SubSeq(board', 1, Len(board))[i] = board'[i]
    BY <1>3, <1>4, SubSeqProperties
  <2>2. /\ SubSeq(board, 1, Len(board)) \in Seq(PostRows)
        /\ Len(SubSeq(board, 1, Len(board))) = Len(board)
        /\ \A i \in 1..Len(board) : SubSeq(board, 1, Len(board))[i] = board[i]
    BY <1>1, <1>4, SubSeqProperties
  <2>3. SubSeq(board', 1, Len(board)) = SubSeq(board, 1, Len(board))
    BY <1>3, <2>1, <2>2, SeqEqual
  <2> QED BY <1>3, <1>4, <2>3 DEF IsPrefix
<1>6. ASSUME NEW n \in 0..Len(ledger), \A i \in 1..n : Continues(ledger[i], i)
      PROVE  n <= Len(board') /\ \A i \in 1..n : ledger[i] = board'[i]
  <2>1. n <= Len(board) /\ \A i \in 1..n : ledger[i] = board[i]
    BY <1>6 DEF ReplaysTheBoard
  <2> QED BY <1>3, <1>4, <2>1
<1>7. CASE ledger' = ledger
  BY <1>5, <1>6, <1>7 DEF ReplaysTheBoard, Continues
<1>8. CASE ledger' = Append(ledger, Last(board'))
  <2>1. Last(board') = post
    BY <1>3 DEF Last
  <2>2. /\ Len(ledger') = Len(ledger) + 1 /\ ledger'[Len(ledger) + 1] = post
        /\ \A i \in 1..Len(ledger) : ledger'[i] = ledger[i]
    BY <1>1, <1>8, <2>1, AppendProperties
  <2> SUFFICES ASSUME NEW n \in 0..Len(ledger'), \A i \in 1..n : Continues(ledger'[i], i)
               PROVE  n <= Len(board') /\ \A i \in 1..n : ledger'[i] = board'[i]
    BY <1>5 DEF ReplaysTheBoard, Continues
  <2>3. CASE n <= Len(ledger)
    <3>1. n \in 0..Len(ledger) /\ \A i \in 1..n : i \in 1..Len(ledger)
      BY <1>4, <2>2, <2>3
    <3>2. \A i \in 1..n : Continues(ledger[i], i)
      BY <2>2, <3>1
    <3> QED BY <1>6, <2>2, <3>1, <3>2
  <2>4. CASE n = Len(ledger) + 1
    <3>1. Len(ledger) + 1 \in 1..n /\ \A i \in 1..Len(ledger) : i \in 1..n
      BY <1>4, <2>4
    <3>2. post.seq = Len(ledger) + 1
      BY <2>2, <3>1 DEF Continues
    <3>3. Len(board) = Len(ledger)
      BY <1>4, <3>2 DEF post
    <3>4. \A i \in 1..Len(ledger) : Continues(ledger[i], i)
      BY <2>2, <3>1
    <3>5. \A i \in 1..Len(ledger) : ledger[i] = board'[i]
      BY <1>4, <1>6, <3>4
    <3>6. \A i \in 1..n : i \in 1..Len(ledger) \/ i = Len(ledger) + 1
      BY <1>4, <2>4
    <3> QED BY <1>3, <1>4, <2>2, <2>4, <3>3, <3>5, <3>6
  <2> QED BY <1>4, <2>2, <2>3, <2>4
<1> QED BY <1>5, <1>7, <1>8 DEF Writes, Appended

-----------------------------------------------------------------------------
(* What the end says *)

EndInv == TurnsAreDriven /\ RoundsBegan /\ SeatsHeard /\ StopsAreTold /\ QuietIsHeard

LEMMA BeginRoundKeeps ==
  ASSUME RunInv, BeginRound
  PROVE  EndInv'
<1>1. /\ run'.at = "bench" /\ run'.k = 1 /\ run'.start = Activity /\ run'.endReason = run.endReason
      /\ run'.rows = IF 1 \in DOMAIN Bench THEN Unheard(Bench[1]) ELSE {}
  BY DEF RunInv, RunTypeOK, Runs, BeginRound, BenchAt
<1>2. UNCHANGED <<turn, court, signs, controls, seats, board>>
  BY DEF BeginRound, BetweenTurns
<1>3. turn.by = Nobody /\ turn.card = "none" /\ ~Ended
  BY DEF RunInv, TurnsAreDriven, BeginRound, Ended
<1>4. run.endReason # "quiet"
  BY <1>3 DEF RunInv, QuietIsHeard
<1>5. TurnsAreDriven' /\ StopsAreTold' /\ QuietIsHeard'
  BY <1>1, <1>2, <1>3, <1>4 DEF TurnsAreDriven, StopsAreTold, QuietIsHeard, Ended
<1>6. RoundsBegan'
  <2>1. Activity \in Readings /\ Activity[3] = court
    BY LenProperties DEF RunInv, RunTypeOK, PostsAreRows, Activity, Readings
  <2>2. court.filed \in Nat
    BY DEF RunInv, RunTypeOK, Dockets
  <2> QED BY <1>1, <1>2, <2>1, <2>2 DEF RoundsBegan
<1>7. SeatsHeard'
  <2> SUFFICES ASSUME NEW i \in DOMAIN Bench
               PROVE  /\ ~(i < 1)
                      /\ i = 1 => Unjudged' \subseteq seats'[Bench[i]].wokenFor \cup run'.rows
    BY <1>1 DEF SeatsHeard, WorkerStages
  <2>1. ~(i < 1)
    BY MembersAreInOrder
  <2> QED BY <1>1, <1>2, <2>1 DEF Unjudged, Unheard
<1> QED BY <1>5, <1>6, <1>7 DEF EndInv

LEMMA NextBenchKeeps ==
  ASSUME RunInv, NextBench
  PROVE  EndInv'
<1>1. /\ run.at = "bench" /\ run.rows = {} /\ run'.start = run.start /\ run'.endReason = run.endReason
      /\ \/ /\ run'.at = "bench" /\ run'.k = run.k + 1
            /\ run'.rows = IF run.k + 1 \in DOMAIN Bench THEN Unheard(Bench[run.k + 1]) ELSE {}
         \/ run'.at = "worker" /\ run.k >= Len(Bench)
  <2>1. run.k \in Nat /\ Len(Bench) \in Nat
    BY MembersAreInOrder, LenProperties DEF RunInv, RunTypeOK, Runs
  <2> QED BY <2>1 DEF RunInv, RunTypeOK, Runs, NextBench, BenchAt
<1>2. UNCHANGED <<turn, court, signs, controls, seats, board>>
  BY DEF NextBench, BetweenTurns
<1>3. turn.by = Nobody /\ turn.card = "none" /\ ~Ended
  BY <1>1 DEF RunInv, TurnsAreDriven, Ended
<1>4. run.endReason # "quiet"
  BY <1>3 DEF RunInv, QuietIsHeard
<1>5. TurnsAreDriven' /\ StopsAreTold' /\ QuietIsHeard'
  BY <1>1, <1>2, <1>3, <1>4 DEF TurnsAreDriven, StopsAreTold, QuietIsHeard, Ended
<1>6. RoundsBegan'
  BY <1>1, <1>2 DEF RunInv, RoundsBegan, InRound, BenchStages
<1>7. SeatsHeard'
  <2> SUFFICES ASSUME run.start[3] = court, NEW i \in DOMAIN Bench
               PROVE  /\ run'.at \in WorkerStages \/ i < run'.k => HeardBy(i)'
                      /\ run'.at \in BenchStages /\ i = run'.k =>
                           Unjudged' \subseteq seats'[Bench[i]].wokenFor \cup run'.rows
    BY <1>1, <1>2 DEF SeatsHeard
  <2>0. i \in Nat /\ i <= Len(Bench) /\ run.k \in Nat /\ Len(Bench) \in Nat
    BY MembersAreInOrder, LenProperties DEF RunInv, RunTypeOK, Runs
  <2>1. (i < run.k \/ i = run.k) => HeardBy(i)
    BY <1>1 DEF RunInv, SeatsHeard, InRound, BenchStages, HeardBy
  <2>2. i < run.k \/ i = run.k => HeardBy(i)'
    BY <1>2, <2>1 DEF HeardBy, Unjudged
  <2>3. CASE run'.at = "worker" /\ run.k >= Len(Bench)
    BY <2>0, <2>2, <2>3 DEF BenchStages
  <2>4. CASE /\ run'.at = "bench" /\ run'.k = run.k + 1
             /\ run'.rows = IF run.k + 1 \in DOMAIN Bench THEN Unheard(Bench[run.k + 1]) ELSE {}
    <3>1. i < run.k + 1 => HeardBy(i)'
      BY <2>0, <2>2
    <3>2. i = run.k + 1 => Unjudged' \subseteq seats'[Bench[i]].wokenFor \cup run'.rows
      BY <1>2, <2>4 DEF Unjudged, Unheard
    <3> QED BY <2>4, <3>1, <3>2 DEF WorkerStages
  <2> QED BY <1>1, <2>3, <2>4
<1> QED BY <1>5, <1>6, <1>7 DEF EndInv

\* A seat's row is woken from its least case on; a case it is woken for leaves the row.
LEMMA WakeKeeps ==
  ASSUME RunInv, Wake
  PROVE  EndInv'
<1>1. PICK c \in run.rows : /\ seats' = [seats EXCEPT ![Bench[run.k]].wokenFor = @ \cup {c}]
                            /\ run' = [run EXCEPT !.at = "benchReady", !.rows = @ \ {c}]
  BY DEF Wake
<1>2. /\ run.at = "bench" /\ run'.at = "benchReady" /\ run'.k = run.k /\ run'.start = run.start
      /\ run'.endReason = run.endReason /\ run'.rows = run.rows \ {c}
  BY <1>1 DEF Wake, RunInv, RunTypeOK, Runs
<1>3. UNCHANGED <<turn, court, signs, controls, board>>
  BY DEF Wake, BetweenTurns
<1>4. turn.by = Nobody /\ turn.card = "none" /\ ~Ended
  BY <1>2 DEF RunInv, TurnsAreDriven, Ended
<1>5. run.endReason # "quiet"
  BY <1>4 DEF RunInv, QuietIsHeard
<1>6. TurnsAreDriven' /\ StopsAreTold' /\ QuietIsHeard'
  BY <1>2, <1>3, <1>4, <1>5 DEF TurnsAreDriven, StopsAreTold, QuietIsHeard, Ended
<1>7. RoundsBegan'
  BY <1>2, <1>3 DEF RunInv, RoundsBegan, InRound, BenchStages
<1>8. SeatsHeard'
  <2> SUFFICES ASSUME run.start[3] = court, NEW i \in DOMAIN Bench
               PROVE  /\ i < run.k => HeardBy(i)'
                      /\ i = run.k => Unjudged' \subseteq seats'[Bench[i]].wokenFor \cup run'.rows
    BY <1>2, <1>3 DEF SeatsHeard, WorkerStages
  <2>1. /\ i < run.k => HeardBy(i)
        /\ i = run.k => Unjudged \subseteq seats[Bench[i]].wokenFor \cup run.rows
    BY <1>2 DEF RunInv, SeatsHeard, InRound, BenchStages
  <2>2. Bench[i] \in Members /\ seats \in Seatings
    BY BenchSeats DEF RunInv, RunTypeOK
  <2>3. /\ seats[Bench[i]].wokenFor \subseteq seats'[Bench[i]].wokenFor
        /\ i = run.k => c \in seats'[Bench[i]].wokenFor
    BY <1>1, <2>2 DEF Seatings
  <2> QED BY <1>2, <1>3, <2>1, <2>3 DEF HeardBy, Unjudged
<1> QED BY <1>6, <1>7, <1>8 DEF EndInv

LEMMA BudgetsKeep ==
  ASSUME RunInv, Budgets
  PROVE  EndInv'
<1>1. /\ run.at = "worker" /\ run'.start = run.start
      /\ \/ run'.at = "ended" /\ run'.endReason = "budget"
         \/ run'.at \in {"worker", "workerReady"} /\ run'.endReason = run.endReason
  BY DEF Budgets, Ends, Goes, RunInv, RunTypeOK, Runs
<1>2. UNCHANGED <<turn, court, signs, controls, seats, board>>
  BY DEF Budgets, BetweenTurns
<1>3. turn.by = Nobody /\ turn.card = "none" /\ ~Ended
  BY <1>1 DEF RunInv, TurnsAreDriven, Ended
<1>4. run.endReason # "quiet"
  BY <1>3 DEF RunInv, QuietIsHeard
<1>5. TurnsAreDriven' /\ StopsAreTold' /\ QuietIsHeard'
  BY <1>1, <1>2, <1>3, <1>4 DEF TurnsAreDriven, StopsAreTold, QuietIsHeard, Ended
<1>6. RoundsBegan'
  BY <1>1, <1>2 DEF RunInv, RoundsBegan, InRound, WorkerStages, BenchStages
<1>7. SeatsHeard'
  BY <1>1, <1>2 DEF RunInv, SeatsHeard, InRound, WorkerStages, BenchStages, HeardBy, Unjudged
<1> QED BY <1>5, <1>6, <1>7 DEF EndInv

LEMMA StopReadKeeps ==
  ASSUME RunInv, StopRead
  PROVE  EndInv'
<1>1. run'.at = "ended" /\ run'.endReason = "operator" /\ run.at \in {"round", "benchReady", "workerReady"}
  BY DEF StopRead, Ends, RunInv, RunTypeOK, Runs
<1>2. UNCHANGED turn
  BY DEF StopRead, BetweenTurns
<1>3. turn.by = Nobody /\ turn.card = "none"
  BY <1>1 DEF RunInv, TurnsAreDriven
<1> QED BY <1>1, <1>2, <1>3
        DEF EndInv, TurnsAreDriven, StopsAreTold, QuietIsHeard, RoundsBegan, SeatsHeard, InRound,
            BenchStages, WorkerStages

\* A round ends quiet only where its start is the present, and the bench has been passed.
LEMMA EndRoundKeeps ==
  ASSUME RunInv, EndRound
  PROVE  EndInv'
<1>1. /\ run.at = "worker" /\ run'.start = run.start
      /\ \/ run'.at = "ended" /\ run'.endReason = "operator"
         \/ run'.at = "ended" /\ run'.endReason = "roundsComplete" /\ ~StopAsked
         \/ run'.at = "ended" /\ run'.endReason = "quiet" /\ ~StopAsked /\ BroughtNothing
         \/ run'.at = "round" /\ run'.endReason = run.endReason
  BY DEF EndRound, LastRound, Ends, Goes, RunInv, RunTypeOK, Runs
<1>2. UNCHANGED <<turn, court, signs, controls, seats, board>>
  BY DEF EndRound, BetweenTurns
<1>3. turn.by = Nobody /\ turn.card = "none" /\ ~Ended
  BY <1>1 DEF RunInv, TurnsAreDriven, Ended
<1>4. run.endReason # "quiet"
  BY <1>3 DEF RunInv, QuietIsHeard
<1>5. TurnsAreDriven' /\ RoundsBegan' /\ SeatsHeard'
  BY <1>1, <1>2, <1>3 DEF TurnsAreDriven, RoundsBegan, SeatsHeard, InRound, BenchStages, WorkerStages
<1>6. StopsAreTold'
  BY <1>1, <1>2 DEF StopsAreTold, Ended, StopAsked
<1>7. BroughtNothing => run.start[2] = signs.timeouts /\ \A i \in DOMAIN Bench : HeardBy(i)
  <2>1. BroughtNothing => run.start[2] = signs.timeouts /\ run.start[3] = court
    BY DEF BroughtNothing, Activity
  <2> QED BY <1>1, <2>1 DEF RunInv, SeatsHeard, InRound, WorkerStages
<1>8. QuietIsHeard'
  BY <1>1, <1>2, <1>4, <1>7 DEF QuietIsHeard, Ended, HeardBy, Unjudged
<1> QED BY <1>5, <1>6, <1>8 DEF EndInv

LEMMA DriveKeeps ==
  ASSUME RunInv, Drive
  PROVE  EndInv'
<1>1. /\ run'.start = run.start /\ run'.endReason = run.endReason /\ run'.k = run.k /\ run'.rows = run.rows
      /\ \/ run.at = "benchReady" /\ run'.at = "benchTurn"
         \/ run.at = "workerReady" /\ run'.at = "workerTurn"
  BY DEF Drive, RunInv, RunTypeOK, Runs
<1>2. UNCHANGED <<court, signs, controls, seats, board>>
  BY DEF Drive
<1>3. run.endReason # "quiet"
  BY <1>1 DEF RunInv, QuietIsHeard, Ended
<1>4. TurnsAreDriven' /\ StopsAreTold' /\ QuietIsHeard'
  BY <1>1, <1>3 DEF TurnsAreDriven, StopsAreTold, QuietIsHeard, Ended
<1>5. RoundsBegan'
  BY <1>1, <1>2 DEF RunInv, RoundsBegan, InRound, WorkerStages, BenchStages
<1>6. SeatsHeard'
  BY <1>1, <1>2 DEF RunInv, SeatsHeard, InRound, WorkerStages, BenchStages, HeardBy, Unjudged
<1> QED BY <1>4, <1>5, <1>6 DEF EndInv

LEMMA TurnDoneKeeps ==
  ASSUME RunInv, TurnDone
  PROVE  EndInv'
<1>1. /\ run'.start = run.start /\ run'.rows = run.rows
      /\ \/ run.at = "benchTurn" /\ run'.at = "bench" /\ run'.k = run.k /\ run'.endReason = run.endReason
         \/ run.at = "workerTurn" /\ run'.at = "worker" /\ run'.endReason = run.endReason
         \/ /\ run.at = "workerTurn" /\ run'.at = "ended" /\ run'.endReason = "fence"
            /\ ~StopAsked /\ UNCHANGED controls
  BY DEF TurnDone, Fences, Fence, Goes, Ends, RunInv, RunTypeOK, Runs
<1>2. UNCHANGED <<court, signs, board>> /\ turn' = NoTurn
  BY DEF TurnDone
<1>3. run.endReason # "quiet"
  BY <1>1 DEF RunInv, QuietIsHeard, Ended
<1>4. TurnsAreDriven' /\ StopsAreTold' /\ QuietIsHeard'
  BY <1>1, <1>2, <1>3 DEF TurnsAreDriven, NoTurn, StopsAreTold, QuietIsHeard, Ended, StopAsked
<1>5. RoundsBegan'
  BY <1>1, <1>2 DEF RunInv, RoundsBegan, InRound, WorkerStages, BenchStages
<1>6. \A i \in DOMAIN Bench : seats'[Bench[i]].wokenFor = seats[Bench[i]].wokenFor
  <2>1. seats \in Seatings /\ seats' = [seats EXCEPT ![turn.by].turns = @ + 1]
    BY DEF RunInv, RunTypeOK, TurnDone
  <2> QED BY <2>1, BenchSeats DEF Seatings
<1>7. SeatsHeard'
  BY <1>1, <1>2, <1>6 DEF RunInv, SeatsHeard, InRound, WorkerStages, BenchStages, HeardBy, Unjudged
<1> QED BY <1>4, <1>5, <1>7 DEF EndInv

\* An act of a turn only adds to the docket, so that a round that brought a case or a
\* judgment is never the one it began as.
LEMMA ActsKeep ==
  ASSUME RunInv, ModelActs \/ Answered \/ TimesOut
  PROVE  EndInv'
<1>1. UNCHANGED <<controls, run, seats>>
  BY DEF ModelActs, Answered, TimesOut, InTurn
<1>2. run.at \in {"benchTurn", "workerTurn"}
  BY DEF RunInv, TurnsAreDriven, ModelActs, Acting, Answered, TimesOut
<1>3. run.endReason # "quiet"
  BY <1>2 DEF RunInv, QuietIsHeard, Ended
<1>4. TurnsAreDriven' /\ StopsAreTold' /\ QuietIsHeard'
  BY <1>1, <1>2, <1>3 DEF TurnsAreDriven, StopsAreTold, QuietIsHeard, Ended
<1>5. /\ run.start \in Readings /\ run.start[3].filed <= court.filed
      /\ run.start[3].judged \subseteq court.judged /\ court \in Dockets
  BY <1>2 DEF RunInv, RunTypeOK, RoundsBegan, InRound, BenchStages, WorkerStages
<1>6. run.start[3].filed \in Nat /\ court.filed \in Nat
  BY <1>5 DEF Readings, Dockets
<1>7. \/ court' = court
      \/ court'.filed = court.filed + 1 /\ court'.judged = court.judged
      \/ \E c : c \notin court.judged /\ court'.filed = court.filed /\ court'.judged = court.judged \cup {c}
  BY <1>5 DEF ModelActs, Answered, TimesOut, Dockets
<1>8. /\ run.start[3].filed <= court'.filed /\ run.start[3].judged \subseteq court'.judged
      /\ run.start[3] = court' => court' = court
  BY <1>5, <1>6, <1>7
<1>9. RoundsBegan'
  BY <1>1, <1>5, <1>8 DEF RoundsBegan
<1>10. SeatsHeard'
  BY <1>1, <1>8 DEF RunInv, SeatsHeard, InRound, HeardBy, Unjudged
<1> QED BY <1>4, <1>9, <1>10 DEF EndInv

LEMMA PressesKeep ==
  ASSUME RunInv, Presser
  PROVE  EndInv'
<1>1. UNCHANGED <<run, seats, court, board, ledger>>
  BY DEF Presser, Pause, Resume, Stop, Interrupted, StopNow, Overruns
<1>2. ~Ended
  BY DEF RunInv, TurnsAreDriven, Ended, Presser, Presses, Awaiting, Pause, Resume, Stop, Interrupted,
         StopNow, Overruns
<1>3. run.endReason # "quiet"
  BY <1>2 DEF RunInv, QuietIsHeard
<1>4. turn' = turn \/ turn.by # Nobody
  BY DEF Presser, Pause, Resume, Stop, Interrupted, StopNow, Overruns
<1>5. TurnsAreDriven' /\ StopsAreTold' /\ QuietIsHeard'
  BY <1>1, <1>2, <1>3, <1>4 DEF RunInv, TurnsAreDriven, StopsAreTold, QuietIsHeard, Ended
<1>6. RoundsBegan' /\ SeatsHeard'
  BY <1>1 DEF RunInv, RoundsBegan, SeatsHeard, InRound, HeardBy, Unjudged
<1> QED BY <1>5, <1>6 DEF EndInv

-----------------------------------------------------------------------------
(* The theorems *)

LEMMA RunInductive ==
  ASSUME RunInv, [RunNext]_runVars
  PROVE  RunInv' /\ (IsPrefix(board, board') \/ IsPrefix(board', board))
<1>1. CASE Kill
  BY <1>1, KillKeepsTheInvariant
<1>2. CASE ~Kill /\ RunNext
  <2>1. RunTypeOK' /\ SeatsAreThere'
    BY <1>2, EngineKeepsTypes, TurnDoneKeepsTypes, ActsKeepTypes, PressesKeepTypes DEF RunNext, Presser, RunInv
  <2>2. EndInv'
    BY <1>2, BeginRoundKeeps, NextBenchKeeps, WakeKeeps, BudgetsKeep, StopReadKeeps, EndRoundKeeps,
       DriveKeeps, TurnDoneKeeps, ActsKeep, PressesKeep DEF RunNext, Engine, Presser
  <2>3. Writes \/ UNCHANGED <<board, ledger>>
    BY <1>2 DEF RunNext, Engine, BeginRound, NextBench, Wake, Budgets, StopRead, EndRound, Drive, BetweenTurns,
       TurnDone, ModelActs, Answered, TimesOut, Pause, Resume, Stop, Interrupted, StopNow, Overruns
  <2>4. ReplaysTheBoard' /\ IsPrefix(board, board')
    <3>1. CASE Writes
      BY <3>1, WritesKeepTheBoard DEF RunInv
    <3>2. CASE UNCHANGED <<board, ledger>>
      BY <3>2, WholeIsPrefix DEF RunInv, RunTypeOK, PostsAreRows, ReplaysTheBoard, Continues
    <3> QED BY <2>3, <3>1, <3>2
  <2> QED BY <2>1, <2>2, <2>4 DEF RunInv, EndInv
<1>3. CASE UNCHANGED runVars
  <2> USE <1>3 DEF runVars, RunInv
  <2>1. RunTypeOK' /\ SeatsAreThere' /\ TurnsAreDriven' /\ RoundsBegan'
    BY DEF RunTypeOK, PostsAreRows, SeatsAreThere, TurnsAreDriven, RoundsBegan, InRound
  <2>2. SeatsHeard' /\ StopsAreTold' /\ QuietIsHeard'
    BY DEF SeatsHeard, InRound, HeardBy, Unjudged, StopsAreTold, Ended, StopAsked, QuietIsHeard
  <2>3. ReplaysTheBoard' /\ IsPrefix(board, board')
    BY WholeIsPrefix DEF RunTypeOK, PostsAreRows, ReplaysTheBoard, Continues
  <2> QED BY <2>1, <2>2, <2>3
<1> QED BY <1>1, <1>2, <1>3

LEMMA RunStarts ==
  ASSUME RunInit
  PROVE  RunInv
<1>1. Boot /\ PostsAreRows /\ board = <<>> /\ ledger = <<>>
  BY DEF RunInit, PostsAreRows
<1>2. ReplaysTheBoard
  BY <1>1 DEF ReplaysTheBoard
<1> QED BY <1>1, <1>2, BootHolds DEF RunInv

\* The inductive invariant: the engine's place and the turn in flight agree, a round's
\* docket only grows, the seats passed have heard of every unjudged case of a docket that
\* did not grow, and what the ledger reads back is the start of the board.
THEOREM RunInvariant == RunSpec => []RunInv
<1>1. RunInit => RunInv
  BY RunStarts
<1>2. RunInv /\ [RunNext]_runVars => RunInv'
  BY RunInductive
<1> QED BY <1>1, <1>2, PTL DEF RunSpec

\* A run's end says why it ended: a stop is never told as anything but the operator's or
\* the budget's, and a quiet end leaves nothing unheard (engine.js:650-660).
THEOREM EndsAreTold == RunSpec => []EndsForItsReason
<1>1. RunInv => EndsForItsReason
  <2> SUFFICES ASSUME RunInv PROVE EndsForItsReason
    OBVIOUS
  <2>1. \A m \in ToSet(Bench) : \E i \in DOMAIN Bench : m = Bench[i]
    BY DEF ToSet
  <2> QED BY <2>1 DEF RunInv, StopsAreTold, QuietIsHeard, EndsForItsReason, HeardBy, Unjudged
<1> QED BY <1>1, RunInvariant, PTL

\* A process that resumes a community goes on from the start of the board that was
\* posted, whatever rows the ledger lost (packages/forum/src/index.js:87-124).
THEOREM BoardsAreResumed == RunSpec => ReplayIsAPrefix
<1>1. RunInv /\ [RunNext]_runVars => [IsPrefix(board, board') \/ IsPrefix(board', board)]_runVars
  BY RunInductive
<1> QED BY <1>1, RunInvariant, PTL DEF RunSpec, ReplayIsAPrefix
=============================================================================
