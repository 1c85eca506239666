-------------------------- MODULE GrantDurability --------------------------
(***************************************************************************)
(* The grant store on disk (packages/approval/src/persist.js): every       *)
(* durable mutator changes the store in memory, then writes the whole      *)
(* store to a temporary file, syncs it, renames it over the target and     *)
(* syncs the directory where the platform lets it.                         *)
(*                                                                         *)
(* One decision calls several mutators in a row (an approval caches its    *)
(* command, then adds the grants that ride with it), each with a flush of  *)
(* its own.  A flush may fail, the process may die between any two steps,  *)
(* and so may the machine.                                                 *)
(***************************************************************************)
EXTENDS Integers, Sequences

CONSTANTS
  Grants,     (* ids of session and secret grants                            *)
  Secrets,    (* those that are secret grants                                *)
  Fps,        (* fingerprints the exec cache may hold                        *)
  Covers,     (* pairs <<g, f>>: revoking g kills the cache entry f          *)
  Routed,     (* the fingerprints of one route, killed by a wire refusal     *)
  Torn,       (* a file that is not the whole of a payload                   *)
  MaxCalls, MaxFaults   (* bounds of the model *)

(* What a flush writes: the rows, their budgets, the exec cache. *)
Images == [grants : [Grants -> {"unknown", "live", "revoked"}], uses : [Grants -> Nat], cache : SUBSET Fps]

ASSUME DurabilityAssumption ==
  /\ Secrets \subseteq Grants /\ Routed \subseteq Fps /\ Covers \subseteq Grants \X Fps
  /\ Torn \notin Images
  /\ {MaxCalls, MaxFaults} \subseteq Nat

VARIABLES
  mem,      (* the store in memory                                           *)
  up,       (* is the process running?                                       *)
  todo,     (* the mutators the running handler has still to call            *)
  step,     (* where the flush stands                                        *)
  tmp,      (* the temporary file                                            *)
  synced,   (* has the temporary file reached the disk?                      *)
  file,     (* the target, as the running system sees it                     *)
  disk,     (* the target, as a power loss would leave it                    *)
  lagging,  (* did the platform refuse the last directory sync?              *)
  told,     (* what mutators that returned have taken away                   *)
  calls, faults   (* how many handlers ran, how many things went wrong *)

storeVars == <<mem, up, todo, step, tmp, synced, file, disk, lagging, told, calls, faults>>

-----------------------------------------------------------------------------
(* The store and its durable mutators *)

Empty == [grants |-> [g \in Grants |-> "unknown"], uses |-> [g \in Grants |-> 0], cache |-> {}]

Op(kind, arg) == [kind |-> kind, arg |-> arg]

Covered(g) == { f \in Fps : <<g, f>> \in Covers }

(* consumeUse counts the uses a budget has paid for. *)
Counted(n) == n + 1

Applied(op, m) ==
  CASE op.kind = "cacheSet"    -> [m EXCEPT !.cache = @ \cup {op.arg}]
    [] op.kind = "addGrant"    -> [m EXCEPT !.grants[op.arg] = "live"]
    [] op.kind = "consumeUse"  -> [m EXCEPT !.uses[op.arg] = Counted(@)]
    [] op.kind = "revokeGrant" ->
         IF op.arg \in Secrets /\ m.grants[op.arg] = "revoked" THEN m
         ELSE [m EXCEPT !.grants[op.arg] = "revoked", !.cache = @ \ Covered(op.arg)]
    [] op.kind = "killRoute"   -> [m EXCEPT !.cache = @ \ Routed]

(* Every durable mutator flushes; a route kill only when it killed.        *)
BudgetsUnflushed(op, m) == op.kind # "consumeUse" /\ (op.kind = "killRoute" => m.cache \cap Routed # {})
Flushes(op, m) == op.kind = "killRoute" => m.cache \cap Routed # {}

(* What a mutator that returns has taken away, and what a later one gives  *)
(* back: revoked ids, spent uses, killed entries.                          *)
Taken(op, t) ==
  CASE op.kind = "cacheSet"    -> [t EXCEPT !.killed = @ \ {op.arg}, !.rerouted = @ \ {op.arg}]
    [] op.kind = "addGrant"    -> t
    [] op.kind = "consumeUse"  -> [t EXCEPT !.uses[op.arg] = @ + 1]
    [] op.kind = "revokeGrant" ->
         [t EXCEPT !.revoked = @ \cup {op.arg},
                   !.killed = @ \cup (Covered(op.arg) \ mem.cache)]
    [] op.kind = "killRoute"   -> [t EXCEPT !.rerouted = @ \cup Routed]

NothingTaken == [revoked |-> {}, uses |-> [g \in Grants |-> 0], killed |-> {}, rerouted |-> {}]

-----------------------------------------------------------------------------
(* The handlers that reach the store *)

IdsIn(state, ids) == { g \in ids : mem.grants[g] = state }

(* An approval caches its command, then adds a grant that rides with it.   *)
Approvals ==
  { <<Op("cacheSet", f)>> : f \in Fps }
  \cup { <<Op("cacheSet", p[2]), Op("addGrant", p[1])>> :
           p \in { q \in Covers : q[1] \in IdsIn("unknown", Grants) } }
DeskGrants == { <<Op("addGrant", g)>> : g \in IdsIn("unknown", Grants \ Secrets) }
Revocations == { <<Op("revokeGrant", g)>> : g \in IdsIn("live", Grants) \cup IdsIn("revoked", Grants) }
Uses == { <<Op("consumeUse", g)>> : g \in IdsIn("live", Grants \ Secrets) }
WireRefusals == { <<Op("killRoute", Routed)>> }

Begin(handlers) ==
  /\ up /\ todo = <<>> /\ calls < MaxCalls
  /\ todo' \in handlers
  /\ calls' = calls + 1
  /\ UNCHANGED <<mem, up, step, tmp, synced, file, disk, lagging, told, faults>>

(* The mutator at the head of the handler changes the store in memory.     *)
(* An entry cached again is no longer one that was taken away.             *)
Mutate ==
  /\ up /\ todo # <<>> /\ step = "idle"
  /\ LET op == Head(todo) IN
     /\ mem' = Applied(op, mem)
     /\ IF Flushes(op, mem)
          THEN /\ step' = "open"
               /\ told' = IF op.kind = "cacheSet" THEN Taken(op, told) ELSE told
               /\ todo' = todo
          ELSE /\ step' = "idle" /\ told' = Taken(op, told) /\ todo' = Tail(todo)
  /\ UNCHANGED <<up, tmp, synced, file, disk, lagging, calls, faults>>

-----------------------------------------------------------------------------
(* _flush *)

OpenTmp ==
  /\ up /\ step = "open"
  /\ tmp' = Torn /\ synced' = FALSE /\ step' = "write"
  /\ UNCHANGED <<mem, up, todo, file, disk, lagging, told, calls, faults>>

WriteTmp ==
  /\ up /\ step = "write"
  /\ tmp' = mem /\ step' = "sync"
  /\ UNCHANGED <<mem, up, todo, synced, file, disk, lagging, told, calls, faults>>

SyncSkipped == FALSE
DataSync == TRUE
SyncTmp ==
  /\ up /\ step = "sync"
  /\ synced' = DataSync /\ step' = "rename"
  /\ UNCHANGED <<mem, up, todo, tmp, file, disk, lagging, told, calls, faults>>

Rename ==
  /\ up /\ step = "rename"
  /\ file' = tmp /\ step' = "dirsync"
  /\ UNCHANGED <<mem, up, todo, tmp, synced, disk, lagging, told, calls, faults>>

(* The directory is synced, or the platform refuses and nobody is told;    *)
(* the mutator returns.                                                    *)
DirSync ==
  /\ up /\ step = "dirsync"
  /\ \/ disk' = file /\ lagging' = FALSE
     \/ disk' = disk /\ lagging' = TRUE
  /\ told' = Taken(Head(todo), told)
  /\ todo' = Tail(todo) /\ step' = "idle"
  /\ UNCHANGED <<mem, up, tmp, synced, file, calls, faults>>

(* A write, a sync or the rename fails: the temporary file is removed and  *)
(* the mutator throws out of its handler; the store in memory stays as it  *)
(* was changed.                                                            *)
FlushFails ==
  /\ up /\ step \in {"open", "write", "sync", "rename"} /\ faults < MaxFaults
  /\ tmp' = Torn /\ synced' = FALSE
  /\ step' = "idle" /\ todo' = <<>>
  /\ faults' = faults + 1
  /\ UNCHANGED <<mem, up, file, disk, lagging, told, calls>>

-----------------------------------------------------------------------------
(* Deaths and restarts *)

Dies(found) ==
  /\ up /\ faults < MaxFaults
  /\ up' = FALSE /\ todo' = <<>> /\ step' = "idle" /\ mem' = Empty
  /\ tmp' = Torn /\ synced' = FALSE
  /\ file' = found
  /\ faults' = faults + 1

Crash == Dies(file) /\ UNCHANGED <<disk, lagging, told, calls>>

(* The machine goes down: an unsynced rename may be undone, and a renamed  *)
(* file whose data was not synced may be torn.  Where the platform refused *)
(* the directory sync, nothing it was told stands.                         *)
PowerLoss ==
  /\ \E found \in { disk, IF synced \/ step # "dirsync" THEN file ELSE Torn } :
       Dies(found) /\ disk' = found
  /\ told' = IF lagging THEN NothingTaken ELSE told
  /\ UNCHANGED <<lagging, calls>>

(* A restart loads the file, or refuses to start. *)
Boot ==
  /\ ~up /\ file # Torn
  /\ up' = TRUE /\ mem' = file
  /\ UNCHANGED <<todo, step, tmp, synced, file, disk, lagging, told, calls, faults>>

StoreInit ==
  /\ mem = Empty /\ up = TRUE /\ todo = <<>> /\ step = "idle"
  /\ tmp = Torn /\ synced = FALSE
  /\ file = Empty /\ disk = Empty /\ lagging = FALSE
  /\ told = NothingTaken /\ calls = 0 /\ faults = 0

StoreNext ==
  \/ Begin(Approvals) \/ Begin(DeskGrants) \/ Begin(Revocations) \/ Begin(Uses) \/ Begin(WireRefusals)
  \/ Mutate \/ OpenTmp \/ WriteTmp \/ SyncTmp \/ Rename \/ DirSync \/ FlushFails
  \/ Crash \/ PowerLoss \/ Boot

StoreSpec == StoreInit /\ [][StoreNext]_storeVars

-----------------------------------------------------------------------------
(* What the store promises *)

Ops ==
  [kind : {"cacheSet"}, arg : Fps] \cup [kind : {"addGrant", "revokeGrant"}, arg : Grants]
  \cup [kind : {"consumeUse"}, arg : Grants \ Secrets] \cup [kind : {"killRoute"}, arg : {Routed}]

(* Every variable keeps its shape; a flush under way belongs to the        *)
(* mutator at the head of a handler.                                       *)
DurabilityTypeOK ==
  /\ mem \in Images /\ {tmp, file, disk} \subseteq Images \cup {Torn}
  /\ {up, synced, lagging} \subseteq BOOLEAN
  /\ step \in {"idle", "open", "write", "sync", "rename", "dirsync"}
  /\ told \in [revoked : SUBSET Grants, uses : [Grants -> Nat], killed : SUBSET Fps, rerouted : SUBSET Fps]
  /\ todo \in Seq(Ops)
  /\ calls \in 0..MaxCalls /\ faults \in 0..MaxFaults
  /\ step # "idle" => todo # <<>>

(* The target is always a whole store, on the disk too: no crash or power  *)
(* loss makes the next boot refuse to start (atomic writes).               *)
TargetLoads == file # Torn /\ disk # Torn

Keeps(image) ==
  /\ \A g \in told.revoked : image.grants[g] = "revoked"
  /\ \A g \in Grants : image.uses[g] >= told.uses[g]
  /\ image.cache \cap told.killed = {}

(* No privilege resurrection: what a mutator that returned has revoked,    *)
(* spent or killed stays so in what the next boot loads, even where an     *)
(* earlier flush failed and a later one repaired it; a power loss undoes   *)
(* it only where the platform refused the directory sync.                  *)
RevocationsSurvive ==
  /\ file # Torn => Keeps(file)
  /\ disk # Torn /\ ~lagging => Keeps(disk)
=============================================================================
