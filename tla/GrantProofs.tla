---------------------------- MODULE GrantProofs ----------------------------
(***************************************************************************)
(* Theorems about what a grant opens and what keeps it: the store on disk, *)
(* and the mediator that cuts what the store no longer grants.  The two    *)
(* specifications share no variable and are proved about side by side.     *)
(*                                                                         *)
(* What a boot finds, for any grants, fingerprints and number of failures: *)
(* the inductive invariant follows the image through a flush.  What is     *)
(* about to be renamed is the store in memory, and the store in memory     *)
(* already reflects the mutator whose return it precedes.                  *)
(*                                                                         *)
(* What the mediator lets through, for any pool of listeners, any sessions,*)
(* requests and rows, and any period of the reaper: what is open is cut    *)
(* within one period of its row's death, or of its listener's release, and *)
(* leads where the row names.                                              *)
(***************************************************************************)
EXTENDS GrantDurability, EgressMediator, SequenceTheorems, FiniteSetTheorems,
        WellFoundedInduction, TLAPS

(* The handlers' programs: one mutator, or an approval's two; a grant that *)
(* is still to be added was never revoked.                                 *)
ProgramOK(h) ==
  /\ h \in Seq(Ops) /\ Len(h) <= 2
  /\ Len(h) = 2 => h[1].kind = "cacheSet" /\ h[2].kind = "addGrant"
  /\ \A i \in 1..Len(h) : h[i].kind = "addGrant" => h[i].arg \notin told.revoked

(* The image on its way to the target is the store in memory. *)
FlushOK ==
  /\ step = "sync" => tmp = mem
  /\ step = "rename" => tmp = mem /\ synced
  /\ step = "dirsync" => file = mem /\ synced
  /\ ~up => todo = <<>> /\ step = "idle"

(* The store in memory reflects the mutator that is being flushed. *)
Reflects(op, m) ==
  /\ op.kind = "cacheSet" => op.arg \notin told.killed
  /\ op.kind = "consumeUse" => m.uses[op.arg] >= told.uses[op.arg] + 1
  /\ op.kind = "revokeGrant" => m.grants[op.arg] = "revoked"

DurInv ==
  /\ DurabilityTypeOK /\ ProgramOK(todo) /\ FlushOK
  /\ step # "idle" => Reflects(todo[1], mem)
  /\ TargetLoads
  /\ up => Keeps(mem)
  /\ Keeps(file)
  /\ lagging \/ Keeps(disk)

-----------------------------------------------------------------------------
(* A mutator turns a store into a store. *)
LEMMA AppliedType ==
  ASSUME NEW m \in Images, NEW op \in Ops
  PROVE  Applied(op, m) \in Images
<1>1. CASE op.kind = "cacheSet"
  BY <1>1 DEF Applied, Images, Ops
<1>2. CASE op.kind = "addGrant"
  BY <1>2 DEF Applied, Images, Ops
<1>3. CASE op.kind = "consumeUse"
  BY <1>3 DEF Applied, Images, Ops, Counted
<1>4. CASE op.kind = "revokeGrant"
  BY <1>4 DEF Applied, Images, Ops
<1>5. CASE op.kind = "killRoute"
  BY <1>5 DEF Applied, Images, Ops
<1> QED
  BY <1>1, <1>2, <1>3, <1>4, <1>5 DEF Ops

(* What a returning mutator takes away keeps its shape. *)
LEMMA TakenType ==
  ASSUME DurabilityTypeOK, NEW op \in Ops, DurabilityAssumption
  PROVE  Taken(op, told) \in [revoked : SUBSET Grants, uses : [Grants -> Nat],
                              killed : SUBSET Fps, rerouted : SUBSET Fps]
<1> DEFINE t == told
<1>0. /\ t \in [revoked : SUBSET Grants, uses : [Grants -> Nat], killed : SUBSET Fps, rerouted : SUBSET Fps]
      /\ mem \in Images /\ Routed \subseteq Fps
  BY DEF DurabilityTypeOK, DurabilityAssumption
<1>1. CASE op.kind = "cacheSet"
  BY <1>0, <1>1 DEF Taken, Ops
<1>2. CASE op.kind = "addGrant"
  BY <1>0, <1>2 DEF Taken, Ops
<1>3. CASE op.kind = "consumeUse"
  BY <1>0, <1>3 DEF Taken, Ops
<1>4. CASE op.kind = "revokeGrant"
  BY <1>0, <1>4 DEF Taken, Ops, Covered
<1>5. CASE op.kind = "killRoute"
  BY <1>0, <1>5 DEF Taken, Ops
<1> QED
  BY <1>1, <1>2, <1>3, <1>4, <1>5 DEF Ops

-----------------------------------------------------------------------------
(* Every step keeps the invariant. *)

(* A first boot: an empty store, nothing taken away. *)
LEMMA InitDurInv == DurabilityAssumption /\ StoreInit => DurInv
<1> SUFFICES ASSUME DurabilityAssumption, StoreInit PROVE DurInv
  OBVIOUS
<1>1. Empty \in Images
  BY DEF Empty, Images
<1>2. Torn \notin Images
  BY DEF DurabilityAssumption
<1>3. DurabilityTypeOK
  <2>1. told \in [revoked : SUBSET Grants, uses : [Grants -> Nat], killed : SUBSET Fps, rerouted : SUBSET Fps]
    BY DEF StoreInit, NothingTaken
  <2>2. {tmp, file, disk} \subseteq Images \cup {Torn} /\ mem \in Images
    BY <1>1 DEF StoreInit
  <2>3. {up, synced, lagging} \subseteq BOOLEAN
    BY DEF StoreInit
  <2>4. todo \in Seq(Ops) /\ calls \in 0..MaxCalls /\ faults \in 0..MaxFaults
    BY DEF StoreInit, DurabilityAssumption
  <2> QED
    BY <2>1, <2>2, <2>3, <2>4 DEF DurabilityTypeOK, StoreInit
<1>4. Keeps(Empty)
  BY DEF Keeps, StoreInit, Empty, NothingTaken
<1> QED
  BY <1>1, <1>2, <1>3, <1>4 DEF StoreInit, DurInv, ProgramOK, FlushOK, TargetLoads, NothingTaken

(* A handler of one mutator is a program the invariant allows. *)
LEMMA SingleOp ==
  ASSUME NEW op \in Ops, op.kind = "addGrant" => op.arg \notin told.revoked
  PROVE  ProgramOK(<<op>>)
<1>1. Len(<<op>>) = 1 /\ <<op>>[1] = op /\ <<op>> \in Seq(Ops)
  OBVIOUS
<1> QED
  BY <1>1 DEF ProgramOK

(* A handler begins. *)
LEMMA BeginStep ==
  ASSUME DurInv, NEW H, H \in {Approvals, DeskGrants, Revocations, Uses, WireRefusals}, Begin(H), DurabilityAssumption
  PROVE  DurInv'
<1>1. \A h \in H : ProgramOK(h)
  <2>0. /\ \A g \in told.revoked : mem.grants[g] = "revoked"
        /\ told.revoked \subseteq Grants /\ Covers \subseteq Grants \X Fps
    BY DEF DurInv, Begin, Keeps, DurabilityTypeOK, DurabilityAssumption
  <2>1. CASE H = Approvals
    <3> SUFFICES ASSUME NEW h \in Approvals
                 PROVE  ProgramOK(h)
      BY <2>1
    <3>1. CASE \E f \in Fps : h = <<Op("cacheSet", f)>>
      <4>1. \A f \in Fps : Op("cacheSet", f) \in Ops /\ Op("cacheSet", f).kind # "addGrant"
        BY DEF Op, Ops
      <4> QED
        BY <3>1, <4>1, SingleOp
    <3>2. ASSUME NEW q \in Covers, q[1] \in IdsIn("unknown", Grants),
                 h = <<Op("cacheSet", q[2]), Op("addGrant", q[1])>>
          PROVE  ProgramOK(h)
      <4>1. q[1] \in Grants /\ q[2] \in Fps /\ q[1] \notin told.revoked
        BY <2>0, <3>2 DEF IdsIn
      <4>2. Op("cacheSet", q[2]) \in Ops /\ Op("addGrant", q[1]) \in Ops
        BY <4>1 DEF Op, Ops
      <4>3. Len(h) = 2 /\ h[1] = Op("cacheSet", q[2]) /\ h[2] = Op("addGrant", q[1])
        BY <3>2
      <4>4. h \in Seq(Ops)
        BY <3>2, <4>2
      <4> QED
        BY <4>1, <4>3, <4>4 DEF Op, ProgramOK
    <3> QED
      BY <3>1, <3>2 DEF Approvals
  <2>2. CASE H = DeskGrants
    <3>1. \A g \in IdsIn("unknown", Grants \ Secrets) :
            Op("addGrant", g) \in Ops /\ Op("addGrant", g).arg \notin told.revoked
      BY <2>0 DEF IdsIn, Op, Ops
    <3> QED
      BY <2>2, <3>1, SingleOp DEF DeskGrants
  <2>3. CASE H = Revocations
    <3>1. \A g \in IdsIn("live", Grants) \cup IdsIn("revoked", Grants) :
            Op("revokeGrant", g) \in Ops /\ Op("revokeGrant", g).kind # "addGrant"
      BY DEF IdsIn, Op, Ops
    <3> QED
      BY <2>3, <3>1, SingleOp DEF Revocations
  <2>4. CASE H = Uses
    <3>1. \A g \in IdsIn("live", Grants \ Secrets) :
            Op("consumeUse", g) \in Ops /\ Op("consumeUse", g).kind # "addGrant"
      BY DEF IdsIn, Op, Ops
    <3> QED
      BY <2>4, <3>1, SingleOp DEF Uses
  <2>5. CASE H = WireRefusals
    <3>1. Op("killRoute", Routed) \in Ops /\ Op("killRoute", Routed).kind # "addGrant"
      BY DEF Op, Ops
    <3> QED
      BY <2>5, <3>1, SingleOp DEF WireRefusals
  <2> QED
    BY <2>1, <2>2, <2>3, <2>4, <2>5
<1>2. step = "idle"
  BY DEF DurInv, DurabilityTypeOK, Begin
<1>3. DurabilityTypeOK'
  BY <1>1, <1>2 DEF ProgramOK, DurInv, DurabilityTypeOK, Begin, DurabilityAssumption
<1>4. ProgramOK(todo)'
  BY <1>1 DEF ProgramOK, Begin
<1> QED
  BY <1>2, <1>3, <1>4 DEF DurInv, Begin, FlushOK, TargetLoads, Keeps

(* A mutator changes the store in memory: what was taken away stays away,  *)
(* and the store reflects the mutator.                                     *)
LEMMA MutateStep ==
  ASSUME DurInv, Mutate, DurabilityAssumption
  PROVE  DurInv'
<1> DEFINE op == todo[1]
<1>0. /\ todo # <<>> /\ Head(todo) = op /\ op \in Ops /\ todo \in Seq(Ops) /\ Len(todo) >= 1
      /\ Len(todo) <= 2
  <2>1. todo \in Seq(Ops) /\ todo # <<>> /\ Len(todo) <= 2
    BY DEF DurInv, ProgramOK, Mutate
  <2> QED
    BY <2>1
<1>1. mem' = Applied(op, mem) /\ mem' \in Images /\ mem \in Images
  BY <1>0, AppliedType DEF Mutate, DurInv, DurabilityTypeOK
<1>2. UNCHANGED <<up, tmp, synced, file, disk, lagging, calls, faults>> /\ up /\ step = "idle"
  BY DEF Mutate
<1>3. Keeps(mem) /\ Keeps(file) /\ (lagging \/ Keeps(disk)) /\ up
  BY <1>2 DEF DurInv
<1>4. told \in [revoked : SUBSET Grants, uses : [Grants -> Nat], killed : SUBSET Fps, rerouted : SUBSET Fps]
  BY DEF DurInv, DurabilityTypeOK
<1>5. op.kind = "addGrant" => op.arg \notin told.revoked
  BY <1>0 DEF DurInv, ProgramOK
<1>6. CASE op.kind = "killRoute" /\ ~Flushes(op, mem)
  <2>1. todo' = Tail(todo) /\ step' = "idle" /\ told' = [told EXCEPT !.rerouted = @ \cup Routed]
    BY <1>0, <1>6 DEF Mutate, Taken
  <2>2. told'.revoked = told.revoked /\ told'.uses = told.uses /\ told'.killed = told.killed
    BY <1>4, <2>1
  <2>3. told' \in [revoked : SUBSET Grants, uses : [Grants -> Nat], killed : SUBSET Fps, rerouted : SUBSET Fps]
    BY <1>4, <2>1 DEF DurabilityAssumption
  <2>4. todo' = <<>>
    <3>1. Len(todo) # 2
      BY <1>6 DEF DurInv, ProgramOK
    <3>2. Len(todo) = 1
      <4> DEFINE n == Len(todo)
      <4>1. n \in Nat /\ n >= 1 /\ n <= 2 /\ n # 2
        BY <1>0, <3>1
      <4> HIDE DEF n
      <4>2. n = 1
        BY <4>1
      <4> QED
        BY <4>2 DEF n
    <3>3. Tail(todo) \in Seq(Ops) /\ Len(Tail(todo)) = 0
      BY <1>0, <3>2
    <3> QED
      BY <2>1, <3>3
  <2>5. mem'.grants = mem.grants /\ mem'.uses = mem.uses /\ mem'.cache \subseteq mem.cache
    BY <1>1, <1>6 DEF Applied, Images
  <2>6. Keeps(mem)'
    BY <1>3, <2>2, <2>5 DEF Keeps
  <2>7. todo' \in Seq(Ops) /\ Len(todo') = 0
    BY <2>4
  <2>8. DurabilityTypeOK'
    BY <1>1, <1>2, <2>1, <2>3, <2>7 DEF DurInv, DurabilityTypeOK
  <2>9. ProgramOK(todo)'
    BY <2>7 DEF ProgramOK
  <2> QED
    BY <1>2, <1>3, <2>1, <2>2, <2>4, <2>6, <2>8, <2>9 DEF DurInv, FlushOK, TargetLoads, Keeps
<1>7. CASE Flushes(op, mem)
  <2>1. /\ todo' = todo /\ step' = "open"
        /\ told' = IF op.kind = "cacheSet" THEN Taken(op, told) ELSE told
    BY <1>0, <1>7 DEF Mutate
  <2>2. /\ told'.revoked = told.revoked /\ told'.uses = told.uses
        /\ told'.killed = IF op.kind = "cacheSet" THEN told.killed \ {op.arg} ELSE told.killed
    BY <1>4, <2>1 DEF Taken
  <2>3. told' \in [revoked : SUBSET Grants, uses : [Grants -> Nat], killed : SUBSET Fps, rerouted : SUBSET Fps]
    BY <1>0, <1>4, <2>1, TakenType DEF DurInv
  <2>4. Keeps(mem)' /\ Reflects(op, mem)'
    <3>1. CASE op.kind = "cacheSet"
      <4>1. mem'.grants = mem.grants /\ mem'.uses = mem.uses /\ mem'.cache = mem.cache \cup {op.arg}
        BY <1>1, <3>1 DEF Applied, Images
      <4> QED
        BY <1>3, <2>1, <2>2, <3>1, <4>1 DEF Keeps, Reflects
    <3>2. CASE op.kind = "addGrant"
      <4>1. /\ \A g \in Grants : g # op.arg => mem'.grants[g] = mem.grants[g]
            /\ mem'.uses = mem.uses /\ mem'.cache = mem.cache
        BY <1>1, <3>2 DEF Applied, Images
      <4>2. told.revoked \subseteq Grants
        BY <1>4
      <4> QED
        BY <1>3, <1>5, <2>1, <2>2, <3>2, <4>1, <4>2 DEF Keeps, Reflects
    <3>3. CASE op.kind = "consumeUse"
      <4>1. /\ mem'.grants = mem.grants /\ mem'.cache = mem.cache /\ op.arg \in Grants
            /\ mem'.uses[op.arg] = mem.uses[op.arg] + 1
            /\ \A g \in Grants : g # op.arg => mem'.uses[g] = mem.uses[g]
        BY <1>0, <1>1, <3>3 DEF Applied, Images, Counted, Ops
      <4>2. /\ \A g \in Grants : mem.uses[g] >= told.uses[g] /\ mem.uses[g] \in Nat /\ told.uses[g] \in Nat
            /\ \A g \in told.revoked : mem.grants[g] = "revoked"
            /\ mem.cache \cap told.killed = {}
        BY <1>1, <1>3, <1>4 DEF Keeps, Images
      <4>3. told' = told
        BY <2>1, <3>3
      <4>4. \A g \in Grants : mem'.uses[g] >= told.uses[g]
        BY <4>1, <4>2
      <4>5. mem'.uses[op.arg] >= told.uses[op.arg] + 1
        BY <4>1, <4>2
      <4> QED
        BY <2>1, <3>3, <4>1, <4>2, <4>3, <4>4, <4>5 DEF Keeps, Reflects
    <3>4. CASE op.kind = "revokeGrant"
      <4>1. /\ mem'.grants[op.arg] = "revoked"
            /\ \A g \in Grants : g # op.arg => mem'.grants[g] = mem.grants[g]
            /\ mem'.uses = mem.uses /\ mem'.cache \subseteq mem.cache
        <5>1. op.arg \in Grants
          BY <1>0, <3>4 DEF Ops
        <5>2. CASE op.arg \in Secrets /\ mem.grants[op.arg] = "revoked"
          BY <1>1, <3>4, <5>2 DEF Applied
        <5>3. CASE ~(op.arg \in Secrets /\ mem.grants[op.arg] = "revoked")
          BY <1>1, <3>4, <5>1, <5>3 DEF Applied, Images
        <5> QED
          BY <5>2, <5>3
      <4>2. told.revoked \subseteq Grants
        BY <1>4
      <4> QED
        BY <1>3, <2>1, <2>2, <3>4, <4>1, <4>2 DEF Keeps, Reflects
    <3>5. CASE op.kind = "killRoute"
      <4>1. mem'.grants = mem.grants /\ mem'.uses = mem.uses /\ mem'.cache \subseteq mem.cache
        BY <1>1, <3>5 DEF Applied, Images
      <4> QED
        BY <1>3, <2>1, <2>2, <3>5, <4>1 DEF Keeps, Reflects
    <3> QED
      BY <1>0, <3>1, <3>2, <3>3, <3>4, <3>5 DEF Ops
  <2>5. DurabilityTypeOK' /\ ProgramOK(todo)'
    BY <1>0, <1>1, <1>2, <2>1, <2>2, <2>3 DEF DurInv, DurabilityTypeOK, ProgramOK
  <2>6. Keeps(file)' /\ (lagging \/ Keeps(disk))'
    BY <1>2, <1>3, <2>2 DEF Keeps
  <2> QED
    BY <1>2, <2>1, <2>4, <2>5, <2>6 DEF DurInv, FlushOK, TargetLoads
<1> QED
  BY <1>6, <1>7 DEF Flushes

(* The steps of a flush before its rename. *)
LEMMA WriteSteps ==
  ASSUME DurInv, OpenTmp \/ WriteTmp \/ SyncTmp, DurabilityAssumption
  PROVE  DurInv'
<1>1. /\ UNCHANGED <<mem, up, todo, file, disk, lagging, told, calls, faults>>
      /\ up /\ step # "idle"
  BY DEF OpenTmp, WriteTmp, SyncTmp
<1>2. DurabilityTypeOK'
  BY <1>1 DEF DurInv, DurabilityTypeOK, OpenTmp, WriteTmp, SyncTmp, DataSync
<1>3. FlushOK'
  BY <1>1 DEF DurInv, FlushOK, OpenTmp, WriteTmp, SyncTmp, DataSync
<1> QED
  BY <1>1, <1>2, <1>3 DEF DurInv, ProgramOK, Reflects, TargetLoads, Keeps

(* The rename puts the store in memory where the next boot looks. *)
LEMMA RenameStep ==
  ASSUME DurInv, Rename, DurabilityAssumption
  PROVE  DurInv'
<1>1. file' = mem /\ UNCHANGED <<mem, up, todo, tmp, synced, disk, lagging, told, calls, faults>> /\ synced /\ up
  BY DEF DurInv, FlushOK, Rename
<1>2. mem \in Images /\ mem # Torn
  BY DEF DurInv, DurabilityTypeOK, DurabilityAssumption
<1>3. DurabilityTypeOK'
  BY <1>1, <1>2 DEF DurInv, DurabilityTypeOK, Rename
<1>4. Keeps(mem) /\ Keeps(file)'
  BY <1>1 DEF DurInv, Keeps
<1> QED
  BY <1>1, <1>2, <1>3, <1>4 DEF DurInv, ProgramOK, FlushOK, Reflects, TargetLoads, Keeps, Rename

(* The mutator returns: what it took away is away in the file. *)
LEMMA DirSyncStep ==
  ASSUME DurInv, DirSync, DurabilityAssumption
  PROVE  DurInv'
<1> DEFINE op == todo[1]
<1>0. /\ Head(todo) = op /\ op \in Ops /\ todo \in Seq(Ops) /\ todo # <<>>
      /\ Len(todo) \in Nat /\ Len(todo) >= 1 /\ Len(todo) <= 2
  <2>1. todo \in Seq(Ops) /\ todo # <<>> /\ Len(todo) <= 2
    BY DEF DurInv, ProgramOK, DirSync, DurabilityTypeOK
  <2> QED
    BY <2>1
<1>1. /\ UNCHANGED <<mem, up, tmp, synced, file, calls, faults>> /\ up /\ step' = "idle"
      /\ todo' = Tail(todo) /\ told' = Taken(op, told)
      /\ (disk' = file /\ lagging' = FALSE) \/ (disk' = disk /\ lagging' = TRUE)
  BY <1>0 DEF DirSync
<1>2. file = mem /\ mem \in Images /\ Keeps(mem) /\ Reflects(op, mem) /\ file # Torn /\ disk # Torn
  BY <1>1 DEF DurInv, FlushOK, DirSync, DurabilityTypeOK, TargetLoads
<1>3. told \in [revoked : SUBSET Grants, uses : [Grants -> Nat], killed : SUBSET Fps, rerouted : SUBSET Fps]
  BY DEF DurInv, DurabilityTypeOK
<1>4. told' \in [revoked : SUBSET Grants, uses : [Grants -> Nat], killed : SUBSET Fps, rerouted : SUBSET Fps]
  BY <1>0, <1>1, TakenType DEF DurInv
<1>5. Keeps(mem)'
  <2>0. /\ \A g \in told.revoked : mem.grants[g] = "revoked"
        /\ \A g \in Grants : mem.uses[g] >= told.uses[g] /\ told.uses[g] \in Nat
        /\ mem.cache \cap told.killed = {}
    BY <1>2, <1>3 DEF Keeps
  <2>1. CASE op.kind = "cacheSet"
    <3>1. told'.revoked = told.revoked /\ told'.uses = told.uses /\ told'.killed \subseteq told.killed
      BY <1>1, <1>3, <2>1 DEF Taken
    <3> QED
      BY <1>1, <2>0, <3>1 DEF Keeps
  <2>2. CASE op.kind = "addGrant"
    BY <1>1, <2>0, <2>2 DEF Keeps, Taken
  <2>3. CASE op.kind = "consumeUse"
    <3>1. /\ told'.revoked = told.revoked /\ told'.killed = told.killed
          /\ told'.uses[op.arg] = told.uses[op.arg] + 1
          /\ \A g \in Grants : g # op.arg => told'.uses[g] = told.uses[g]
      BY <1>0, <1>1, <1>3, <2>3 DEF Taken, Ops
    <3>2. mem.uses[op.arg] >= told.uses[op.arg] + 1
      BY <1>2, <2>3 DEF Reflects
    <3>3. \A g \in Grants : mem.uses[g] >= told'.uses[g]
      BY <2>0, <3>1, <3>2
    <3> QED
      BY <1>1, <2>0, <3>1, <3>3 DEF Keeps
  <2>4. CASE op.kind = "revokeGrant"
    <3>1. /\ told'.revoked = told.revoked \cup {op.arg} /\ told'.uses = told.uses
          /\ told'.killed = told.killed \cup (Covered(op.arg) \ mem.cache)
      BY <1>1, <1>3, <2>4 DEF Taken
    <3>2. mem.grants[op.arg] = "revoked"
      BY <1>2, <2>4 DEF Reflects
    <3> QED
      BY <1>1, <2>0, <3>1, <3>2 DEF Keeps
  <2>5. CASE op.kind = "killRoute"
    <3>1. told'.revoked = told.revoked /\ told'.uses = told.uses /\ told'.killed = told.killed
      BY <1>1, <1>3, <2>5 DEF Taken
    <3> QED
      BY <1>1, <2>0, <3>1 DEF Keeps
  <2> QED
    BY <1>0, <2>1, <2>2, <2>3, <2>4, <2>5 DEF Ops
<1>6. todo' \in Seq(Ops) /\ Len(todo') = Len(todo) - 1 /\ (Len(todo) = 2 => todo'[1] = todo[2])
  BY <1>0, <1>1
<1>7. ProgramOK(todo)'
  <2>1. CASE Len(todo) = 1
    BY <1>6, <2>1 DEF ProgramOK
  <2>2. CASE Len(todo) = 2
    <3>1. op.kind = "cacheSet" /\ todo[2].arg \notin told.revoked
      BY <1>0, <2>2 DEF DurInv, ProgramOK
    <3>2. told'.revoked = told.revoked
      BY <1>1, <1>3, <3>1 DEF Taken
    <3>3. Len(todo') = 1 /\ todo'[1].arg \notin told'.revoked
      BY <1>6, <2>2, <3>1, <3>2
    <3>4. \A i \in 1..Len(todo') : i = 1
      BY <3>3
    <3> QED
      <4>1. todo' \in Seq(Ops) /\ Len(todo') <= 2 /\ Len(todo') # 2
        <5>1. todo' \in Seq(Ops)
          BY <1>6
        <5>2. Len(todo') = 1
          BY <3>3
        <5> QED
          BY <5>1, <5>2
      <4>2. \A i \in 1..Len(todo') : todo'[i].arg \notin told'.revoked
        BY <3>3, <3>4
      <4> QED
        BY <4>1, <4>2 DEF ProgramOK
  <2>3. Len(todo) = 1 \/ Len(todo) = 2
    <3> DEFINE n == Len(todo)
    <3>1. n \in Nat /\ n >= 1 /\ n <= 2
      BY <1>0
    <3> HIDE DEF n
    <3>2. n = 1 \/ n = 2
      BY <3>1
    <3> QED
      BY <3>2 DEF n
  <2> QED
    BY <2>1, <2>2, <2>3
<1>8. DurabilityTypeOK'
  BY <1>1, <1>2, <1>4, <1>6 DEF DurInv, DurabilityTypeOK
<1>9. Keeps(file)' /\ (lagging \/ Keeps(disk))'
  BY <1>1, <1>2, <1>5 DEF Keeps
<1> QED
  BY <1>1, <1>2, <1>5, <1>7, <1>8, <1>9 DEF DurInv, FlushOK, TargetLoads

(* A flush that throws leaves the target alone. *)
LEMMA FlushFailsStep ==
  ASSUME DurInv, FlushFails, DurabilityAssumption
  PROVE  DurInv'
<1>1. /\ UNCHANGED <<mem, up, file, disk, lagging, told, calls>> /\ up
      /\ tmp' = Torn /\ synced' = FALSE /\ step' = "idle" /\ todo' = <<>> /\ faults' = faults + 1
      /\ faults < MaxFaults
  BY DEF FlushFails
<1>2. DurabilityTypeOK'
  <2>1. faults' \in 0..MaxFaults
    BY <1>1 DEF DurInv, DurabilityTypeOK, DurabilityAssumption
  <2>2. {tmp, file, disk}' \subseteq Images \cup {Torn} /\ {up, synced, lagging}' \subseteq BOOLEAN
    BY <1>1 DEF DurInv, DurabilityTypeOK
  <2>3. todo' \in Seq(Ops)
    BY <1>1
  <2> QED
    BY <1>1, <2>1, <2>2, <2>3 DEF DurInv, DurabilityTypeOK
<1>3. ProgramOK(todo)'
  BY <1>1 DEF ProgramOK
<1> QED
  BY <1>1, <1>2, <1>3 DEF DurInv, FlushOK, TargetLoads, Keeps

(* The process or the machine dies and leaves a file that keeps what was   *)
(* taken away.                                                             *)
LEMMA DiesStep ==
  ASSUME DurInv, DurabilityAssumption, NEW found, Dies(found), found \in {file, disk},
         UNCHANGED <<lagging, calls>>, disk' \in {disk, found},
         told' = told \/ told' = NothingTaken,
         Keeps(found)', lagging' \/ Keeps(disk)'
  PROVE  DurInv'
<1>1. /\ up' = FALSE /\ todo' = <<>> /\ step' = "idle" /\ mem' = Empty
      /\ tmp' = Torn /\ synced' = FALSE /\ file' = found /\ faults' = faults + 1 /\ faults < MaxFaults
  BY DEF Dies
<1>2. Empty \in Images
  BY DEF Empty, Images
<1>3. NothingTaken \in [revoked : SUBSET Grants, uses : [Grants -> Nat],
                        killed : SUBSET Fps, rerouted : SUBSET Fps]
  BY DEF NothingTaken
<1>4. DurabilityTypeOK'
  <2>1. faults' \in 0..MaxFaults
    BY <1>1 DEF DurInv, DurabilityTypeOK, DurabilityAssumption
  <2>2. {tmp, file, disk}' \subseteq Images \cup {Torn} /\ {up, synced, lagging}' \subseteq BOOLEAN
    BY <1>1 DEF DurInv, DurabilityTypeOK
  <2>3. told' \in [revoked : SUBSET Grants, uses : [Grants -> Nat], killed : SUBSET Fps, rerouted : SUBSET Fps]
    BY <1>3 DEF DurInv, DurabilityTypeOK
  <2>4. todo' \in Seq(Ops) /\ mem' \in Images /\ calls' \in 0..MaxCalls
    BY <1>1, <1>2 DEF DurInv, DurabilityTypeOK
  <2> QED
    BY <1>1, <2>1, <2>2, <2>3, <2>4 DEF DurabilityTypeOK
<1>5. ProgramOK(todo)'
  BY <1>1 DEF ProgramOK
<1>6. TargetLoads'
  BY <1>1 DEF DurInv, TargetLoads
<1>7. Keeps(file)'
  BY <1>1 DEF Keeps
<1> QED
  BY <1>1, <1>4, <1>5, <1>6, <1>7 DEF DurInv, FlushOK

(* The process dies: the file stays as it is. *)
LEMMA CrashStep ==
  ASSUME DurInv, Crash, DurabilityAssumption
  PROVE  DurInv'
<1>1. Keeps(file) /\ UNCHANGED <<disk, lagging, told, calls>> /\ Dies(file) /\ file' = file
  BY DEF DurInv, Crash, Dies
<1>2. Keeps(file)' /\ (lagging' \/ Keeps(disk)')
  BY <1>1 DEF DurInv, Keeps
<1> QED
  BY <1>1, <1>2, DiesStep

(* The machine goes down: the file is the last one renamed or the last one *)
(* synced, whole in either case.                                           *)
LEMMA PowerLossStep ==
  ASSUME DurInv, PowerLoss, DurabilityAssumption
  PROVE  DurInv'
<1>1. PICK found \in {disk, file} : Dies(found) /\ disk' = found
  <2>1. synced \/ step # "dirsync"
    BY DEF DurInv, FlushOK
  <2> QED
    BY <2>1 DEF PowerLoss
<1>2. UNCHANGED <<lagging, calls>> /\ told' = IF lagging THEN NothingTaken ELSE told
  BY DEF PowerLoss
<1>3. disk \in Images /\ file \in Images
  BY DEF DurInv, DurabilityTypeOK, TargetLoads
<1>4. Keeps(found)'
  <2>1. CASE lagging
    <3>1. found \in Images /\ told' = NothingTaken
      BY <1>1, <1>2, <1>3, <2>1
    <3>2. \A g \in Grants : found.uses[g] \in Nat
      BY <3>1 DEF Images
    <3>3. \A g \in Grants : disk'.uses[g] \in Nat
      BY <1>1, <3>2
    <3>4. told'.revoked = {} /\ told'.killed = {} /\ \A g \in Grants : told'.uses[g] = 0
      BY <3>1 DEF NothingTaken
    <3> QED
      BY <1>1, <3>2, <3>4 DEF Keeps
  <2>2. CASE ~lagging
    <3>1. told' = told /\ Keeps(disk) /\ Keeps(file)
      BY <1>2, <2>2 DEF DurInv
    <3> QED
      BY <1>1, <3>1 DEF Keeps
  <2> QED
    BY <2>1, <2>2
<1>5. Keeps(disk)'
  BY <1>1, <1>4 DEF Keeps
<1> QED
  BY <1>1, <1>2, <1>4, <1>5, DiesStep

(* A boot answers from the file. *)
LEMMA BootStep ==
  ASSUME DurInv, Boot, DurabilityAssumption
  PROVE  DurInv'
<1>1. /\ ~up /\ file # Torn /\ up' = TRUE /\ mem' = file
      /\ UNCHANGED <<todo, step, tmp, synced, file, disk, lagging, told, calls, faults>>
  BY DEF Boot
<1>2. todo = <<>> /\ step = "idle" /\ file \in Images
  BY <1>1 DEF DurInv, FlushOK, DurabilityTypeOK
<1>3. DurabilityTypeOK'
  BY <1>1, <1>2 DEF DurInv, DurabilityTypeOK
<1>4. Keeps(mem)'
  BY <1>1 DEF DurInv, Keeps
<1> QED
  BY <1>1, <1>2, <1>3, <1>4 DEF DurInv, ProgramOK, FlushOK, TargetLoads, Keeps

(* Nothing happens. *)
LEMMA StutterStep ==
  ASSUME DurInv, UNCHANGED storeVars
  PROVE  DurInv'
BY DEF DurInv, storeVars, DurabilityTypeOK, ProgramOK, FlushOK, Reflects, TargetLoads, Keeps, Taken

-----------------------------------------------------------------------------
(* The image under a flush is the store in memory, and what a returned     *)
(* mutator took away is away in memory, in the target and, where the       *)
(* directory was synced, on the disk: the inductive invariant.             *)
THEOREM DurabilityInvariant == StoreSpec => []DurInv
<1> USE DurabilityAssumption
<1>1. StoreInit => DurInv
  BY InitDurInv
<1>2. DurInv /\ [StoreNext]_storeVars => DurInv'
  <2> SUFFICES ASSUME DurInv, [StoreNext]_storeVars PROVE DurInv'
    OBVIOUS
  <2>1. CASE Begin(Approvals) \/ Begin(DeskGrants) \/ Begin(Revocations) \/ Begin(Uses) \/ Begin(WireRefusals)
    BY <2>1, BeginStep
  <2>2. CASE Mutate
    BY <2>2, MutateStep
  <2>3. CASE OpenTmp \/ WriteTmp \/ SyncTmp
    BY <2>3, WriteSteps
  <2>4. CASE Rename
    BY <2>4, RenameStep
  <2>5. CASE DirSync
    BY <2>5, DirSyncStep
  <2>6. CASE FlushFails
    BY <2>6, FlushFailsStep
  <2>7. CASE Crash
    BY <2>7, CrashStep
  <2>8. CASE PowerLoss
    BY <2>8, PowerLossStep
  <2>9. CASE Boot
    BY <2>9, BootStep
  <2>10. CASE UNCHANGED storeVars
    BY <2>10, StutterStep
  <2> QED
    BY <2>1, <2>2, <2>3, <2>4, <2>5, <2>6, <2>7, <2>8, <2>9, <2>10 DEF StoreNext
<1> QED
  BY <1>1, <1>2, PTL DEF StoreSpec

(* The store's variables keep their shapes. *)
THEOREM DurabilityTypeCorrect == StoreSpec => []DurabilityTypeOK
<1>1. DurInv => DurabilityTypeOK
  BY DEF DurInv
<1> QED
  BY <1>1, DurabilityInvariant, PTL

(* No crash, failed flush or power loss leaves a torn target (_flush). *)
THEOREM TargetAlwaysLoads == StoreSpec => []TargetLoads
<1>1. DurInv => TargetLoads
  BY DEF DurInv
<1> QED
  BY <1>1, DurabilityInvariant, PTL

(* What a returned mutator revoked, spent or killed is never found again   *)
(* by a boot (the mutators of persist.js and the order of _flush).         *)
THEOREM RevocationsAlwaysSurvive == StoreSpec => []RevocationsSurvive
<1>1. DurInv => RevocationsSurvive
  BY DEF DurInv, RevocationsSurvive
<1> QED
  BY <1>1, DurabilityInvariant, PTL

-----------------------------------------------------------------------------
(* The row a connection rides *)

\* A shorter interval is strictly below a longer one.
LEMMA ShorterIsBelow ==
  ASSUME NEW k \in Nat, NEW m \in Nat, k < m
  PROVE  <<1..k, 1..m>> \in StrictSubsetOrdering(Nat)
<1>1. 1..k \subseteq 1..m /\ 1..k \in SUBSET Nat /\ 1..m \in SUBSET Nat
  OBVIOUS
<1>2. m \in 1..m /\ m \notin 1..k
  OBVIOUS
<1>3. 1..k # 1..m
  BY <1>2
<1> HIDE <1>2
<1> QED BY <1>1, <1>3 DEF StrictSubsetOrdering

\* Every nonempty set of places has a least one.
LEMMA LeastPlace ==
  ASSUME NEW n \in Nat, NEW S \in SUBSET (1..n), S # {}
  PROVE  FirstOf(S) \in S
<1> DEFINE Below == { 1..k : k \in S }
<1>1. Below \subseteq FiniteSubsetsOf(Nat) /\ Below # {}
  <2>1. \A k \in S : 1..k \in SUBSET Nat /\ IsFiniteSet(1..k)
    BY FS_Interval
  <2> QED BY <2>1 DEF FiniteSubsetsOf
<1>2. PICK X \in Below : \A Y \in Below : ~(<<Y, X>> \in StrictSubsetOrdering(Nat))
  <2> HIDE DEF Below
  <2> QED BY <1>1, FS_StrictSubsetOrderingWellFounded, WFMin
<1>3. PICK m \in S : X = 1..m
  BY <1>2
<1>4. \A k \in S : m <= k
  <2> SUFFICES ASSUME NEW k \in S, k < m
               PROVE  FALSE
    OBVIOUS
  <2>1. 1..k \in Below /\ k \in Nat /\ m \in Nat
    OBVIOUS
  <2>2. <<1..k, 1..m>> \in StrictSubsetOrdering(Nat)
    BY <2>1, ShorterIsBelow
  <2> HIDE DEF Below
  <2> QED BY <1>2, <1>3, <2>1, <2>2
<1>5. \E i \in S : \A j \in S : i <= j
  BY <1>4
<1> QED BY <1>5 DEF FirstOf

\* What is admitted rides a row that reaches it: one of its session's.
LEMMA RiddenReaches ==
  ASSUME NEW s, NEW q, rows \in Seq(RowRecords), Verdict(s, q) = "ok"
  PROVE  Ridden(s, q) \in DOMAIN rows /\ InScope(Ridden(s, q), s)
<1> DEFINE alive == Alive(Classed(Reaching(s, q)))
           own   == SameClassOnly(alive, q.class)
           paid  == IF q.tunnel THEN PortNamed(alive)
                    ELSE IF own # {} THEN own ELSE Carrying(alive, q.class)
<1>1. paid # {}
  BY DEF Verdict
<1>2. \A i \in paid : i \in 1..Len(rows) /\ InScope(i, s)
  BY DEF Reaching, Classed, Alive, SameClassOnly, PortNamed, Carrying
<1>3. Ridden(s, q) = FirstOf(paid)
  BY DEF Ridden
<1>4. Len(rows) \in Nat /\ DOMAIN rows = 1..Len(rows)
  OBVIOUS
<1> HIDE DEF paid
<1>5. FirstOf(paid) \in paid
  BY <1>1, <1>2, <1>4, LeastPlace
<1> QED BY <1>2, <1>3, <1>4, <1>5

-----------------------------------------------------------------------------
(* The inductive invariant *)

\* A row died no later than now, and names its addresses among those there are.
RowsAreDated ==
  \A i \in DOMAIN rows : rows[i].revokedAt <= now

\* The reaper has come by since the clock read now - sinceReap: what is open on a dead
\* row opened since, or its row died since.
NoneOverlooked ==
  ~closed => \A c \in DOMAIN conns :
    conns[c].phase = "open" /\ ~Live(conns[c].row) =>
      \/ DeadSince(conns[c].row) >= now - sinceReap
      \/ conns[c].openedAt >= now - sinceReap

\* A connection admitted rides a row of the session it was decided for.
RidesItsRow ==
  \A c \in DOMAIN conns : conns[c].phase # "refused" => InScope(conns[c].row, conns[c].session)

\* Nor did its last round leave open what is not its listener's: that was opened since, or
\* the listener was released since.
NoneStranded ==
  ~closed => \A c \in DOMAIN conns :
    conns[c].phase = "open" /\ ~InScope(conns[c].row, slotOf[conns[c].slot]) =>
      \/ freedAt[conns[c].slot] >= now - sinceReap
      \/ conns[c].openedAt >= now - sinceReap

MediatorInv == MediatorTypeOK /\ RowsAreDated /\ NoneOverlooked /\ RidesItsRow /\ DialedWhereConsented

LEMMA RowsTyped ==
  ASSUME MediatorTypeOK
  PROVE  /\ DOMAIN rows = 1..Len(rows) /\ Len(rows) \in Nat
         /\ \A i \in DOMAIN rows : rows[i] \in RowRecords
         /\ DOMAIN conns = 1..Len(conns) /\ Len(conns) \in Nat
         /\ \A c \in DOMAIN conns : conns[c] \in ConnRecords
BY DEF MediatorTypeOK

\* A step that moves connections and no row: each keeps its row and its session, leads
\* where it led or where its row names, and is open since now, or since before.
LEMMA ConnsMoved ==
  ASSUME MediatorInv, UNCHANGED <<now, rows>>, sinceReap' \in 0..Recheck, closed' \in BOOLEAN,
         slotOf' \in [Slots -> Sessions \cup {None}], freedAt' \in [Slots -> Nat],
         conns' \in [DOMAIN conns -> ConnRecords],
         \A c \in DOMAIN conns : conns'[c].phase # "refused" =>
           /\ conns[c].phase # "refused"
           /\ conns'[c].row = conns[c].row /\ conns'[c].session = conns[c].session,
         \A c \in DOMAIN conns : conns'[c].phase \in {"dialing", "open"} =>
           \/ conns[c].phase \in {"dialing", "open"} /\ conns'[c].addr = conns[c].addr
           \/ /\ conns'[c].addr \in Public
              /\ \/ rows[conns[c].row].addresses = {}
                 \/ conns'[c].addr \in rows[conns[c].row].addresses,
         ~closed' => ~closed,
         \A c \in DOMAIN conns : conns'[c].phase = "open" /\ ~closed' =>
           \/ conns'[c].openedAt = now
           \/ Live(conns[c].row)
           \/ /\ conns[c].phase = "open" /\ conns'[c].openedAt = conns[c].openedAt
              /\ sinceReap' = sinceReap
  PROVE  MediatorInv'
<1>1. DOMAIN conns' = DOMAIN conns /\ \A c \in DOMAIN conns : conns'[c] \in ConnRecords
  OBVIOUS
<1>2. conns' \in Seq(ConnRecords)
  <2>1. DOMAIN conns = 1..Len(conns) /\ Len(conns) \in Nat
    BY RowsTyped DEF MediatorInv
  <2> QED BY <2>1
<1>3. MediatorTypeOK'
  BY <1>1, <1>2 DEF MediatorInv, MediatorTypeOK
<1>4. RowsAreDated'
  BY DEF MediatorInv, RowsAreDated
<1>5. \A i : Live(i)' <=> Live(i)
  BY DEF Live
<1>6. \A i : DeadSince(i)' = DeadSince(i)
  BY DEF DeadSince
<1>7. NoneOverlooked'
  <2> SUFFICES ASSUME ~closed', NEW c \in DOMAIN conns, conns'[c].phase = "open", ~Live(conns[c].row)
               PROVE  \/ DeadSince(conns[c].row) >= now - sinceReap'
                      \/ conns'[c].openedAt >= now - sinceReap'
    BY <1>1, <1>5, <1>6 DEF NoneOverlooked
  <2>1. now \in Nat /\ sinceReap' \in Nat
    BY DEF MediatorInv, MediatorTypeOK
  <2>2. CASE conns'[c].openedAt = now
    BY <2>1, <2>2
  <2>3. CASE conns[c].phase = "open" /\ conns'[c].openedAt = conns[c].openedAt /\ sinceReap' = sinceReap
    BY <2>3 DEF MediatorInv, NoneOverlooked
  <2> QED BY <2>2, <2>3
<1>8. \A i, s : InScope(i, s)' <=> InScope(i, s)
  BY DEF InScope
<1>9. RidesItsRow'
  BY <1>1, <1>8 DEF MediatorInv, RidesItsRow
<1>10. DialedWhereConsented'
  <2> SUFFICES ASSUME NEW c \in DOMAIN conns, conns'[c].phase \in {"dialing", "open"}
               PROVE  /\ conns'[c].addr \in Public
                      /\ rows[conns[c].row].addresses # {} => conns'[c].addr \in rows[conns[c].row].addresses
    BY <1>1, <1>9 DEF DialedWhereConsented, RidesItsRow
  <2> QED BY DEF MediatorInv, DialedWhereConsented
<1> QED BY <1>3, <1>4, <1>7, <1>9, <1>10 DEF MediatorInv

-----------------------------------------------------------------------------
(* The operations *)

LEMMA ClaimKeeps ==
  ASSUME MediatorInv, NEW s \in Sessions, Claim(s)
  PROVE  MediatorInv'
<1>1. PICK l \in Slots : slotOf' = [slotOf EXCEPT ![l] = s]
  BY DEF Claim, FreeSlots
<1>2. slotOf' \in [Slots -> Sessions \cup {None}]
  BY <1>1 DEF MediatorInv, MediatorTypeOK
<1>3. conns \in [DOMAIN conns -> ConnRecords]
  BY RowsTyped DEF MediatorInv, MediatorTypeOK
<1>4. UNCHANGED <<now, rows, freedAt, conns, sinceReap, closed>> /\ freedAt \in [Slots -> Nat] /\ sinceReap \in 0..Recheck /\ closed \in BOOLEAN
  BY DEF Claim, MediatorInv, MediatorTypeOK
<1> QED BY <1>2, <1>3, <1>4, ConnsMoved

LEMMA ReleaseKeeps ==
  ASSUME MediatorInv, NEW s \in Sessions, Release(s)
  PROVE  MediatorInv'
<1>1. PICK l \in Slots : slotOf' = [slotOf EXCEPT ![l] = None] /\ freedAt' = [freedAt EXCEPT ![l] = now]
  BY DEF Release
<1>2. slotOf' \in [Slots -> Sessions \cup {None}] /\ freedAt' \in [Slots -> Nat]
  BY <1>1 DEF MediatorInv, MediatorTypeOK
<1>3. conns \in [DOMAIN conns -> ConnRecords]
  BY RowsTyped DEF MediatorInv, MediatorTypeOK
<1>4. UNCHANGED <<now, rows, conns, sinceReap, closed>> /\ sinceReap \in 0..Recheck /\ closed \in BOOLEAN
  BY DEF Release, MediatorInv, MediatorTypeOK
<1> QED BY <1>2, <1>3, <1>4, ConnsMoved

\* One connection moves on.
LEMMA ConnMoved ==
  ASSUME MediatorInv, UNCHANGED <<now, rows, slotOf, freedAt, sinceReap, closed>>,
         NEW c \in DOMAIN conns, NEW d \in ConnRecords, conns' = [conns EXCEPT ![c] = d],
         conns[c].phase # "refused", d.row = conns[c].row, d.session = conns[c].session,
         d.phase \in {"dialing", "open"} =>
           \/ conns[c].phase \in {"dialing", "open"} /\ d.addr = conns[c].addr
           \/ /\ d.addr \in Public
              /\ rows[d.row].addresses = {} \/ d.addr \in rows[d.row].addresses,
         d.phase = "open" => \/ d.openedAt = now
                             \/ conns[c].phase = "open" /\ d.openedAt = conns[c].openedAt
  PROVE  MediatorInv'
<1>1. conns \in [DOMAIN conns -> ConnRecords] /\ sinceReap' \in 0..Recheck /\ closed' \in BOOLEAN
      /\ slotOf' \in [Slots -> Sessions \cup {None}] /\ freedAt' \in [Slots -> Nat]
  BY RowsTyped DEF MediatorInv, MediatorTypeOK
<1>2. conns' \in [DOMAIN conns -> ConnRecords]
  BY <1>1
<1>3. \A e \in DOMAIN conns : conns'[e] = IF e = c THEN d ELSE conns[e]
  BY <1>1
<1> QED BY <1>1, <1>2, <1>3, ConnsMoved

LEMMA ResolveKeeps ==
  ASSUME MediatorInv, NEW c \in DOMAIN conns, Resolve(c)
  PROVE  MediatorInv'
<1>1. conns[c] \in ConnRecords /\ conns[c].phase = "resolving" /\ now \in Nat
  BY RowsTyped DEF Resolve, MediatorInv, MediatorTypeOK
<1>2. CASE conns' = [conns EXCEPT ![c].phase = "refused"]
  <2> DEFINE d == [conns[c] EXCEPT !.phase = "refused"]
  <2>1. d \in ConnRecords /\ d.phase = "refused" /\ d.row = conns[c].row /\ d.session = conns[c].session
    BY <1>1 DEF ConnRecords
  <2>2. conns' = [conns EXCEPT ![c] = d]
    BY <1>2
  <2> HIDE DEF d
  <2> QED BY <1>1, <2>1, <2>2, ConnMoved DEF Resolve
<1>3. ASSUME NEW answers \in SUBSET Addrs, NEW a \in Dialable(answers, conns[c].row),
             conns' = [conns EXCEPT ![c].addr = a,
                                    ![c].phase = IF conns[c].req.tunnel THEN "dialing" ELSE "open",
                                    ![c].openedAt = now]
      PROVE  MediatorInv'
  <2> DEFINE p == IF conns[c].req.tunnel THEN "dialing" ELSE "open"
             d == [conns[c] EXCEPT !.addr = a, !.phase = p, !.openedAt = now]
  <2>1. /\ a \in Addrs /\ a \in Public /\ p \in {"dialing", "open"}
        /\ rows[conns[c].row].addresses = {} \/ a \in rows[conns[c].row].addresses
    BY <1>3 DEF Dialable
  <2>2. conns' = [conns EXCEPT ![c] = d]
    BY <1>3
  <2> HIDE DEF p
  <2>3. /\ d \in ConnRecords /\ d.phase = p /\ d.row = conns[c].row
        /\ d.session = conns[c].session /\ d.addr = a /\ d.openedAt = now
    BY <1>1, <2>1 DEF ConnRecords
  <2> HIDE DEF d
  <2> QED BY <1>1, <2>1, <2>2, <2>3, ConnMoved DEF Resolve
<1> QED BY <1>2, <1>3 DEF Resolve

LEMMA DialedKeeps ==
  ASSUME MediatorInv, NEW c \in DOMAIN conns, Dialed(c)
  PROVE  MediatorInv'
<1>1. conns[c] \in ConnRecords /\ conns[c].phase = "dialing" /\ now \in Nat
  BY RowsTyped DEF Dialed, MediatorInv, MediatorTypeOK
<1>2. PICK p \in {"open", "refused"} :
        conns' = [conns EXCEPT ![c] = [conns[c] EXCEPT !.phase = p,
                                       !.openedAt = IF p = "open" THEN now ELSE conns[c].openedAt]]
  <2>1. CASE conns' = [conns EXCEPT ![c].phase = "open", ![c].openedAt = now]
    <3>1. conns' = [conns EXCEPT ![c] = [conns[c] EXCEPT !.phase = "open", !.openedAt = now]]
      BY <2>1
    <3> QED BY <3>1
  <2>2. CASE conns' = [conns EXCEPT ![c].phase = "refused"]
    <3>1. [conns[c] EXCEPT !.phase = "refused"]
            = [conns[c] EXCEPT !.phase = "refused", !.openedAt = conns[c].openedAt]
      BY <1>1 DEF ConnRecords
    <3>2. conns' = [conns EXCEPT ![c] = [conns[c] EXCEPT !.phase = "refused"]]
      BY <2>2
    <3>3. conns' = [conns EXCEPT ![c] = [conns[c] EXCEPT !.phase = "refused", !.openedAt = conns[c].openedAt]]
      BY <3>1, <3>2
    <3> QED BY <3>3
  <2> QED BY <2>1, <2>2 DEF Dialed
<1> DEFINE o == IF p = "open" THEN now ELSE conns[c].openedAt
           d == [conns[c] EXCEPT !.phase = p, !.openedAt = o]
<1>3. o \in Nat /\ (p = "open" => o = now)
  BY <1>1 DEF ConnRecords
<1>4. conns' = [conns EXCEPT ![c] = d]
  BY <1>2
<1> HIDE DEF o
<1>5. d \in ConnRecords /\ d.phase = p /\ d.row = conns[c].row /\ d.session = conns[c].session
      /\ d.addr = conns[c].addr /\ d.openedAt = o
  BY <1>1, <1>3 DEF ConnRecords
<1> HIDE DEF d
<1> QED BY <1>1, <1>3, <1>4, <1>5, ConnMoved DEF Dialed

\* A connection that ends, or loses its client, stays where it was or goes quiet.
LEMMA OriginEndsKeeps ==
  ASSUME MediatorInv, NEW c \in DOMAIN conns, OriginEnds(c)
  PROVE  MediatorInv'
<1>1. conns[c] \in ConnRecords /\ conns[c].phase = "open"
  BY RowsTyped DEF OriginEnds, MediatorInv
<1> DEFINE d == [conns[c] EXCEPT !.phase = "ended", !.client = FALSE]
<1>2. conns' = [conns EXCEPT ![c] = d]
  BY DEF OriginEnds
<1>3. d \in ConnRecords /\ d.phase = "ended" /\ d.row = conns[c].row /\ d.session = conns[c].session
  BY <1>1 DEF ConnRecords
<1> HIDE DEF d
<1> QED BY <1>1, <1>2, <1>3, ConnMoved DEF OriginEnds

LEMMA ClientLeavesKeeps ==
  ASSUME MediatorInv, NEW c \in DOMAIN conns, ClientLeaves(c)
  PROVE  MediatorInv'
<1>1. conns[c] \in ConnRecords /\ conns[c].phase \in {"resolving", "dialing", "open"}
  BY RowsTyped DEF ClientLeaves, MediatorInv
<1> DEFINE p == IF conns[c].phase = "open" /\ conns[c].req.tunnel THEN "ended" ELSE conns[c].phase
           d == [conns[c] EXCEPT !.client = FALSE, !.phase = p]
<1>2. conns' = [conns EXCEPT ![c] = d]
  BY DEF ClientLeaves
<1>3. p = conns[c].phase \/ p = "ended"
  OBVIOUS
<1> HIDE DEF p
<1>4. d \in ConnRecords /\ d.phase = p /\ d.row = conns[c].row /\ d.session = conns[c].session
      /\ d.addr = conns[c].addr /\ d.openedAt = conns[c].openedAt
  BY <1>1, <1>3 DEF ConnRecords
<1> HIDE DEF d
<1>5. d.phase \in {"dialing", "open"} => conns[c].phase \in {"dialing", "open"}
  BY <1>3, <1>4
<1>6. d.phase = "open" => conns[c].phase = "open"
  BY <1>3, <1>4
<1>7. UNCHANGED <<now, rows, slotOf, freedAt, sinceReap, closed>> /\ conns[c].phase # "refused"
  BY <1>1 DEF ClientLeaves
<1> QED BY <1>2, <1>4, <1>5, <1>6, <1>7, ConnMoved

\* What arrives is refused, or waits for its name under a row of its session.
LEMMA ConnectKeeps ==
  ASSUME MediatorInv, NEW l \in Slots, NEW q \in Requests, Connect(l, q)
  PROVE  MediatorInv'
<1> DEFINE s == slotOf[l]
           d == [session |-> s, slot |-> l, req |-> q, client |-> TRUE, addr |-> None, openedAt |-> 0,
                 row   |-> IF Verdict(s, q) = "ok" THEN Ridden(s, q) ELSE 0,
                 phase |-> IF Verdict(s, q) = "ok" THEN "resolving" ELSE "refused"]
<1>1. s \in Sessions \cup {None} /\ conns' = Append(conns, d) /\ UNCHANGED <<now, rows, slotOf, freedAt, sinceReap, closed>>
  BY DEF Connect, MediatorInv, MediatorTypeOK
<1>2. /\ rows \in Seq(RowRecords) /\ conns \in Seq(ConnRecords)
      /\ Verdict(s, q) = "ok" => Ridden(s, q) \in DOMAIN rows /\ InScope(Ridden(s, q), s)
  BY RiddenReaches DEF MediatorInv, MediatorTypeOK
<1>3. /\ d \in ConnRecords /\ d.session = s /\ d.phase \notin {"dialing", "open"}
      /\ d.phase # "refused" => d.row \in DOMAIN rows /\ InScope(d.row, s)
  <2>1. DOMAIN rows \subseteq Nat
    BY <1>2
  <2> QED BY <1>1, <1>2, <2>1 DEF ConnRecords
<1> HIDE DEF s, d
<1>4. /\ conns' \in Seq(ConnRecords) /\ DOMAIN conns' = DOMAIN conns \cup {Len(conns) + 1}
      /\ \A c \in DOMAIN conns : conns'[c] = conns[c]
      /\ conns'[Len(conns) + 1] = d
  BY <1>1, <1>2, <1>3, AppendProperties
<1>5. MediatorTypeOK' /\ RowsAreDated'
  BY <1>1, <1>3, <1>4 DEF MediatorInv, MediatorTypeOK, RowsAreDated
<1>6. (\A i : Live(i)' <=> Live(i)) /\ (\A i : DeadSince(i)' = DeadSince(i))
      /\ (\A i, r : InScope(i, r)' <=> InScope(i, r))
  BY <1>1 DEF Live, DeadSince, InScope
<1>7. NoneOverlooked'
  BY <1>1, <1>3, <1>4, <1>6 DEF MediatorInv, NoneOverlooked
<1>8. RidesItsRow'
  BY <1>1, <1>3, <1>4, <1>6 DEF MediatorInv, RidesItsRow
<1>9. DialedWhereConsented'
  <2> SUFFICES ASSUME NEW c \in DOMAIN conns', conns'[c].phase \in {"dialing", "open"}
               PROVE  /\ conns'[c].addr \in Public
                      /\ rows[conns'[c].row].addresses # {} => conns'[c].addr \in rows[conns'[c].row].addresses
    BY <1>1, <1>8 DEF DialedWhereConsented, RidesItsRow
  <2>1. c \in DOMAIN conns /\ conns'[c] = conns[c]
    BY <1>3, <1>4
  <2> QED BY <2>1 DEF MediatorInv, DialedWhereConsented
<1> QED BY <1>5, <1>7, <1>8, <1>9 DEF MediatorInv

LEMMA ReapKeeps ==
  ASSUME MediatorInv, Reap
  PROVE  MediatorInv'
<1>1. /\ ~closed /\ sinceReap' = 0 /\ UNCHANGED <<now, rows, slotOf, freedAt, closed>>
      /\ conns' = [c \in DOMAIN conns |->
                     IF c \in Doomed THEN [conns[c] EXCEPT !.phase = "cut", !.client = FALSE] ELSE conns[c]]
  BY DEF Reap
<1>2. sinceReap' \in 0..Recheck /\ closed' \in BOOLEAN /\ slotOf' \in [Slots -> Sessions \cup {None}] /\ freedAt' \in [Slots -> Nat]
  <2>1. 0 \in 0..Recheck
    BY MediatorAssumption
  <2> QED BY <1>1, <2>1 DEF MediatorInv, MediatorTypeOK
<1>3. \A c \in DOMAIN conns :
        \/ c \in Doomed /\ conns'[c].phase = "cut" /\ conns'[c] \in ConnRecords
           /\ conns'[c].row = conns[c].row /\ conns'[c].session = conns[c].session
        \/ c \notin Doomed /\ conns'[c] = conns[c] /\ conns'[c] \in ConnRecords
  BY <1>1, RowsTyped DEF MediatorInv, ConnRecords
<1>4. conns' \in [DOMAIN conns -> ConnRecords]
  BY <1>1, <1>3
<1>5. \A c \in Doomed : conns[c].phase # "refused"
  BY DEF Doomed
<1>6. \A c \in DOMAIN conns : conns[c].phase = "open" /\ c \notin Doomed => Live(conns[c].row)
  BY DEF Doomed, Stands
<1> QED BY <1>1, <1>2, <1>3, <1>4, <1>5, <1>6, ConnsMoved

LEMMA CloseAllKeeps ==
  ASSUME MediatorInv, CloseAll
  PROVE  MediatorInv'
<1>1. /\ closed' = TRUE /\ UNCHANGED <<now, rows, freedAt, sinceReap>>
      /\ slotOf' = [l \in Slots |-> None]
      /\ conns' = [c \in DOMAIN conns |->
                     IF conns[c].phase = "open" THEN [conns[c] EXCEPT !.phase = "ended", !.client = FALSE]
                     ELSE DropSocket(conns[c])]
  BY DEF CloseAll
<1>2. sinceReap' \in 0..Recheck /\ closed' \in BOOLEAN /\ slotOf' \in [Slots -> Sessions \cup {None}] /\ freedAt' \in [Slots -> Nat]
  BY <1>1 DEF MediatorInv, MediatorTypeOK
<1>3. \A c \in DOMAIN conns :
        /\ conns'[c] \in ConnRecords
        /\ conns'[c].row = conns[c].row /\ conns'[c].session = conns[c].session
        /\ conns'[c].addr = conns[c].addr
        /\ conns'[c].phase = IF conns[c].phase = "open" THEN "ended" ELSE conns[c].phase
  BY <1>1, RowsTyped DEF MediatorInv, ConnRecords, DropSocket
<1>4. conns' \in [DOMAIN conns -> ConnRecords]
  BY <1>1, <1>3
<1> QED BY <1>1, <1>2, <1>3, <1>4, ConnsMoved

\* The dates of a row.
LEMMA RowDates ==
  ASSUME NEW g \in RowRecords
  PROVE  g.expiresAt \in Nat /\ g.revokedAt \in Nat
BY DEF RowRecords

\* The gate's rows: a new one, or an end to one, changes no session and no address.
LEMMA RowsMoved ==
  ASSUME MediatorInv, UNCHANGED <<now, slotOf, freedAt, conns, sinceReap, closed>>,
         rows' \in Seq(RowRecords), DOMAIN rows \subseteq DOMAIN rows',
         \A i \in DOMAIN rows' : rows'[i].revokedAt <= now,
         \A i \in DOMAIN rows :
           /\ rows'[i].session = rows[i].session /\ rows'[i].root = rows[i].root
           /\ rows'[i].addresses = rows[i].addresses /\ rows'[i].expiresAt = rows[i].expiresAt
           /\ rows'[i].revokedAt = rows[i].revokedAt \/ (rows[i].revokedAt = 0 /\ rows'[i].revokedAt = now)
  PROVE  MediatorInv'
<1>1. MediatorTypeOK' /\ RowsAreDated'
  BY DEF MediatorInv, MediatorTypeOK, RowsAreDated
<1>2. \A i \in DOMAIN rows : \A s : InScope(i, s)' <=> InScope(i, s)
  BY DEF InScope
<1>3. \A c \in DOMAIN conns : conns[c].phase # "refused" => conns[c].row \in DOMAIN rows
  BY DEF MediatorInv, MediatorTypeOK
<1>4. RidesItsRow' /\ DialedWhereConsented'
  BY <1>2, <1>3 DEF MediatorInv, RidesItsRow, DialedWhereConsented
<1>5. NoneOverlooked'
  <2> SUFFICES ASSUME ~closed, NEW c \in DOMAIN conns, conns[c].phase = "open", ~Live(conns[c].row)'
               PROVE  \/ DeadSince(conns[c].row)' >= now - sinceReap
                      \/ conns[c].openedAt >= now - sinceReap
    BY DEF NoneOverlooked, Live, DeadSince
  <2> DEFINE i == conns[c].row
  <2>1. i \in DOMAIN rows /\ rows[i] \in RowRecords /\ rows[i].revokedAt <= now
    BY <1>3, RowsTyped DEF MediatorInv, RowsAreDated
  <2>2. now \in Nat \ {0} /\ sinceReap \in Nat /\ rows[i].expiresAt \in Nat /\ rows[i].revokedAt \in Nat
    <3>1. now \in Nat \ {0} /\ sinceReap \in Nat
      BY DEF MediatorInv, MediatorTypeOK
    <3> HIDE DEF i
    <3> QED BY <2>1, <3>1, RowDates
  <2>3. rows'[i].expiresAt = rows[i].expiresAt
    BY <2>1
  <2>4. ~Live(i) => \/ DeadSince(i) >= now - sinceReap
                    \/ conns[c].openedAt >= now - sinceReap
    BY DEF MediatorInv, NoneOverlooked
  <2> HIDE DEF i
  <2>5. CASE rows'[i].revokedAt = rows[i].revokedAt
    <3>1. ~Live(i) /\ DeadSince(i)' = DeadSince(i)
      BY <2>3, <2>5 DEF Live, DeadSince, i
    <3> QED BY <2>4, <3>1 DEF i
  <2>6. CASE rows[i].revokedAt = 0 /\ rows'[i].revokedAt = now
    <3>1. DeadSince(i) = rows[i].expiresAt
      BY <2>6 DEF DeadSince
    <3>2. DeadSince(i)' = IF rows[i].expiresAt = 0 \/ now <= rows[i].expiresAt
                          THEN now ELSE rows[i].expiresAt
      BY <2>2, <2>3, <2>6 DEF DeadSince, i
    <3>3. Live(i) <=> rows[i].expiresAt = 0 \/ rows[i].expiresAt > now
      BY <2>6 DEF Live
    <3> QED BY <2>2, <2>4, <3>1, <3>2, <3>3 DEF i
  <2> QED BY <2>1, <2>5, <2>6 DEF i
<1> QED BY <1>1, <1>4, <1>5 DEF MediatorInv

LEMMA MintKeeps ==
  ASSUME MediatorInv, NEW s \in Sessions, NEW m \in Mints, Mint(s, m)
  PROVE  MediatorInv'
<1> DEFINE own == IF m.scope = "session" THEN s ELSE None
           root == IF m.scope = "lineage" THEN s ELSE None
           r == [pattern |-> m.pattern, class |-> m.class, addresses |-> m.addresses,
                 session |-> own, root |-> root, expiresAt |-> now + m.ttl, revokedAt |-> 0]
<1>1. rows' = Append(rows, r)
  BY DEF Mint
<1>2. now \in Nat /\ rows \in Seq(RowRecords)
  BY DEF MediatorInv, MediatorTypeOK
<1>3. own \in Sessions \cup {None} /\ root \in Sessions \cup {None}
  OBVIOUS
<1> HIDE DEF own, root
<1>4. r \in RowRecords /\ r.revokedAt = 0
  BY <1>2, <1>3, MintsAreTerms DEF RowRecords
<1> HIDE DEF r
<1>5. /\ rows' \in Seq(RowRecords) /\ DOMAIN rows \subseteq DOMAIN rows'
      /\ \A i \in DOMAIN rows : rows'[i] = rows[i]
      /\ \A i \in DOMAIN rows' : i \in DOMAIN rows \/ rows'[i] = r
  BY <1>1, <1>2, <1>4, AppendProperties DEF r
<1>6. UNCHANGED <<now, slotOf, freedAt, conns, sinceReap, closed>>
  BY DEF Mint
<1> QED BY <1>2, <1>4, <1>5, <1>6, RowsMoved DEF MediatorInv, RowsAreDated

LEMMA RevokeKeeps ==
  ASSUME MediatorInv, NEW i \in DOMAIN rows, Revoke(i)
  PROVE  MediatorInv'
<1>1. rows[i] \in RowRecords /\ rows \in Seq(RowRecords) /\ now \in Nat
  BY RowsTyped DEF MediatorInv, MediatorTypeOK
<1> DEFINE r == [rows[i] EXCEPT !.revokedAt = now]
<1>2. /\ r \in RowRecords /\ r.session = rows[i].session /\ r.root = rows[i].root
      /\ r.addresses = rows[i].addresses /\ r.expiresAt = rows[i].expiresAt /\ r.revokedAt = now
  BY <1>1 DEF RowRecords
<1>3. rows' = [rows EXCEPT ![i] = r] /\ rows[i].revokedAt = 0
  BY DEF Revoke
<1> HIDE DEF r
<1>4. rows' \in Seq(RowRecords)
  BY <1>1, <1>2, <1>3, ExceptSeq
<1>5. DOMAIN rows' = DOMAIN rows /\ \A j \in DOMAIN rows : rows'[j] = IF j = i THEN r ELSE rows[j]
  BY <1>1, <1>3
<1>6. UNCHANGED <<now, slotOf, freedAt, conns, sinceReap, closed>>
  BY DEF Revoke
<1>7. \A j \in DOMAIN rows' : rows'[j].revokedAt <= now
  BY <1>1, <1>2, <1>5 DEF MediatorInv, RowsAreDated
<1> QED BY <1>2, <1>3, <1>4, <1>5, <1>6, <1>7, RowsMoved

\* Time passes: what dies now was live when the reaper last came by.
LEMMA TickKeeps ==
  ASSUME MediatorInv, Tick
  PROVE  MediatorInv'
<1>1. /\ now' = now + 1 /\ UNCHANGED <<rows, slotOf, freedAt, conns, closed>>
      /\ ~closed => sinceReap < Recheck /\ sinceReap' = sinceReap + 1
      /\ closed => sinceReap' = sinceReap
  BY DEF Tick
<1>2. now \in Nat /\ sinceReap \in 0..Recheck /\ Recheck \in Nat /\ closed \in BOOLEAN
  BY MediatorAssumption DEF MediatorInv, MediatorTypeOK
<1>3. MediatorTypeOK'
  BY <1>1, <1>2 DEF MediatorInv, MediatorTypeOK
<1>4. RowsAreDated'
  <2>1. \A i \in DOMAIN rows : rows[i].revokedAt \in Nat
    BY RowsTyped DEF MediatorInv, RowRecords
  <2> QED BY <1>1, <1>2, <2>1 DEF MediatorInv, RowsAreDated
<1>5. RidesItsRow' /\ DialedWhereConsented'
  BY <1>1 DEF MediatorInv, RidesItsRow, DialedWhereConsented, InScope
<1>6. NoneOverlooked'
  <2> SUFFICES ASSUME ~closed, NEW c \in DOMAIN conns, conns[c].phase = "open", ~Live(conns[c].row)'
               PROVE  \/ DeadSince(conns[c].row) >= now - sinceReap
                      \/ conns[c].openedAt >= now - sinceReap
    <3>1. now' - sinceReap' = now - sinceReap \/ closed
      BY <1>1, <1>2
    <3>2. \A i : DeadSince(i)' = DeadSince(i)
      BY <1>1 DEF DeadSince
    <3> QED BY <1>1, <3>1, <3>2 DEF NoneOverlooked, Live
  <2> DEFINE i == conns[c].row
  <2>1. i \in DOMAIN rows /\ rows[i].expiresAt \in Nat /\ rows[i].revokedAt \in Nat
    BY RowsTyped DEF MediatorInv, MediatorTypeOK, RowRecords
  <2> HIDE DEF i
  <2>2. CASE Live(i)
    <3>1. DeadSince(i) >= now
      BY <1>1, <1>2, <2>1, <2>2 DEF Live, DeadSince, i
    <3>2. DeadSince(i) \in Nat
      BY <2>1 DEF DeadSince
    <3> QED BY <1>2, <3>1, <3>2 DEF i
  <2>3. CASE ~Live(i)
    BY <2>3 DEF MediatorInv, NoneOverlooked, i
  <2> QED BY <2>2, <2>3
<1> QED BY <1>3, <1>4, <1>5, <1>6 DEF MediatorInv

LEMMA MediatorStutters ==
  ASSUME MediatorInv, UNCHANGED vars
  PROVE  MediatorInv'
BY DEF vars, MediatorInv, MediatorTypeOK, RowsAreDated, NoneOverlooked, RidesItsRow, DialedWhereConsented,
       Live, DeadSince, InScope

-----------------------------------------------------------------------------
(* The theorems *)

LEMMA MediatorInvInit == Init => MediatorInv
<1> SUFFICES ASSUME Init
             PROVE  MediatorInv
  OBVIOUS
<1>1. rows = << >> /\ conns = << >> /\ now = 1 /\ sinceReap = 0 /\ closed = FALSE
      /\ slotOf = [l \in Slots |-> None] /\ freedAt = [l \in Slots |-> 0]
  BY DEF Init
<1>2. DOMAIN rows = {} /\ DOMAIN conns = {} /\ rows \in Seq(RowRecords) /\ conns \in Seq(ConnRecords)
  BY <1>1
<1>3. sinceReap \in 0..Recheck /\ now \in Nat \ {0}
  BY <1>1, MediatorAssumption
<1>4. MediatorTypeOK
  BY <1>1, <1>2, <1>3 DEF MediatorTypeOK
<1> QED BY <1>2, <1>4 DEF MediatorInv, RowsAreDated, NoneOverlooked, RidesItsRow, DialedWhereConsented

\* The mediator's invariant: types, rows revoked no later than now, connections on rows of
\* their sessions, and nothing open that the reaper's last round overlooked.
THEOREM MediatorInvariant == Spec => []MediatorInv
<1>1. MediatorInv /\ [Next]_vars => MediatorInv'
  BY ClaimKeeps, ReleaseKeeps, ConnectKeeps, ResolveKeeps, DialedKeeps, OriginEndsKeeps, ClientLeavesKeeps,
     ReapKeeps, CloseAllKeeps, MintKeeps, RevokeKeeps, TickKeeps, MediatorStutters DEF Next
<1> QED BY <1>1, MediatorInvInit, PTL DEF Spec

\* Revocation and expiry reach what is already open within one period of the reaper,
\* whatever the period (the reaper, #79).
THEOREM DeathReachesWhatIsOpen == Spec => []CutWithinRecheck
<1>1. MediatorInv => CutWithinRecheck
  <2> SUFFICES ASSUME MediatorInv, ~closed, NEW c \in DOMAIN conns, conns[c].phase = "open",
                      ~Live(conns[c].row)
               PROVE  ~(now > DeadSince(conns[c].row) + Recheck /\ now > conns[c].openedAt + Recheck)
    BY DEF CutWithinRecheck, Overdue
  <2>1. now \in Nat /\ sinceReap \in 0..Recheck /\ Recheck \in Nat
    BY MediatorAssumption DEF MediatorInv, MediatorTypeOK
  <2>2. conns[c].openedAt \in Nat /\ DeadSince(conns[c].row) \in Nat
    BY RowsTyped DEF MediatorInv, MediatorTypeOK, ConnRecords, RowRecords, DeadSince
  <2>3. DeadSince(conns[c].row) >= now - sinceReap \/ conns[c].openedAt >= now - sinceReap
    BY DEF MediatorInv, NoneOverlooked
  <2> QED BY <2>1, <2>2, <2>3
<1> QED BY <1>1, MediatorInvariant, PTL

\* What is dialed is what was consented to: a public address its row names, under a row of
\* the session it was decided for, whatever the resolver answers (#55, #165).
THEOREM DialedAlwaysConsented == Spec => []DialedWhereConsented
<1>1. MediatorInv => DialedWhereConsented
  BY DEF MediatorInv
<1> QED BY <1>1, MediatorInvariant, PTL

\* The listener and the time of a connection, and its row, if it was admitted.
LEMMA ConnHas ==
  ASSUME MediatorInv, NEW c \in DOMAIN conns
  PROVE  /\ conns[c] \in ConnRecords /\ conns[c].slot \in Slots /\ conns[c].openedAt \in Nat
         /\ conns[c].phase # "refused" => conns[c].row \in DOMAIN rows
BY RowsTyped DEF MediatorInv, MediatorTypeOK, ConnRecords

\* A step of connections alone: what is open was open, or is open since now.
LEMMA NoneIsStrandedBy ==
  ASSUME MediatorInv, NoneStranded, UNCHANGED <<now, rows, slotOf, freedAt, sinceReap, closed>>,
         \A c \in DOMAIN conns' : conns'[c].phase = "open" =>
           \/ conns'[c].openedAt = now
           \/ /\ c \in DOMAIN conns /\ conns[c].phase = "open" /\ conns'[c].openedAt = conns[c].openedAt
              /\ conns'[c].row = conns[c].row /\ conns'[c].slot = conns[c].slot
  PROVE  NoneStranded'
<1>1. \A i, s : InScope(i, s)' <=> InScope(i, s)
  BY DEF InScope
<1>2. now \in Nat /\ sinceReap \in Nat
  BY DEF MediatorInv, MediatorTypeOK
<1> SUFFICES ASSUME ~closed, NEW c \in DOMAIN conns', conns'[c].phase = "open",
                    ~InScope(conns'[c].row, slotOf[conns'[c].slot])
             PROVE  \/ freedAt[conns'[c].slot] >= now - sinceReap
                    \/ conns'[c].openedAt >= now - sinceReap
  BY <1>1 DEF NoneStranded
<1>3. CASE conns'[c].openedAt = now
  BY <1>2, <1>3
<1>4. CASE conns'[c].openedAt # now
  BY <1>4 DEF NoneStranded
<1> QED BY <1>3, <1>4

LEMMA ClaimStrandsNone ==
  ASSUME MediatorInv, NoneStranded, NEW s \in Sessions, Claim(s)
  PROVE  NoneStranded'
<1>1. PICK l \in Slots : slotOf[l] = None /\ slotOf' = [slotOf EXCEPT ![l] = s]
  BY DEF Claim, FreeSlots
<1>2. UNCHANGED <<now, rows, freedAt, conns, sinceReap, closed>>
  BY DEF Claim
<1> SUFFICES ASSUME ~closed, NEW c \in DOMAIN conns, conns[c].phase = "open",
                    ~InScope(conns[c].row, slotOf'[conns[c].slot])
             PROVE  \/ freedAt[conns[c].slot] >= now - sinceReap
                    \/ conns[c].openedAt >= now - sinceReap
  BY <1>2 DEF NoneStranded, InScope
<1>3. slotOf[conns[c].slot] = None \/ slotOf'[conns[c].slot] = slotOf[conns[c].slot]
  BY <1>1, ConnHas DEF MediatorInv, MediatorTypeOK
<1>4. ~InScope(conns[c].row, slotOf[conns[c].slot])
  BY <1>3 DEF InScope
<1> QED BY <1>4 DEF NoneStranded

LEMMA ReleaseStrandsNone ==
  ASSUME MediatorInv, NoneStranded, NEW s \in Sessions, Release(s)
  PROVE  NoneStranded'
<1>1. PICK l \in Slots : slotOf' = [slotOf EXCEPT ![l] = None] /\ freedAt' = [freedAt EXCEPT ![l] = now]
  BY DEF Release
<1>2. UNCHANGED <<now, rows, conns, sinceReap, closed>>
  BY DEF Release
<1>3. now \in Nat /\ sinceReap \in Nat /\ slotOf \in [Slots -> Sessions \cup {None}] /\ freedAt \in [Slots -> Nat]
  BY DEF MediatorInv, MediatorTypeOK
<1> SUFFICES ASSUME ~closed, NEW c \in DOMAIN conns, conns[c].phase = "open",
                    ~InScope(conns[c].row, slotOf'[conns[c].slot])
             PROVE  \/ freedAt'[conns[c].slot] >= now - sinceReap
                    \/ conns[c].openedAt >= now - sinceReap
  BY <1>2 DEF NoneStranded, InScope
<1>4. CASE conns[c].slot = l
  BY <1>1, <1>3, <1>4
<1>5. CASE conns[c].slot # l
  <2>1. slotOf'[conns[c].slot] = slotOf[conns[c].slot] /\ freedAt'[conns[c].slot] = freedAt[conns[c].slot]
    BY <1>1, <1>3, <1>5, ConnHas
  <2> QED BY <2>1 DEF NoneStranded
<1> QED BY <1>4, <1>5

\* The steps of one connection; where none is opened, each that is open was so before.
LEMMA ConnsStrandNone ==
  ASSUME MediatorInv, NoneStranded,
         \/ \E l \in Slots, q \in Requests : Connect(l, q)
         \/ \E c \in DOMAIN conns : Resolve(c) \/ Dialed(c) \/ OriginEnds(c) \/ ClientLeaves(c)
  PROVE  NoneStranded'
<1>1. DOMAIN conns = 1..Len(conns) /\ Len(conns) \in Nat /\ conns \in Seq(ConnRecords)
      /\ \A c \in DOMAIN conns : conns[c] \in ConnRecords
  BY RowsTyped DEF MediatorInv, MediatorTypeOK
<1>2. ASSUME NEW l \in Slots, NEW q \in Requests, Connect(l, q)
      PROVE  NoneStranded'
  <2>1. PICK d : conns' = Append(conns, d) /\ d.phase # "open"
    BY <1>2 DEF Connect
  <2>2. \A c \in DOMAIN conns' : conns'[c].phase = "open" => c \in DOMAIN conns /\ conns'[c] = conns[c]
    BY <1>1, <2>1
  <2> QED BY <1>2, <2>2, NoneIsStrandedBy DEF Connect
<1>3. ASSUME NEW c \in DOMAIN conns, Resolve(c) \/ Dialed(c) \/ OriginEnds(c) \/ ClientLeaves(c)
      PROVE  NoneStranded'
  <2>1. UNCHANGED <<now, rows, slotOf, freedAt, sinceReap, closed>> /\ DOMAIN conns' = DOMAIN conns
    BY <1>3 DEF Resolve, Dialed, OriginEnds, ClientLeaves
  <2>2. \A e \in DOMAIN conns : e # c => conns'[e] = conns[e]
    BY <1>3 DEF Resolve, Dialed, OriginEnds, ClientLeaves
  <2>3. conns'[c].phase = "open" =>
           \/ conns'[c].openedAt = now
           \/ /\ conns[c].phase = "open" /\ conns'[c].openedAt = conns[c].openedAt
              /\ conns'[c].row = conns[c].row /\ conns'[c].slot = conns[c].slot
    <3>1. CASE Resolve(c)
      <4>1. CASE conns' = [conns EXCEPT ![c].phase = "refused"]
        BY <1>1, <4>1 DEF ConnRecords
      <4>2. CASE \E answers \in SUBSET Addrs : \E a \in Dialable(answers, conns[c].row) :
                   conns' = [conns EXCEPT ![c].addr = a,
                                          ![c].phase = IF conns[c].req.tunnel THEN "dialing" ELSE "open",
                                          ![c].openedAt = now]
        <5>1. conns'[c].openedAt = now
          BY <1>1, <4>2 DEF ConnRecords
        <5> QED BY <5>1
      <4> QED BY <3>1, <4>1, <4>2, Zenon DEF Resolve
    <3>2. CASE Dialed(c)
      BY <1>1, <3>2 DEF Dialed, ConnRecords
    <3>3. CASE OriginEnds(c)
      BY <1>1, <3>3 DEF OriginEnds, ConnRecords
    <3>4. CASE ClientLeaves(c)
      BY <1>1, <3>4 DEF ClientLeaves, ConnRecords
    <3> QED BY <1>3, <3>1, <3>2, <3>3, <3>4
  <2> QED BY <2>1, <2>2, <2>3, NoneIsStrandedBy
<1> QED BY <1>2, <1>3

LEMMA NoneIsEverStranded == MediatorInv /\ MediatorInv' /\ NoneStranded /\ [Next]_vars => NoneStranded'
<1> SUFFICES ASSUME MediatorInv, NoneStranded, [Next]_vars
             PROVE  NoneStranded'
  OBVIOUS
<1>1. CASE Reap
  <2> SUFFICES ASSUME ~closed, NEW c \in DOMAIN conns, conns'[c].phase = "open"
               PROVE  InScope(conns'[c].row, slotOf[conns'[c].slot])
    <3>1. UNCHANGED <<rows, slotOf, closed>> /\ DOMAIN conns' = DOMAIN conns
      BY <1>1 DEF Reap
    <3>2. \A i, s : InScope(i, s)' <=> InScope(i, s)
      BY <3>1 DEF InScope
    <3> QED BY <3>1, <3>2 DEF NoneStranded
  <2>1. c \notin Doomed /\ conns'[c] = conns[c]
    BY <1>1, ConnHas DEF Reap, ConnRecords
  <2> QED BY <2>1 DEF Doomed, Stands
<1>2. CASE CloseAll
  BY <1>2 DEF CloseAll, NoneStranded
<1>3. ASSUME UNCHANGED <<now, slotOf, freedAt, conns, sinceReap, closed>>,
             \A i \in DOMAIN rows : rows'[i].session = rows[i].session /\ rows'[i].root = rows[i].root
      PROVE  NoneStranded'
  <2>1. \A i \in DOMAIN rows : \A s : InScope(i, s)' <=> InScope(i, s)
    BY <1>3 DEF InScope
  <2> QED BY <1>3, <2>1, ConnHas DEF NoneStranded
<1>4. ASSUME NEW s \in Sessions, NEW m \in Mints, Mint(s, m)
      PROVE  NoneStranded'
  <2>1. rows \in Seq(RowRecords)
    BY DEF MediatorInv, MediatorTypeOK
  <2>2. \A i \in DOMAIN rows : rows'[i] = rows[i]
    BY <1>4, <2>1 DEF Mint
  <2> QED BY <1>3, <1>4, <2>2 DEF Mint
<1>5. ASSUME NEW i \in DOMAIN rows, Revoke(i)
      PROVE  NoneStranded'
  <2>1. \A j \in DOMAIN rows : rows'[j].session = rows[j].session /\ rows'[j].root = rows[j].root
    BY <1>5, RowsTyped DEF Revoke, MediatorInv, RowRecords
  <2> QED BY <1>3, <1>5, <2>1 DEF Revoke
<1>6. CASE Tick
  <2>1. now \in Nat /\ sinceReap \in Nat /\ closed \in BOOLEAN
    BY DEF MediatorInv, MediatorTypeOK
  <2>2. ~closed => now' - sinceReap' = now - sinceReap
    BY <1>6, <2>1 DEF Tick
  <2> QED BY <1>6, <2>2 DEF Tick, NoneStranded, InScope
<1>7. CASE UNCHANGED vars
  BY <1>7 DEF vars, NoneStranded, InScope
<1> QED BY <1>1, <1>2, <1>4, <1>5, <1>6, <1>7, ClaimStrandsNone, ReleaseStrandsNone, ConnsStrandNone DEF Next

\* Session identity is the socket: what is open rides a row of the session its listener has,
\* and a listener released carries what its former session opened or had admitted no longer
\* than one period of the reaper, whoever claims it (index.js:16-20, :142-146, :170).
THEOREM ListenersAlwaysCarryTheirOwn == Spec => []CarriesItsOwn
<1>1. MediatorInv /\ NoneStranded => CarriesItsOwn
  <2> SUFFICES ASSUME MediatorInv, ~closed, NEW c \in DOMAIN conns,
                      \/ freedAt[conns[c].slot] >= now - sinceReap
                      \/ conns[c].openedAt >= now - sinceReap
               PROVE  now <= freedAt[conns[c].slot] + Recheck \/ now <= conns[c].openedAt + Recheck
    BY DEF NoneStranded, CarriesItsOwn
  <2>1. now \in Nat /\ sinceReap \in 0..Recheck /\ Recheck \in Nat /\ freedAt \in [Slots -> Nat]
    BY MediatorAssumption DEF MediatorInv, MediatorTypeOK
  <2>2. conns[c].openedAt \in Nat /\ freedAt[conns[c].slot] \in Nat
    BY <2>1, ConnHas
  <2> QED BY <2>1, <2>2
<1>2. Init => NoneStranded
  BY DEF Init, NoneStranded
<1>3. NoneStranded /\ MediatorInv /\ MediatorInv' /\ [Next]_vars => NoneStranded'
  BY NoneIsEverStranded
<1>4. Spec => []NoneStranded
  BY <1>2, <1>3, MediatorInvariant, PTL DEF Spec
<1> QED BY <1>1, <1>4, MediatorInvariant, PTL

=============================================================================
