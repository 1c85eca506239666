------------------------------ MODULE Waterfall ------------------------------
(***************************************************************************)
(* One tool call through the composition packages/blessed/src mounts: the   *)
(* hooks on tools/pre-execute in the order of their registration, then the  *)
(* tool.  A hook decides or hands the call on; a hook that answers "ask"    *)
(* ends the waterfall there, and the host runs the tool if the ask is       *)
(* allowed.                                                                 *)
(*                                                                         *)
(* In order: the workspace anchor, the LoopGuard (a module of its own),     *)
(* promotion, the allowlist, the approval gate (ApprovalGate; here a cache  *)
(* of what was approved), the immutable toolchain, the network analyzer,    *)
(* the consent gate (Delegation), the schedules' cap, the capability gate   *)
(* and the emergency's mark.  The components' own modules hold the rest.    *)
(***************************************************************************)
EXTENDS Emergency, Petition, CapabilityGate, Sandbox, RemoteAccess, Enactment

CONSTANTS
  Foreign,      \* sessions that name a workspace this boot does not expose
  MaxActive,    \* the schedules one session may hold
  MaxCalls,     \* bound
  Slices        \* bound: the parts of the composition that act in one behaviour

VARIABLES
  slice,        \* the parts that act
  calls,        \* how many calls were made
  inFlight,     \* calls waiting for an answer or for a count
  approved,     \* the exec cache: what an approved call leaves
  schedules,    \* the active schedules of a session, the clock's own
  ran           \* the acts: asked about or not, bound or not, when

\* What no call changes: a command as it is written, and the law on disk.
besideVars == <<command, lawVars>>
waterfallVars == <<slice, calls, inFlight, approved, schedules, ran>>
vars == <<now, emergencyVars, petitionVars, compositionVars, sandboxVars, besideVars, waterfallVars>>

\* What a call can be: its tool and what the hooks tell apart.
Operations == [exception |-> {},
               petition  |-> {<<"petition", "plain">>, <<"flag_collision", "plain">>},
               parts     |-> {<<"cordis_define", "plain">>},
               acts      |-> {<<"promotion_record", "evidenced">>, <<"web_fetch", "listed">>},
               refusals  |-> {<<"promotion_record", "bare">>, <<"web_fetch", "unlisted">>,
                              <<"bash", "opaque">>, <<"bash", "install">>},
               sandbox   |-> {<<"bash", "plain">>, <<"bash", "networked">>,
                              <<"sandbox_request_mount", "plain">>},
               clock     |-> {<<"schedule_create", "plain">>},
               shell     |-> {},
               law       |-> {}]

Init ==
  /\ ClockInit /\ EmergencyInit /\ PetitionInit /\ CompositionInit /\ SandboxInit
  /\ ShellInit /\ LawInit
  /\ slice \in Slices
  /\ calls = 0 /\ inFlight = {} /\ approved = {} /\ ran = {}
  /\ schedules = [s \in Sessions |-> 0]

----------------------------------------------------------------------------
(* The tools *)

\* An act that runs, under whatever is in force now.
Runs(id, asked) == ran' = ran \cup {[id |-> id, asked |-> asked, at |-> now,
                                     bound |-> ~InBreach(services, constituted, registry)]}

Execute(s, op) ==
  \/ op[1] = "petition" /\ File(s) /\ UNCHANGED <<counter, sandboxVars, schedules>>
  \/ op[1] = "flag_collision" /\ \E r \in Rules : FlagCollision(r)
     /\ UNCHANGED <<petitions, sandboxVars, schedules>>
  \/ op[1] = "bash" /\ Confine(s) /\ UNCHANGED <<petitionVars, schedules>>
  \/ op[1] = "sandbox_request_mount" /\ \E path \in Paths, mode \in {"ro", "rw"} : RequestMount(s, path, mode)
     /\ UNCHANGED <<petitionVars, schedules>>
  \/ op[1] = "schedule_create" /\ schedules' = [schedules EXCEPT ![s] = @ + 1]
     /\ UNCHANGED <<petitionVars, sandboxVars>>
  \/ op[1] \in {"web_fetch", "promotion_record", "cordis_define"}
     /\ UNCHANGED <<petitionVars, sandboxVars, schedules>>

----------------------------------------------------------------------------
(* The hooks *)

Anchored(s) == s \notin Foreign
Evidenced(op) == op # <<"promotion_record", "bare">>
Listed(op) == op # <<"web_fetch", "unlisted">>
Doomed(op) == op = <<"bash", "install">>
Opaque(op) == op = <<"bash", "opaque">>
NeedsApproval(op) == op \in {<<"web_fetch", "listed">>, <<"bash", "networked">>} \ approved
NeedsCount(op) == op[1] = "schedule_create"

Admitted(s, op) == Anchored(s) /\ Evidenced(op) /\ Listed(op)

\* A call of a session, which begins its way through the hooks.
Begins(s, op) ==
  /\ calls < MaxCalls
  /\ \E part \in slice : op \in Operations[part]
  /\ calls' = calls + 1

\* Refused without a word on the refusal seam: the anchor, promotion, the allowlist.
Refuses(s, op) ==
  /\ Begins(s, op)
  /\ ~Admitted(s, op)
  /\ UNCHANGED <<now, emergencyVars, petitionVars, compositionVars, sandboxVars, besideVars,
                 slice, inFlight, approved, schedules, ran>>

\* Refused on the seam, by tool name: the toolchain, then the analyzer.
RefusesAloud(s, op) ==
  /\ Begins(s, op)
  /\ Admitted(s, op) /\ (Doomed(op) \/ Opaque(op))
  /\ Collide(IF Doomed(op) THEN "CF-1" ELSE "D-7", <<op[1], "by name">>)
  /\ UNCHANGED <<now, emergencyVars, petitions, compositionVars, sandboxVars, besideVars,
                 slice, inFlight, approved, schedules, ran>>

\* The approval gate asks, here or for the analyzer: no later hook sees the call.
Asks(s, op) ==
  /\ Begins(s, op)
  /\ Admitted(s, op) /\ NeedsApproval(op)
  /\ Collide("I-5", op)
  /\ inFlight' = inFlight \cup {[id |-> calls', by |-> s, op |-> op, seen |-> 0]}
  /\ UNCHANGED <<now, emergencyVars, petitions, compositionVars, sandboxVars, besideVars,
                 slice, approved, schedules, ran>>

\* The cap lists the session's schedules, and waits for the list.
Counts(s, op) ==
  /\ Begins(s, op)
  /\ Admitted(s, op) /\ NeedsCount(op)
  /\ inFlight' = inFlight \cup {[id |-> calls', by |-> s, op |-> op, seen |-> schedules[s]]}
  /\ UNCHANGED <<now, emergencyVars, petitionVars, compositionVars, sandboxVars, besideVars,
                 slice, approved, schedules, ran>>

\* The capability gate, the mark, the tool.
Ends(id, s, op) ==
  IF Denies(op[1])
  THEN UNCHANGED <<emergencyVars, petitionVars, sandboxVars, schedules, ran>>
  ELSE MarkAct(id) /\ Runs(id, FALSE) /\ Execute(s, op) /\ UNCHANGED declarations

Passes(s, op) ==
  /\ Begins(s, op)
  /\ Admitted(s, op) /\ ~Doomed(op) /\ ~Opaque(op) /\ ~NeedsApproval(op) /\ ~NeedsCount(op)
  /\ Ends(calls', s, op)
  /\ UNCHANGED <<now, compositionVars, besideVars, slice, inFlight, approved>>

\* The cap decides by the list it was given.
Counted ==
  /\ \E c \in inFlight :
       /\ NeedsCount(c.op)
       /\ inFlight' = inFlight \ {c}
       /\ IF c.seen < MaxActive THEN Ends(c.id, c.by, c.op)
          ELSE UNCHANGED <<emergencyVars, petitionVars, sandboxVars, schedules, ran>>
  /\ UNCHANGED <<now, compositionVars, besideVars, slice, calls, approved>>

\* The operator answers: an allowed call runs and is not asked about again.
Allowed ==
  /\ \E c \in inFlight :
       /\ ~NeedsCount(c.op)
       /\ inFlight' = inFlight \ {c}
       /\ approved' = approved \cup {c.op}
       /\ Runs(c.id, TRUE)
       /\ Execute(c.by, c.op)
  /\ UNCHANGED <<now, emergencyVars, compositionVars, besideVars, slice, calls>>

Declined ==
  /\ \E c \in inFlight : ~NeedsCount(c.op) /\ inFlight' = inFlight \ {c}
  /\ UNCHANGED <<now, emergencyVars, petitionVars, compositionVars, sandboxVars, besideVars,
                 slice, calls, approved, schedules, ran>>

\* The cached approval runs out, by its term or a revocation.
ApprovalLapses ==
  /\ \E op \in approved : approved' = approved \ {op}
  /\ UNCHANGED <<now, emergencyVars, petitionVars, compositionVars, sandboxVars, besideVars,
                 slice, calls, inFlight, schedules, ran>>

\* A schedule is cancelled or lapses.
ScheduleEnds ==
  /\ \E s \in Sessions : schedules[s] > 0 /\ schedules' = [schedules EXCEPT ![s] = @ - 1]
  /\ UNCHANGED <<now, emergencyVars, petitionVars, compositionVars, sandboxVars, besideVars,
                 slice, calls, inFlight, approved, ran>>

----------------------------------------------------------------------------
(* What the operator and the host do, in the parts that act *)

Exception == /\ "exception" \in slice
             /\ Declare \/ Revoke
             /\ UNCHANGED <<now, petitionVars, compositionVars, sandboxVars, besideVars, waterfallVars>>

Deciding == /\ "petition" \in slice
            /\ Respond \/ Dissent
            /\ UNCHANGED <<now, emergencyVars, compositionVars, sandboxVars, besideVars, waterfallVars>>

Recomposing == /\ "parts" \in slice
               /\ Mount \/ Unmount \/ RegisterRule
               /\ UNCHANGED <<now, emergencyVars, petitionVars, sandboxVars, besideVars, waterfallVars>>

Provisioning == /\ "sandbox" \in slice
                /\ AnswerMount \/ RevokeMount \/ DaemonTurns \/ TagMoves
                /\ UNCHANGED <<now, emergencyVars, petitionVars, compositionVars, besideVars, waterfallVars>>

\* A command is written, word by word, for the analyzer to read.
Writing == /\ "shell" \in slice
           /\ ShellActs
           /\ UNCHANGED <<now, emergencyVars, petitionVars, compositionVars, sandboxVars, lawVars,
                          waterfallVars>>

\* The law is amended.
Amending == /\ "law" \in slice
            /\ LawActs
            /\ UNCHANGED <<now, emergencyVars, petitionVars, compositionVars, sandboxVars, command,
                           waterfallVars>>

TimePasses == /\ slice \cap {"shell", "law"} = {}
              /\ Tick
              /\ UNCHANGED <<emergencyVars, petitionVars, compositionVars, sandboxVars, besideVars, waterfallVars>>

Next ==
  \/ \E s \in Sessions : \E op \in UNION {Operations[part] : part \in slice} :
       Refuses(s, op) \/ RefusesAloud(s, op) \/ Asks(s, op) \/ Counts(s, op) \/ Passes(s, op)
  \/ Counted \/ Allowed \/ Declined \/ ApprovalLapses \/ ScheduleEnds
  \/ Exception \/ Deciding \/ Recomposing \/ Provisioning \/ Writing
  \/ Amending \/ TimePasses

Spec == Init /\ [][Next]_vars

----------------------------------------------------------------------------
\* D-8 and A-8 of a call no ask took out of the waterfall: it ran only while every
\* capability of the host was bound and registered, however services came and went
\* (capability-gate/src/index.js:63-65), and it is marked under each declaration that
\* was in force, not under one of them (emergency/src/index.js:128-131).
UnaskedActsAreGoverned ==
  \A r \in ran : ~r.asked =>
    /\ r.bound
    /\ \A i \in Accepted :
         LET d == declarations[i]
         IN  d.declaredAt < r.at /\ r.at < d.expiresAt /\ (d.revokedAt = None \/ r.at < d.revokedAt)
               => [act |-> r.id, under |-> i] \in emergencyActs
=============================================================================
