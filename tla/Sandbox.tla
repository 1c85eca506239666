------------------------------- MODULE Sandbox -------------------------------
(***************************************************************************)
(* The docker sandbox (packages/sandbox-docker/src): each confined command  *)
(* runs in a container of its own, of one image whose content the           *)
(* composition declared, with the workspace and the mounts granted to the   *)
(* session; a mount is asked for by a tool and granted by an operator.      *)
(*                                                                         *)
(* The daemon is external: it comes and goes, and what the image's tag      *)
(* names changes under the provider.  Paths are sequences of names, a       *)
(* directory a prefix of what is in it.  The network posture is the         *)
(* mediator's (EgressMediator); secrets and masks are left out.             *)
(***************************************************************************)
EXTENDS Clock, SequencesExt, FiniteSets

CONSTANTS
  Sessions,          \* the sessions that run commands
  Declared, Other,   \* the content the provenance record declares, and another
  Gone,              \* the daemon has no such image
  Paths, Existing,   \* the host paths asked for, and those that exist
  Protected,         \* protectedPaths
  MountTerm,         \* grantTtlMs
  MaxMounts,         \* bound
  Unknown            \* nothing asked of the daemon yet

ASSUME MountsLast == MountTerm \in Nat
ASSUME UnknownIsNoInstant == Unknown \notin Nat

VARIABLES
  daemonUp, tag,     \* the daemon, and the content the tag names
  probe, digest,     \* _probeResult and _digestByRef, kept for the provider's life
  mounts,            \* the PathPrefix session grants
  mountAsks,         \* requests waiting for the operator
  containers         \* the last container of each session

sandboxVars == <<daemonUp, tag, probe, digest, mounts, mountAsks, containers>>

SandboxInit ==
  /\ daemonUp = TRUE /\ tag = Declared
  /\ probe = Unknown /\ digest = Unknown
  /\ mounts = <<>> /\ mountAsks = {}
  /\ containers = [s \in Sessions |-> Unknown]

----------------------------------------------------------------------------
(* mounts.js *)

Live(g) == g.revokedAt = Unknown /\ g.expiresAt > now

\* mountGrantsFor: the live grants of this very session.
MountGrantsFor(s) == {[path |-> g.path, mode |-> g.mode] :
                        g \in {g \in ToSet(mounts) : g.session = s /\ Live(g)}}

----------------------------------------------------------------------------
(* provider.js *)

\* ensureAvailable and resolveDigest: asked once.
ProbeNow == IF probe = Unknown THEN daemonUp ELSE probe

\* The digest resolver: the content, or no digest at all.
Resolve == IF daemonUp THEN tag ELSE Gone
DigestNow == IF digest = Unknown THEN Resolve ELSE digest

\* confine, and the docker command it returns run at once: the container is of what
\* the tag names then.
Confine(s) ==
  /\ probe' = ProbeNow
  /\ digest' = IF ProbeNow THEN DigestNow ELSE digest
  /\ containers' = IF ProbeNow /\ DigestNow = Declared /\ daemonUp /\ tag # Gone
                   THEN [containers EXCEPT ![s] = [content |-> tag, binds |-> MountGrantsFor(s), at |-> now]]
                   ELSE containers
  /\ UNCHANGED <<daemonUp, tag, mounts, mountAsks>>

----------------------------------------------------------------------------
(* mount-tool.js *)

\* A mutant: a path around a protected one is let through.
OutsideProtected(path) == path \in Existing /\ \A p \in Protected : ~IsPrefix(p, path)

\* Terminal: a protected path, within or around it, and one that is not there.
Grantable(path) ==
  /\ \A p \in Protected : ~IsPrefix(p, path) /\ ~IsPrefix(path, p)
  /\ path \in Existing

Covered(s, path, mode) ==
  \E g \in MountGrantsFor(s) : IsPrefix(g.path, path) /\ mode \in {g.mode, "ro"}

\* execute, up to its await of the operator's answer.
RequestMount(s, path, mode) ==
  /\ mountAsks' = IF Grantable(path) /\ ~Covered(s, path, mode)
                  THEN mountAsks \cup {[session |-> s, path |-> path, mode |-> mode]}
                  ELSE mountAsks
  /\ UNCHANGED <<daemonUp, tag, probe, digest, mounts, containers>>

\* The answer: allowed once, it becomes a grant whatever changed meanwhile.
AnswerMount ==
  /\ \E ask \in mountAsks :
       /\ mountAsks' = mountAsks \ {ask}
       /\ \/ UNCHANGED mounts
          \/ /\ Len(mounts) < MaxMounts
             /\ mounts' = Append(mounts, [session |-> ask.session, path |-> ask.path, mode |-> ask.mode,
                                          expiresAt |-> now + MountTerm, revokedAt |-> Unknown])
  /\ UNCHANGED <<daemonUp, tag, probe, digest, containers>>

\* The operator's grants-revoke; a container that runs keeps its binds.
RevokeMount ==
  /\ \E i \in DOMAIN mounts : mounts[i].revokedAt = Unknown /\ mounts' = [mounts EXCEPT ![i].revokedAt = now]
  /\ UNCHANGED <<daemonUp, tag, probe, digest, mountAsks, containers>>

----------------------------------------------------------------------------
(* The daemon, external *)

DaemonTurns ==
  /\ daemonUp' = ~daemonUp
  /\ UNCHANGED <<tag, probe, digest, mounts, mountAsks, containers>>

\* A build, a pull or a removal of the image.
TagMoves ==
  /\ daemonUp
  /\ tag' \in {Declared, Other, Gone} \ {tag}
  /\ UNCHANGED <<daemonUp, probe, digest, mounts, mountAsks, containers>>

----------------------------------------------------------------------------
\* CF-1: what a container binds was granted to its own session and in force when it
\* started, however requests, answers, terms and revocations crossed, and neither is
\* nor holds a protected path (mount-tool.js, mounts.js).
BindsWereGranted ==
  \A s \in Sessions : containers[s] # Unknown =>
    LET c == containers[s]
    IN  \A bind \in c.binds :
          /\ \A p \in Protected : ~IsPrefix(p, bind.path) /\ ~IsPrefix(bind.path, p)
          /\ \E g \in ToSet(mounts) :
               /\ g.session = s /\ g.path = bind.path /\ g.mode = bind.mode
               /\ c.at < g.expiresAt /\ (g.revokedAt = Unknown \/ c.at <= g.revokedAt)
=============================================================================
