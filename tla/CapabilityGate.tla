--------------------------- MODULE CapabilityGate ---------------------------
(***************************************************************************)
(* Part VI at run time: the capability gate (packages/capability-gate/src)  *)
(* and the constitution it consults (packages/constitution/src).  A         *)
(* capability of the host obliges the composition to hold the service that  *)
(* binds it and a registered entry for each of its clauses.  What is        *)
(* missing at boot refuses the boot; what goes missing later latches a      *)
(* breach, at the event of a service that comes or goes.                    *)
(*                                                                         *)
(* The framework is external: a plugin runs while every service it injects *)
(* is there, so the constitution leaves and returns with what it requires.  *)
(* Digests, pins and the clause table are facts of a release.               *)
(***************************************************************************)
EXTENDS Naturals, FiniteSets

CONSTANTS
  Services,    \* the services that come and go
  Requires,    \* DEFAULT_REQUIRES
  Register,    \* register.json, the enforced entries: clause and service
  BodyClauses, \* the clauses of the adopted body
  Unbound      \* the boundBy of a part no service binds

VARIABLES
  services,    \* the services mounted
  constituted, \* the constitution's own service is there
  registry,    \* the clauses the constitution holds an enforced entry for
  breach       \* the latch

compositionVars == <<services, constituted, registry, breach>>

\* CAPABILITY_PARTS: what the host may hold, what binds it, and the clauses that wake with it.
Part(hostService, boundBy, clauses, hostTools) ==
  [hostServices |-> {hostService}, boundBy |-> boundBy, clauses |-> clauses, hostTools |-> hostTools]

Parts == { Part("subagents", "compact-specialists", {"MA-1", "MA-2", "MA-3", "MA-4"}, {}),
           Part("sandbox", "compact-sandbox", {"CF-1", "CF-2"}, {}),
           Part("schedule", "compact-dsh-scheduler", {"SCH-1"}, {"schedule_create"}),
           Part("dynamicCordisRunner", Unbound, {"A-4"},
                {"cordis_define", "cordis_run", "cordis_stop", "cordis_undefine"}) }

----------------------------------------------------------------------------
(* constitution/src/index.js *)

\* apply: every service it is coupled to is there, and every entry of the register
\* traces to the body and resolves to a service.
Coupled(svcs) == Requires \subseteq svcs

RegisterResolves(svcs) ==
  \A e \in Register : e.clause \in BodyClauses /\ e.service \in svcs \cup {"constitution"}

\* It leaves with what it requires and starts anew when that is back, unless its
\* register does not resolve then.
ConstitutedAfter(svcs) ==
  Coupled(svcs) /\ (constituted \/ (~Coupled(services) /\ RegisterResolves(svcs)))

\* snapshot: a constitution that starts reads its register.
Registered == {e.clause : e \in Register}

RegistryAfter(svcs) ==
  IF ~ConstitutedAfter(svcs) THEN {} ELSE IF constituted THEN registry ELSE Registered

----------------------------------------------------------------------------
(* parts.js and index.js of the capability gate *)

Triggered(p, svcs) == p.hostServices \cap svcs # {}
IsUnbound(p, svcs) == Triggered(p, svcs) /\ p.boundBy \notin svcs

\* unregisteredClauses: without a constitution there is no registry to check against.
BoundInNameOnly(p, svcs, there, reg) ==
  there /\ Triggered(p, svcs) /\ ~(p.clauses \subseteq reg)

InBreach(svcs, there, reg) ==
  \E p \in Parts : IsUnbound(p, svcs) \/ BoundInNameOnly(p, svcs, there, reg)

\* A mutant: only the services that bind are watched, not those they bind.
WatchesTheBinders(service) ==
  service = "constitution" \/ \E p \in Parts : service = p.boundBy

Watched(service) ==
  service = "constitution" \/ \E p \in Parts : service \in p.hostServices \/ service = p.boundBy

\* internal/service, for each of the services that came or went.
Watch(events, svcs, there, reg) ==
  breach' = IF \E s \in events : Watched(s) THEN InBreach(svcs, there, reg) ELSE breach

Becomes(svcs) ==
  LET moved == (svcs \ services) \cup (services \ svcs)
      events == moved \cup IF ConstitutedAfter(svcs) = constituted THEN {} ELSE {"constitution"}
  IN  /\ services' = svcs
      /\ constituted' = ConstitutedAfter(svcs)
      /\ registry' = RegistryAfter(svcs)
      /\ Watch(events, svcs, ConstitutedAfter(svcs), RegistryAfter(svcs))

Mount == \E s \in Services \ services : Becomes(services \cup {s})
Unmount == \E s \in services : Becomes(services \ {s})

\* register: a rule added at run time, which announces nothing.
RegisterRule ==
  /\ constituted
  /\ \E c \in BodyClauses : registry' = registry \cup {c}
  /\ UNCHANGED <<services, constituted, breach>>

\* A boot: what the gate, the constitution and the readiness check refuse is no state.
CompositionInit ==
  /\ services \in {svcs \in SUBSET Services : Coupled(svcs) /\ RegisterResolves(svcs)}
  /\ constituted = TRUE
  /\ registry = Registered
  /\ breach = FALSE
  /\ ~InBreach(services, constituted, registry)

AbsentTools == UNION {p.hostTools : p \in {p \in Parts : p.boundBy = Unbound}}

Denies(tool) == breach \/ tool \in AbsentTools

=============================================================================
