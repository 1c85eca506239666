# compact-dsh: a TLA+ development

compact-dsh is a set of plugins around an agent runtime (the *host*, not in this
repository): each tool call an agent makes passes gates that ask an operator,
network traffic leaves a sandbox only through a mediator that enforces the
operator's grants, and what every session did is kept on a hash-chained record.
Around this core stand institutions (cases, petitions, emergencies, departures,
communities) that decide over what the record holds.

This directory holds TLA+ models of the parts whose correctness depends on the
order of steps taken by several actors, TLC runs on small instances, and TLAPS
proofs for instances of any size. `PROJECT.json` lists the components, the runs,
the theorems, the hazards they are about, for every property a bug of the code
that breaks it, and, definition by definition, the lines modelled.

    tlc -workers 2 -config GateConsent.cfg MCApprovalGate
    tlapm ApprovalGateProofs.tla

## Inventory

Paths are under `src/packages/` unless they say otherwise. "Correct" says what
makes the part right; the last column names the modules.

| Component | State and operations | Hard behaviour | Correct when | Modules |
|---|---|---|---|---|
| **approval gate** `approval/` | grant rows, exec cache, pending records, flood counts, ask records; five-layer evaluation, dispatch, answer, commands, sweeps, the wire's lessons | asks wait for a human while other asks, revocations and the clock go on | a yes is used by the call it was given to, within its terms, and ends when revoked | `GrantPatterns`, `ApprovalGate` |
| **night watch** `night-watch/` | the appointed decider | the row it names may be gone by the verdict | it spends only rows that stand | in `ApprovalGate` |
| **grant persistence** `approval/src/persist.js` | the store file, flushed by every durable mutator | crash, power loss, a flush that throws | the file is always a whole store; what was revoked stays revoked | `GrantDurability` |
| **egress mediator** `egress-proxy/` | listeners, tunnels, exchanges, reaper | rows die between verdict and dial, and while a tunnel is open; a listener is released and claimed again | traffic flows only where a live row of the listener's session let it | `EgressMediator` |
| **remote access** `remote-access/` | none: findings of a shell command | words read without the shell's grammar | it errs towards asking | `RemoteAccess` |
| **record** `record/` | sidecars of links and anchors, buffered writer, verified reads | deaths between the files, retries, readers beside writers | the log is evidence; no act is lost; a reading is the record | `RecordChain`, `RecordRead` |
| **loop guard** `loopguard/` | counts, latch, halt, repairs of a session | calls in flight, a message that races a trip | a trip waits for the Principal, and its budget ends the session | `LoopGuard` |
| **sandbox** `sandbox-docker/` | mount grants, probe and digest caches, containers | a grant lapses or a tag moves under a session | what is bound was granted | `Sandbox` |
| **judicature** `judicature/` | docket of cases, panels, appeals, remedies | identities and rows change between filing and judgment; machinery that fails | parties recuse; one final disposition; remedies happened | `CaseDisposition`, `Collisions`, `Judicature` |
| **petition** `petition/` | petitions, responses, dissents, collision counts | two deciders, refusals of the same rule | a decision stands | `Petition`, `Collisions` |
| **emergency** `emergency/` | declarations, marks | revocation and expiry at an instant | no renewal passes for a fresh declaration | `Clock`, `Emergency` |
| **constitution, capability gate** | registry, coupling, breach latch | services come and go after boot | no act runs unbound | `CapabilityGate` |
| **composition** `blessed/`, with promotion, allowlist, scheduler | order of the hooks on a call, readiness | one hook's answer hides the next | what was not asked about is governed | `Waterfall` |
| **exit** `exit/` | ledger of debts, departure records | undeclared ends, handovers in part | debts outlive the debtor | `Departure` |
| **specialists** `specialists/` | child-state registry, consent scopes | runs of one child overlap; restarts | parents know; only delegation opens attention | `Delegation` |
| **seals, self-model** `seals/`, `self-model/` | member roll, checkpoints, certificates, ledger | rows in any order, lines lost, boots between | the roll reads as what its offices did; the audit names what is lost | `Membership`, `Roll`, `Identity` |
| **amendment** `src/tools/rehearsal-amendment.mjs`, boot verification | body, pin, seal, registers, annex, ledger | a death between two writes | what boots is a law the ledger has | `Enactment` |
| **community** `community/`, **forum** `forum/` | rounds, budgets, members, controls, board, ledger, changes lane | a member who never answers; presses, deaths and resumes | every run ends, for its reason; a boot replays what was posted | `Community`, `Changes`, `Charter` |
| **human seat, page** `community/src/human*.js`, `page.js`, `observatory.js` | cards, history feed, half-typed words | answers race timeouts and withdrawals; polls overlap presses | one answer per card; words are kept | `HumanSeat` |
| **launcher, archive** `src/tools/` | manifests, identity set, timeline | a launch dies anywhere | earlier cuts stay; members keep their keys | `RunArchive`, `RecordRead` |
| envelope, guide, card | none: rendering, static pages | none | | not modelled |

How they interact: the gate's rows are read by the mediator at every verdict;
the mediator reports refusals back to the gate, which drops cached approvals of
the dead route; persistence stands under the gate's store; the night watch
answers through the gate; every gate is a hook of one waterfall that `blessed`
orders; the record observes the host's sessions and is read by the institutions,
whose evidence it is; the judicature counts collisions with the petition
channel's counter and grants through the gate; the exit reads the asks and the
runs that others hold; the community engine drives members through the human
seat and the forum and is itself a run the launcher archives.

## Modules

All plugins live in one JavaScript process: an action is the code between two
awaits, and every other action may come in between. Digests, hashes and
signatures are modelled by what they commit to; texts, wording and layout are
left out. `MC...` modules give constants small values.

**The gate.** `GrantPatterns` is pure: patterns, matching, canonical targets,
method classes. What the code computes character by character (lower case,
subdomain, segment prefix) are constants; a fingerprint keeps the query's shape,
a canonical target its origin and path without the default port. `ApprovalGate`:
`Gate` is the pre-execute evaluation, `Dispatch` the correlation of a request to
its ask record (`takeAsk`, with its fallback to the oldest), `Resolve` the wait
for a name, then `OperatorAllows`, `Refuse` or `WatchAllows`; `PolicyAnswer` is a
host that answers without dispatching; commands, plans, wire refusals, the clock
and restarts may come between any two. `calls` records each call and the row it
runs on the account of (`basis`); `yes` is history. `GrantDurability` refines
"the mutator flushed" into the steps of `_flush`; `EgressMediator` follows each
connection through verdict, resolver, dial, open and closed, with the reaper and
`closeAll`; listeners are claimed (`envFor`) and released, and a connection is judged
by the session its listener has when it arrives, and at each reap. `freedAt` is
history.

**The record.** `RecordChain` is one session's record: `links`, `torn` and
`anchors` are the sidecars, `log` and `synced` the host's persistence, `op` the
head of the writer's queue: a batch is committed (`Commit`), appended
(`InnerAppend`) and anchored (`Anchor`), each of which may fail, and the process
or the machine may die in between. `RecordRead` pages through a record that
grows, by chunks, under a limit, and over the ranges a case cites, another's
reasoning listed and withheld; it holds too the
archive's timeline and counts, read back from a log that may be cut short.

**The guard.** `LoopGuard`: the record `guard` has the fields of the class
`Guard`, an operator each of its methods, an action each hook of `index.js`.

**The composition.** `Waterfall` takes a call through the hooks in the order of
their registration; `Emergency`, `Petition`, `CapabilityGate`, `Sandbox`,
`RemoteAccess` and `Enactment` hold the components it composes, over `Clock`.
Each step is a step of one component and leaves the others alone.

**The institutions.** `Judicature` is the docket with its doors, over
`Collisions`; `CaseDisposition` is the abstract life of a case it implements.
`Delegation` is the child-state registry and the consent scopes; `Departure`
composes the exit over it. `Roll` is the member roll, `Identity` the
certificates over it; `Membership` is the abstract roll it implements.

**The live run.** `Community` is the engine with the operator's controls and the
forum; `HumanSeat` the seat's cards and the page that shows them; `Charter` the
roster and whose session is whose, with what a turn is told and cites; `Changes`
the workspace lane; `RunArchive` launches that continue one another. `LiveRun`
runs the last ones together.

## Runs

Twelve runs, one for each distinct question.

| Run | Instance | Shows |
|---|---|---|
| `gate_consent` | mediated posture; a query fetch and a secret-naming command; two calls, three rows, clock to 2 | budgets hold; a revocation reaches the cache; a cached approval is one the operator gave and lives within its egress row; a call runs under a row that stands *then* |
| `gate_pending` | open posture; two command-scoped operations, three calls dispatched late or out of order, clock to 3, flood cap 1 | every taken slot is backed by a record; no ask record is claimed twice |
| `mediator` | a session and its child, one listener between them, one connection, two rows, clock to 3, recheck period 1 | a row's death cuts what it carries within one recheck; a dial goes where consent was given; a listener released carries its former session's traffic no longer than one recheck |
| `durability` | four calls, two faults | the target always loads; revocations survive |
| `record` | two acts, up to three on the record, two openings, one failure, all five kinds of fault | the log is evidence; reads beside a writer verify; no act is lost or misplaced |
| `loop` | two commands and a spawn, two questions, two calls in flight, eight log positions, small limits, one repair | repairs end the session class by class; work waits for the Principal |
| `judicature` | two cases, three sets, four sessions of three Members, one remedy | named Members recuse; claimed writes happened; the docket implements `CaseDisposition` |
| `community` | two workers (one human) and a judge, two charters, two acts, two posts, a case, two presses, a kill | the run ends for its reason, and ends; a replay is the beginning of the board |
| `departure` | a root and two specialists, two runs in all that may overlap, depth 2, a restart, an ask, one declaration | parents see their children; only delegation opens; debts outlive the debtor |
| `waterfall` | slices of the composition, two at a time or one alone | no fresh emergency; decisions stand; unasked acts are governed; binds were granted; the analyzer errs towards asking; what boots is the ledger's law |
| `identity` | a lead, its child and grandchild; two authorities; three certificates, two roll rows, one lost line | the audit names what is lost; shown chains hold; anchored rows are the offices'; the roll implements `Membership` |
| `live_run` | the slices of `LiveRun`, one at a time | the seat and the page hold; cuts are kept; readings are the record; deeds are their members'; words are kept; members keep their keys |

Every configuration says `CHECK_DEADLOCK FALSE`: calls, rows, acts, failures and
the clock are bounded, and a behaviour that has used them up stops.

Why the bounds suffice. *Gate*: every hazard is between two calls (a yes lent to
the other, a budget spent twice, a slot leaked) and at most three rows (desk,
egress, pattern); lives are one or two ticks, so that each may lapse at every
other's boundary, and the clock runs past them. *Mediator*: connections interact
only through rows and listeners, so one connection and two rows (one dying, one
covering) show every verdict; with one listener the pool is exhausted as soon as one
session has it, and whoever claims it next finds it used; a child's rows are in part
its parent's; time 3 is a row's life, which outlasts a recheck, and one more.
*Durability*: a fault and a second one during the recovery from it. *Record*:
three acts make a batch of two with one before or after it, which is what stale
or torn links need; a second opening finds what the first left. *Loop*: with the
limits of `MCLimit` the log positions raise each trip that can be raised and lift
it, and spend the budget of five; the call window is never overrun. *Judicature*:
a case and its precedent, a set each for the first hearing, the appeal and the
exclusion of a dependent one; flood cap 1, so that a second filing meets it.
*Community*: two rounds, since a second is where a stop, a fence or a replay
meets what the first left. *Departure*: two runs of one child overlap in every
order; depth 2 has an ask whose root is not its asker. *Waterfall*: the slices
are {exception, acts}, {exception, parts}, {acts, parts}, {petition, refusals},
{petition, parts}, {clock, parts}, {sandbox}, {shell}, {law}: components share only
the clock, the services and a call, and each pair that meets in a hook is there.
Commands have at most four of 27 words, a verb with its subcommand, a flag and
what it reaches; two calls and two declarations within three instants; three
enactments, a key rotation, and a quorum of two of three. Of the parts a boot
requires, only the confining one and the dynamic runner come and go: the rest
latch the same way. *Identity*: three rows of the roll may be appended, refused
ones among them, two of them before a checkpoint of each of two epochs. *Live
run*: two cards of one instant's term, a history of two rows; three launches; five
acts read in three pages by chunks of two; files of three lines; rosters of at
most two members over three prefixes and four tags, three of which are traps of
one another; three posts over four turns.

Symmetric sets (acts, operations, deciders, agents,
authorities) are used where no liveness is checked and no property names one of
them; `community` has none.

Fairness is assumed in `community` alone, weak, of the engine's own steps, of a
member's turn coming to its end and of a card's timer: promises and timers of one
process run. Nothing is assumed of the operator: `EveryRunEnds` excepts the run
its Principal leaves paused where the charter lets it.

## Refinements

| Abstract | Detailed | Mapping | Shown by |
|---|---|---|---|
| `CaseDisposition`: a case is decided at most once, contested at most once, what an independent bench then decides is final, and remedies are of the bench whose word stands, never while it is re-heard | `Judicature` | `StageOf`, `SpokeOf`, `RemediedOf`, read off a row of the docket | proof (`DocketImplementsDisposition`) and run `judicature` |
| `Membership`: Members enter, re-key and leave | `Roll`: rows in any order, some refused, epochs with checkpoints | `Standing(entries)`, the Members the verifier reads in the rows | proof (`RollImplementsMembership`) and run `identity` |

`GrantDurability` is a refinement of grain rather than of a specification: it
splits one step of the gate, "the mutator flushed", and shows what makes it sound
to take it as one.

## Proofs

The proofs hold for every value of the constants that satisfies the assumptions
the modules name; TLC evaluates each assumption in the runs. Each says something
of a value the code gets from its configuration or its host, or makes itself:

- scopes, terms, spans, instants and bounds are of their type (`ScopesAssumption`,
  `TermsAssumption`, `TermsAreTimes`, `MintsAreTerms`, `SpansOfTime`, `TermIsASpan`,
  `MountsLast`, `FilesAreTold`), rosters are lists without repetition
  (`MembersAreInOrder`, `MembersAreDistinct`) and ids are texts (`IdsAreSequences`);
- an absent value is no value (`None...`, `UnknownIsNoInstant`) and a file cut short
  no text (`CutsAreNoTexts`);
- limits and windows are positive where the code would divide or index by them
  (`LimitsArePositive`, `WindowsHold`, `RecordBounds`, `ThresholdIsPositive`), a
  framing shows no more than is read for it (`LimitsAreOrdered`) and the history
  holds the rows it replays (`FreshRowsAreRemembered`);
- a run's tag is hex, so has no dash (`TagsHaveNoDash`, `community-live.mjs:819`);
- in the judicature, sets are declared in an order, lineages are trees and a filing
  cites sessions there are (`SetsAreOrdered`, `LineagesAreApart`, `SessionsAreBound`,
  `FilingsCiteSessions`); headers, too, are lineages (`HeadersAreLineages`).

Every invariant below is inductive: it holds at first, each action keeps it, and it
implies the property. Where a definition reads a whole history by a recursive
function (the roll, a lineage, the ledger), what holds of it is shown of a least
counterexample: were it false of some length, it would be of a least one, and one
unfolding contradicts that. The induction theorems of the library, which take an
operator, are not needed for that.

**`ApprovalGateProofs`.** `GateInv` joins the types to two facts types cannot do
without: rows are dated no later than the clock, so that the newest of a set of
rows exists, and cards and bases name rows. One lemma per operator says what it
keeps, one step per action combines them.

- `BudgetsHold`: `UsesCounted`, a row's `uses` is at least the executions on its
  account, a waiting call being charged to none; the bound is `consumeUse`'s guard.
- `RevocationReaches`: from `GateInv`.
- `RunsAlwaysUnder`, `CacheAlwaysApproved`: a request claims its own call's record
  (`AsksAreTheirs`), which is so where the host dispatches an ask before time
  passes and gives the call's id (`Correlated`, a condition on two constants that
  the run `gate_consent` has; without it the fallback to the oldest ask lends a
  yes, see Divergences). The cache needs besides that a fingerprint tells whether
  the mediator delivers the operation (`DeliveredAlike`): the same command, or the
  same read, goes the same way.
- `PendingAlwaysExact`: every slot taken is backed by a record of its root
  (`SlotsInv`), and a record is in the queue or with one waiting call
  (`ClaimsApart`). It is proved of one lineage in which no command names a secret
  (`Plain`): with two roots, or a secret, the code does leak a slot (Divergences 3
  and 7), which is how the conditions were found.

**`GrantProofs`**, of the store and of the mediator. `DurInv`: the image under flush *is* the store in
memory, since nothing else mutates during the synchronous flush; it is whole from
the data sync on; and what a returned mutator took away is away in memory, in the
target and, where the directory was synced, on disk.

`MediatorInv`: what is open over a dead row died, or was
opened, since the last reap (`NoneOverlooked`); the reaper being urgent, that is
one period. `RowsAreDated` makes death permanent; `RidesItsRow` keeps a connection
on a row in its session's scope, through dials that finish after a verdict.
`NoneStranded` is the same argument for listeners: what is open over a row that is not
the listener's session's was opened, or its listener released, since the last reap. A
claim strands nothing, since a listener without a session has no rows.

**`RecordChainProofs`.** That the log verifies is not inductive, since links are
committed before the log they link exists. `RecInv`: below the log's length the
links are the log's own histories (`Linked(log)`); between a batch's links and its
append they are those of the log it makes (`Linked(log \o BatchActs)`), so every
prefix a death leaves is linked; an accepted batch starts where the log ends
(`CursorTrue`), so its links overwrite none of the log's. It holds while no line of
the sidecar was cut (`"torn" \notin met`), which the code needs too (Divergences 5).
`KeptInv`, for `ActsAlwaysKept`, needs no such condition: the log is the first of
the acts, and the batch under way with the buffer behind it holds the rest, each
under its place.

**`WaterfallProofs`.** The first section says what a step of the composition is to
each part: time passes, an act runs bound and marked, or it is a step of the part's
own. Each invariant is then kept by the part's operations: `EmergencyInv`
(declarations dated in time, `RenewalOf` finds a prior where there is one),
`GovernedInv` (a part out of place has latched the breach: `Latched`),
`PetitionInv` (a dissent names the decision on record, dated after what failed), `SandboxInv`
(a mount is of a path outside the protected ones, a bind of a mount that stood when
the container was confined), and `LawInv` for the law on disk: `WrittenSoFar` says what
a run of the amendment tool has written by each of its phases, `HalfIsTold` that one
which stopped half way left a seal over another law or an annex behind it (the seal is
the first file written and the annex the last), `LedgerAhead` that the ledger counts
what the law holds and what is still owed to it. `ShellAlwaysAsks` needs no history:
it is proved of any line of words. Before a part's verb there are assignments alone,
so the word a shell executes is never an inspector's argument; a verb's own finding
is missing only where it names a URL, which is a finding; and a part read as a
reading has a verb that neither writes nor runs another. Three exceptions are named
for what the code's lists lack (`FlagFirst`, `NoSignal`, `NotListed`; Divergences,
*Remote access*): without any one of them TLC refutes the property, and within them
nothing is claimed.

**`AgentProofs`**, of what bounds an agent. *The guard*: an observation changes counts alone, or raises one trip
(one lemma per tracker); what is proved of `Raise` is then proved of them all.
`GuardInv` is `RepairsBounded` (a class of trip has at most its budget of repairs,
and one more exactly when it has halted the session) and `LatchWaits` (what lifts a
latch was appended after it).

*Delegation and departure*: `DelegationInv`: the registry's records are the runs of this
process, and each live agent's last notice is the registry's picture of its
children. `ExitInv`: who declared or is gone has a record that is complete; a
disposal writes what the declaration had not.

*The community*: `RunInv`. A turn is in flight only where the engine drives one
(`place` and `turn` agree), a round's docket only grows while its cases are judged,
and the seats the engine has passed were woken for each case that was on a docket
unchanged since the round began. So a round in which nobody spoke heard every case,
which is what a quiet end must show (`SeatsHeard`, `QuietIsHeard`). For the replay,
every beginning of the ledger that a boot would take, rows numbered without a gap, is
the beginning of the board (`ReplaysTheBoard`): a failed append leaves the gap at which
the replay ends.

**`JudicatureProofs`.** `JudicatureInv` is the types and, per case, `CaseInv`: the
seats of a panel are those of its set that no party's standing connects to; a
judgment comes from a seat of the panel that the judge then held; an appeal
follows a judgment and its set is independent of the first. The refinement maps
each door to the step of `CaseDisposition` it takes, or to a stutter.
`NamedAlwaysRecuse` adds that a key of a lineage expands to the whole of it,
however often it was re-keyed. `ClaimsAlwaysTrue`: a remedy's row is written in the step that
wrote what it claims, and nothing later takes that back: a standing stays written, a
revoked grant revoked, and each referral and followed precedent stays counted once.

**`IdentityProofs`.** *The roll*: how one more row moves the reading of the rows
before it, which is one step of `Membership` or none, whoever signed it; then
`RollInv`, that the head of every checkpoint is the rows through its last event, and
that what the verifier reads is a membership in order. *Sessions over a roll*
(`SessionsKeepTheRoll`) are steps of the office or leave the roll alone, so what is
proved of the roll holds under them. *Certificates*: one says the depth and the
parent of its session's header and names an earlier certificate, that parent's
(`CertsOK`), so that a chain followed upwards goes down in depth and ends; the one in
force is of the Member its session is bound to; and what a Member's key was bound to
at a boot only grows (`BootOK`), through rotations and revocations.

**`LiveRunProofs`**, in parts that share no variable but the page's with the seat's.

- *The directory* (`FilesInvariant`): a launch copies the manifest it finds before it
  writes its own, so `run.json` never holds the only trace of an older cut
  (`CopiedFirst`); and a roll that verifies has on disk the keys it names, so that a
  launch that keeps the set finds them all (`PemsAreTheRolls`).
- *The seat and its page* (`SeatAndPageInvariant`): a halted floor is idle; each draft
  is one card's. Answers to `/state` are numbered in the order the server gave them,
  and a later one has every waiting card an earlier one has (`StatesAgree`), which is
  why rendering any of them loses no card that still waits; a button whose card goes
  pressed one that no longer waits (`PressesAreTold`). The rows on their way in a
  stream are consecutive and end with the feed's last (`RowsRunOn`), and the first of
  them follows the last row the page saw or begins the server's memory
  (`StreamTakesUp`).
- *The charter* (`MembersInvariant`): a seated session is its prefix, a dash and the
  tag, and tags have no dash; so of the prefixes a session begins with, the longest is
  its own member's, unless another's goes on into the tag, which the property excepts.
- *The news*: posts past a member's cursor are the others', those between its last
  framing and its cursor its own (`CursorsPassTheirOwn`), and while it has its turn no
  one else posts (`TurnsAreTheirMembers`); the newest of what is read are the newest of
  all, since a framing shows no more than is read.
- *What is read of a run* (`RecordInvariant`), four readings, each with an invariant of
  its own. *Pages* (`Cursored`): between the first act shown and the cursor every act
  the reader may read has been shown; a page is the beginning of a window, or its end,
  and a window from the cursor has no gap (`Window`): a stretch, chunks up to a short
  one or to enough, or ranges that do not overlap. *The archive and the report* fold
  the same log, and after each row they agree with what the rows say of each call
  (`BothOK`): the open entry of an id is the one call of it with no row of its id
  after it. *The diff*: every cell of the table bounds any common subsequence of what
  is left of the two texts (`CommonIsMost`), and the walk from it keeps that many
  lines (`WalkAccounts`), so the counts add up report after report (`AccountAddsUp`).
  *The lane*: a line holds its reports in order, one more than the deaths that tore it
  at most (`LineOK`).

A fold over a log, a table or a walk is a function here, and what it computes for every
input is proved by least counterexample: the library's induction takes an operator,
which the provers cannot instantiate, but that a set of naturals has a least element
(`LeastNumber`) follows from its theorem on finite subsets.

Three properties are stated of the code's whole answer and proved with a condition
(`Correlated`, `Plain`, `"torn" \notin met`); each condition is met by the run that
checks the same property, and each was needed: the divergence it stands for is
listed below.

### Only model-checked

Liveness (`EveryRunEnds`) and whatever rests on fairness are out of TLAPS's reach here.
Every safety invariant and action property of the runs is stated by a theorem.

## Divergences found

Where the code does other than a comment or a document says, or than one expects.
The numbered ones are counterexamples TLC found on these models; the property
concerned now excepts the case, or its run leaves it out. The others were met
while modelling.

1. `approval/src/index.js:966-971` re-checks life and budget of the row the night
   watch names, not its method class, so a write runs on the account of a
   read-only row; `index.js:955-957` says a wrong yes is bounded by class.
2. `approval/src/grants.js:277-279` kills cache entries by matching the revoked
   pattern on canonical targets; the host-and-port row minted for a URL without a
   port never matches one, so revoking it leaves the approval replaying.
3. `approval/src/index.js:1184`: an ask of a command naming a secret takes a flood
   slot and leaves no pending record; answered by policy, it never returns it.
4. `approval/src/persist.js:149`: a route kill whose flush failed is not flushed by
   the next refusal, which finds nothing to kill; a restart loads the entry again.
5. `record/src/store.js:66-70` appends to a sidecar that ends in half a line: the
   next batch's first link is lost and the session's record no longer verifies.
6. `record/src/provider.js:116-128` puts back a batch the log already holds when
   its anchor fails; every later drain is refused.
7. `approval/src/grants.js:245`: `resolvePending(root, fp)` drops the one record of
   a fingerprint whatever root it was recorded under, and returns the slot of the
   root that asks. Two roots that ask the same: the answer to the second drops the
   first's record, and the first, answered by policy, never returns its slot.

**Gate, record, guard.**

- The flood cap counts asks, a deduplicated ask releases a slot it did not take;
  layer 4's dedup still asks again.
- A request dispatched after its record's TTL takes the oldest ask of the same
  tool (`takeAsk`'s fallback) and materialises that act's fingerprint; the run
  `gate_consent`, and the theorems about it, assume prompt dispatch.
- A URL pattern typed with a query is matched by an unanchored path.
- `remote-access` returns the first finding that asks; later findings of the same
  command are not gated, though `docs/history-phases.md:83` says every finding is routed.
- Links past the end of the log, left by a death between sidecar and log, stay
  until overwritten: `lastSeq`, the chain head and an anchor signed meanwhile
  commit to acts that never reached the log (`store.js:17-18` calls this
  harmless, "nothing claims it did").
- `handle.append` of the record's provider writes no anchor, so a flush right
  after it leaves the head unanchored; `verifyAnchors` reads the anchors before
  an await and the links after it, and may report a fresh flush as stale.
- `loopguard/src/index.js:201-213`: a refusal and a provider failure raise their
  trip (LG-9, LG-12, LG-6) at the log position of the last *call*, so a turn that
  had already begun lifts the latch at the next call, with no message since;
  `index.js:124-126` says the message is one 'appended AFTER the latch was raised'.
  In a session with no call yet the position is the largest integer and the log
  never lifts it. `WorkWaitsForThePrincipal` excepts these three trips (`Placeless`).
- LG-11 can never be raised: `observeAnnotation` is called only while a trip
  stands (`index.js:154-156`), when `raise` changes nothing.
- LG-6 counts provider failures since the last turn, not consecutive ones: a
  success in between resets nothing (`trips.js:182-188`).
- The shape gate counts the empty answer of a floor call as work's failure
  (`index.js:181-190`), and so latches work; `index.js:163` says the floor is not work.
- What `remote-access` denies as opaque is reported with `session: null`
  (`remote-access/src/index.js:45`) and counts against the guard `root`, which
  every other session's denials share and no named session reads.
- `record_read` shows a post twice where cited ranges overlap without being
  identical, and again when paged by `from_seq`.

**Egress mediator.**

- `egress-proxy/src/index.js:17` says "A slot is assigned to a session once", `:145`
  that it "keeps it for the boot"; `release` (`:169-174`, and
  `test/plugin.test.js:63`) frees it for another session. Nothing in `src/` but that
  test calls it. A container that still has the URL of a released listener is then
  decided under the rows of the session that claimed it next. `CarriesItsOwn` bounds
  what goes the other way: what the former session had open is cut within one recheck.

**Remote access.**

- `WRITE_SIGNALS` (`analyzer.js:77-85`) lacks curl's `-T`, `--json` and an attached body
  (`-dX`): `curl -T f https://h` is classed read, though `:71-76` says that a false
  'read' "would OVERCLAIM consent" and `:160-163` and `:273-274` know `-T`. One class is
  given to a whole line, so that what `ssh` or `nc` sends is a read beside a `curl`
  (`NoSignal`).
- `CURL_LOCAL_WRITE_FLAGS` (`:160-163`) lacks `-D f`, `-c f` and an attached `-ofile`:
  such a curl is provably a reading, though `:156` says it is so "only when it
  writes nowhere locally" (`NotListed`).
- A flag between verb and subcommand (`git -C dir push`, `npm -g install`) yields no
  finding, nor does `npm publish`, though `analyzer.js:1-5` says it
  over-approximates; a newline does not separate commands; `rest` runs across
  separators and `remoteOf` prefers shaped words, so that a verb may be gated for
  another command's host. The first is `FlagFirst`.
- `docker push` has no write signal; `env X rm f` and `sort -o` (`NotListed`), and
  `git branch -D`, `git tag`, `git remote add` and `hostname x`, which are not among
  the words, are classed read.
- Findings are gated in order, so what is refused as opaque may be refused after the
  operator was asked for another; deduplication keeps the first verb of a target.

**Composition, emergency, scheduler.**

- A hook that answers 'ask' ends the waterfall, and the capability gate and the
  emergency stand after such hooks (`blessed/src/index.js:748`): an act the operator
  allows runs unmarked, though `constitution/register.json:885` says every act under
  a declaration is marked, and despite a breach that denies "every tool call".
- `petition` is denied under a breach, though "gated by nothing"; unmounting the
  constitution clears a breach of what is bound in name only; `RegisterRule` fires no
  event, so a breach it cures stays latched.
- The scheduler's cap is counted before an await (`scheduler/src/index.js:43`): two
  calls that overlap are both the last that fits.
- Revoking a declaration after it expired moves its end, so that a fresh one counts as
  a renewal; scopes are compared as texts.

**Sandbox.**

- A failed probe or digest is kept for ever, though the next moves offered say pull or
  build; a tag moved after the first `confine` goes unnoticed
  (`provider.js:108-114`, against `:16-18`, "every confine re-resolves its content digest").
- A read-only then a writable grant of one path make two mounts of one target; the
  mount tool grants after its await without looking again; revoking a grant leaves a
  running container bound.

**Judicature.**

- Recusal on appeal uses the parties without their lineages (`appeals.js:103`). Hearing
  resolves only cited sessions; one without a certificate contributes no key, and a
  cited session's parent is a party by its process alone, so either may later hold a
  bench seat, against "no party ever holds a seat on its own case".
- A revocation's row cites the first judgment's seat after an appellate one, and
  remedies of the first judgment stand after an appeal departs from it; a restitution
  is never discharged; `grantSession` throwing leaves a grant without its row.
- "Seating one revives the route" (`appeals.js:67`), but an appeal's panel is never
  resolved again; a revoked Member is looked for at filing only.
- A counsel's access ends at the first judgment, though an appeal re-hears; a bench seat
  not held by key judges and cannot read; `flag()` always makes a new instance.

**Specialists, exit.**

- "X may no longer address you" (`consent.js:271`) is said while another scope of the
  pair stands; a new run of the same child opens again what was withdrawn; consent is
  checked at the gate and not at delivery (`consent.js:233-234`).
- `pendingGatesOf` looks for `p.root === sid` (`ledger.js:43`), but a child's root is its
  parent, against "asks this Subject raised"; debts made after the declaration are not
  recorded at disposal; after a restart a declared departure is recorded as undeclared.

**Roll, identity, amendment.**

- `closeEpoch` with no new event, or on an empty roll, emits a checkpoint the verifier
  refuses; closing after more than `epochLength` events makes the roll never verify again.
- The roll is read once at boot: a Member revoked or re-keyed later keeps its state,
  though `docs/concept-member-identity.md:302` says the door refuses it; a child
  certified while its parent's header was unread stays unchained, and `attest` of a
  session with an unreadable header certifies it as a root; a lost ledger line makes
  every child bound to it an error of the audit.
- Epochs and `issued` are per process: after a restart a stale attestation raises no alarm.
- The amendment tool folds an amendment twice when run again after a death, and never
  checks the body it folds on: one torn by a death is sealed and pinned.
  `updateBodyPin` refuses "a half-applied amendment" after seal and body are written.
  The append-only `ledger.json` is rewritten whole. The rehearsal keyring is not what
  the default trust root accepts.

**Community, forum, human seat, page.**

- The budget is tested before the operator's stop, clock and tokens before a pause and
  not after; a graceful stop after an immediate one weakens the reason; an agent that
  throws leaves no finish.
- A docket row is a copy, so a bench seat may be woken for a case judged during its own
  loop. A member's first framing is the briefing: earlier posts never reach its news.
- After a failed append the next boot replays up to the gap only and mints known ids
  again; `forum/src/index.js` still says a restart begins an empty board; a read
  beyond its limit skips the posts in the middle, and news shows 12 of 50.
- The tracker reports a file grown binary or too large as removed; `last = now` moves
  before the diff, against `changes.js:142-144`; a resumed run writes the charter's
  sources over the community's edits before its baseline.
- After a failed flush the next turn's range covers both turns.
- `bindingFor` compares prefixes (`self-model/src/index.js:193-201`): the session
  `community-chair-2f3a1b` starts with `community-chair-2` and is countersigned by
  `chair-2`'s key, against `charter.js:289-290`; `memberOfSession` reads it rightly.
- An ask posed after an immediate stop carries no signal and waits out its timeout,
  against `human.js:543-545`; decision lines are published twice (`human.js:510-513`).
- A form's draft is consumed when the card is posed and lost if the card lapses; a
  `/state` answer overtaken by a newer one rebuilds the cards from old data, against
  `page.js:376-380`; a page away for more than 500 rows misses some, though it "catches
  up by itself" (`page.js:693-694`).

**Launcher and archive.**

- A death while a manifest is copied leaves it torn and "left alone", so that cut is
  lost at the next overwrite, against `community-live.mjs:756-757`; a torn `run.json`
  starts a continuation of nothing.
- A first mint killed before `roll.json` refuses every launch until `--fresh`; a
  `--fresh` killed after the first authority key leaves a set that verifies, and whose
  next admission does not.
- A `forum_post` or `forum_pass` cut off with no result, whose id comes again under
  another tool, is counted by that one's result (`community-report.mjs:147-169`): an
  `ok` of a hearing makes a post that never landed, against "its own result"
  (`act-outcome.mjs:8`). The archive reads the same log rightly. The property excepts
  these ids (`Overtaken`), and the proof needed the exception: TLC's instance meets it.
- Lower-case declines such as `[forum] not posted` are classed 'ok'; a call id used
  again after a call that was cut off makes `unresolved` undercount.

## What the models leave out

The notes of `PROJECT.json` say, component by component, what is modelled and what
is not; `envelope`, `guide` and `card` keep no state and are not modelled. Across
modules:

- Texts, wording and layout; cryptography (a digest, hash or signature is what it
  commits to); the host, but for the calls the plugins make of it and the callbacks
  they get.
- *Gate*: which addresses a name resolves to is any subset; mount rows are `Sandbox`'s.
  The cached approvals are shared by sessions.
- *Persistence*: short writes (`writeSync`'s count is ignored), two processes on one
  file, and a failed flush between the mutators of one approval.
- *Mediator*: parsing of authorities and address classes (`Public` stands for them),
  budgets (they are the gate's). Timers
  fire when due, which is what makes `CutWithinRecheck` a bound. After `closeAll` a dial
  in progress completes without a client.
- *Record*: `verifyAnchors`, sessions sharing the service, half-written anchors
  (declared fatal, `anchors.js:61`). The backend stores a batch or, when it refuses,
  nothing of it; a death may leave any prefix.
- *Loop guard*: the classification of an error's text, the other sessions' guards.
- *Judicature*: the docket is lost at a restart, as the code declares, and so is no run
  of the model.
- *Bounds*: calls, rows, acts, faults and clocks are bounded in the runs by the
  constants named `Max...`; where a theorem is proved, for any value of them.

## Open ends

1. An abstract *consent* specification (allow, use, revoke, expire) that the gate
   refines where its asks are correlated, on `AsksAreTheirs`.
2. `ApprovalGateProofs`: `PendingIsExact` by root, once a record's root is what
   `resolvePending` looks at.
