# MCPlica: TLA+ models of the builder, its deployments and its runtime

MCPlica turns API descriptions into MCP servers. An administrator uploads sources, a
*build* runs them through a pipeline (ingest, parse, index, analyse, compile, validate,
package) into an immutable manifest, and a *deployment* runs that manifest in a container
behind an edge router. The backend is a set of processes over PostgreSQL: the API, an RQ
build worker, an RQ deployment worker, dispatchers that move rows to Redis, and a cleanup
worker. They are coordinated through database rows, row locks, advisory locks and
leases with tokens. This project models that coordination, the components that depend on it,
and the path of an operation from its description to the requests that the runtime makes for it.
Paths below are under `src/backend/app/` unless they say otherwise.

## Inventory

| Component | State | Operations | Interacts with | What is hard | What makes it correct |
|---|---|---|---|---|---|
| Runtime command outbox (`repositories/runtime_commands.py`, `services/deployment/command_dispatcher.py`, `command_executor.py`, `clients/queue.py`, `jobs/deploy.py`) | command rows (status, retryable, next attempt, lease, token, sequence in a transition); RQ messages; per-project advisory lock | create, claim for dispatch, enqueue, claim for execution, checkpoint, renew, mark effective / failed | deployment service creates commands; executor calls the runner | leases expiring under a running worker, redelivery, lost replies, crashes at every step, cancellation of a task whose Docker call is in a thread | a worker that believes it owns a command owns it; order inside a transition; a token runs once; effects of one project are serialized; every command settles |
| Build admission (`repositories/build_admission.py`, `services/build_admission.py`, `clients/build_queue.py`) | admission token and lease on build rows; RQ jobs | claim available, begin, renew, release, enqueue | build jobs, settings (concurrency), cancellation | several dispatchers, expired leases, an enqueue that raises after it succeeded | never more jobs at work than the concurrency; an admitted build is never stranded |
| Build pipeline and cancellation (`jobs/build.py`, `services/builds/*`, `repositories/builds.py`, `build_execution.py`) | build status, cancellation request, stage outputs; the job's retries | read, checkpoint, stage, advance, reject, fail, acknowledge cancellation, retry | admission, cleanup (outputs of a cancelled build) | stale readings between two transactions, two jobs on one build, a cancellation at any point | outputs precede the stages that use them; terminal is terminal; an accepted cancellation wins |
| Cleanup and orphan guards (`repositories/cleanup.py`, `services/cleanup.py`) | jobs and targets with status, attempts, lease; advisory lock per key | arm / release / resolve guard, capture deletions, retention, claim, check references, delete, complete, fail | storage, vector store, sources, builds, projects | content-addressed keys shared by writers; two lock orders; stale workers | nothing referenced is deleted; nothing unreferenced is forgotten |
| Source ingestion (`services/sources.py`, `repositories/sources.py`) | sources, versions, the selected version, validators, the primary source | create (empty, upload, URL), new version, refresh, rename, promote, delete; discovery of servers and security | storage, cleanup, builds, remote servers | what was read before a fetch or an upload is used after it; roles passed on through deletions and renames; the retention sweep | one primary source; what a build pinned or a source selected exists; a build freezes a configuration that was judged |
| Deployment service and runner (`services/deployment/service.py`, `repositories/deployments.py`) | deployment rows, a project's active deployment and build | request, redeploy, restart, rollback, stop; runner: start, health check, activate, finish, restore, stop | command outbox, Docker, edge routes | activation in several transactions around Docker calls, repeated attempts, restore of the predecessor | at most one RUNNING deployment per project; the route follows the active one; a failed activation gives the predecessor back |
| Route reconciler | none of its own | restore routes at start-up | deployments, edge | list read before it is used | routes converge to active deployments |
| Runtime manager and Docker client | containers, networks, secret files | prepare, start, stop, remove | Docker daemon | calls in threads that outlive their task | effects are idempotent per deployment |
| Canonicalization, parsers, compiler, validation (`parsers/`, `services/builds/`, `compilers/mcp/compiler.py`, `validators/build.py`, `src/packages/contracts`) | the document, routing settings, credentials; snapshot, manifest, report | discover, admit, parse, select credentials, compile, validate, probe | sources, credentials, the runtime's own code in the harness | the same rule is written several times (discovery and parser, readiness and compiler, envelope and dispatch) and must agree | an admitted build does not fail for want of what admission judged; a READY build's tools can be called |
| Indexing and analysis (`services/indexing/`, `services/analysis/`, `providers/milvus.py`) | generation, vectors, embedding cache, chunk file; recorded model calls, enrichment | prepare, chunk, embed, publish, complete, undo; reuse, ask, record, enrich | pipeline, storage, vector store, models, cleanup | executions that fail half way, retry and overlap; a model's name that is resolved anew | a READY index is whole and by one model; the enrichment is what the recorded calls say |
| MCP access and credentials (`services/mcp_access.py`, `services/credentials.py`, `services/deployment/preflight.py`, `secret_materializer.py`, `effect_state.py`) | access configuration, tokens, credential; the files a runtime was started with | configure, create, rotate (with overlap), revoke; preflight, materialize | deployments and their commands | a revocation must reach every runtime that knows what is revoked, whatever is on its way | once an operation is shown as effective no runtime honours what it took back |
| Users, sessions, settings (`services/auth.py`, `users.py`, `settings.py`) | accounts, refresh tokens, settings rows | login, refresh, logout, bootstrap, create, update, change settings | all of the API | requests that read, decide and write beside each other | a change of a user ends their sessions; an administrator remains; no change is lost |
| Projects (`services/projects.py`) | enabled, routing settings | create, update, delete | deployments, sources | a disabled project and what is on its way | – |
| MCP runtime (`src/mcp_runtime/app`) | upstream token cache, JWKS cache | tool call, token refresh, key refresh | upstream APIs, identity provider | concurrent refresh, expiry | no expired token is presented; a fresh key is found |
| Journey, audit, observability, HTTP API, frontend, migrations | read models, logs | – | all | – | – |

## Modules

The coordination of processes:

* `RuntimeCommands` – the command outbox. One command is one row; `Create` is the transaction
  that inserts a transition, `ClaimDue` is `claim_due_for_dispatch`, `Enqueue`,
  `EnqueueReturns` and `EnqueueFails` are the three ways the call to Redis goes on
  (the reply can be lost after Redis took the job), `Deliver` starts
  `run_runtime_command_job`, `ClaimForExecution` … `MarkFailed` follow
  `RuntimeCommandExecutor.run`, and `RenewBegin` … `LoseOwnership` its heartbeat. What the
  runner does between two checkpoints is one *effect* in flight: the model says when an
  external call may be running, not what it does.
* `BuildAdmission` – admission, the job, the pipeline loop, the heartbeat and cancellation.
  Every action is one transaction or one step outside; the worker's `pc` says where its
  job is, and `seen` holds the status it read in an earlier transaction. A stage is the fact
  that it leaves its output, or finds it there; `VALIDATING` may leave blocking findings.
* `ObjectCleanup` – storage keys, the rows that refer to them, the writers (uploads with
  their guard, build stages without), the deletion of owners and the cleanup workers. The
  lock order of both sides is kept: a worker takes the job and target rows and then the key,
  a request that resolves its guard takes the key and then the rows.
* `Deployment` – the deployments of one project. The rows (`status`, `phase`, `activating` for
  the health status, `activated` for the evidence of an activation), the project's pointer
  (`active`, `hasBuild` for the active build), the commands (`deployCmd`, and STOP commands as
  pairs of a deployment and the deployment that waits for the stop, or `Alone`) and the
  containers. The operations of `DeploymentService` and of `ProjectService.update` are one action
  each; the one runner follows `DeploymentRunner` with a `pc`, one action per transaction or
  per sequence of Docker calls, and for each of the latter the ways it may break off. Module
  `RuntimeCommands` is the reason why there is one runner and why a command that was cut off
  (`Abandon`) is executed again; here it is assumed. `pc` is the step that comes next; `victim`,
  `todo`, `owner` and `ready` are the local variables that outlive a step (the row read before,
  the superseded rows still to stop, `activated`, `previous_runtime_ready`).

What builds are made from:

* `Sources` – the sources of one project: rows with a selected version and a validator, the
  versions, the requests that change them, the builds that pin what was selected, and the
  retention sweep. A transaction is one step, since every one of them takes the project's row
  lock; what a request reads before its transaction (the row, the selected version, the
  routing, the remote server's answer) is read in steps of its own and may be stale.
* `ToolCompiler` – pure functions from an API description to a manifest: servers and routing,
  parameters, bodies, responses and security as the two parsers see them, the discovery and the
  readiness that judge a build before it is admitted, the choice of credentials, the compiler
  and the two validations of its output. A name is the sequence of its words (the words
  are what the compiler joins and suffixes), a JSON schema is the set of values it accepts.
* `ToolRuntime` – pure functions of the generic runtime: serialization of parameters by style
  and place, injection of the credential, acceptance of a response by status and media type,
  and the harness, which runs the same code on sample arguments.
* `ToolContract` – one build through these functions, from the judgement that admits it to
  READY or the check that failed it, and then tool calls and their responses.
* `Knowledge` – the index and the enrichment of one build, under executions that hold its
  lease one after another, fail at any call, undo, retry, and leave targets to the clean-up. A job can
  be lost after the index or the enrichment is saved and before the build's status moves on.

Who may use what:

* `Access` extends `Deployment`: tokens, the access configuration and one credential, the
  preflight and the files of a runtime. A step of `Deployment` is taken as it is, with its effect
  on what containers know (`Containers`, `Materializes`) and on what users are
  shown (`Acknowledge`); the operations on access create the same stops and deployments
  as `ScheduleStops` and `Create` of `Deployment`.
* `Revocation` – the abstract specification of taking access back: items are withdrawn, a
  withdrawal is acknowledged some time later, and from then on no runtime honours the item.
* `Accounts` – accounts, sessions and one settings row, under requests that read in one step
  and commit in another, with the advisory locks that the code takes.
* `UpstreamTokens`, `SigningKeys` – the two caches of a runtime: the OAuth token that tool calls
  share, and the key set that callers' tokens are verified with. Calls are coroutines that
  take turns at awaits.

`RuntimeCaches` puts the two caches side by side. The theorems are in modules of their own, `RuntimeCommandsProofs`,
`BuildAdmissionProofs`, `ObjectCleanupProofs`, `DeploymentProofs`, `AccessProofs`, `SourcesProofs`,
`ToolContractProofs` and `PlatformProofs` (knowledge, accounts and the runtime's caches);
`MCRuntimeCommands`, `MCBuildAdmission`, `MCObjectCleanup`, `MCDeployment`, `MCSources`,
`MCToolContract` (documents, credentials and responses) and `MCPlatform` hold the instances for TLC.

`MCPlatform` checks six of the components in one run. They share no variable (the models of the
contract, access, knowledge, accounts and the two caches), so a behaviour of the run is a
behaviour of one of them, chosen by `part` in the initial state, while the others rest in one
of their initial states: the state space is the disjoint union of the six and not their product.
The sets of the components share their elements, so that two groups of permutations serve as
symmetry for all of them.

### The refinement

`AccessRefines` states that `AccessSpec` implements `Revocation!Spec` under the mapping
`withdrawn` ← the items of history variable `withdrawn` (a revoked or rotated token, a replaced revision of
the configuration, a replaced or revoked version of the secret), `acknowledged` ← `Acknowledged`: `shown`, the items whose
operation `runtime_effect_update` has reported as EFFECTIVE, and the rows of the token list (`ListedGone`) that show a
token as gone and EFFECTIVE; `honoured` ← what the runtimes of the
project accept or present. Every step of the detailed specification, those of `Deployment` included, maps to
a step of `Next` or a stutter; the point is the conjunct `Promise`, which no single action of
`Access` sees. `Honoured` leaves out two kinds of runtimes: those of rows that have failed, FAILED and UNHEALTHY
ones and failed ones that a later stop has taken up again, which the project does not count (`Counts`), and
predecessors that were given back after they had
been STOPPED (`revived`), for which the statement is false (`access_restored`). `Acknowledged` leaves out the list's rows of
tokens that a rotation replaced and nobody revoked (`OnlyRotated`): the commands of a rotation belong to the new token, whose row
waits for them and is in `shown`, while the old token's own row waits for nothing (`access_rotated`). The refinement is a theorem,
`RevocationIsKept`, see Proofs.

### Conventions

Time is kept as the time that remains until a deadline, so that states do not depend on the
absolute clock: a lease that is null or expired is 0, and `Tick` takes one unit from every
timer. The database clock and the workers' monotonic clocks run at the same rate, which the
heartbeats in the code rely on as well. Tokens (`uuid4`) are drawn from a finite set and may
be used again once no row, message or process holds them; running out of tokens blocks a
claim, so `Token` bounds how many are in use at once. Definitions named `X_...` directly
before a definition `X` are faulty variants: each property fails when one of
them takes the place of `X`, which is how its sensitivity is checked.

## Runs

| Run | Instance | Shows |
|---|---|---|
| `command_chain` | a transition of two commands, two workers, one redelivery, leases of 1 and 2 | `LeaseCoversBelief`, `TransitionOrder`, `OneExecutionPerToken`, `EffectsSerialized`, `SettledIsFinal`, `TypeOK` |
| `command_live` | the same transition, one worker, with fairness | `CommandSettles` |
| `build_fence` | one build, two stages, two workers, cancellation; an enqueue that raises may have reached Redis | `CancellationWins`, `StagesMonotone`, `OutputsPrecede`, `LeaseCoversWork`, `CancelledIsBare` |
| `build_live` | one build, one stage, one worker, one retry, with fairness | `BuildEnds` |
| `build_overrun` | two builds, two workers, concurrency 1; an enqueue that raises may have reached Redis | *violated*: `WorkBounded` |
| `cleanup_race` | two sources with one content; both may be deleted, one of them while the content is uploaded to it, which may create it again under its id; two cleanup workers, with fairness | `DeletionIsSafe`, `OrphanIsScheduled`, `NoLockCycle`, `SettledStays`, `OrphansReclaimed`, `TypeOK` |
| `deployment_switch` | two deployments, every operation, every fault | `OneRuntimePerProject`, `ActiveIsLive`, `PredecessorRecoverable`, `RunningServes`, `HealthBeforeSwitch`, `TypeOK` |
| `deployment_live` | two deployments requested, the project stopped at any time; with fairness | `StopHonoured`, `DeploymentSettles` |
| `sources_bind` | three sources and no build, or one source and two builds; one editing and one building request at a time beside single transactions | `OnePrimary`, `PinsKept`, `RoutableBuilds`, `SelectionExists` |
| `platform` | six components, see below | contract: `AdmittedSound`, `ReadyCallable`, `RequestFaithful`, `EnvelopeSound`; access: `AccessRefines`; `KnowledgeConsistent`; accounts: `SessionsRevoked`, `ChangesSerialized`; caches: `CachesHonest` |
| `access_rotated` | two deployments, two tokens, one operation on access | *violated*: `TokenListIsHonest` |
| `access_restored` | two deployments, one operation on access, three faults | *violated*: `WithdrawalIsFinal` |

Why the bounds are enough for the cases of interest: two workers and two tokens are the
least with which a stale owner and its replacement coexist; an execution lease of two units
with a dispatch lease of one separates "renewed", "about to expire" and "expired", which is
all that the guards (`lease > 0`) tell apart; a transition of two commands has a predecessor
and a successor; one retry and one redelivery exercise every branch on the attempt counters;
two claims of a cleanup target allow a stale worker next to the one that took over.
`build_fence` has two stages, INDEXING and VALIDATING: the one leaves an output that a cancellation takes back, the other
may leave blocking findings, and a second stage is what a stale job may enter too early or leave twice. `MaxClaims` and `MaxCancels` bound the claims that dispatchers, and the cancellations that API requests, have in hand
at once: one of each suffices beside two workers, and `build_overrun` has two.
The full pipeline of eight stages is left to the proofs, which hold for any pipeline (`OutputsAreThere`). A deployment deals with its
predecessor and with itself, so two are a switch, a failed switch, a restart or a rollback (to
the predecessor, while the first is gone); stops and disabling need no third.

`sources_bind` uses two scales (`Bounds`): the primary role needs a deleted primary, its replacement and
a sibling, and no build; pinned versions and the sweep (which keeps one version here, `Keep`) need two
builds and two versions of one source. Stamps bound how many versions are made.

In `platform`: `MCToolContract` holds documents chosen so that every refusal of the parsers,
the compiler, the validators and the harness occurs, and every style of parameter, kind of
credential, overlap of responses and way in which routing can be incomplete. Access has three deployments, one requested and up to two
that operations create, two operations on access, two tokens, and together with the deployments at most three steps in which Docker or
the disk fails or a worker dies (`Budget`). Knowledge has two executions, two chunks (so that publication can break off between them),
two models with vectors of one length (with different lengths a mixture is refused by the
store), one operation and two failures. Accounts has two users, who can demote each other, two
concurrent requests, two sessions, two fields of one settings row and two changes. The token cache has two calls, lifetimes
of 1 second (the margin is cut off) and of 20 (the margin is a tenth of the life, at least 1 and at most 30) and replies that take up to 3; the key cache two keys, two verifications, key sets that may not be kept or are
kept for 2, a pause of 1 between forced refreshes and replies within 1.

Workers and tokens are symmetric in the safety runs of `RuntimeCommands` and `BuildAdmission`, source
ids in `sources_bind`, and callers, tokens, chunks, users and keys in `platform`; no symmetry is used in the liveness runs. The runs of
`ObjectCleanup`, those of `Deployment` without disabling, `platform` and the two violated runs of `Access` switch off
TLC's deadlock check: when every writer is done and every target settled, every deployment
has been requested and its commands are over, a build has failed, or no operation is left, the system rests.

### Fairness

`command_live` and `build_live` assume that clocks advance, that the dispatcher loops
(`run` of both dispatchers sleeps and polls for ever), that RQ hands a queued job to an idle
worker and that a worker's process goes on. Crashes, lost messages, refused enqueues and a
lease that runs out before its holder acts are faults; any number of them may happen, but not for
ever (`FaultsEnd`): a system whose every attempt crashes settles nothing, and the code does
not claim otherwise. The executor gets strong fairness for leaving the loop "checkpoint,
effect, checkpoint", since a runner makes finitely many calls. `deployment_live` assumes that
every due command is offered again and that the runner goes on; a step that fails because of
what it finds (`Forced`) may fail for ever, one that Docker or the disk refuses may not.
`cleanup_race` needs no such assumption, because the number of claims of a target is bounded in the model; a target that
reaches the bound is exempt in `OrphansReclaimed`.
The properties of `sources_bind` and `platform` are safety properties; their specifications state no fairness.

## Disagreements found

* `build_overrun`: a dispatcher that gets an error from an enqueue that did reach Redis
  releases the admission of a job that may be running; its slot is given away, against
  `docs/architecture.md:874`. The command outbox has the
  guard (`mark_dispatch_failed` requires DISPATCHED) that is missing here.
* `access_rotated`: a token is rotated without an overlap, or its overlap ends. Its row is listed as revoked or expired and EFFECTIVE
  (`services/mcp_access.py:459`), since no command has the old token as its subject, while the runtimes accept it until the
  commands of the new token have replaced them, against `docs/architecture.md:872`.
* `access_restored`: a worker dies between committing RUNNING and removing the predecessor's container; the
  command is executed again and proves the new runtime again. A credential is revoked meanwhile: the one STOP that
  is created is for the RUNNING deployment, since the predecessor is STOPPED. If the proof fails,
  `restore_previous_after_failed_activation` gives the predecessor back with the secret in its
  files, and the revocation is shown as effective when the STOP has succeeded, against `docs/operations/runbook.md:36`.

### Known limits

Behaviour met while modelling that no property covers, or that a property exempts by name:

* Docker calls: cancelling the executor's task releases the project's lock while a call goes on in its
  thread (`services/deployment/command_executor.py:97`), so a replacement may begin beside it; `EffectsSerialized` is about
  executions that were not cancelled.
* Half-stopped predecessor: `begin_activation` sets the predecessor to STOPPING without a command
  (`repositories/deployments.py:315`). If its stop and then the stop of the candidate fail
  (`services/deployment/service.py:1193`), it is neither restored nor stopped, and `has_in_progress` refuses every
  request until somebody stops the project by hand.
* Dangling reference: a stage finds its content stored, a cleanup worker deletes it, and the stage then writes
  the reference (`services/builds/pipeline.py:579`); the key's lock orders the two transactions, but nobody looks at the object again.
* Clean-up jobs are named after the ids they are for: a second deletion under the same id finds the job and the target of
  the first (`services/cleanup.py:103`), which may be settled or past counting its references. The client chooses the ids of sources, so a source
  can be created again under the id of a deleted one; `cleanup_race` does so, and `swallowed` exempts the keys that such a second deletion leaves to nobody
  in `OrphanIsScheduled` and `OrphansReclaimed`. Jobs of several targets (`repositories/cleanup.py:546`) are not modelled.
* Admission: a job whose admission the dispatcher itself released (`services/build_admission.py:103`) works without a lease until its first
  check; `disowned` exempts it in `LeaseCoversWork`, and `build_overrun` shows what follows.
* Sources: two concurrent refreshes can leave the validator of one content beside another as the selected version
  (`services/sources.py:980`), so that the next change is fetched late. Retention counts versions by their creation, not by
  their selection (`repositories/cleanup.py:660`), which takes old versions that were selected again and are no longer pinned.
* Routing: discovery's `routing_complete` does not look at an active server or mappings that the document no longer has (`StaleRouting` in
  `AdmittedSound`). It also applies the project-wide server to an operation that lists servers of its own, if all of
  them are servers of the document (`services/sources.py:115`), where the parser does not (`parsers/openapi/parser.py:1079`): a build is
  admitted and its canonicalization fails, against the docstring at `services/sources.py:107`, `docs/design_document.md:872` and FR-NORM-005.
  This is no stale setting but a disagreement of the code with itself, and `AdmittedSound` names it apart (`RepeatsRoots`).
* Security: an operation with two alternatives of one scheme that ask for different scopes is judged ready
  (`services/builds/readiness.py:55`), and the compiler compares the chosen alternative with the first one (`compilers/mcp/compiler.py:153`), so the
  build fails because of `scopes`; `SameSchemeTwice` names the case.
* Requests: the items of a list in a path are spelled by Python (`src/mcp_runtime/app/executor/request_builder.py:99`): null becomes `None`, true becomes
  `True`, what is nested its repr, where OpenAPI prescribes JSON scalars. The model sends what the code sends; `PythonSpelled` exempts these arguments
  from the comparison with what is prescribed in `RequestFaithful`.
* Contract: a required `Authorization` header parameter is dropped by the compiler in favour of the
  credential (`compilers/mcp/compiler.py:374`) and then reported by the validator; the compiler's list of forbidden headers
  lacks `content-type`; a host with a final dot fails the allowlist check; an operation excluded by a key that is gone fails
  the compilation (`compiler.py:514`); two responses with the same status and media type are found only by the harness;
  an API-key header that is also a parameter fails the probe; a text response without schema may be empty although the listed
  output schema says otherwise. Each ends the build or is exempt in the property that meets it.
* Index: a clean-up that is late deletes vectors by generation and not by execution (`services/cleanup.py:353`), so it can
  take rows of the attempt that replaced the failed one before `complete` marks it READY, against
  `docs/product_requirements.md:316`; `erased` exempts these states in `KnowledgeConsistent`. Cached vectors by an older
  resolution of the same model name are used when all chunks are cached. A job that is cancelled leaves its rows to the next deletion.
* Access: the list's rows of tokens that were only rotated are exempt in `AccessRefines` (`OnlyRotated`, see `access_rotated`); containers of FAILED or
  UNHEALTHY rows that Docker refused to stop are unknown to later revocations; `_write_exact` refuses files with other
  contents (`clients/runtime_files.py:132`), so an attempt repeated after a token has expired fails for good.
* Accounts: creation and bootstrap of users take their two locks in opposite orders; a login that verified the
  old password before a change and commits after it opens a session (`services/auth.py:102`; `SessionsRevoked` counts it as opened after the change).
* Keys: a provider that forbids caching, together with the pause between refreshes, has a key refused that was just
  published; `kept` exempts it in `KeysHonest`.

## Proofs

TLAPS checks 39 theorems and the 390 lemmas they rest on. They hold for every value of the constants that
the modules' assumptions admit. All twenty-nine invariants that the passing runs check, their
action properties and the refinement are theorems, so only liveness is left to TLC; the runs show them on an instance first. An invariant of
a specification is seldom kept by every step for its own sake: each module below names the
conjunction that is (`IInv` and the like, defined beside the properties and checked by TLC before
it was proved), and why its parts are needed.

`RuntimeCommandsProofs` proves, for any commands, transitions, projects, workers, leases and
delays, that the invariants of `command_chain` hold (`TypeCorrect`, `BeliefIsCovered`,
`TransitionsAreOrdered`, `TokensRunOnce`, `EffectsAreSerialized`) and that settled commands
stay settled (`SettledStays`). None of the invariants but the type is inductive. `IInv` adds:
`DeadlinesBounded` (a worker never counts on more than one execution lease),
`RenewalsCovered` (a renewal that committed and whose reply is under way has already extended
the lease by what the reply will promise), `ClaimedTokensSpent` (a row that still waits under a
token has no worker executing under it), `LockHeld` (a worker past the lock holds it)
and `EffectiveNotRetryable`. The argument for `LeaseCoversBelief` is that, while a worker
executes, only its own final write or the clock can take the row from it
(`OwnershipStable`), and that clock and deadline move together (`CoverStable`); the deadline
is raised only to a value the lease had when the renewal committed.

`BuildAdmissionProofs` proves, for any builds, workers, tokens, leases, limits and retries and for any
pipeline that is a part of the full one in its order (`PipelineAssumption`), the types (`BuildTypes`), that an accepted
cancellation wins (`CancellationIsFinal`) and leaves no output (`CancelledBuildsAreBare`), that outputs precede the
stages that read them (`OutputsAreThere`), that builds only move forward (`BuildsMoveForward`) and that work within
the confirmed deadline is covered by the lease (`WorkIsCovered`). `IInv` adds `StagesLeft` (a build has the outputs of
all the stages it has left, and blocking findings hold it in VALIDATING), `AdvanceEarned` (a job about to advance
a build that is still its own has seen the output stored), and for the leases `TokenHeldOnce` (a token is
carried by one claim, message or job: this is what makes a comparison of tokens mean "mine"),
`DeadlinesBounded`, `CancelsRequested` (a job that a cancellation found in the queue is not at work) and `HeartbeatCovered` (a deadline, and
the one a renewal is about to confirm, is covered by the row's lease). `WorkIsCovered` is about every job but the ones that the dispatcher disowned: it
released their admission after an enqueue that raised although it had reached Redis. For those the statement is false,
which `build_overrun` shows.

`ObjectCleanupProofs` proves, for any keys, owners, writers and workers, that the types are kept
(`TypeCorrect`), that no referenced object is deleted (`DeletionsAreSafe`), that the two lock
orders never meet (`LocksNeverCross`), that settled targets stay settled
(`TargetsStaySettled`) and that no orphan is forgotten (`OrphansAreScheduled`). `IInv` adds that row locks exclude (`RowsExclusive`), that a locked
target is in its attempt (`HeldIsRunning`), that a verdict "unreferenced" stands while the key is
held (`VerdictStands`) and that the guard of an upload in progress is PENDING and not due
(`GuardsWait`, with `AbsentNotDue`), which is the only thing that keeps the request and the
worker off each other's locks: it rests on the guard's delay being longer than the upload,
as `BecomeDue` states. `OrphansAreScheduled` needs `SInv` on top: workers exclude each other on a key (`KeysExclusive`),
a worker that is about to settle its target leaves the object to somebody else or has removed it
(`CoveredOtherwise`). Owners may be created again under the ids of deleted ones; the statement then leaves out the keys that a second
deletion hands to a target which is settled or whose references were counted (`swallowed`, `TakenUp`): the names of
deletion jobs are made from ids (`services/cleanup.py:103`), and such an object is lost.

`DeploymentProofs` proves, for any number of deployments, the types (`TypeCorrect`), that the
project's pointer and the rows agree (`PointerAgrees`) and that there are never two running
deployments or two on their way (`NeverTwoRuntimes`, which follows from the former and from the
guard of `has_in_progress`). `IInv` adds that a deployment on its way belongs to an enabled
project (`InFlightEnabled`), that a candidate before its switch, or being cleaned up, is not the
active deployment (`StartingIsNotActive`) and that no deployment is its own predecessor
(`PreviousIsOther`). Without the second, an execution that sets a failed row back to
PENDING or FAILED might leave the pointer at it; it holds at the start of an execution because
of the first: a command whose deployment is active is always taken up by the resuming branch.
About the containers it proves that the predecessor can be gone back to while an activation can fail
(`PredecessorStays`), that what is shown as RUNNING is up, about to be repaired or asked to go (`RunningIsServed`) and that
nothing goes down except for a proved replacement (`SwitchesAfterProof`). `KInv` adds to `IInv` what the runner knows at each of its steps
(`CommandHeld`, `VictimsChosen`, `CandidateStands`, `PredecessorReady`), the order of the rows (`RowsInOrder`), and above all
`RetiredIsKept`: a row that is STOPPING although nobody asked for it is the predecessor in the middle of a switch; it
keeps its container, there is only one, and no deployment is RUNNING beside it. `begin_activation` writes STOPPING without a command,
so nothing in the row itself tells such a predecessor from one that is being stopped.

`AccessProofs` proves, for any deployments, tokens, operations and faults, that access and deployments together
implement `Revocation` (`RevocationIsKept`): the initial states map to initial states, and every step to a step of
`Revocation!Next` or a stutter. It also proves the types (`AccessTypes`) and that `PredecessorRecoverable` holds beside
the operations on access (`AccessKeepsPredecessor`). A step of `Access` is a step of `Deployment` or changes its rows only
by the stops and requests it schedules; `DeploymentProofs` states what it proves of a step for both kinds (`Step`,
`NextIsStep`), so that `IInv` and `KInv` are available. `AInv` adds to them: what was taken back is not given to a
runtime any more (`WithdrawnIsStale`); whatever a runtime that is or may come up still knows of it, from the preflight
over the files to the container, is covered by a command of the last transition, its own STOP or the DEPLOY of its successor
(`Coverage`); what was shown is known to none of them (`ShownIsUnknown`), and the token list shows no more than that, tokens that were only
rotated apart (`GoneIsWithdrawn`, `EffectIsShown`); a deployment yet to come knows nothing
(`NothingKnown`); and for the end of a command, that a row at rest stays there unless it is given back and that a
predecessor is at rest once its successor is RUNNING (`RowsAgree`, `PredecessorGone`). The proof corrected the
statement: a deployment that failed with its container still up and is set to STOPPING by a later stop of the project is
passed over by a replacement requested meanwhile, so a row that has failed does not count (`Counts`), whatever its status says.

`SourcesProofs` proves, for any sources, contents, requests, builds and retention (`Keep`), that one executable source is
primary (`PrimaryIsUnique`), that what is pinned stays (`PinsAreKept`), that a build's bindings and routing fit together
(`BuildsAreRoutable`) and that selections exist (`SelectionsExist`). `IInv` adds `RequestsReady` (what a request carries from
one step to the next), `Stamped` and `SelectsOwn` (a source selects among its own versions), and
`PrimaryRole` in the form in which each piece of a transaction keeps it. `SourceService.delete` and
`set_primary` pass the role to the row with the greatest stamp, and that there is one is shown from the
finiteness of a bounded set of numbers (`GreatestExists`).

`PlatformProofs` is about three components. It proves, for any number of executions, chunks, models and operations, the types (`KnowledgeTypes`) and that
a READY index and the enrichment are consistent (`KnowledgeStaysConsistent`, with the exemption `erased` that the property
has). `KnowledgeIInv` follows the index from the job to the search: what a job is about to publish is by one model (`VectorsAgree`, which is
where the rule of `_resolve_embeddings` about mixed caches is used), what it has published is in the store and replaces what a failed attempt of the
same execution wrote (`PublishedSoFar`, `ChunksLeft`), and the execution that completed the index has no work left that could touch
it (`ReadyIsSettled`). Rows are written under the name of an execution, so a late execution cannot disturb the current
one (`RowsFrame`). For the enrichment, what a job knows is on record and the owner asks only for
what is not (`AnswersRecorded`), so a call that succeeded is never written again.

For the accounts it proves `RevocationIsComplete` and `ChangesDoNotCollide` for any users, sessions and concurrent requests.
`AccountsIInv` adds that a request that read under an advisory lock still holds it when it writes and that what it read still holds
(`ReadsHold`). For the caches it proves `CachesStayHonest` for any lifetimes, timeouts and callers. The token
cache needs that a cached token lives as long as it is kept (`MarginKept`); the key cache needs that a key on which cache and
provider disagree changed recently, as long ago as the life of the cache, the pause or a reply admit
(`CacheRecent`, `ReplyRecent`). Its assumption that the lifetimes a provider may state are bounded is that of
`oidc_client.py`, which cuts them off.

`ToolContractProofs` proves the four invariants of `ToolContract` for any documents, settings, credentials,
values and responses: `AdmissionIsSound`, `ReadyIsCallable`, `RequestsAreFaithful` and `EnvelopeIsSound`. `CInv` says what
each stage may rely on: the judgement that admitted the build (`Judged`), the parser's acceptance of the routing, the
manifest as the compiler made it with nothing refused (`Compiled`), the harness's probe, the call and the response that
was accepted (`CallBuilt`, `ResultAccepted`). Admission is sound because discovery, with settings the document bears out and no
operation that repeats servers of the document, finds a server exactly where the parser selects one (`DiscoveredIsSelected`); because
the two tables that readiness and the credential mapping read off a scheme agree (`SpecsAgree`), so that both choose among
the same credentials (`ReadyIsServed`); and because the compiler finds other scopes than the selection's only in an earlier alternative of
the same scheme (`ScopesDiffer`). Requests are faithful because every parameter has one mapping
(`MappingsAreParameters`), the entries of every style are those that OpenAPI prescribes (`QueryIsPrescribed`, `SimpleIsPrescribed`, `EntriesAreDue`, but for
what is `PythonSpelled`), what is sent at a place is what is given for its parameters (`SentIsGiven`), a body is the one that was given (`BodyIsGiven`) and a credential is
refused where its name is taken (`AppliedAuth`). The envelope is sound because only declarations of successes decide about a
success, and only a text is held against the declaration of a text (`DeclaredAreSuccesses`, `ChosenFits`, `TextFitsText`).
A tool is callable because the harness's own arguments and response are ones that a caller and a server could send
(`SampleIsArguments`, `MadeUpIsAnswered`). What iterates in the code (the field names, the names of the tools, the joined
texts) is a function of which the proofs use only what the compiler and the validator check afterwards, so no induction is needed.
The assumptions: servers are URLs with hosts (`ServersAssumption`), schemas are about the values that are sent and parameters at the
places of a request (`ValuesAssumption`), a text body is a text and the servers' answers include those that the harness makes up
(`ResponsesAssumption`), and null is neither a reason nor a schema (`NoneAssumption`).
Alternatives that are tried in an order are written as such (`IF ... ELSE IF`): a `CASE` with overlapping guards, which TLC
reads from the top, says nothing of the order to a proof.

The assumptions on constants are the ones the modules state: identifiers are of their sorts,
leases are positive, null values are distinct from real ones; `KnowledgeAssumption` gives the vectors of a model a
positive length and the provider finitely many models.

Only model-checked: the liveness properties `CommandSettles`, `BuildEnds`, `OrphansReclaimed`, `StopHonoured` and
`DeploymentSettles`, since liveness under fairness is beyond the prover; and the three properties that are violated, of which the
runs show a counterexample.

## Not modelled

* In `Deployment`: errors of the database itself, effects of a Docker call that outlives its
  execution, images, networks and edge routes
  (a container that is "up" is healthy and routed to). A container is identified with its
  deployment, whose name it carries. Mounted files are modelled in `Access`.
* In `Sources`: findings, metadata and listings (read models), redirects and limits of the fetch, and more than one editing
  request at a time beside the transactions of others.
* In the contract: text formats, references between documents and schema dialects, titles and descriptions, the documentation
  parsers, validation warnings, and the limits on sizes and time.
* In `Access`: deployments that stop the old runtime first (`Deployment` has them), the contents of an OIDC configuration, the binding of a credential to a scheme (see `ToolCompiler`), creation of
  credentials, encryption under rotating keys. In `Accounts`: password hashing, the limit on login attempts, CSRF.
* In `Knowledge`: the text and number of chunks, prompts and answers, the semantic review.
* In the runtime: concurrency limits, address checks, transport.
* Everything listed as `not_modelled` in `PROJECT.json` with its reason: the route reconciler, read models, the HTTP
  layer, the frontend, migrations.

## Plan

What the project does not have yet: clean-up jobs with several targets, and index generations as targets of the same
protocol; runs that show the routing, scopes and path-list disagreements and the late clean-up of an index by generation as violations,
which the passing properties name as exemptions.
