# Tenara in TLA+

Tenara is a platform that takes an application from a repository to a running
workload: a Go **control plane** in front of PostgreSQL (API, accounts, plans,
deployments), an **app-controller** in the Kubernetes cluster (two reconcilers),
an **analyzer** that derives an AppSpec from a repository, a **verifier** that
probes the result, **providers** for databases and storage, and clients (MCP
server, SDK, consoles). This directory models the parts whose correctness is a
matter of order: statements of several servers on one table, statements of
several calls on one application, reconcilers reading from caches that lag
behind, guards in memory that are called in any order. Beside them it holds the
functions that decide from data what such a part relies on.

Contents: [inventory](#inventory), [modules](#modules-and-what-they-stand-for),
[runs](#runs-and-bounds), [fairness](#fairness), [proofs](#proofs),
[what the runs found](#disagreements-between-the-code-and-its-comments),
[what is left out](#not-modelled), [plan](#plan).

## Inventory

Paths are relative to `src/`.

| Component | State it keeps | Operations | What is hard | What makes it correct |
|---|---|---|---|---|
| `control-plane/internal/auth` idempotency, audit | `idempotency_keys`, `audit_logs` | claim (DELETE expired, INSERT), load, complete, hourly purge | each statement is a transaction; servers stop between two; rows expire while calls run | one execution per key within a TTL; a replay is the response to the same request; no row stays for ever |
| `control-plane/internal/apps` plans, deployments, revisions | `applications.current_spec`, `deployments`, `deployment_revisions` | plan, approve, deploy, save a revision, roll back | reads and writes of one call are separate transactions; random ids | revisions are an append-only log; nothing runs before its approval |
| `control-plane/internal/apps` applications | `applications`, `services`, `environments` | create under a quota, rename, soft delete, add a service or an environment | a count inside an INSERT under READ COMMITTED; an explanation found out afterwards | the quota, exceeded by less than the calls at a time; a race is told of when there was one |
| `control-plane/internal/apps` databases, domains, secrets | `databases`, `database_bindings`, `domains`, `secrets`, `secret_revisions` | request, bind, mark ready; verify a host; set a secret | a DNS lookup between check and mark; select-then-insert; a version counted in an old snapshot | one binding per database; a host verified only by its own challenge; the live value is the newest |
| `control-plane/internal/provision` | none; runs `kubectl apply` | build an AppEnv or a Build, apply it | its failure is dropped by the caller | what was accepted reaches the cluster |
| `control-plane/internal/auth` accounts | users, verification and reset tokens, sign-up counters; sessions are JWTs | sign up, verify, log in, reset | check and consume are two statements, and the check reads an old snapshot; mails get lost | a token that is consumed or expired is dead to whoever has not read it; sessions stand on a mail that came back; the limit counts every attempt |
| `control-plane/internal/auth` API tokens, members, GitHub; `rbac` | tokens, organizations, memberships, OAuth states | create, list, revoke; default workspace; roles; bind GitHub | authentication, gate and service are separate statements; first use makes a workspace | a token acts where its creator is a member; roles are granted by those who may; a state binds once |
| `control-plane/internal/orchestrator` | in-memory deploy locks; the callers keep the rest | transition table, lock, stop and start, deletion steps, rollback target, plan | no handler calls it yet; a deletion may be left, restored and taken up again at any step | what serves was verified; one deploy per application; data are purged last and late |
| `control-plane/internal/{limits,repair,cells,previews}` | in-memory maps, one mutex each | consume, acquire, repair, assign and route, deliver | instants read before the mutex, so time runs backwards; a delivery recorded before it is processed | budgets are not exceeded; routes are stable; a delivery acts once in a while |
| `control-plane/internal/{billing,metering}` | none | arithmetic on a usage report | rounding, bounds | every hour beyond the free ones is billed once |
| `control-plane` routing: `cmd/server`, the `Mount`s, `httpapi`, the generated contract | none | take a request to a handler through its layers, or to the stub | three tables in three files; a path mounted for one method answers 405 to the others, so a mount hides operations of the contract | every operation of the contract is answered; what acts asks for a role; an audited route runs once per key and leaves a row |
| `control-plane` kms, logs, config, httpx | none | conversions and I/O | nothing concurrent | - |
| `controllers/internal/build` | status of Build objects, token Secret | Reconcile: phases, digest backfill, token removal | stale cache, conflicts, failed calls, restarts | phases go forward; only pushed digests are backfilled; the token outlives the clone |
| `controllers/internal/appenv` reconciler | namespace, AppEnv status, Deployments | Reconcile: namespace, status, services | as above, and a foreign namespace | only pinned images run; the pinned image is rolled out |
| `controllers/internal/appenv` manifests and drift | policies, labels and routes of the namespaces | render, repair | somebody else changes the cluster; policies admit what they admit together | tenants are apart; a route carries proven hosts |
| `controllers/internal/database`, local `providers` | binding objects, users of MongoDB, Redis and MinIO, one Secret per application | reconcile, create, inject | calls that cannot be repeated; a Secret replaced as a whole | an injected password stays the user's, whatever step failed before; a READY binding has its key |
| `controllers/internal/domaincert`, cloud `providers` | none of their own | render; one command or API call each | - | - |
| `analyzer`, `control-plane/internal/appspec` | none | repository to AppSpec, AppSpec to plan | three programs with their own ideas of a service | what the analyzer accepts can be stored and planned |
| `verifier` | none | probes to report and diagnosis | order of verdicts | the report agrees with its steps |
| `mcp`, `sdk`, consoles, `e2e`, `builder` | none | clients of the API | - | - |

How they interact. A client calls the control plane over HTTP; a mutating call
passes the Idempotency-Key middleware and, inside it, the audit middleware.
Handlers share nothing but the tables: each statement is a transaction of its
own on a `pgxpool`, at READ COMMITTED, so several servers (or several calls of
one) interleave between statements. A deploy ends in `applyBridgeBestEffort`,
which applies one AppEnv (an image) or one Build (a git source) to the cluster.
There the pods of the build write its status; the Build reconciler writes the
digest of a pushed build into the AppEnvs of the application; the AppEnv
reconciler renders a Deployment. Both reconcilers run in one process,
`app-controller`, with one worker each, read through the informer cache and
write with the resourceVersion they read. The DatabaseBinding reconciler is a
library beside them: it drives the local providers one command after another.
The orchestrator, the limits, the repair loop, the cells and the webhook are
libraries too; they guard callers that keep the state themselves.

`PROJECT.json` lists the components with their files, and under `hazards` each
place where the order of things matters, with the properties that watch it.

## Modules and what they stand for

| Module | Stands for |
|---|---|
| `OncePerKey` | What the middleware promises: a key is held by one call at a time, executed by its holder, settled once, replayed to calls with the same payload. |
| `Idempotency` | `auth/idem.go` with `audit.go`: the middleware, one action per statement. |
| `IdempotencyProofs` | Theorems about `Idempotency`. |
| `ReleaseLog` | What the revisions promise: one log of images per deployment that grows at its end; a rollback appends a copy of an entry that is not the last. |
| `Releases` | `apps/handlers.go`, `store.go`, `deployments.go`: plan, approval, bridge, rollback and saving a revision for one application. |
| `ReleasesProofs` | Theorems about `Releases`. |
| `ClusterProofs` | Theorems about `Cluster`. |
| `Cluster` | `controllers/internal/build/reconciler.go` and `appenv/reconciler.go` with what they call; the API server, informers and pods around them. |
| `Accounts` | `auth/handler.go`, `store.go`, `tokens.go`: sign-up, verification, login, reset. |
| `Workspaces` | `auth/members.go`, `apitoken.go`, `tokens_handler.go`, the authentication in `handler.go`. |
| `Roles` | `rbac/rbac.go`: the roles and their capabilities, for `Workspaces` and `Routes`. |
| `GitHubBinding` | `auth/github.go`, `github_handlers.go`: the OAuth hand-shake. |
| `Apps` | `apps/store.go`, `handlers.go`: the applications of an organization with their services and environments. |
| `Bindings` | `apps/databases.go`, `domains.go`, `secrets_handlers.go`, `secrets/service.go`. |
| `Orchestrator` | `orchestrator/deploy_state.go`, `lifecycle.go`, `delete_pipeline.go` and the part of `rollback.go` that changes state. |
| `Budgets` | `limits/limits.go`, `repair/repair.go`. |
| `Cells` | `cells/cells.go`. |
| `Previews` | `previews/webhook.go`. |
| `Provisioning` | `controllers/internal/database` with the local mongo, cache, storage and secret providers. |
| `Analysis` | `analyzer/internal/{boundary,detectors,generator}`, `control-plane/internal/appspec`, `orchestrator/plan`. |
| `Manifests` | `controllers/internal/appenv/{netpol,httproute,namespace,drift}.go`. |
| `Routes` | `cmd/server/main.go`, `Mount` of `auth` and `apps`, the layers `authenticated`, `requireCap`, `idem`, `audited`, and behind them `gen.gen.go` with the stub of `httpapi`: what becomes of a request. |
| `Verdicts` | Loops as functions: the rollback target, the report and diagnosis of a verification, the invoice, cron fields, replicas and quota; and, from `Routes`, the answer to a request. |
| `AccountsProofs`, `WorkspacesProofs`, `BindingsProofs` | Theorems about the module they name. |
| `GuardsProofs` | Theorems about `Apps`, `Orchestrator`, `Budgets` and `Previews`. |
| `ControlPlaneProofs` | Theorems about `Cells`, `Provisioning`, `Analysis`, `Manifests`, `Routes` and `Verdicts`, and about the composition `MCControlPlane`. |
| `MCControlPlane` | The thirteen modules from `Accounts` to `Verdicts` side by side for TLC: they share no variable, so a behaviour picks one at the start and is one of it; the variables of the others stay as they are. |
| `MCIdempotency`, `MCReleases`, `MCCluster`, `MCAccounts`, `MCApps`, `MCProvisioning` | Constants and symmetry for TLC. |

### Idempotency

`owner[k]` is the request whose INSERT made the row of `k`; its payload is the
row's `request_hash`, and `answer[k]` is the request whose response the row
holds (`Nobody` while the row is in flight). `age[k]` counts since the claim and
stops at `TTL`; `Old` are the keys whose `expires_at` has passed. `pc[r]` is the next
statement of the server working on `r`: `Purge` and `Insert` are the two
statements of `ClaimIdempotency`, `Load` is `LoadIdempotentResponse`, `Handle`
and `Audit` the wrapped handler, `Complete` is `CompleteIdempotency`. `StoreFails` is any
statement returning an error, `Crash` a server that stops and leaves its rows,
`Cleanup` the hourly purge. The middleware's UPDATE in `Complete` names the key
only, so in the model too it fills whichever row the key has at that moment.

The model is checked against `OncePerKey` (`KeepsPromise`): rows are holders, stored
responses settle, claimed calls are serving.

### Releases

One application. `state[d]` and `newest` are rows of `deployments` (ids are
random uuids, so their order is not the order of creation); `image[d][n]` is row
`(d, n)` of `deployment_revisions`; `sent` are the deployments whose manifest
reached the cluster. A call of client `c` is at `pc[c]` with local variables
`job[c]`: `plan.*` is `handleGetPlan` (the application, `EnsureEnvironment`,
`SaveAwaitingPlan`), `approve` and `bridge.*` are `handleDeploy` (`ApprovePlan`'s
SELECT is `DeploySelect`, its UPDATE `DeployUpdate`, then the bridge),
`rollback.target` and `save.*` are `RollbackLatest` and the `SaveRevision` it
ends in. `SaveRelease` is `SaveRevision` called for a release; in the repository
only tests do that, and a rollback needs revisions to go back to. `Fails` is a
failing statement or a stopping server, `Expire` a plan past its 24 hours.

The ways a deploy names nothing to run, or finds no live application, end the
call as accepted, as in the code, and so does a load that fails inside the bridge.
An error of `Apply` is logged and the call accepted: `BridgeApply` may leave `sent` as it is.

### Cluster

`env` and `build` are the objects of the API server, `envCache` and `buildCache` the
informer's copies. resourceVersions are not numbers: `envAt[e]` is the set of
holders (`"cache"`, the worker `"ew"` or `"bw"`) that have the latest version,
and a write by a worker succeeds exactly if it is in that set. A write that
changes nothing makes no new version. `ew` and `bw` are the workers: where a
pass is, the object it works on and the copy it read. `workload[e]` is the image of the
Deployment of the AppEnv's service, and `seen[e]` what the informer has of that
Deployment: nothing, an old version, or the latest. `renderServices` reads it from the cache, so
its branches depend on `seen`: `EnvRender` creates or updates, `EnvRefused` is an Update
of an old copy or an image that `RequireDigestImage` refuses, `EnvLeaves` is an AppEnv
without services, or a Create that meets a Deployment the cache does not show
(`AlreadyExists` is swallowed). Nobody watches the Deployments, so `SyncWorkload` queues
nothing.

`DeployImage`, `DeployGit`, `PodStep`, `Finalize` and `MarkFailed` are the environment: the bridge and
the build's pods (`FinalizeBuild`, `MarkFailed` and `EvaluateScanGate` have no caller in the
repository but tests; they are the status writes a build pod's driver makes).
`SyncEnv` and `SyncBuild` are informers that deliver an update, `ResyncEnv` and `ResyncBuild` the
periodic resync of controller-runtime (its `SyncPeriod` is left at its default of 10
hours in `controllers/cmd/app-controller/main.go`). `EnvFails` and `BuildFails` are failing API
calls, `Restart` the process starting again with a fresh cache. `BUILDING` stands for
the phases BUILDING, SCANNING and SIGNING, which the reconciler treats alike. One service per AppEnv, as
the bridge makes them. The CRD's enum makes the reconciler's invalid-isolation
branch unreachable, and it is left out.

### Accounts

One action per SQL statement. `row[e]` and `hash[e]` are the row of `users`; `kind`,
`owner` and `marks` the rows of both token tables and what became of the mail. A
call of client `c` is at `pc[c]` with its local variables in `call[c]`:
`Register`, `LimitInsert`, `CreateUnverified`, `StoreVerification` and `Mail` are
`handleRegister` (`CheckSignupLimit` locks the row it finds and inserts one when it finds
none, so the first sign-ups of a window can race). The first statement of
`ConsumeVerification` and `ConsumeResetToken` is an UPDATE of `users` whose sub-select
looks for the token. At READ COMMITTED that reads the snapshot of the statement's
start, and the UPDATE may then wait for the user's row, so it is two actions:
`VerifySelect` and `VerifyUse`, `ResetSelect` and `ResetUse`. `Mark` is the second
statement. A call between the two actions may change the user after another has marked the token; `Pending(t)`
says that there is one. `LoginRead` and `Issue` are the login; a session is a JWT that
no table keeps, so `Issue` leaves nothing and what is said of sessions is said of the
call that issues one. `Drop` ends a call between any two statements: a failing
statement, a stopped server, a mail that is lost. `Provision` makes the users other
code makes (invitations, the bootstrap), unverified and with a password nobody was
told. `HourPasses` and `MinutesPass` are the time as the sign-up windows see it.
`uses[t]` counts how often a token changed a user, `admitted[ip]` what the window let
through and `recent[ip]` what the hour up to now did; no action of a call reads them.

### Workspaces

A call is authenticated (`Authenticate`, `AuthenticateToken`), gated (`Gate`) and served
(`InviteMember`, `ListMembers`, `TokenOrg` and `CreateAPIToken`, `RevokeAPIToken`) by
statements of their own. `MakeOrg` is the end of `DefaultOrgForUser`, which has looked
for a membership in a statement before; `DefaultOrgs` is its ORDER BY on the name of
the role. The organization of a header is not checked when the call is
authenticated: the gate does that for the member routes, and `handleCreateToken`
looks the default organization up again. `BootAdmin` and `Promote` are
`EnsurePlatformAdmin`. The table of `rbac.go` is `RoleCapabilities`, in `Roles`. `made[u]` counts the
default workspaces and is read by no action.

### GitHubBinding

`issued` is `oauth_states`; `Exchange` takes the row (DELETE .. RETURNING) before GitHub
is asked, `StoreBinding` stores the sealed token. GitHub refuses, answers nothing or
the server stops in `Fail`.

### Apps

The INSERT..SELECT of `CreateApp` is two actions, because at READ COMMITTED its
count is of the snapshot the statement began with and only the unique index sees
what came in between: `CreateCount` takes the branch, `CreateInsert` writes or meets the
index. `ClassifyName` and `ClassifyCount` are the two statements that explain why no row
was inserted. A deleted application keeps its name (the index is not partial), so
`Held` asks all rows. `made[c]` of `MCApps` remembers that another call created an
application while `c` was under way, which is what "race" promises.

### Bindings

`RequestDatabase` selects, and `InsertDatabase`, `InsertBinding` and `UpdateIsolation` are the
statements it may go on with; `bound[k]` is a sequence because nothing makes rows of
`database_bindings` unique. `MarkBindings` and `MarkDatabases` are `MarkBindingReady`.
`VerifyRead`, `Lookup` and `MarkDomainVerified` are `VerifyCustomDomain` around the DNS
lookup, while owners publish and withdraw challenges (`Publish`). `SetBegin` and `SetSecret`
are the transaction of `SetSecret`: its version is counted before it waits for the
row, so the loser of a race violates the unique version and changes nothing.

### Orchestrator

A library that no handler calls yet. Its callers hold the state, the finished
deletion steps and the time, so they are variables, and change them by what
the library allows: `Acquire` and `Release` (`DeployLocks`), `Transition` for a deploy that
holds the lock, `GuardStop`, `GuardStart`, `PlanRollback`, `BeginDelete`, `DeleteStep`, `Restore`.
A caller releases only what it acquired; `Release` itself would free anybody's slot.
The guards and `PlanRollback` ask the transition table and change the state, no more:
`SuspendRoute` and `ReplicasFor` build a value that no caller takes and are left out.
`passed` are the states since the application was last at rest and `holder` who has
the lock; both are there for the properties.

### Budgets, Cells, Previews

`Arrive` reads the clock and `Allow` is the body of the mutex of `RateLimiter.Allow`,
so instants reach the bucket out of order; tokens are counted in fractions (`Unit` to
a token) instead of floats. `TryAcquire` and `ReleaseSlot` are the build gate; `LoopGate`,
`LoopAttempt` and `LoopAgain` the repair loop. `Cells` has one action per write lock.
`AllowDelivery` is `ReplayGuard.Allow` under its mutex and `Act` the rest of `ServeHTTP` without
it: a payload it does not support is answered 400, a hook may fail and leave the
environment as it was, and the id stays recorded in either case.

### Provisioning

`Reconcile` takes a binding whose copy in the informer is not READY, which is also one
that has become READY since and is then provisioned again; `CreateAppDatabase`, `CreateAppCache`,
`CreateAppStorage` with `AddPolicy` and `AttachPolicy`, `InjectToNamespace` and `SetReady` are the
commands of `ProvisionBinding` and what they do to MongoDB (`createUser` refuses a user
that exists), Redis (`ACL SETUSER .. reset` replaces the password), MinIO and the
Secret (an Update replaces all of it). `Fail` stops anywhere: nothing is undone, and
the binding is tried again with a new password. A login of MongoDB is a password and
the database it is checked in, because the two differ here: the commands name no
database, so `createUser` makes the user in `test`, mongosh's own, while the URI says
`authSource=app_<id>`. That makes the URI useless (see the disagreements), so what
`InjectedIsCurrent` says of it is said of its password.

### Analysis, Manifests, Routes, Verdicts

`Analysis` follows a repository through three programs: `Detect` and `Generate` (the
analyzer), `PutSpec` and `Edit` (the AppSpec the control plane accepts), `GeneratePlan`. A
repository is the set of traits each directory shows; which service a route goes
to depends on Go's map order, so `BuildRouting` is a set. `Manifests` says what the
five policies admit together by the semantics of NetworkPolicy, while a tenant's
administrator removes policies or labels and `Repair` restores them; a custom host passes
its challenge for one tenant (the unique row of `domains`). A tenant here is an
environment, and `application[t]` says whose: the egress to MongoDB selects pods by
application, so the environments of one application share them. `Verdicts` holds loops as
functions next to what they are to answer; a question is asked and forgotten. A
verification step has a status of `pass`, `fail` or none, the zero value, and only `fail`
degrades.

`Routes` is a table of tables. `Contract` has the operations of `gen.gen.go` by method,
path and the parameters its wrapper binds (`takes`); what `oapi-codegen` writes for each
operation again is stated once, in `Bound` and `Stub`. `AppRoutes`, `AuthRoutes` and
`ServerRoutes` are the mounts, each with its layers from the outside in, and `Verdict` is what a
layer answers or that it calls the next. `Outcome` walks through them in the order of
the code: a mounted route, else 405 where the path is mounted for another method, else
the stub. A path parameter is written `:name`. Request bodies, HEAD and the
status of a response a handler has written are left out; what a handler does once it
is reached is the business of the other modules. The claim of an idempotency key is a
field of the request here (what the row is found to say); how rows come about is
`Idempotency`.

## Runs and bounds

| Run | Instance | What it shows |
|---|---|---|
| `idempotency` | 3 calls, 1 key, 2 payloads, TTL 2, handlers of at most 1 | `KeepsPromise`, `ClaimsAreSpaced`, `StoredAnswerIsFinal`, `ReplayIsFaithful`, `RunnerKeepsItsRow`, and that rows go in the end (`RowsExpire`) |
| `releases` | 2 clients, 1 deployment, 2 images, 4 revisions; clients and images symmetric | `KeepsLog`, `OnlyApprovedIsSent` |
| `releases_newest` | 1 client, 2 deployments | `RollsBackNewest` is violated |
| `releases_converge` | 1 client, 1 deployment | `DeployConverges` is violated |
| `cluster` | 1 AppEnv, 1 Build, 2 pinned images, 1 bare digest, 1 image deploy, 1 fault, under fairness (153,900 states) | the types, `OnlyPinnedRuns`, `ImagesAreReleased`, `PhasesGoForward`, `TokenOutlivesClone`, and in the end `PinnedImageRuns`, `TokensGo` |
| `cluster_render` | 1 AppEnv, 2 image deploys | `RendersIdempotently` is violated |
| `cluster_digest` | 1 AppEnv, 1 Build whose pod writes the bare digest | `BackfillRollsOut` is violated |
| `platform` | the thirteen parts of `MCControlPlane`; see below (1,012,120 states) | the types and twenty-four properties: `SessionsAreProven`, `SignupsAreBounded`, `ConsumedIsDead`, `OnlyResetsChangePasswords`, `TokenOwnersAreMembers`, `WorkspacesAreFew`, `RolesAreGranted`, `StateBindsOnce`, `QuotaIsNearlyKept`, `OneBinding`, `VerifiedIsProven`, `LiveIsNewest`, `ServesWhatWasVerified`, `PurgeComesLast`, `BudgetsAreKept`, `RoutesAreStable`, `DeliveriesActOnce`, `InjectedIsCurrent`, `AnalyzedIsDeployable`, `TenantsAreSeparate`, `RollbackTargetIsRight`, `ReportsAreRight`, `FiguresAreRight`, `RequestsAreAnswered` |
| `reset_reuse` | `Accounts` with 2 users, 2 tokens, 2 calls | `ResetIsSingleUse` is violated |
| `quota_race` | `Apps` with 3 applications, 2 calls, a ceiling of 1 | `QuotaIsKept` is violated |
| `create_race` | `Apps` with one call at a time | `RaceIsDue` is violated |
| `bindings_kept` | `Provisioning` with 2 environments, 3 passwords | `ReadyBindingsAreInjected` is violated |

The type invariants of `Idempotency` and `Releases` are proved and not run.

Why the bounds are enough. Three calls of one key are a runner, a retry that
races it, and a third that claims after a purge; two payloads tell a replay from
a conflict; keys do not affect each other (every statement names one key, the
purge takes any set), and the theorems hold for all of them. `TTL = 2` with `MaxRun = 1` lets
a row be fresh, half-way and expired, and a handler outlast a tick. Two clients
race for one revision number, and the third and fourth revisions give a rollback
an entry to copy while another call appends; the theorems remove the bound.
`MaxRevision` bounds only the model: at the bound `SaveMax` ends the call as a
failing statement does. In `Cluster` the AppEnv is made by an image deploy or a git
deploy, changed by the other and changed again by the backfill of the build, so it changes under a
worker that has an old copy, twice; one fault puts a failure or a restart at any step of a
pass.

In `platform` two calls at a time race for every row, and calls that come one after
the other are as many as the values allow:

- accounts: 2 users with 2 passwords, so a token can be somebody else's and a
  password be replaced; 2 tokens (a verification and a reset, or two of one kind);
  a limit of 2, which the third sign-up of a window meets;
- workspaces: 2 users, 2 organizations, 1 API token, so that a header can name an
  organization the caller is not in; GitHub: 2 users, 2 states;
- applications: a ceiling of 1 and 3 applications, one more than two racing
  creations can make; bindings: 1 kind of database (kinds meet only in
  `MarkBindingReady`; the theorem is for any number), a custom and a default host, 2
  values and 2 revisions of a secret;
- orchestrator: 2 deployers, a retention of 2 in 4 units of time; budgets: a
  capacity of 2 and a refill of half a token per unit until instant 3, so that a
  bucket is emptied and partly filled with instants in both orders; previews: 2
  deliveries and 2 requests, a Ttl of 1 in 3 units; cells: 3, of which 2 are defaults;
- provisioning: 2 environments and 3 passwords, hence three attempts; analysis: 3
  directories and the root, 5 sets of traits, from none to a Node, a Go and two
  Python services; manifests:
  2 tenants, of one application or of two, and 1 custom host; verdicts: lists of
  up to 3 and 3 verification steps of three statuses,
  and every request `Requests` has (its routes are all those of the tables and three
  that no table has), with the webhook and without: some 46,600 questions.

The values of the parts are drawn from the same few sets of model values, so that
one group of permutations is a symmetry of all; the parts do not meet, so no
value of one is seen by another.

Bounds in guards and limits of the model: `MaxRevision`, `MaxChanges`, `MaxFaults`,
`MaxChildren`, `MaxSets`, `MaxTime`, `LastInstant`, `EndOfTime`, `Top`, `Usage`, and the
finite sets of ids, tokens and passwords.

Deadlock is checked in every run but `bindings_kept`: the clock of the rows ticks
for ever, clients can always call, the informers of the cluster resync, rows
expire, and questions are asked anew. In `bindings_kept` the model may run out of
passwords, which says nothing of the program.

## Fairness

- `Idempotency`: `Serve(r)` (a server that is up goes on with its call; a crash
  or failing statement disables it), `Cleanup` (the `time.Ticker` of
  `StartIdempotencyCleanup`), `Tick`. No caller has to call. All weak.
- `Releases`: `Continue(c)` weakly, for the same reason; used only by
  `releases_converge`, whose counterexample needs no stopped server.
- `Cluster`: the informers deliver (`SyncEnv`, `SyncBuild`, `SyncWorkload`: weak; a watch that
  breaks is listed anew) and resync (`ResyncEnv`, `ResyncBuild`: weak; every 10 hours), and a
  worker in the middle of a pass goes on with it (weak). `EnvTake` and `BuildTake` are strongly
  fair per object: the work queue is served in turn, so an object that is in it
  again and again is taken. Pods and callers have no fairness. Without the resync
  `PinnedImageRuns` would fail (see `cluster_render`): it is what repairs a skipped Update, after hours.

The parts of `platform` state safety only and assume no fairness.

`RunsWithinTTL` (`MaxRun < TTL`) is the one assumption about time: a handler is
over before its row's 24 hours are. The code does not enforce it; without it
`CompleteIdempotency` could fill a row that another call has claimed since.

## Proofs

TLAPS checks the following for every number of calls, keys, payloads, deployments,
clients, images, AppEnvs, builds, users, tokens, organizations, applications, requests,
deliveries, instants, cells, tenants, repositories and lists, and for every bound. The
assumptions are those that the modules name: `ConstantsAssumption`, `RunsWithinTTL`,
`ReleasesAssumption`, `ClusterAssumption`, `AccountsAssumption`, `BudgetsAssumption`,
`WorkspacesAssumption`, `BindingsAssumption`, `AppsAssumption`, `OrchestratorAssumption`,
`PreviewsAssumption` and, for the parts that are instances, `PartsAssumption` of
`MCControlPlane`. They say that a value that stands for nothing is no proper value, that
calls and applications are finitely many, that bounds are numbers, and that the namespace of a tenant
is none of the platform's (`NamespaceName` begins with `app-`); TLC evaluates each in a run.
No theorem has a hypothesis beside them.

`IdempotencyProofs`. `Typing`; then `Inductive`, the invariant `IInv`: the row of a running call
is its own and no older than the call has been running; a call before its
handler has no reply and one after it has its own; a stored response is the
reply of the row's owner. The comparison of ages is what makes it inductive: a
purge needs `age >= TTL`, and a running call's row has
`age <= elapsed <= MaxRun < TTL`. `RunnerKeeps`, `OneRunnerPerKey`, `FaithfulReplays`,
`SpacedClaims`, `FinalAnswers` and the refinement of `OncePerKey`
(`Refinement`) follow from it.

`ReleasesProofs`. `Typing` proves `Sound`: types, the revisions of a deployment are `1 .. n` for some `n`
(`Contiguous`), and the number a call was given is at most one past the last
(`JobsFit`). That last part is what carries the race: a stale `max + 1` is either
the next number or taken, and then the UNIQUE constraint refuses it (`FreeIsNext`,
`InsertAppends`). `Knowing` proves `CallsKnow`: what a call has read - its plan is
approved, the entry it is about to copy is below the end - stays true while
others run, since approvals and revisions are never taken back (`StepsGrow`). From
the two follow `ApprovedFirst` (nothing is sent before it is approved) and `Refinement`
(every behaviour is one of `ReleaseLog`).

`ClusterProofs`. `Typing` proves `Typed`: types, and a worker in a pass works on an object.
`Copies` proves `BuildInv`, the invariant behind everything the Build reconciler
decides on old data: the phase of a copy ranks at most as high as the phase of its build, a copy that says
PUSHED *is* the build (nothing changes a build that is over), and a worker that counts as a
holder of the latest version has the latest version. It is inductive because
every write of a build advances it (`Advances`, `WriteFits`) and every other step leaves the holders'
copies alone (`StayFits`). From it follow `Forward` (the controller's CREATED does not overwrite
a later phase), `TokenKept` (a token is deleted on the word of a copy that ranks 3 or more, and the build
ranks at least as high) and, with `ImagesFit` (the same for the images in AppEnvs, caches, copies and workloads),
`OnlyReleased`. `PinnedOnly` needs the types only.

`AccountsProofs`. `AccountsInv`: what a call is about fits the statement it is at, a call past
`LoginRead` has read a verified row, a call past the sub-select holds a token that
was mailed, a verified row has a verification token that was mailed and used
(`Shown`), and the windows fit their counts (`WindowsFit`): `admitted` equals `count`, and the
hour up to now reaches at most `Limit` sign-ups back into the window before. It is
inductive because no step takes back a user, a verification or the row of a token
(`RowsLast`). `SignupsBounded` (`Limit` in a window, `2 * Limit - 1` in any hour),
`SessionsProven`, `DeadStayDead` and `OnlyResets` follow. `DeadStayDead` does not say that a
consumed token changes nothing any more: statements that had read it before still do.
It says that when these are through nobody else ever comes to hold it.

`WorkspacesProofs`. `WorkspacesInv`: a call that the gate let invite carries a role that may, a call
about to insert a token acts where its user is a member, which nobody ever ceases to
be (`MembersLast`); and `Few(u)` counts the workspaces made for `u`, once there is one, together
with the calls that looked for a membership and found none (`Lookers`): they never
exceed the number of calls, which a count of workspaces alone would not show. From
it `OwnersAreMembers`, `FewWorkspaces` and `GrantedRoles`.

`BindingsProofs`. `Binders`: the call that is about to insert the binding of a database is the
one that inserted the database, and there is no binding yet; this excludes a second
one although nothing in the table does. `Provers`: a call about to mark a host has
seen its challenge. From them `BoundOnce` and `ProvenFirst`; `NewestLives` by the unique version.

`GuardsProofs`. For `Apps` (`AppsInv`): live applications and calls past the count are together
below the ceiling and one call less, hence `QuotaNearlyKept`. For
`Orchestrator`: the stages since the last rest include what the state requires
(`StageInv`), the lock has one holder (`LockInv`), the finished steps are the first
ones (`StepsInv`); hence `ServesVerified` and `PurgeLast`. For `Previews`: the guard still has
an instant as late as that of any request it let by for a delivery, or that is more
than `Ttl` ago (`PreviewsInv`), hence `ActOnce`. For `Budgets`:
`RateInv` is a balance: tokens let through and tokens left are at most the capacity and
what was refilled until `lastRefill`, and no request carries an instant later than now. It
holds for instants in any order because an earlier one refills nothing. `GateInv` and
`LoopInv` are the counts of the gate and the attempts.

`ControlPlaneProofs`. A behaviour of `PartSpec` is, of each part, one of that part
(`AccountsInside` and so on, `PartMoves`). For the parts that are instances it carries one
inductive invariant each:

- `GitHubInv`: a state that is swapped for a code was drawn for somebody, and its row,
  while there is one, names that user: hence `BindsOnce`;
- `CellsInv`: only a registered cell has organizations. A cell that joins is last, so what was
  first in the order of registration stays first (`FirstStays`, from the lemma that a
  set of positions has one least element, `LeastIsLeast`), and an assignment adds a
  single cell to those that are searched (`AssignMovesItsOwn`): hence `RoutesStable`;
- `ProvisioningInv`: the reconcile under way carries the password MongoDB knows, the user
  is there from the second step on, and storage is attached before anything is
  injected (`WorkFits`). A create that fails leaves the user behind, and this is why the
  create must refuse it ever after: hence `Provisioned`, that the password of an
  injected `MONGODB_URI` is the user's and that a READY binding has its user and policy;
- `ManifestsInv`: a route carries verified hosts, each verified for one tenant. That tenants
  meet nowhere but in the MongoDB of their common application is no matter of steps:
  the two policies that deny select every pod of their namespace, so that only what a
  rule names is open (`EgressIsNamed`, `IngressIsNamed`, `PodsApart`): hence `TenantsApart`;
- `AnalysisInv`: a draft is admitted and has its estimates because the generator makes
  frontends and backends of known runtimes alone (`DraftedIsAccepted`); what is stored was
  admitted, and what is planned covers it: hence `AnalyzedDeployable`;
- `Posed`: what kind of question is asked. The loops of `Verdicts` are recursive functions over
  the turns of a loop. `LoopEnds` shows that such a function exists and obeys its
  equation, and `Climb` is induction over its turns; both go back to the least
  element of a set of numbers, since the library's own induction theorems take an
  operator. With an invariant for each loop (`BestIsNewest`, `AggregateIsAll`,
  `DiagnosisIsRight`) they give `TargetsAreRight` and `ReportsRight` for lists of any length;
  `FiguresRight` (invoice, schedule, autoscaler and quota) is arithmetic. For a request
  (`RequestsAnswered`) there is no induction but the tables: the mounts as one set (`MountsAre`), whose routes
  have one row each; no path of an operation
  that is left to the stub is mounted for another method (`PathsApart`), hence `ContractKept`; the layers a route
  can have are few (`RecordedLayers`), hence `RolesAsked` and `RunsRecorded`.

`TypesCorrect`, `PlatformIsSafe` and `PlatformStepsAreSafe` put the theorems of the other
proof modules under `PartSpec`, the specification that the run `platform` checks.

Every safety property of a passing run is so proved. Only model-checked: everything
with liveness (`RowsExpire`, `PinnedImageRuns`, `TokensGo` and the liveness violations), which is
out of the prover's reach, as `ENABLED` is.

## Disagreements between the code and its comments

1. `RollbackLatest` (`control-plane/internal/apps/store.go:487`) orders deployments by their
   random id; its comment promises the newest deployment. `releases_newest` shows
   a rollback of the older of two.
2. `applyBridgeBestEffort` (`handlers.go:690`) logs a failed apply; its comment calls convergence
   "eventual by design", but nothing applies again, and a second deploy of the
   approved plan is answered CONFLICT. `releases_converge` shows the deploy that never
   arrives.
3. A build records a bare `sha256:...` digest; `maybeBackfillDigest` writes it into the AppEnv,
   the CRD admits it, and `RequireDigestImage` (`controllers/internal/appenv/deployment.go:34`)
   refuses it. The comment on the backfill says the workload rolls forward;
   `cluster_digest` shows that it never does.
4. `renderServices` (`controllers/internal/appenv/reconciler.go:90`) is documented as "creating or updating idempotently". Its
   Get reads the cache; if that does not show the Deployment yet, the Create of the *new*
   image is answered AlreadyExists, which is taken for success, and the pass ends well
   with the old image running and nothing queued. `cluster_render` shows it: two deploys in a row. The next
   change of the AppEnv or the resync repairs it.
5. `ConsumeResetToken` (`control-plane/internal/auth/store.go:115`) is documented as single-use,
   but changes the password in one statement and marks the token in another:
   `reset_reuse` shows a token that is used twice, by two calls or by a retry after a
   failed second statement.
6. `CreateApp` (`apps/store.go:118`) counts inside its INSERT..SELECT; the comment says that racing
   creations cannot both slip under the limit. At READ COMMITTED they can (`quota_race`),
   by less than there are calls (`QuotaIsNearlyKept`).
7. `InjectToNamespace` (`providers/secret/local/provider.go:106`) replaces the data of the one Secret of an
   application by the entries of its call, where the comment says it upserts:
   `bindings_kept` shows a READY binding whose credential is gone from the Secret. The
   provider's test (`provider_test.go:154-155`) wants stale keys "replaced wholesale", as the
   code does; it is `ProvisionBinding` that passes one entry at a time.
8. `classifyCreateRejection` (`apps/store.go:134-136`, `:171`) answers that "a concurrent creation won
   the race" when it finds neither the ceiling reached nor a live application of the name. The unique
   constraint also counts deleted rows (`000001_schema_v1.up.sql:45`), so `create_race`, with one
   call at a time, is told of a race after it deleted the application of that name.

Disagreements without a run of their own, because the text promises what no state of
the model can refute, or because a property that holds says what the code does instead:

- `CleanupExpiredIdempotency` "purges terminal-state rows" (`auth/idem.go:176`); its DELETE takes every expired
  row, also one in flight (`:179`). `RowsExpire` needs that: the row of a server that
  stopped never becomes terminal.
- An invited stub user "can claim it later via the password-reset flow" (`auth/members.go:81-83`); a reset is
  only made for a verified user (`auth/handler.go:293`), a sign-up is refused the address and a
  login asks for verification, so nobody can. `SessionsAreProven` depends on it.
- `CheckSignupLimit` "enforces N signups per IP per rolling hour window" (`auth/store.go:131`); the window starts over
  once it is an hour old, so an hour can see `2N - 1`, the bound in `SignupsAreBounded`.
- With `DefaultOrgForUser` "every user always has exactly one default org" (`auth/apitoken.go:41-42`); two first
  calls that race make two, and `WorkspacesAreFew` bounds them by the calls there can be.
- MongoDB: the URI says `authSource=app_<id>` (`providers/mongo/local/provider.go:151`, wanted by
  `provider_test.go:80`, and Delete goes to that database, `:116`), while `createUser` runs in mongosh's default
  database (`:103-105`, `:131-141`), where the user is not looked for; `e2e/security/verify-data.sh:18` looks in a
  third, `admin`, and `security/poc/JUDGEMENTS.md:8` expects a user that can connect. `InjectedIsCurrent`
  therefore speaks of the password.
- `AllowFrontendToBackend` "admits same-namespace frontend pods to backend:8000" (`netpol.go:90`); it opens the
  backend's ingress, but no policy lets a frontend out to it, and the default egress is
  denied. Likewise `RenderHTTPRoute` sends `/api` to the backend (`httproute.go:47-50`), where the gateway
  is admitted to frontends only. `TenantsAreSeparate` says what is never admitted, and
  these two are not among what is.
- `RenderHPA` is "clamped to the plan quota ceiling" (`workload_kinds.go:75-76`); its maximum is raised to the replicas
  a service asks for, beyond the ceiling. `FiguresAreRight` says the larger of the two.
- Workers run "as a long-lived Deployment" and cron services map onto a CronJob
  (`appspec/spec.go:40-42`); both pass validation and have no plan. `AnalyzedIsDeployable` is about what the
  analyzer drafts, which has neither.
- Repeated requests for a database "merge idempotently" (`apps/databases.go:38-39`); the loser of a race meets the
  unique constraint and is answered an error, and a database whose binding failed to be
  inserted answers NOT_FOUND for ever (`:69`).
- `Assign` "pins one organization onto a cell explicitly" (`cells/cells.go:91`); an organization that is held by a
  cell registered earlier stays there, because routing takes the first cell that has it.
- `Idempotency-Key` is a "replay-safe key for mutation requests" (`api/openapi.yaml:887`); the contract offers it for
  `verify`, `reveal`, `analyze`, `DELETE /v1/tokens/{tokenId}` and the routes under `/v1/auth` too, where the server
  mounts no `idem` layer.

Seen while modelling, with no text that says otherwise: nothing mounts
`GithubHandlers.Mount`, so the stub answers `/v1/github/*` with 501. The free quota
(`tenant_defaults.go:40`) has no room for the extra pod of a rolling update. Routing depends on
Go's map order when several services could take a route (`generator.go:98`). `GuardStart` leaves
DELETING at any step. `createUser` cannot be repeated (`mongo/local/provider.go:105`), so a binding whose
injection failed is never READY. `CreateAppCache` replaces the password another environment
holds (`cache/local/provider.go:121`), and the environments of one application share the user and the
pods of its MongoDB. A verification step that was never filled in counts as present for
`ValidateComplete` and leaves the report RUNNING (`verifier/internal/verify/report.go:45`).

## Not modelled

- `kms`, `logs`, `config`, `httpx`: conversions and I/O without state of their own. Of the generated
  code (`gen.gen.go`, twice, more than a third of the lines) the server's half is in `Routes`
  and its client and types are not modelled.
- Consoles, `sdk`, `mcp`, `e2e`, `builder`: clients of the API and tests.
- Cloud providers and `domaincert`: one command or one manifest per call, behind interfaces
  whose local versions are modelled in `Provisioning`.
- The pods of a build, probes, DNS, GitHub, MongoDB, Redis, MinIO and the API server are
  external: their effects are modelled where the code uses them.
- `BillingPeriod` and `metering`: a date, and a conversion of one scrape.
- In the manifests: how workloads, cron jobs and security contexts are rendered and
  compared; in `Provisioning` the Delete methods and `EnsureBucket`, which nothing calls, and
  the re-encryption of secrets.
- Within the modelled parts: the wording of responses; reading endpoints and
  `handleAnalyze`; the audit row (its failure is dropped, so it changes nothing); the tier
  of an application, which never changes while a plan is live; a server without an
  `Applier`, which skips the bridge.
- The parts of `MCControlPlane` run beside each other and not through each other: that an
  application is deleted while its database is bound, say, is not explored. Nor are
  `Releases` and `Cluster` composed.

## Plan

Done in this order, the most important behaviour first: `OncePerKey`,
`Idempotency`, their proofs; `ReleaseLog`, `Releases`, their proofs; `Cluster` and its
proofs; `Accounts`, `Workspaces`, `GitHubBinding`, `Apps`, `Bindings`; `Orchestrator`, `Budgets`, `Cells`, `Previews`;
`Provisioning`, `Analysis`, `Manifests`, `Verdicts`; the proofs of all of these; `Roles` and `Routes`
with theirs.

Next:

1. `Pipeline`: composes `Releases` and `Cluster`: several deploys of one application, the
   order of their releases through the backfill, a Build name that is met again
   (`handlers.go:694`), the delete that leaves the cluster as it is.
2. Liveness of the DatabaseBinding reconciler under its retries.
