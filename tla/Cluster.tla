------------------------------- MODULE Cluster -------------------------------
(***************************************************************************)
(* The cluster side of a deploy: the AppEnv and Build objects of one       *)
(* application and the two reconcilers of app-controller                   *)
(* (controllers/internal/build/reconciler.go, appenv/reconciler.go).       *)
(*                                                                         *)
(* The API server keeps the objects; a reconciler reads them from the      *)
(* informer cache, which lags behind, and writes them back with the        *)
(* resourceVersion it read, so a write based on an old copy is refused.    *)
(* Versions are not numbered here: for each object the model keeps who     *)
(* holds its latest version.  Every reconciler has one worker, whose       *)
(* queue holds the names of the objects to look at.                        *)
(*                                                                         *)
(* The pods of a build and the control plane are the environment.          *)
(***************************************************************************)
EXTENDS Naturals

CONSTANTS
    AppEnv,         \* the AppEnv objects of the application, by name
    Build,          \* its Build objects, by name
    Pinned,         \* image references with an @sha256: digest
    Bare,           \* sha256: digests without a repository
    Written,        \* what the pod of a build may write as its digest
    NoImage,
    NoName,         \* an idle worker's object
    MaxChanges,     \* bound: deploys of an image
    MaxFaults       \* bound: failed calls of the API and restarts

ASSUME ClusterAssumption ==
    /\ NoImage \notin Pinned \union Bare
    /\ Pinned \cap Bare = {}
    /\ Written \subseteq Pinned \union Bare
    /\ NoName \notin AppEnv \union Build
    /\ MaxChanges \in Nat
    /\ MaxFaults \in Nat

VARIABLES
    env,        \* env[e]: the AppEnv e, as the API server has it
    build,      \* build[b]: the Build b, as the API server has it
    token,      \* token[b]: the Secret with the git token of b exists
    namespace,  \* who manages the namespace of the application, "none" if absent
    workload,   \* workload[e]: the image of the Deployment of the service of e
    envCache,   \* the informer's copy of env
    buildCache, \* the informer's copy of build
    seen,       \* seen[e]: what the informer has of the Deployment of e
    envAt,      \* envAt[e]: who holds the latest version of e
    buildAt,    \* buildAt[b]: who holds the latest version of b
    envQueue,   \* the AppEnvs to reconcile
    buildQueue, \* the Builds to reconcile
    ew,         \* the worker of the AppEnv reconciler
    bw,         \* the worker of the Build reconciler
    deployed,   \* the images deploy calls asked for
    changes,    \* deploys of an image so far
    faults      \* failed calls and restarts so far

server == <<env, build, token, namespace, workload>>
caches == <<envCache, buildCache, seen>>
queues == <<envQueue, buildQueue>>
counts == <<deployed, changes, faults>>
vars == <<env, build, token, namespace, workload, envCache, buildCache, seen,
          envAt, buildAt, envQueue, buildQueue, ew, bw, deployed, changes, faults>>

Image == Pinned \union Bare
Holders == {"cache", "ew", "bw"}
Phases == {"", "CREATED", "CLONING", "BUILDING", "PUSHED", "FAILED"}

\* BUILDING stands for BUILDING, SCANNING and SIGNING, which the reconciler
\* treats alike; evidence is the SBOM, the scan report and the signature.
AppEnvs == [there : BOOLEAN, image : Image \union {NoImage}, ready : BOOLEAN]
Builds == [there : BOOLEAN, phase : Phases, digest : Image \union {NoImage},
           evidence : BOOLEAN]
NoAppEnv == [there |-> FALSE, image |-> NoImage, ready |-> FALSE]
NoBuild == [there |-> FALSE, phase |-> "", digest |-> NoImage, evidence |-> FALSE]
EnvIdle == [at |-> "idle", on |-> NoName, mine |-> NoAppEnv]
BuildIdle == [at |-> "idle", on |-> NoName, mine |-> NoBuild, todo |-> {}]

TypeOK ==
    /\ env \in [AppEnv -> AppEnvs]
    /\ build \in [Build -> Builds]
    /\ token \in [Build -> BOOLEAN]
    /\ namespace \in {"none", "tenara", "other"}
    /\ workload \in [AppEnv -> Image \union {NoImage}]
    /\ envCache \in [AppEnv -> AppEnvs]
    /\ buildCache \in [Build -> Builds]
    /\ seen \in [AppEnv -> {"absent", "old", "latest"}]
    /\ envAt \in [AppEnv -> SUBSET Holders]
    /\ buildAt \in [Build -> SUBSET Holders]
    /\ envQueue \subseteq AppEnv
    /\ buildQueue \subseteq Build
    /\ ew \in [at : {"idle", "namespace", "status", "render"},
               on : AppEnv \union {NoName}, mine : AppEnvs]
    /\ bw \in [at : {"idle", "list", "update", "phase"},
               on : Build \union {NoName}, mine : Builds, todo : SUBSET AppEnv]
    /\ deployed \subseteq Image
    /\ changes \in 0 .. MaxChanges
    /\ faults \in 0 .. MaxFaults

Init ==
    /\ env = [e \in AppEnv |-> NoAppEnv]
    /\ build = [b \in Build |-> NoBuild]
    /\ token = [b \in Build |-> FALSE]
    /\ namespace \in {"none", "other"}
    /\ workload = [e \in AppEnv |-> NoImage]
    /\ envCache = env
    /\ buildCache = build
    /\ seen = [e \in AppEnv |-> "absent"]
    /\ envAt = [e \in AppEnv |-> {"cache"}]
    /\ buildAt = [b \in Build |-> {"cache"}]
    /\ envQueue = {}
    /\ buildQueue = {}
    /\ ew = EnvIdle
    /\ bw = BuildIdle
    /\ deployed = {}
    /\ changes = 0
    /\ faults = 0

-----------------------------------------------------------------------------
(* The API server *)

\* w writes v; what every other holder has is out of date, unless nothing
\* changed.
WriteEnv(e, v, w) ==
    /\ env' = [env EXCEPT ![e] = v]
    /\ envAt' = [envAt EXCEPT ![e] = IF v = env[e] THEN @ ELSE w]
WriteBuild(b, v, w) ==
    /\ build' = [build EXCEPT ![b] = v]
    /\ buildAt' = [buildAt EXCEPT ![b] = IF v = build[b] THEN @ ELSE w]

\* w reads from the cache, and has the latest version if the cache does.
Reading(at, w) == IF "cache" \in at THEN at \union {w} ELSE at \ {w}

-----------------------------------------------------------------------------
(* The environment: applyBridgeBestEffort, and the pods of a build *)

\* BuildAppEnv under kubectl apply.  A reference without a digest leaves out
\* the services, which takes away those of the apply before.
DeployImage(e, i) ==
    /\ changes < MaxChanges
    /\ changes' = changes + 1
    /\ deployed' = deployed \union ({i} \ {NoImage})
    /\ WriteEnv(e, [env[e] EXCEPT !.there = TRUE, !.image = i], {})
    /\ UNCHANGED <<build, token, namespace, workload, caches, buildAt, queues,
                   ew, bw, faults>>

\* BuildBuild under kubectl apply.  The repository is private; a public one has
\* no token Secret, and nothing waits for one.
DeployGit(b) ==
    /\ ~build[b].there
    /\ WriteBuild(b, [NoBuild EXCEPT !.there = TRUE], {})
    /\ token' = [token EXCEPT ![b] = TRUE]
    /\ UNCHANGED <<env, namespace, workload, caches, envAt, queues, ew, bw, counts>>

PodWrites(b, v) ==
    /\ WriteBuild(b, v, {})
    /\ UNCHANGED <<env, token, namespace, workload, caches, envAt, queues, ew, bw,
                   counts>>

\* The pod clones, builds and pushes, scans and signs.
PodStep(b) ==
    \/ build[b].phase = "CREATED" /\ PodWrites(b, [build[b] EXCEPT !.phase = "CLONING"])
    \/ build[b].phase = "CLONING" /\ PodWrites(b, [build[b] EXCEPT !.phase = "BUILDING"])
    \/ /\ build[b].phase = "BUILDING"
       /\ build[b].digest = NoImage
       /\ \E i \in Written : PodWrites(b, [build[b] EXCEPT !.digest = i])
    \/ /\ build[b].phase = "BUILDING"
       /\ build[b].digest # NoImage
       /\ PodWrites(b, [build[b] EXCEPT !.evidence = TRUE])

\* FinalizeBuild: every artifact has to be there.
Finalize(b) ==
    /\ build[b].phase = "BUILDING"
    /\ build[b].digest # NoImage
    /\ build[b].evidence
    /\ PodWrites(b, [build[b] EXCEPT !.phase = "PUSHED"])

\* MarkFailed, also for a scan with critical findings (EvaluateScanGate).
MarkFailed(b) ==
    /\ build[b].phase \in {"CREATED", "CLONING", "BUILDING"}
    /\ PodWrites(b, [build[b] EXCEPT !.phase = "FAILED"])

-----------------------------------------------------------------------------
(* The informers *)

SyncEnv(e) ==
    /\ "cache" \notin envAt[e]
    /\ envCache' = [envCache EXCEPT ![e] = env[e]]
    /\ envAt' = [envAt EXCEPT ![e] = @ \union {"cache"}]
    /\ envQueue' = envQueue \union {e}
    /\ UNCHANGED <<server, buildCache, seen, buildAt, buildQueue, ew, bw, counts>>

SyncBuild(b) ==
    /\ "cache" \notin buildAt[b]
    /\ buildCache' = [buildCache EXCEPT ![b] = build[b]]
    /\ buildAt' = [buildAt EXCEPT ![b] = @ \union {"cache"}]
    /\ buildQueue' = buildQueue \union {b}
    /\ UNCHANGED <<server, envCache, seen, envAt, envQueue, ew, bw, counts>>

\* Nobody watches the Deployments: the copy is all that changes.
SyncWorkload(e) ==
    /\ workload[e] # NoImage
    /\ seen[e] # "latest"
    /\ seen' = [seen EXCEPT ![e] = "latest"]
    /\ UNCHANGED <<server, envCache, buildCache, envAt, buildAt, queues, ew, bw, counts>>

\* Every SyncPeriod the informers hand out all they have again.
ResyncEnv(e) ==
    /\ envCache[e].there
    /\ e \notin envQueue
    /\ envQueue' = envQueue \union {e}
    /\ UNCHANGED <<server, caches, envAt, buildAt, buildQueue, ew, bw, counts>>

ResyncBuild(b) ==
    /\ buildCache[b].there
    /\ b \notin buildQueue
    /\ buildQueue' = buildQueue \union {b}
    /\ UNCHANGED <<server, caches, envAt, buildAt, envQueue, ew, bw, counts>>

-----------------------------------------------------------------------------
(* The workers: a pass that ends forgets the copies it read *)

EnvGoto(step) == ew' = [ew EXCEPT !.at = step]
EnvEnds ==
    /\ ew' = EnvIdle
    /\ envAt' = [envAt EXCEPT ![ew.on] = @ \ {"ew"}]
BuildEnds ==
    /\ bw' = BuildIdle
    /\ buildAt' = [buildAt EXCEPT ![bw.on] = @ \ {"bw"}]
DropCopies == [e \in AppEnv |-> envAt[e] \ {"bw"}]
Requeue(queue, o) == queue \union {o}

-----------------------------------------------------------------------------
(* Faulty forms of the actions below; no specification here takes them. *)

\* renderServices without RequireDigestImage.
EnvRenderAny ==
    /\ ew.at = "render"
    /\ ew.mine.image # NoImage
    /\ workload' = [workload EXCEPT ![ew.on] = ew.mine.image]
    /\ EnvEnds
    /\ UNCHANGED <<env, build, token, namespace, caches, buildAt, queues, bw, counts>>

\* renderServices without the branch that updates.
EnvCreatesOnly ==
    /\ ew.at = "render"
    /\ ew.mine.image \in Pinned
    /\ seen[ew.on] # "old"
    /\ workload' = [workload EXCEPT ![ew.on] = IF @ = NoImage THEN ew.mine.image ELSE @]
    /\ EnvEnds
    /\ UNCHANGED <<env, build, token, namespace, caches, buildAt, queues, bw, counts>>

\* maybeBackfillDigest without a look at the phase.
BuildTakeAnyPhase(b) ==
    /\ bw.at = "idle"
    /\ b \in buildQueue
    /\ buildQueue' = buildQueue \ {b}
    /\ buildAt' = [buildAt EXCEPT ![b] = Reading(@, "bw")]
    /\ LET mine == buildCache[b] IN
         bw' = [at |-> IF mine.digest # NoImage THEN "list" ELSE "phase",
                on |-> b, mine |-> mine, todo |-> {}]
    /\ UNCHANGED <<server, caches, envAt, envQueue, ew, counts>>

\* A status write that does not carry the resourceVersion it was read with.
SetCreatedBlindly ==
    /\ bw.at = "phase"
    /\ bw.mine.phase = ""
    /\ WriteBuild(bw.on, [build[bw.on] EXCEPT !.phase = "CREATED"], {})
    /\ buildQueue' = Requeue(buildQueue, bw.on)
    /\ bw' = BuildIdle
    /\ UNCHANGED <<env, token, namespace, workload, caches, envAt, envQueue, ew, counts>>

\* A status with a phase nobody declared.
SetPending ==
    /\ bw.at = "phase"
    /\ bw.mine.phase = ""
    /\ "bw" \in buildAt[bw.on]
    /\ WriteBuild(bw.on, [build[bw.on] EXCEPT !.phase = "PENDING"], {})
    /\ buildQueue' = Requeue(buildQueue, bw.on)
    /\ bw' = BuildIdle
    /\ UNCHANGED <<env, token, namespace, workload, caches, envAt, envQueue, ew, counts>>

\* The token goes as soon as the build is past CREATED.
DropTokenEarly ==
    /\ bw.at = "phase"
    /\ bw.mine.phase \notin {"", "CREATED"}
    /\ token' = [token EXCEPT ![bw.on] = FALSE]
    /\ buildQueue' = IF bw.mine.phase \in {"PUSHED", "FAILED"} THEN buildQueue
                     ELSE Requeue(buildQueue, bw.on)
    /\ BuildEnds
    /\ UNCHANGED <<env, build, namespace, workload, caches, envAt, envQueue, ew, counts>>

\* The token goes while the build is polled, and not when it is over.
DropTokenWhilePolled ==
    /\ bw.at = "phase"
    /\ bw.mine.phase \in {"BUILDING", "PUSHED", "FAILED"}
    /\ IF bw.mine.phase = "BUILDING"
       THEN /\ token' = [token EXCEPT ![bw.on] = FALSE]
            /\ buildQueue' = Requeue(buildQueue, bw.on)
       ELSE UNCHANGED <<token, buildQueue>>
    /\ BuildEnds
    /\ UNCHANGED <<env, build, namespace, workload, caches, envAt, envQueue, ew, counts>>

-----------------------------------------------------------------------------
(* The AppEnv reconciler *)

\* Reconcile: Get from the cache.  The CRD admits no other isolation level than
\* those ValidateIsolation accepts, and nobody deletes an AppEnv.
EnvTake(e) ==
    /\ ew.at = "idle"
    /\ e \in envQueue
    /\ envQueue' = envQueue \ {e}
    /\ envAt' = [envAt EXCEPT ![e] = Reading(@, "ew")]
    /\ ew' = [at |-> "namespace", on |-> e, mine |-> envCache[e]]
    /\ UNCHANGED <<server, caches, buildAt, buildQueue, bw, counts>>

\* ensureNamespace: create it, or adopt one that Tenara manages.
EnvNamespace ==
    /\ ew.at = "namespace"
    /\ \/ /\ namespace = "other"
          /\ envQueue' = Requeue(envQueue, ew.on)
          /\ EnvEnds
          /\ UNCHANGED namespace
       \/ /\ namespace # "other"
          /\ namespace' = "tenara"
          /\ EnvGoto(IF ew.mine.ready THEN "render" ELSE "status")
          /\ UNCHANGED <<envQueue, envAt>>
    /\ UNCHANGED <<env, build, token, workload, caches, buildAt, buildQueue, bw, counts>>

\* Status().Update returns the object as written; on a conflict, an error.
EnvStatus ==
    /\ ew.at = "status"
    /\ \/ /\ "ew" \in envAt[ew.on]
          /\ WriteEnv(ew.on, [env[ew.on] EXCEPT !.ready = TRUE], {"ew"})
          /\ ew' = [ew EXCEPT !.at = "render", !.mine.ready = TRUE]
          /\ UNCHANGED envQueue
       \/ /\ "ew" \notin envAt[ew.on]
          /\ envQueue' = Requeue(envQueue, ew.on)
          /\ EnvEnds
          /\ UNCHANGED env
    /\ UNCHANGED <<build, token, namespace, workload, caches, buildAt, buildQueue, bw,
                   counts>>

\* renderServices of a pinned image: Get from the cache, then Create or Update.
Creates(e) == seen[e] = "absent" /\ workload[e] = NoImage
Exists(e) == seen[e] = "absent" /\ workload[e] # NoImage
Updates(e) == seen[e] = "latest"

\* Nothing to render, or a Create that meets a Deployment the cache does not
\* show yet: AlreadyExists is no error, and the pass ends well.
EnvLeaves ==
    /\ ew.at = "render"
    /\ ew.mine.image = NoImage \/ (ew.mine.image \in Pinned /\ Exists(ew.on))
    /\ EnvEnds
    /\ UNCHANGED <<server, caches, buildAt, queues, bw, counts>>

EnvRender ==
    /\ ew.at = "render"
    /\ ew.mine.image \in Pinned
    /\ Creates(ew.on) \/ Updates(ew.on)
    /\ workload' = [workload EXCEPT ![ew.on] = ew.mine.image]
    /\ seen' = [seen EXCEPT ![ew.on] =
                   IF Updates(ew.on) /\ workload' # workload THEN "old" ELSE @]
    /\ EnvEnds
    /\ UNCHANGED <<env, build, token, namespace, envCache, buildCache, buildAt, queues,
                   bw, counts>>

\* RequireDigestImage refuses any other image, and the API an Update of an old
\* copy: an error, and the object is tried again.
EnvRefused ==
    /\ ew.at = "render"
    /\ ew.mine.image \in Bare \/ (ew.mine.image \in Pinned /\ seen[ew.on] = "old")
    /\ envQueue' = Requeue(envQueue, ew.on)
    /\ EnvEnds
    /\ UNCHANGED <<server, caches, buildAt, buildQueue, bw, counts>>

\* Any other call of the API fails, or a Create of a namespace the cache does
\* not show yet: the object is tried again.
EnvFails ==
    /\ ew.at # "idle"
    /\ faults < MaxFaults
    /\ faults' = faults + 1
    /\ envQueue' = Requeue(envQueue, ew.on)
    /\ EnvEnds
    /\ UNCHANGED <<server, caches, buildAt, buildQueue, bw, deployed, changes>>

-----------------------------------------------------------------------------
(* The Build reconciler *)

\* Reconcile: Get from the cache; a pushed build is backfilled first.
BuildTake(b) ==
    /\ bw.at = "idle"
    /\ b \in buildQueue
    /\ buildQueue' = buildQueue \ {b}
    /\ buildAt' = [buildAt EXCEPT ![b] = Reading(@, "bw")]
    /\ LET mine == buildCache[b]
           backfill == mine.phase = "PUSHED" /\ mine.digest # NoImage
       IN bw' = [at |-> IF backfill THEN "list" ELSE "phase",
                 on |-> b, mine |-> mine, todo |-> {}]
    /\ UNCHANGED <<server, caches, envAt, envQueue, ew, counts>>

\* maybeBackfillDigest: List from the cache; the AppEnvs with a service that
\* runs something else are to be updated.
BuildList ==
    /\ bw.at = "list"
    /\ LET todo == {e \in AppEnv :
                      envCache[e].image \notin {NoImage, bw.mine.digest}}
       IN /\ bw' = [bw EXCEPT !.at = IF todo = {} THEN "phase" ELSE "update",
                              !.todo = todo]
          /\ envAt' = [e \in AppEnv |-> IF e \in todo THEN Reading(envAt[e], "bw")
                                                      ELSE envAt[e]]
    /\ UNCHANGED <<server, caches, buildAt, queues, ew, counts>>

\* maybeBackfillDigest: Update one of them; a conflict ends the pass.
BuildUpdate(e) ==
    /\ bw.at = "update"
    /\ e \in bw.todo
    /\ \/ /\ "bw" \in envAt[e]
          /\ WriteEnv(e, [env[e] EXCEPT !.image = bw.mine.digest], {})
          /\ bw' = [bw EXCEPT !.at = IF bw.todo = {e} THEN "phase" ELSE "update",
                              !.todo = @ \ {e}]
          /\ UNCHANGED <<buildQueue, buildAt>>
       \/ /\ "bw" \notin envAt[e]
          /\ buildQueue' = Requeue(buildQueue, bw.on)
          /\ BuildEnds
          /\ envAt' = DropCopies
          /\ UNCHANGED env
    /\ UNCHANGED <<build, token, namespace, workload, caches, envQueue, ew, counts>>

\* reconcilePhase of a new build; it is looked at again soon, or after the
\* conflict.
SetCreated ==
    /\ bw.at = "phase"
    /\ bw.mine.phase = ""
    /\ IF "bw" \in buildAt[bw.on]
       THEN WriteBuild(bw.on, [build[bw.on] EXCEPT !.phase = "CREATED"], {})
       ELSE UNCHANGED <<build, buildAt>>
    /\ buildQueue' = Requeue(buildQueue, bw.on)
    /\ bw' = BuildIdle
    /\ UNCHANGED <<env, token, namespace, workload, caches, envAt, envQueue, ew, counts>>

\* reconcilePhase of a build that is cloning, or about to: poll.
Poll ==
    /\ bw.at = "phase"
    /\ bw.mine.phase \in {"CREATED", "CLONING"}
    /\ buildQueue' = Requeue(buildQueue, bw.on)
    /\ BuildEnds
    /\ UNCHANGED <<server, caches, envAt, envQueue, ew, counts>>

\* reconcilePhase of a build past CLONING: the token goes (a failed Delete is
\* logged), and the build is polled until it is over.
DropToken ==
    /\ bw.at = "phase"
    /\ bw.mine.phase \in {"BUILDING", "PUSHED", "FAILED"}
    /\ \/ token' = [token EXCEPT ![bw.on] = FALSE] /\ UNCHANGED faults
       \/ faults < MaxFaults /\ faults' = faults + 1 /\ UNCHANGED token
    /\ buildQueue' = IF bw.mine.phase = "BUILDING"
                     THEN Requeue(buildQueue, bw.on) ELSE buildQueue
    /\ BuildEnds
    /\ UNCHANGED <<env, build, namespace, workload, caches, envAt, envQueue, ew,
                   deployed, changes>>

\* Any other call of the API fails: the object is tried again.
BuildFails ==
    /\ bw.at \in {"list", "update", "phase"}
    /\ faults < MaxFaults
    /\ faults' = faults + 1
    /\ buildQueue' = Requeue(buildQueue, bw.on)
    /\ BuildEnds
    /\ envAt' = DropCopies
    /\ UNCHANGED <<server, caches, envQueue, ew, deployed, changes>>

\* app-controller stops and starts: it lists every object anew.
Restart ==
    /\ faults < MaxFaults
    /\ faults' = faults + 1
    /\ ew' = EnvIdle
    /\ bw' = BuildIdle
    /\ envCache' = env
    /\ buildCache' = build
    /\ seen' = [e \in AppEnv |-> IF workload[e] = NoImage THEN "absent" ELSE "latest"]
    /\ envAt' = [e \in AppEnv |-> {"cache"}]
    /\ buildAt' = [b \in Build |-> {"cache"}]
    /\ envQueue' = {e \in AppEnv : env[e].there}
    /\ buildQueue' = {b \in Build : build[b].there}
    /\ UNCHANGED <<server, deployed, changes>>

Reconcile ==
    \/ EnvNamespace \/ EnvStatus \/ EnvLeaves \/ EnvRender \/ EnvRefused
    \/ BuildList \/ SetCreated \/ Poll \/ DropToken
    \/ \E e \in AppEnv : BuildUpdate(e)

Next ==
    \/ \E e \in AppEnv :
         \/ \E i \in Pinned \union {NoImage} : DeployImage(e, i)
         \/ SyncEnv(e) \/ SyncWorkload(e) \/ ResyncEnv(e) \/ EnvTake(e)
    \/ \E b \in Build :
         \/ DeployGit(b) \/ PodStep(b) \/ Finalize(b) \/ MarkFailed(b)
         \/ SyncBuild(b) \/ ResyncBuild(b) \/ BuildTake(b)
    \/ Reconcile \/ EnvFails \/ BuildFails \/ Restart

\* The informers deliver, now and every SyncPeriod again, the workers work and serve their queue in turn; what
\* the pods and the callers of the API do is up to them.
Fairness ==
    /\ \A e \in AppEnv :
         /\ WF_vars(SyncEnv(e)) /\ WF_vars(SyncWorkload(e)) /\ WF_vars(ResyncEnv(e))
         /\ SF_vars(EnvTake(e))
    /\ \A b \in Build :
         /\ WF_vars(SyncBuild(b)) /\ WF_vars(ResyncBuild(b))
         /\ SF_vars(BuildTake(b))
    /\ WF_vars(EnvNamespace \/ EnvStatus \/ EnvLeaves \/ EnvRender \/ EnvRefused)
    /\ WF_vars(BuildList \/ SetCreated \/ Poll \/ DropToken
               \/ \E e \in AppEnv : BuildUpdate(e))

Spec == Init /\ [][Next]_vars
FairSpec == Spec /\ Fairness

-----------------------------------------------------------------------------
(* Properties *)

\* Only digest-pinned images run, whatever lands in an AppEnv
\* (RequireDigestImage, "digest-pinned references only").
OnlyPinnedRuns == \A e \in AppEnv : workload[e] \in Pinned \union {NoImage}

\* What an AppEnv names and what its workload runs was asked for by a deploy,
\* or is the digest of a build that was pushed with all its evidence: no cached
\* copy, no conflict and no restart lets a failed or unfinished build through
\* (maybeBackfillDigest, FinalizeBuild).
Released == {build[b].digest : b \in {d \in Build : build[d].phase = "PUSHED"
                                                  /\ build[d].evidence}}
ImagesAreReleased ==
    \A e \in AppEnv :
        {env[e].image, workload[e]} \subseteq deployed \union Released \union {NoImage}

\* A build never goes back to an earlier phase: the controller's CREATED does
\* not overwrite what the pod has written meanwhile (reconcilePhase).
Rank(p) == CASE p = "" -> 0 [] p = "CREATED" -> 1 [] p = "CLONING" -> 2
             [] p = "BUILDING" -> 3 [] OTHER -> 4
PhasesGoForward ==
    [][\A b \in Build : build[b].phase # build'[b].phase =>
                          Rank(build[b].phase) < Rank(build'[b].phase)]_vars

\* The git token is there for as long as the clone may need it
\* (DeleteEphemeralTokenSecret, "once the build has moved past CLONING").
TokenOutlivesClone ==
    \A b \in Build :
        build[b].there /\ build[b].phase \in {"", "CREATED", "CLONING"} => token[b]

\* An AppEnv's pinned image is what its workload runs in the end, unless the
\* AppEnv changes again: through stale reads, conflicts, failed calls and
\* restarts of the controller (Reconcile of the AppEnv).
PinnedImageRuns ==
    \A e \in AppEnv, i \in Pinned :
        (env[e].image = i /\ namespace # "other") ~>
            (workload[e] = i \/ env[e].image # i)

\* The git token of a build that is over goes in the end, also when a Delete
\* failed or the build was over before the controller first saw it
\* (reconcilePhase, PUSHED and FAILED).
TokensGo ==
    \A b \in Build : (build[b].phase \in {"PUSHED", "FAILED"}) ~> ~token[b]

\* A pass that ends without an error has rendered what it read
\* (renderServices, "creating or updating idempotently").
RendersIdempotently ==
    [][ew.at = "render" /\ ew'.at = "idle" /\ ew.mine.image \in Pinned =>
         workload'[ew.on] = ew.mine.image \/ ew.on \in envQueue']_vars

\* The digest a build was pushed with reaches the workload of an AppEnv it was
\* backfilled into (docs/build-plane-phase2.md P2-C: renderServices rolls out).
BackfillRollsOut ==
    \A e \in AppEnv, b \in Build :
        (build[b].phase = "PUSHED" /\ env[e].image = build[b].digest
            /\ namespace # "other") ~>
            (workload[e] = build[b].digest \/ env[e].image # build[b].digest)

=============================================================================
