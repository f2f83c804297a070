---------------------------- MODULE ClusterProofs ----------------------------
(***************************************************************************)
(* Proofs about the safety of Cluster, for any AppEnvs, builds and images  *)
(* and any bounds.                                                         *)
(***************************************************************************)
EXTENDS Cluster, TLAPS

-----------------------------------------------------------------------------
(* Type correctness *)

\* A worker in the middle of a pass works on an object.
WorkersFit ==
    /\ ew.at # "idle" => ew.on \in AppEnv
    /\ bw.at # "idle" => bw.on \in Build

Typed == TypeOK /\ WorkersFit

\* The objects nobody has made, and idle workers, have the types of the others.
LEMMA Constants ==
    /\ NoAppEnv \in AppEnvs /\ NoBuild \in Builds
    /\ EnvIdle \in [at : {"idle", "namespace", "status", "render"},
                    on : AppEnv \union {NoName}, mine : AppEnvs]
    /\ BuildIdle \in [at : {"idle", "list", "update", "phase"},
                      on : Build \union {NoName}, mine : Builds, todo : SUBSET AppEnv]
    /\ EnvIdle.at = "idle" /\ BuildIdle.at = "idle"
    /\ Pinned \subseteq Image /\ Bare \subseteq Image /\ Written \subseteq Image
  BY ClusterAssumption DEF NoAppEnv, AppEnvs, NoBuild, Builds, Phases, EnvIdle, BuildIdle,
     Image

\* A write of an object leaves objects, and sets of holders.
LEMMA EnvWrites ==
    ASSUME Typed, NEW e, NEW v \in AppEnvs, NEW w \in SUBSET Holders, WriteEnv(e, v, w)
    PROVE  env' \in [AppEnv -> AppEnvs] /\ envAt' \in [AppEnv -> SUBSET Holders]
  BY DEF Typed, TypeOK, WriteEnv

\* The same of a Build.
LEMMA BuildWrites ==
    ASSUME Typed, NEW b, NEW v \in Builds, NEW w \in SUBSET Holders, WriteBuild(b, v, w)
    PROVE  build' \in [Build -> Builds] /\ buildAt' \in [Build -> SUBSET Holders]
  BY DEF Typed, TypeOK, WriteBuild

\* The end of a pass takes the copies of a worker from the holders.
LEMMA EnvPassEnds ==
    ASSUME Typed, EnvEnds
    PROVE  ew' = EnvIdle /\ envAt' \in [AppEnv -> SUBSET Holders]
  BY DEF Typed, TypeOK, EnvEnds

\* The same of the Build worker.
LEMMA BuildPassEnds ==
    ASSUME Typed, BuildEnds
    PROVE  bw' = BuildIdle /\ buildAt' \in [Build -> SUBSET Holders]
  BY DEF Typed, TypeOK, BuildEnds

\* Every step keeps the types.
LEMMA TypingStep ==
    ASSUME Typed, [Next]_vars
    PROVE  Typed'
<1> USE ClusterAssumption
<1> USE Constants DEF Typed, TypeOK, WorkersFit, server, caches, queues, counts, Holders
<1> HIDE DEF Image
<1>1. ASSUME NEW e \in AppEnv, NEW i \in Pinned \union {NoImage}, DeployImage(e, i)
      PROVE  Typed'
  <2>1. [env[e] EXCEPT !.there = TRUE, !.image = i] \in AppEnvs
    <3>1. env[e] \in AppEnvs /\ i \in Image \union {NoImage}
      OBVIOUS
    <3> QED
      BY <3>1 DEF AppEnvs
  <2>2. env' \in [AppEnv -> AppEnvs] /\ envAt' \in [AppEnv -> SUBSET Holders]
    BY <1>1, <2>1, EnvWrites DEF DeployImage
  <2>3. deployed' \subseteq Image /\ changes' \in 0 .. MaxChanges
    BY <1>1 DEF DeployImage
  <2> QED
    BY <1>1, <2>2, <2>3 DEF DeployImage
<1>2. ASSUME NEW b \in Build, DeployGit(b) PROVE Typed'
  <2>1. [NoBuild EXCEPT !.there = TRUE] \in Builds
    BY DEF Builds
  <2>2. build' \in [Build -> Builds] /\ buildAt' \in [Build -> SUBSET Holders]
    BY <1>2, <2>1, BuildWrites DEF DeployGit
  <2> QED
    BY <1>2, <2>2 DEF DeployGit
<1>3. ASSUME NEW b \in Build, NEW v \in Builds, PodWrites(b, v) PROVE Typed'
  <2>1. build' \in [Build -> Builds] /\ buildAt' \in [Build -> SUBSET Holders]
    BY <1>3, BuildWrites DEF PodWrites
  <2> QED
    BY <1>3, <2>1 DEF PodWrites
<1>4. ASSUME NEW b \in Build, PodStep(b) \/ Finalize(b) \/ MarkFailed(b) PROVE Typed'
  <2>1. /\ \A p \in Phases : [build[b] EXCEPT !.phase = p] \in Builds
        /\ \A i \in Image : [build[b] EXCEPT !.digest = i] \in Builds
        /\ [build[b] EXCEPT !.evidence = TRUE] \in Builds
    <3>1. build[b] \in Builds
      OBVIOUS
    <3> QED
      BY <3>1 DEF Builds
  <2>2. \E v \in Builds : PodWrites(b, v)
    BY <1>4, <2>1 DEF PodStep, Finalize, MarkFailed, Phases
  <2> QED
    BY <2>2, <1>3
<1>5. ASSUME NEW e \in AppEnv,
             SyncEnv(e) \/ SyncWorkload(e) \/ ResyncEnv(e) \/ EnvTake(e)
      PROVE  Typed'
  BY <1>5 DEF SyncEnv, SyncWorkload, ResyncEnv, EnvTake, Reading
<1>6. ASSUME NEW b \in Build, SyncBuild(b) \/ ResyncBuild(b) \/ BuildTake(b)
      PROVE  Typed'
  BY <1>6 DEF SyncBuild, ResyncBuild, BuildTake, Reading
<1>7. CASE EnvNamespace
  BY <1>7 DEF EnvNamespace, EnvGoto, EnvEnds, Requeue
<1>8. CASE EnvStatus
  <2>1. [env[ew.on] EXCEPT !.ready = TRUE] \in AppEnvs
          /\ [ew.mine EXCEPT !.ready = TRUE] \in AppEnvs
    <3>1. env[ew.on] \in AppEnvs /\ ew.mine \in AppEnvs
      BY <1>8 DEF EnvStatus
    <3> QED
      BY <3>1 DEF AppEnvs
  <2>2. CASE "ew" \in envAt[ew.on]
    <3>v. PICK v \in AppEnvs : v = [env[ew.on] EXCEPT !.ready = TRUE]
      BY <2>1
    <3>w. WriteEnv(ew.on, v, {"ew"})
      BY <1>8, <2>2, <3>v DEF EnvStatus
    <3>1. env' \in [AppEnv -> AppEnvs] /\ envAt' \in [AppEnv -> SUBSET Holders]
      BY <3>w, EnvWrites
    <3>2. ew' = [at |-> "render", on |-> ew.on, mine |-> [ew.mine EXCEPT !.ready = TRUE]]
      <4>1. ew' = [ew EXCEPT !.at = "render", !.mine.ready = TRUE]
        BY <1>8, <2>2 DEF EnvStatus
      <4>2. ew \in [at : {"idle", "namespace", "status", "render"},
                    on : AppEnv \union {NoName}, mine : AppEnvs]
        OBVIOUS
      <4> HIDE DEF Typed, TypeOK, WorkersFit, server, caches, queues, counts, Holders
      <4> QED
        BY <4>1, <4>2
    <3> QED
      BY <1>8, <2>1, <2>2, <3>1, <3>2 DEF EnvStatus
  <2>3. CASE "ew" \notin envAt[ew.on]
    BY <1>8, <2>3, EnvPassEnds DEF EnvStatus, Requeue
  <2> QED
    BY <2>2, <2>3
<1>9. CASE EnvLeaves \/ EnvRender \/ EnvRefused
  BY <1>9 DEF EnvLeaves, EnvRender, EnvRefused, EnvEnds, Requeue
<1>10. CASE EnvFails
  BY <1>10 DEF EnvFails, EnvEnds, Requeue
<1>11. CASE BuildList
  BY <1>11 DEF BuildList, Reading
<1>12. ASSUME NEW e \in AppEnv, BuildUpdate(e) PROVE Typed'
  <2>d. PICK i \in Image \union {NoImage} : i = bw.mine.digest
    BY DEF Builds
  <2>e. env[e] \in AppEnvs
    OBVIOUS
  <2>v. PICK v \in AppEnvs : v = [env[e] EXCEPT !.image = i]
    BY <2>e DEF AppEnvs
  <2>2. CASE "bw" \in envAt[e]
    <3>w. WriteEnv(e, v, {})
      BY <1>12, <2>2, <2>d, <2>v DEF BuildUpdate
    <3>1. env' \in [AppEnv -> AppEnvs] /\ envAt' \in [AppEnv -> SUBSET Holders]
      BY <3>w, EnvWrites
    <3>2. /\ bw' = [at |-> IF bw.todo = {e} THEN "phase" ELSE "update", on |-> bw.on,
                    mine |-> bw.mine, todo |-> bw.todo \ {e}]
          /\ bw'.on = bw.on /\ bw.at = "update"
      <4>1. /\ bw.at = "update"
            /\ bw' = [bw EXCEPT !.at = IF bw.todo = {e} THEN "phase" ELSE "update",
                                !.todo = @ \ {e}]
        BY <1>12, <2>2 DEF BuildUpdate
      <4>2. bw \in [at : {"idle", "list", "update", "phase"},
                    on : Build \union {NoName}, mine : Builds, todo : SUBSET AppEnv]
        OBVIOUS
      <4> HIDE DEF Typed, TypeOK, WorkersFit, server, caches, queues, counts, Holders
      <4> QED
        BY <4>1, <4>2
    <3>3. bw' \in [at : {"idle", "list", "update", "phase"},
                   on : Build \union {NoName}, mine : Builds, todo : SUBSET AppEnv]
      BY <3>2
    <3>4. UNCHANGED <<buildQueue, buildAt, build, token, namespace, workload, envCache,
                      buildCache, seen, envQueue, ew, deployed, changes, faults>>
      BY <1>12, <2>2 DEF BuildUpdate
    <3> QED
      BY <3>1, <3>2, <3>3, <3>4
  <2>3. CASE "bw" \notin envAt[e]
    BY <1>12, <2>3, BuildPassEnds DEF BuildUpdate, DropCopies, Requeue
  <2> QED
    BY <2>2, <2>3
<1>13. CASE SetCreated
  <2>b. bw.on \in Build /\ build[bw.on] \in Builds
    BY <1>13 DEF SetCreated
  <2>v. PICK v \in Builds : v = [build[bw.on] EXCEPT !.phase = "CREATED"]
    BY <2>b DEF Builds, Phases
  <2>1. WriteBuild(bw.on, v, {}) \/ UNCHANGED <<build, buildAt>>
    BY <1>13, <2>v DEF SetCreated
  <2>2. build' \in [Build -> Builds] /\ buildAt' \in [Build -> SUBSET Holders]
    BY <2>1, BuildWrites
  <2> QED
    BY <1>13, <2>2 DEF SetCreated, Requeue
<1>14. CASE Poll \/ DropToken
  <2>a. buildQueue' \subseteq Build
    BY <1>14 DEF Poll, DropToken, Requeue
  <2>b. token' \in [Build -> BOOLEAN]
    BY <1>14 DEF Poll, DropToken
  <2>c. faults' \in 0 .. MaxFaults
    BY <1>14 DEF Poll, DropToken
  <2>1. buildQueue' \subseteq Build /\ token' \in [Build -> BOOLEAN]
          /\ faults' \in 0 .. MaxFaults
    BY <2>a, <2>b, <2>c
  <2>2. BuildEnds
    BY <1>14 DEF Poll, DropToken
  <2> QED
    BY <1>14, <2>1, <2>2, BuildPassEnds DEF Poll, DropToken
<1>15. CASE BuildFails
  BY <1>15 DEF BuildFails, BuildEnds, DropCopies, Requeue
<1>16. CASE Restart
  BY <1>16 DEF Restart
<1>17. CASE UNCHANGED vars
  BY <1>17 DEF vars
<1> QED
  BY <1>1, <1>2, <1>4, <1>5, <1>6, <1>7, <1>8, <1>9, <1>10, <1>11, <1>12, <1>13,
     <1>14, <1>15, <1>16, <1>17 DEF Next, Reconcile

\* The objects, copies and queues of Cluster keep their types through every
\* write, read and fault, and a worker in a pass names an object.
THEOREM Typing == Spec => []Typed
<1> USE ClusterAssumption
<1>1. Init => Typed
  BY Constants DEF Init, Typed, TypeOK, WorkersFit, Holders
<1>2. Typed /\ [Next]_vars => Typed'
  BY TypingStep
<1> QED
  BY <1>1, <1>2, PTL DEF Spec

\* Type correctness of the objects, the copies and the workers.
THEOREM TypeCorrect == Spec => []TypeOK
<1>1. Typed => TypeOK
  BY DEF Typed
<1> QED
  BY <1>1, Typing, PTL

-----------------------------------------------------------------------------
(* Only pinned images run *)

\* Only digest-pinned images run, whatever lands in an AppEnv (renderServices,
\* behind RequireDigestImage).
THEOREM PinnedOnly == Spec => []OnlyPinnedRuns
<1>1. Init => OnlyPinnedRuns
  BY DEF Init, OnlyPinnedRuns
<1>2. Typed /\ OnlyPinnedRuns /\ [Next]_vars => OnlyPinnedRuns'
  <2> SUFFICES ASSUME Typed, OnlyPinnedRuns, [Next]_vars PROVE OnlyPinnedRuns'
    OBVIOUS
  <2>1. UNCHANGED workload => OnlyPinnedRuns'
    BY DEF OnlyPinnedRuns
  <2>2. CASE EnvRender
    BY <2>2 DEF EnvRender, OnlyPinnedRuns, Typed, TypeOK
  <2>3. UNCHANGED workload \/ EnvRender
    BY DEF Next, Reconcile, vars, server, DeployImage, DeployGit, PodStep, PodWrites,
       Finalize, MarkFailed, SyncEnv, SyncBuild, SyncWorkload, ResyncEnv, ResyncBuild,
       EnvTake, EnvNamespace, EnvStatus, EnvLeaves, EnvRefused, EnvFails, BuildTake,
       BuildList, BuildUpdate, SetCreated, Poll, DropToken, BuildFails, Restart
  <2> QED
    BY <2>1, <2>2, <2>3
<1> QED
  BY <1>1, <1>2, Typing, PTL DEF Spec

-----------------------------------------------------------------------------
(* How far a build is *)

\* The ranks that follow each other in a step.
LEMMA Follows == 0 < 1 /\ 1 < 2 /\ 2 < 3 /\ 3 < 4 /\ 1 < 4 /\ 2 < 4
  OBVIOUS

\* The steps that set a phase go to a later one.
LEMMA Later ==
    ASSUME NEW p, NEW q,
           \/ p = "" /\ q = "CREATED"
           \/ p = "CREATED" /\ q = "CLONING"
           \/ p = "CLONING" /\ q = "BUILDING"
           \/ p = "BUILDING" /\ q = "PUSHED"
           \/ p \in {"CREATED", "CLONING", "BUILDING"} /\ q = "FAILED"
    PROVE  Rank(p) < Rank(q)
<1>1. /\ Rank("") = 0 /\ Rank("CREATED") = 1 /\ Rank("CLONING") = 2
      /\ Rank("BUILDING") = 3 /\ Rank("PUSHED") = 4 /\ Rank("FAILED") = 4
  BY DEF Rank
<1> QED
  BY <1>1, Follows, Zenon

\* The phases in which a build may still need its token.
Cloning(p) == p \in {"", "CREATED", "CLONING"}

\* The ranks tell a build that may still clone from one that does not.
LEMMA CloningRanks ==
    ASSUME NEW p \in Phases
    PROVE  \/ Cloning(p) /\ Rank(p) \in {0, 1, 2}
           \/ ~Cloning(p) /\ Rank(p) \in {3, 4}
<1>1. /\ Rank("") = 0 /\ Rank("CREATED") = 1 /\ Rank("CLONING") = 2
      /\ Rank("BUILDING") = 3 /\ Rank("PUSHED") = 4 /\ Rank("FAILED") = 4
  BY DEF Rank
<1>2. ~Cloning("BUILDING") /\ ~Cloning("PUSHED") /\ ~Cloning("FAILED")
  BY DEF Cloning
<1>3. Cloning("") /\ Cloning("CREATED") /\ Cloning("CLONING")
  BY DEF Cloning
<1>4. Rank(p) \in {0, 1, 2} \/ ~Cloning(p)
  BY <1>1, <1>2, Zenon DEF Phases
<1>5. Rank(p) \in {3, 4} \/ Cloning(p)
  BY <1>1, <1>3, Zenon DEF Phases
<1> QED
  BY <1>4, <1>5, Zenon

\* Ranks can be compared.
LEMMA RanksAreNumbers ==
    ASSUME NEW p
    PROVE  Rank(p) \in Nat
  BY DEF Rank

\* A build nobody has made is unknown to the controller; a pushed one has its
\* evidence; who holds the latest version has what the API server has.
BuildsFit ==
    /\ \A b \in Build : ~build[b].there =>
         /\ build[b] = NoBuild
         /\ "cache" \in buildAt[b]
         /\ b \notin buildQueue
         /\ bw.at # "idle" => bw.on # b
    /\ \A b \in Build : build[b].phase = "PUSHED" =>
         build[b].digest # NoImage /\ build[b].evidence
    /\ \A b \in Build : "cache" \in buildAt[b] => buildCache[b] = build[b]
    /\ bw.at # "idle" /\ "bw" \in buildAt[bw.on] => bw.mine = build[bw.on]

\* A copy may be behind its build, but not when it says that it was pushed.
IsCopy(c, b) ==
    /\ Rank(c.phase) <= Rank(build[b].phase)
    /\ c.phase = "PUSHED" => c = build[b]
CopiesFit ==
    /\ \A b \in Build : IsCopy(buildCache[b], b)
    /\ bw.at # "idle" => IsCopy(bw.mine, bw.on)

\* A step leaves a build alone, or takes one that is not over no step back.
StepForward ==
    \A b \in Build :
        \/ build'[b] = build[b]
        \/ /\ build[b].phase \notin {"PUSHED", "FAILED"}
           /\ \/ build'[b].phase = build[b].phase
              \/ Rank(build[b].phase) < Rank(build'[b].phase)

\* What a step can do to a build: a caller makes it, its pod and its driver
\* advance it, or the controller sets CREATED.
Advances(b, v) ==
    /\ build[b].phase \notin {"PUSHED", "FAILED"}
    /\ v.phase = build[b].phase \/ Rank(build[b].phase) < Rank(v.phase)
    /\ v.there
    /\ v.phase = "PUSHED" => v.digest # NoImage /\ v.evidence

BuildInv == BuildsFit /\ CopiesFit

\* A write that advances its build, by others or by the worker, whose pass ends.
LEMMA WriteFits ==
    ASSUME Typed, BuildInv, NEW b \in Build, NEW v \in Builds, Advances(b, v),
           WriteBuild(b, v, {}), UNCHANGED buildCache,
           bw' = bw \/ bw'.at = "idle",
           \A c \in buildQueue' : c \in buildQueue \/ c = b
    PROVE  BuildInv' /\ StepForward
<1> USE DEF BuildInv
<1>1. build' = [build EXCEPT ![b] = v]
  BY DEF WriteBuild
<1>2. \A c \in Build : build'[c] = IF c = b THEN v ELSE build[c]
  BY <1>1 DEF Typed, TypeOK
<1>3. v.there /\ build[b].phase \notin {"PUSHED", "FAILED"}
        /\ (v.phase = build[b].phase \/ Rank(build[b].phase) < Rank(v.phase))
  BY DEF Advances
<1>4. StepForward
  BY <1>2, <1>3 DEF StepForward
<1>5. \A p \in Phases : Rank(p) \in Nat
  BY RanksAreNumbers
<1>6. \A c \in Build : build[c].phase \in Phases /\ build'[c].phase \in Phases
                         /\ buildCache[c].phase \in Phases
  BY <1>2 DEF Typed, TypeOK, Builds
<1>7. \A c \in Build : Rank(build[c].phase) <= Rank(build'[c].phase)
                         /\ (build[c].phase = "PUSHED" => build'[c] = build[c])
  BY <1>4, <1>5, <1>6 DEF StepForward
<1>8. ASSUME NEW c \in Build, NEW k \in Builds, IsCopy(k, c) PROVE IsCopy(k, c)'
  <2>1. k.phase \in Phases
    BY DEF Builds
  <2> QED
    BY <2>1, <1>5, <1>6, <1>7, <1>8 DEF IsCopy
<1>9. CopiesFit'
  <2>1. ASSUME NEW c \in Build PROVE IsCopy(buildCache[c], c)'
    <3>1. PICK k \in Builds : k = buildCache[c]
      BY DEF Typed, TypeOK
    <3>2. IsCopy(k, c)
      BY <3>1 DEF CopiesFit
    <3>3. IsCopy(k, c)'
      BY <3>2, <1>8
    <3> QED
      BY <3>1, <3>3 DEF IsCopy
  <2>2. ASSUME bw.at # "idle", bw' = bw PROVE IsCopy(bw.mine, bw.on)'
    <3>1. PICK k \in Builds, c \in Build : k = bw.mine /\ c = bw.on
      BY <2>2 DEF Typed, TypeOK, WorkersFit
    <3>2. IsCopy(k, c)
      BY <3>1, <2>2 DEF CopiesFit
    <3>3. IsCopy(k, c)'
      BY <3>2, <1>8
    <3> QED
      BY <3>1, <3>3, <2>2 DEF IsCopy
  <2> QED
    BY <2>1, <2>2 DEF CopiesFit
<1>10. \A c \in Build : \/ build'[c] = build[c] /\ buildAt'[c] = buildAt[c]
                        \/ c = b /\ buildAt'[c] = {}
  BY <1>1 DEF WriteBuild, Typed, TypeOK
<1>11. BuildsFit'
  <2>1. ASSUME NEW c \in Build, ~build'[c].there
        PROVE  /\ build'[c] = NoBuild /\ "cache" \in buildAt'[c]
               /\ c \notin buildQueue' /\ (bw'.at # "idle" => bw'.on # c)
    <3>1. c # b /\ build'[c] = build[c]
      BY <2>1, <1>2, <1>3
    <3>2. ~build[c].there /\ buildAt'[c] = buildAt[c]
      BY <2>1, <3>1, <1>10
    <3> QED
      BY <3>1, <3>2 DEF BuildsFit
  <2>2. ASSUME NEW c \in Build, build'[c].phase = "PUSHED"
        PROVE  build'[c].digest # NoImage /\ build'[c].evidence
    BY <2>2, <1>2 DEF Advances, BuildsFit
  <2>3. ASSUME NEW c \in Build, "cache" \in buildAt'[c] PROVE buildCache'[c] = build'[c]
    BY <2>3, <1>10 DEF BuildsFit
  <2>4. ASSUME bw'.at # "idle", "bw" \in buildAt'[bw'.on] PROVE bw'.mine = build'[bw'.on]
    <3>1. bw' = bw /\ bw.on \in Build
      BY <2>4 DEF Typed, WorkersFit
    <3> QED
      BY <2>4, <3>1, <1>10 DEF BuildsFit
  <2> QED
    BY <2>1, <2>2, <2>3, <2>4 DEF BuildsFit
<1> QED
  BY <1>4, <1>9, <1>11

\* A step that writes no build, reads none and looks only at builds that exist.
LEMMA StayFits ==
    ASSUME Typed, BuildInv, UNCHANGED <<build, buildCache>>,
           \A c \in Build : "cache" \in buildAt'[c] <=> "cache" \in buildAt[c],
           \A c \in Build : "bw" \in buildAt'[c] => "bw" \in buildAt[c],
           \/ bw'.at = "idle"
           \/ bw.at # "idle" /\ bw'.on = bw.on /\ bw'.mine = bw.mine,
           \A c \in buildQueue' : c \in buildQueue \/ build[c].there
    PROVE  BuildInv' /\ StepForward
<1> USE DEF BuildInv
<1>1. StepForward
  BY DEF StepForward
<1>2. CopiesFit'
  BY DEF CopiesFit, IsCopy
<1>3. BuildsFit'
  <2>1. ASSUME bw'.at # "idle" PROVE bw.at # "idle" /\ bw'.on = bw.on /\ bw'.mine = bw.mine
                                       /\ bw.on \in Build
    BY <2>1 DEF Typed, WorkersFit
  <2> QED
    BY <2>1 DEF BuildsFit
<1> QED
  BY <1>1, <1>2, <1>3

-----------------------------------------------------------------------------
(* Every step of the cluster *)

\* Every step keeps the copies fit and takes no build back.
LEMMA StepFits ==
    ASSUME Typed, BuildInv, [Next]_vars
    PROVE  BuildInv' /\ StepForward
<1> USE ClusterAssumption
<1>n. NoBuild \in Builds /\ NoBuild.phase = "" /\ ~NoBuild.there
  BY DEF NoBuild, Builds, Phases
<1>b. \A b \in Build : build[b] \in Builds
  BY DEF Typed, TypeOK
<1>1. ASSUME NEW b \in Build, DeployGit(b) PROVE BuildInv' /\ StepForward
  <2>1. [NoBuild EXCEPT !.there = TRUE] \in Builds
    BY <1>n DEF Builds
  <2>v. PICK v \in Builds : v = [NoBuild EXCEPT !.there = TRUE]
    BY <2>1
  <2>2. build[b] = NoBuild
    BY <1>1 DEF DeployGit, BuildInv, BuildsFit
  <2>3. v.there /\ v.phase = ""
    BY <2>v DEF NoBuild
  <2>4. Advances(b, v)
    BY <2>2, <2>3, <1>n DEF Advances
  <2>5. /\ WriteBuild(b, v, {}) /\ UNCHANGED buildCache /\ bw' = bw
        /\ buildQueue' = buildQueue
    BY <1>1, <2>v DEF DeployGit, caches, queues
  <2> QED
    BY <2>4, <2>5, WriteFits
<1>2. ASSUME NEW b \in Build, NEW v \in Builds, PodWrites(b, v), Advances(b, v)
      PROVE  BuildInv' /\ StepForward
  <2>1. /\ WriteBuild(b, v, {}) /\ UNCHANGED buildCache /\ bw' = bw
        /\ buildQueue' = buildQueue
    BY <1>2 DEF PodWrites, caches, queues
  <2> QED
    BY <2>1, <1>2, WriteFits
<1>3. ASSUME NEW b \in Build, PodStep(b) \/ Finalize(b) \/ MarkFailed(b)
      PROVE  BuildInv' /\ StepForward
  <2>1. /\ \A p \in Phases : [build[b] EXCEPT !.phase = p] \in Builds
        /\ \A i \in Image : [build[b] EXCEPT !.digest = i] \in Builds
        /\ [build[b] EXCEPT !.evidence = TRUE] \in Builds
    BY <1>b DEF Builds
  <2>2. build[b].phase \in {"CREATED", "CLONING", "BUILDING"}
    BY <1>3 DEF PodStep, Finalize, MarkFailed
  <2>3. build[b].there
    BY <2>2, <1>n DEF BuildInv, BuildsFit
  <2>4. ASSUME PodStep(b) PROVE \E v \in Builds : PodWrites(b, v) /\ Advances(b, v)
    <3>1. ASSUME build[b].phase = "CREATED", PodWrites(b, [build[b] EXCEPT !.phase = "CLONING"])
          PROVE  \E v \in Builds : PodWrites(b, v) /\ Advances(b, v)
      <4>v. PICK v \in Builds : v = [build[b] EXCEPT !.phase = "CLONING"]
        BY <2>1 DEF Phases
      <4>1. v.phase = "CLONING" /\ v.there
        BY <4>v, <2>3, <1>b DEF Builds
      <4>2. Advances(b, v)
        <5>1. Rank(build[b].phase) < Rank(v.phase)
          BY <3>1, <4>1, Later
        <5> QED
          BY <5>1, <3>1, <4>1 DEF Advances
      <4> QED
        BY <3>1, <4>v, <4>2
    <3>2. ASSUME build[b].phase = "CLONING", PodWrites(b, [build[b] EXCEPT !.phase = "BUILDING"])
          PROVE  \E v \in Builds : PodWrites(b, v) /\ Advances(b, v)
      <4>v. PICK v \in Builds : v = [build[b] EXCEPT !.phase = "BUILDING"]
        BY <2>1 DEF Phases
      <4>1. v.phase = "BUILDING" /\ v.there
        BY <4>v, <2>3, <1>b DEF Builds
      <4>2. Advances(b, v)
        <5>1. Rank(build[b].phase) < Rank(v.phase)
          BY <3>2, <4>1, Later
        <5> QED
          BY <5>1, <3>2, <4>1 DEF Advances
      <4> QED
        BY <3>2, <4>v, <4>2
    <3>3. ASSUME build[b].phase = "BUILDING", NEW i \in Written,
                 PodWrites(b, [build[b] EXCEPT !.digest = i])
          PROVE  \E v \in Builds : PodWrites(b, v) /\ Advances(b, v)
      <4>v. PICK v \in Builds : v = [build[b] EXCEPT !.digest = i]
        BY <2>1 DEF Image
      <4>1. v.phase = build[b].phase /\ v.there
        BY <4>v, <2>3, <1>b DEF Builds
      <4>2. Advances(b, v)
        BY <3>3, <4>1 DEF Advances
      <4> QED
        BY <3>3, <4>v, <4>2
    <3>4. ASSUME build[b].phase = "BUILDING",
                 PodWrites(b, [build[b] EXCEPT !.evidence = TRUE])
          PROVE  \E v \in Builds : PodWrites(b, v) /\ Advances(b, v)
      <4>v. PICK v \in Builds : v = [build[b] EXCEPT !.evidence = TRUE]
        BY <2>1
      <4>1. v.phase = build[b].phase /\ v.there
        BY <4>v, <2>3, <1>b DEF Builds
      <4>2. Advances(b, v)
        BY <3>4, <4>1 DEF Advances
      <4> QED
        BY <3>4, <4>v, <4>2
    <3> QED
      BY <2>4, <3>1, <3>2, <3>3, <3>4 DEF PodStep
  <2>5. ASSUME Finalize(b) PROVE \E v \in Builds : PodWrites(b, v) /\ Advances(b, v)
    <3>v. PICK v \in Builds : v = [build[b] EXCEPT !.phase = "PUSHED"]
      BY <2>1 DEF Phases
    <3>1. v.phase = "PUSHED" /\ v.there /\ v.digest = build[b].digest
            /\ v.evidence = build[b].evidence
      BY <3>v, <2>3, <1>b DEF Builds
    <3>2. Advances(b, v)
      <4>1. build[b].phase = "BUILDING" /\ build[b].digest # NoImage /\ build[b].evidence
        BY <2>5 DEF Finalize
      <4>2. Rank(build[b].phase) < Rank(v.phase)
        BY <4>1, <3>1, Later
      <4> QED
        BY <4>1, <4>2, <3>1 DEF Advances
    <3> QED
      BY <2>5, <3>v, <3>2 DEF Finalize
  <2>6. ASSUME MarkFailed(b) PROVE \E v \in Builds : PodWrites(b, v) /\ Advances(b, v)
    <3>v. PICK v \in Builds : v = [build[b] EXCEPT !.phase = "FAILED"]
      BY <2>1 DEF Phases
    <3>1. v.phase = "FAILED" /\ v.there
      BY <3>v, <2>3, <1>b DEF Builds
    <3>2. Advances(b, v)
      <4>1. Rank(build[b].phase) < Rank(v.phase)
        BY <2>2, <3>1, Later
      <4> QED
        BY <4>1, <2>2, <3>1 DEF Advances
    <3> QED
      BY <2>6, <3>v, <3>2 DEF MarkFailed
  <2> QED
    BY <1>2, <1>3, <2>4, <2>5, <2>6
<1>4. CASE SetCreated
  <2>o. bw.at # "idle" /\ bw.on \in Build
    BY <1>4 DEF SetCreated, Typed, WorkersFit
  <2>t. build[bw.on].there
    BY <2>o DEF BuildInv, BuildsFit
  <2>1. CASE "bw" \in buildAt[bw.on]
    <3>1. build[bw.on] = bw.mine /\ build[bw.on].phase = ""
      BY <1>4, <2>o, <2>1 DEF SetCreated, BuildInv, BuildsFit
    <3>v. PICK v \in Builds : v = [build[bw.on] EXCEPT !.phase = "CREATED"]
      BY <1>b, <2>o DEF Builds, Phases
    <3>2. v.phase = "CREATED" /\ v.there
      BY <3>v, <2>t, <2>o, <1>b DEF Builds
    <3>3. Advances(bw.on, v)
      <4>1. Rank(build[bw.on].phase) < Rank(v.phase)
        BY <3>1, <3>2, Later
      <4> QED
        BY <4>1, <3>1, <3>2 DEF Advances
    <3>4. /\ WriteBuild(bw.on, v, {}) /\ UNCHANGED buildCache /\ bw'.at = "idle"
          /\ \A c \in buildQueue' : c \in buildQueue \/ c = bw.on
      BY <1>4, <2>1, <3>v DEF SetCreated, Requeue, BuildIdle, caches
    <3>b. PICK b \in Build : b = bw.on
      BY <2>o
    <3> QED
      BY <3>b, <3>3, <3>4, WriteFits
  <2>2. CASE "bw" \notin buildAt[bw.on]
    BY <1>4, <2>2, <2>t, StayFits DEF SetCreated, Requeue, BuildIdle, caches
  <2> QED
    BY <2>1, <2>2
<1>5. ASSUME NEW b \in Build, SyncBuild(b) PROVE BuildInv' /\ StepForward
  <2>0. /\ UNCHANGED <<build, bw>> /\ buildQueue' = buildQueue \union {b}
        /\ "cache" \notin buildAt[b]
        /\ buildCache' = [buildCache EXCEPT ![b] = build[b]]
        /\ buildAt' = [buildAt EXCEPT ![b] = @ \union {"cache"}]
    BY <1>5 DEF SyncBuild, server
  <2>1. \A c \in Build : buildCache'[c] = IF c = b THEN build[b] ELSE buildCache[c]
    BY <2>0 DEF Typed, TypeOK
  <2>2. \A c \in Build : buildAt'[c] = IF c = b THEN buildAt[b] \union {"cache"} ELSE buildAt[c]
    BY <2>0 DEF Typed, TypeOK
  <2>3. build[b].there
    BY <2>0 DEF BuildInv, BuildsFit
  <2>4. StepForward
    BY <2>0 DEF StepForward
  <2>5. CopiesFit'
    <3>1. IsCopy(build[b], b)
      BY <1>b, RanksAreNumbers DEF IsCopy
    <3>2. \A c \in Build : IsCopy(buildCache[c], c)'
      BY <2>0, <2>1, <3>1 DEF IsCopy, BuildInv, CopiesFit
    <3> QED
      BY <2>0, <3>2 DEF IsCopy, BuildInv, CopiesFit
  <2>6. BuildsFit'
    <3>1. ASSUME bw.at # "idle", "bw" \in buildAt'[bw.on] PROVE bw.mine = build[bw.on]
      BY <3>1, <2>2 DEF BuildInv, BuildsFit, Typed, WorkersFit
    <3>2. ASSUME NEW c \in Build, ~build[c].there
          PROVE  /\ build[c] = NoBuild /\ "cache" \in buildAt'[c] /\ c \notin buildQueue'
                 /\ bw.at # "idle" => bw.on # c
      BY <3>2, <2>0, <2>2, <2>3 DEF BuildInv, BuildsFit
    <3>3. ASSUME NEW c \in Build, "cache" \in buildAt'[c] PROVE buildCache'[c] = build[c]
      BY <3>3, <2>1, <2>2 DEF BuildInv, BuildsFit
    <3> QED
      BY <2>0, <3>1, <3>2, <3>3 DEF BuildInv, BuildsFit
  <2> QED
    BY <2>4, <2>5, <2>6 DEF BuildInv
<1>6. ASSUME NEW b \in Build, BuildTake(b) PROVE BuildInv' /\ StepForward
  <2>0. /\ UNCHANGED <<build, buildCache>> /\ b \in buildQueue
        /\ buildQueue' = buildQueue \ {b}
        /\ buildAt' = [buildAt EXCEPT ![b] = Reading(@, "bw")]
        /\ bw'.on = b /\ bw'.mine = buildCache[b] /\ bw'.at # "idle"
    BY <1>6 DEF BuildTake, server, caches
  <2>1. \A c \in Build : buildAt'[c] = IF c = b THEN Reading(buildAt[b], "bw") ELSE buildAt[c]
    BY <2>0 DEF Typed, TypeOK
  <2>2. \A c \in Build : "cache" \in buildAt'[c] <=> "cache" \in buildAt[c]
    BY <2>1 DEF Reading
  <2>3. "bw" \in buildAt'[b] => "cache" \in buildAt[b]
    BY <2>1 DEF Reading
  <2>4. build[b].there
    BY <2>0 DEF BuildInv, BuildsFit
  <2>5. StepForward
    BY <2>0 DEF StepForward
  <2>6. CopiesFit'
    BY <2>0 DEF BuildInv, CopiesFit, IsCopy
  <2>7. BuildsFit'
    BY <2>0, <2>2, <2>3, <2>4 DEF BuildInv, BuildsFit
  <2> QED
    BY <2>5, <2>6, <2>7 DEF BuildInv
<1>7. CASE Restart
  <2>0. /\ UNCHANGED build /\ buildCache' = build /\ bw'.at = "idle"
        /\ buildAt' = [b \in Build |-> {"cache"}]
        /\ buildQueue' = {b \in Build : build[b].there}
    BY <1>7 DEF Restart, server, BuildIdle
  <2>1. StepForward
    BY <2>0 DEF StepForward
  <2>2. CopiesFit'
    <3>1. ASSUME NEW b \in Build PROVE IsCopy(buildCache[b], b)'
      <4>1. buildCache'[b] = build[b] /\ build'[b] = build[b] /\ Rank(build[b].phase) \in Nat
        BY <2>0, RanksAreNumbers
      <4> QED
        BY <4>1 DEF IsCopy
    <3> QED
      BY <2>0, <3>1 DEF CopiesFit
  <2>3. BuildsFit'
    BY <2>0 DEF BuildInv, BuildsFit
  <2> QED
    BY <2>1, <2>2, <2>3 DEF BuildInv
<1>8. CASE UNCHANGED <<build, buildCache, buildAt, buildQueue, bw>>
  BY <1>8, StayFits
<1>9. ASSUME NEW b \in Build, ResyncBuild(b) PROVE BuildInv' /\ StepForward
  <2>1. build[b].there
    BY <1>9, <1>n DEF ResyncBuild, BuildInv, BuildsFit
  <2>2. /\ UNCHANGED <<build, buildCache, buildAt, bw>>
        /\ buildQueue' = buildQueue \union {b}
    BY <1>9 DEF ResyncBuild, server, caches
  <2> QED
    BY <2>1, <2>2, StayFits
<1>10. ASSUME BuildEnds, UNCHANGED <<build, buildCache>>,
              buildQueue' = buildQueue \/ buildQueue' = Requeue(buildQueue, bw.on),
              bw.at # "idle"
       PROVE  BuildInv' /\ StepForward
  <2>1. bw.on \in Build /\ build[bw.on].there
    BY <1>10 DEF Typed, WorkersFit, BuildInv, BuildsFit
  <2>2. \A c \in Build : buildAt'[c] = IF c = bw.on THEN buildAt[c] \ {"bw"} ELSE buildAt[c]
    BY <1>10 DEF BuildEnds, Typed, TypeOK
  <2>3. bw'.at = "idle"
    BY <1>10 DEF BuildEnds, BuildIdle
  <2>4. \A c \in buildQueue' : c \in buildQueue \/ build[c].there
    BY <1>10, <2>1 DEF Requeue
  <2>5. /\ \A c \in Build : "cache" \in buildAt'[c] <=> "cache" \in buildAt[c]
        /\ \A c \in Build : "bw" \in buildAt'[c] => "bw" \in buildAt[c]
    BY <2>2
  <2> QED
    BY <1>10, <2>3, <2>4, <2>5, StayFits
<1>11. CASE Poll \/ DropToken \/ BuildFails
  <2>1. /\ BuildEnds /\ UNCHANGED <<build, buildCache>> /\ bw.at # "idle"
    BY <1>11 DEF Poll, DropToken, BuildFails, server, caches
  <2>2. buildQueue' = buildQueue \/ buildQueue' = Requeue(buildQueue, bw.on)
    BY <1>11 DEF Poll, DropToken, BuildFails
  <2> QED
    BY <2>1, <2>2, <1>10
<1>14. CASE BuildList
  <2>1. /\ UNCHANGED <<build, buildCache, buildAt, buildQueue>> /\ bw.at # "idle"
        /\ bw'.on = bw.on /\ bw'.mine = bw.mine
    BY <1>14 DEF BuildList, server, caches, queues, Typed, TypeOK
  <2> QED
    BY <2>1, StayFits
<1>15. ASSUME NEW e \in AppEnv, BuildUpdate(e) PROVE BuildInv' /\ StepForward
  <2>1. CASE "bw" \in envAt[e]
    <3>1. /\ UNCHANGED <<build, buildCache, buildAt, buildQueue>> /\ bw.at # "idle"
          /\ bw'.on = bw.on /\ bw'.mine = bw.mine
      <4>1. bw.at = "update" /\ UNCHANGED <<build, buildCache, buildAt, buildQueue>>
        BY <1>15, <2>1 DEF BuildUpdate, caches
      <4>2. bw' = [bw EXCEPT !.at = IF bw.todo = {e} THEN "phase" ELSE "update",
                             !.todo = @ \ {e}]
        BY <1>15, <2>1 DEF BuildUpdate
      <4>3. bw'.on = bw.on /\ bw'.mine = bw.mine
        BY <4>2 DEF Typed, TypeOK
      <4> QED
        BY <4>1, <4>3
    <3> QED
      BY <3>1, StayFits
  <2>2. CASE "bw" \notin envAt[e]
    BY <1>15, <2>2, <1>10 DEF BuildUpdate, caches
  <2> QED
    BY <2>1, <2>2
<1>12. ASSUME NEW e \in AppEnv,
             \/ \E i \in Pinned \union {NoImage} : DeployImage(e, i)
             \/ SyncEnv(e) \/ SyncWorkload(e) \/ ResyncEnv(e) \/ EnvTake(e)
      PROVE  UNCHANGED <<build, buildCache, buildAt, buildQueue, bw>>
  BY <1>12 DEF DeployImage, SyncEnv, SyncWorkload, ResyncEnv, EnvTake, server, caches, queues
<1>13. CASE EnvNamespace \/ EnvStatus \/ EnvLeaves \/ EnvRender \/ EnvRefused \/ EnvFails
  BY <1>13, <1>8 DEF EnvNamespace, EnvStatus, EnvLeaves, EnvRender, EnvRefused, EnvFails,
     server, caches, queues
<1> QED
  BY <1>1, <1>3, <1>4, <1>5, <1>6, <1>7, <1>8, <1>9, <1>11, <1>12, <1>13, <1>14, <1>15
     DEF Next, Reconcile, vars

\* What the reconciler knows of a build: a copy is at most as far as its build,
\* a copy that says PUSHED is the build, and a conflict shows to who is behind.
THEOREM Copies == Spec => [](Typed /\ BuildInv)
<1>1. Init => BuildInv
  <2> SUFFICES ASSUME Init PROVE BuildInv
    OBVIOUS
  <2>1. \A b \in Build : build[b] = NoBuild /\ buildCache[b] = NoBuild
    BY DEF Init
  <2>2. NoBuild.phase = "" /\ ~NoBuild.there /\ bw.at = "idle"
    BY DEF Init, NoBuild, BuildIdle
  <2>3. CopiesFit
    <3>1. \A b \in Build : IsCopy(buildCache[b], b)
      <4>1. Rank(NoBuild.phase) <= Rank(NoBuild.phase)
        BY RanksAreNumbers
      <4> QED
        BY <2>1, <2>2, <4>1 DEF IsCopy
    <3> QED
      BY <3>1, <2>2 DEF CopiesFit
  <2>4. BuildsFit
    BY <2>1, <2>2 DEF Init, BuildsFit
  <2> QED
    BY <2>3, <2>4 DEF BuildInv
<1>2. Typed /\ BuildInv /\ [Next]_vars => BuildInv'
  BY StepFits
<1> QED
  BY <1>1, <1>2, Typing, PTL DEF Spec

\* A build never goes back to an earlier phase: the controller's CREATED does
\* not overwrite what the pod has written meanwhile (reconcilePhase).
THEOREM Forward == Spec => PhasesGoForward
<1>1. Typed /\ BuildInv /\ [Next]_vars =>
        [\A b \in Build : build[b].phase # build'[b].phase =>
                             Rank(build[b].phase) < Rank(build'[b].phase)]_vars
  BY StepFits DEF StepForward
<1> QED
  BY <1>1, Copies, PTL DEF Spec, PhasesGoForward

-----------------------------------------------------------------------------
(* The git token *)

\* The git token is there for as long as the clone may need it
\* (DeleteEphemeralTokenSecret, "once the build has moved past CLONING").
THEOREM TokenKept == Spec => []TokenOutlivesClone
<1>1. Init => TokenOutlivesClone
  <2>1. ~NoBuild.there
    BY DEF NoBuild
  <2> QED
    BY <2>1 DEF Init, TokenOutlivesClone
<1>2. Typed /\ BuildInv /\ TokenOutlivesClone /\ [Next]_vars => TokenOutlivesClone'
  <2> SUFFICES ASSUME Typed, BuildInv, TokenOutlivesClone, [Next]_vars,
                      NEW b \in Build, build'[b].there, Cloning(build'[b].phase)
               PROVE  token'[b]
    BY DEF TokenOutlivesClone, Cloning
  <2>1. build[b].phase \in Phases /\ build'[b].phase \in Phases
    BY TypingStep DEF Typed, TypeOK, Builds
  <2>2. Cloning(build[b].phase)
    <3>1. build'[b].phase = build[b].phase \/ Rank(build[b].phase) < Rank(build'[b].phase)
      BY StepFits DEF StepForward
    <3>2. PICK m, n : m = Rank(build[b].phase) /\ n = Rank(build'[b].phase)
      OBVIOUS
    <3>3. n \in {0, 1, 2}
      BY <2>1, <3>2, CloningRanks
    <3>4. CASE build'[b].phase # build[b].phase
      <4>1. m < n
        BY <3>1, <3>2, <3>4
      <4>2. m \notin {3, 4}
        BY <4>1, <3>3
      <4> QED
        BY <2>1, <3>2, <4>2, CloningRanks
    <3> QED
      BY <3>4
  <2>3. ASSUME NEW c \in Build, DeployGit(c) PROVE token'[b]
    <3>1. token' = [token EXCEPT ![c] = TRUE]
      BY <2>3 DEF DeployGit
    <3>2. b # c => build'[b] = build[b]
      BY <2>3 DEF DeployGit, WriteBuild, Typed, TypeOK
    <3> QED
      BY <2>2, <3>1, <3>2 DEF TokenOutlivesClone, Cloning, Typed, TypeOK
  <2>4. CASE DropToken
    <3>1. token' = token \/ token' = [token EXCEPT ![bw.on] = FALSE]
      BY <2>4 DEF DropToken
    <3>2. bw.on \in Build /\ ~Cloning(bw.mine.phase) /\ bw.mine.phase \in Phases
      BY <2>4 DEF DropToken, Typed, TypeOK, WorkersFit, Builds, Cloning
    <3>3. bw.on # b
      <4>1. Rank(bw.mine.phase) \in {3, 4} /\ Rank(build[b].phase) \in {0, 1, 2}
        BY <3>2, <2>1, <2>2, CloningRanks
      <4>2. Rank(bw.mine.phase) <= Rank(build[bw.on].phase)
        BY <2>4 DEF DropToken, BuildInv, CopiesFit, IsCopy
      <4> QED
        BY <4>1, <4>2
    <3>4. build'[b] = build[b]
      BY <2>4 DEF DropToken
    <3> QED
      BY <2>2, <3>1, <3>2, <3>3, <3>4 DEF TokenOutlivesClone, Cloning, Typed, TypeOK
  <2>5. ASSUME UNCHANGED token, build[b].there PROVE token'[b]
    BY <2>2, <2>5 DEF TokenOutlivesClone, Cloning
  <2>6. \/ \E c \in Build : DeployGit(c)
        \/ DropToken
        \/ UNCHANGED token /\ (build'[b].there => build[b].there)
    <3>1. ASSUME NEW c \in Build, PodStep(c) \/ Finalize(c) \/ MarkFailed(c)
          PROVE  UNCHANGED token /\ (build'[b].there => build[b].there)
      <4>1. build[c].there
        <5>1. build[c].phase # "" /\ NoBuild.phase = ""
          BY <3>1 DEF PodStep, Finalize, MarkFailed, NoBuild
        <5> QED
          BY <5>1 DEF BuildInv, BuildsFit
      <4>2. \E v : PodWrites(c, v)
        BY <3>1 DEF PodStep, Finalize, MarkFailed
      <4>3. UNCHANGED token /\ (b # c => build'[b] = build[b])
        BY <4>2 DEF PodWrites, WriteBuild, Typed, TypeOK
      <4> QED
        BY <4>1, <4>3
    <3>2. CASE SetCreated
      <4>1. bw.on \in Build /\ build[bw.on].there
        BY <3>2 DEF SetCreated, Typed, WorkersFit, BuildInv, BuildsFit
      <4>2. UNCHANGED token /\ (b # bw.on => build'[b] = build[b])
        BY <3>2, <4>1 DEF SetCreated, WriteBuild, Typed, TypeOK
      <4> QED
        BY <4>1, <4>2
    <3>3. \/ \E c \in Build : DeployGit(c)
          \/ \E c \in Build : PodStep(c) \/ Finalize(c) \/ MarkFailed(c)
          \/ SetCreated \/ DropToken
          \/ UNCHANGED <<token, build>>
      BY DEF Next, Reconcile, vars, server, DeployImage, SyncEnv, SyncBuild, SyncWorkload,
         ResyncEnv, ResyncBuild, EnvTake, EnvNamespace, EnvStatus, EnvLeaves, EnvRender,
         EnvRefused, EnvFails, BuildTake, BuildList, BuildUpdate, Poll, BuildFails, Restart
    <3> QED
      BY <3>1, <3>2, <3>3
  <2> QED
    BY <2>3, <2>4, <2>5, <2>6
<1> QED
  BY <1>1, <1>2, Copies, PTL DEF Spec

-----------------------------------------------------------------------------
(* Where the images come from *)

\* What may be named anywhere; a worker on its way to backfill has read a
\* pushed build.
Good == deployed \union Released \union {NoImage}
ImagesFit ==
    /\ \A e \in AppEnv :
         env[e].image \in Good /\ envCache[e].image \in Good /\ workload[e] \in Good
    /\ ew.mine.image \in Good
    /\ bw.at \in {"list", "update"} => bw.mine.phase = "PUSHED"

\* What was asked for or released stays so.
LEMMA GoodGrows ==
    ASSUME BuildInv, StepForward, deployed \subseteq deployed'
    PROVE  \A i \in Good : i \in Good'
<1>1. \A b \in Build : build[b].phase = "PUSHED" => build'[b] = build[b]
  BY DEF StepForward
<1>2. \A i \in Released : i \in Released'
  BY <1>1 DEF Released
<1> QED
  BY <1>2 DEF Good

\* A worker on its way to backfill holds the digest of a released build.
LEMMA BackfillsReleased ==
    ASSUME Typed, BuildInv, ImagesFit, bw.at \in {"list", "update"}
    PROVE  bw.mine.digest \in Good
<1>1. bw.on \in Build /\ bw.mine.phase = "PUSHED"
  BY DEF Typed, WorkersFit, ImagesFit
<1>2. bw.mine = build[bw.on]
  BY <1>1 DEF BuildInv, CopiesFit, IsCopy
<1>3. build[bw.on].phase = "PUSHED" /\ build[bw.on].evidence
  BY <1>1, <1>2 DEF BuildInv, BuildsFit
<1>4. build[bw.on].digest \in Released
  BY <1>1, <1>3 DEF Released
<1> QED
  BY <1>2, <1>4 DEF Good

\* Every step keeps the images good.
LEMMA ImagesStep ==
    ASSUME Typed, BuildInv, ImagesFit, [Next]_vars
    PROVE  ImagesFit'
<1>1. deployed \subseteq deployed'
  BY DEF Next, Reconcile, vars, counts, DeployImage, DeployGit, PodStep, PodWrites, Finalize,
     MarkFailed, SyncEnv, SyncBuild, SyncWorkload, ResyncEnv, ResyncBuild, EnvTake,
     EnvNamespace, EnvStatus, EnvLeaves, EnvRender, EnvRefused, EnvFails, BuildTake,
     BuildList, BuildUpdate, SetCreated, Poll, DropToken, BuildFails, Restart
<1>2. \A i \in Good : i \in Good'
  BY <1>1, StepFits, GoodGrows
<1>3. NoImage \in Good /\ NoImage \in Good' /\ NoAppEnv.image = NoImage
        /\ EnvIdle.mine = NoAppEnv /\ BuildIdle.at = "idle"
  BY DEF Good, NoAppEnv, EnvIdle, BuildIdle
<1>g. PICK G : G = Good'
  OBVIOUS
<1>h. /\ NoImage \in G
      /\ \A e \in AppEnv : env[e].image \in G /\ envCache[e].image \in G /\ workload[e] \in G
      /\ ew.mine.image \in G
      /\ bw.at \in {"list", "update"} => bw.mine.phase = "PUSHED" /\ bw.mine.digest \in G
  BY <1>2, <1>3, <1>g, BackfillsReleased DEF ImagesFit
<1>q. SUFFICES /\ \A e \in AppEnv : /\ env'[e].image \in G
                                    /\ envCache'[e].image \in G
                                    /\ workload'[e] \in G
               /\ ew'.mine.image \in G
               /\ bw'.at \in {"list", "update"} => bw'.mine.phase = "PUSHED"
  BY <1>g DEF ImagesFit
<1> DEFINE EnvOK == \A e \in AppEnv : env'[e].image \in G
           CacheOK == \A e \in AppEnv : envCache'[e].image \in G
           WorkOK == \A e \in AppEnv : workload'[e] \in G
           EwOK == ew'.mine.image \in G
           BwOK == bw'.at \in {"list", "update"} => bw'.mine.phase = "PUSHED"
<1>4. EnvOK
  <2>1. ASSUME NEW e \in AppEnv, NEW i \in Pinned \union {NoImage}, DeployImage(e, i)
        PROVE  EnvOK
    <3>1. i \in G
      BY <2>1, <1>g DEF DeployImage, Good
    <3>2. env' = [env EXCEPT ![e] = [env[e] EXCEPT !.there = TRUE, !.image = i]]
      BY <2>1 DEF DeployImage, WriteEnv
    <3> QED
      BY <3>1, <3>2, <1>h DEF Typed, TypeOK, AppEnvs
  <2>2. CASE EnvStatus
    <3>1. env' = env \/ env' = [env EXCEPT ![ew.on] = [env[ew.on] EXCEPT !.ready = TRUE]]
      BY <2>2 DEF EnvStatus, WriteEnv
    <3>2. env \in [AppEnv -> AppEnvs]
      BY DEF Typed, TypeOK
    <3>3. \A e \in AppEnv : [env[e] EXCEPT !.ready = TRUE].image = env[e].image
      BY <3>2 DEF AppEnvs
    <3>4. \A e \in AppEnv : env'[e].image = env[e].image
      BY <3>1, <3>2, <3>3
    <3> QED
      BY <3>4, <1>h
  <2>3. ASSUME NEW e \in AppEnv, BuildUpdate(e) PROVE EnvOK
    <3>1. env' = env \/ env' = [env EXCEPT ![e] = [env[e] EXCEPT !.image = bw.mine.digest]]
      BY <2>3 DEF BuildUpdate, WriteEnv
    <3>2. bw.mine.digest \in G
      BY <2>3, <1>h DEF BuildUpdate
    <3> QED
      BY <3>1, <3>2, <1>h DEF Typed, TypeOK, AppEnvs
  <2>4. CASE UNCHANGED env
    BY <2>4, <1>h
  <2>5. \/ \E e \in AppEnv : \/ \E i \in Pinned \union {NoImage} : DeployImage(e, i)
                            \/ BuildUpdate(e)
        \/ EnvStatus \/ UNCHANGED env
    BY DEF Next, Reconcile, vars, server, DeployGit, PodStep, PodWrites, Finalize,
       MarkFailed, SyncEnv, SyncBuild, SyncWorkload, ResyncEnv, ResyncBuild, EnvTake,
       EnvNamespace, EnvLeaves, EnvRender, EnvRefused, EnvFails, BuildTake, BuildList,
       SetCreated, Poll, DropToken, BuildFails, Restart
  <2> QED
    BY <2>1, <2>2, <2>3, <2>4, <2>5
<1>5. CacheOK
  <2>1. \/ \E e \in AppEnv : envCache' = [envCache EXCEPT ![e] = env[e]]
        \/ envCache' = env \/ UNCHANGED envCache
    BY DEF Next, Reconcile, vars, caches, DeployImage, DeployGit, PodStep, PodWrites,
       Finalize, MarkFailed, SyncEnv, SyncBuild, SyncWorkload, ResyncEnv, ResyncBuild,
       EnvTake, EnvNamespace, EnvStatus, EnvLeaves, EnvRender, EnvRefused, EnvFails,
       BuildTake, BuildList, BuildUpdate, SetCreated, Poll, DropToken, BuildFails, Restart
  <2> QED
    BY <2>1, <1>h DEF Typed, TypeOK
<1>6. WorkOK
  <2>1. \/ workload' = [workload EXCEPT ![ew.on] = ew.mine.image]
        \/ UNCHANGED workload
    BY DEF Next, Reconcile, vars, server, DeployImage, DeployGit, PodStep, PodWrites,
       Finalize, MarkFailed, SyncEnv, SyncBuild, SyncWorkload, ResyncEnv, ResyncBuild,
       EnvTake, EnvNamespace, EnvStatus, EnvLeaves, EnvRender, EnvRefused, EnvFails,
       BuildTake, BuildList, BuildUpdate, SetCreated, Poll, DropToken, BuildFails, Restart
  <2> QED
    BY <2>1, <1>h DEF Typed, TypeOK
<1>7. EwOK
  <2>1. ASSUME NEW e \in AppEnv, EnvTake(e) PROVE EwOK
    BY <2>1, <1>h DEF EnvTake
  <2>2. CASE EnvNamespace
    <3>1. ew' = EnvIdle \/ \E step \in {"render", "status"} : ew' = [ew EXCEPT !.at = step]
      BY <2>2 DEF EnvNamespace, EnvGoto, EnvEnds
    <3> QED
      BY <3>1, <1>3, <1>h DEF Typed, TypeOK
  <2>3. CASE EnvStatus
    <3>1. ew' = EnvIdle \/ ew' = [ew EXCEPT !.at = "render", !.mine.ready = TRUE]
      BY <2>3 DEF EnvStatus, EnvEnds
    <3>2. CASE ew' = EnvIdle
      BY <3>2, <1>3, <1>h
    <3>3. CASE ew' = [ew EXCEPT !.at = "render", !.mine.ready = TRUE]
      <4>1. ew \in [at : {"idle", "namespace", "status", "render"},
                    on : AppEnv \union {NoName}, mine : AppEnvs]
        BY DEF Typed, TypeOK
      <4>2. ew'.mine.image = ew.mine.image
        BY <4>1, <3>3 DEF AppEnvs
      <4> QED
        BY <4>2, <1>h
    <3> QED
      BY <3>1, <3>2, <3>3
  <2>4. CASE ew' = EnvIdle \/ UNCHANGED ew
    BY <2>4, <1>3, <1>h
  <2>5. \/ \E e \in AppEnv : EnvTake(e)
        \/ EnvNamespace \/ EnvStatus
        \/ ew' = EnvIdle \/ UNCHANGED ew
    BY DEF Next, Reconcile, vars, DeployImage, DeployGit, PodStep, PodWrites, Finalize,
       MarkFailed, SyncEnv, SyncBuild, SyncWorkload, ResyncEnv, ResyncBuild, EnvLeaves,
       EnvRender, EnvRefused, EnvFails, BuildTake, BuildList, BuildUpdate, SetCreated,
       Poll, DropToken, BuildFails, Restart, EnvEnds
  <2> QED
    BY <2>1, <2>2, <2>3, <2>4, <2>5
<1>8. BwOK
  <2>1. \/ \E b \in Build : BuildTake(b)
        \/ bw.at = "list" /\ bw'.mine = bw.mine
        \/ bw.at = "update" /\ bw'.mine = bw.mine
        \/ bw' = BuildIdle \/ UNCHANGED bw
    BY DEF Next, Reconcile, vars, DeployImage, DeployGit, PodStep, PodWrites, Finalize,
       MarkFailed, SyncEnv, SyncBuild, SyncWorkload, ResyncEnv, ResyncBuild, EnvTake,
       EnvNamespace, EnvStatus, EnvLeaves, EnvRender, EnvRefused, EnvFails, BuildList,
       BuildUpdate, SetCreated, Poll, DropToken, BuildFails, Restart, BuildEnds,
       Typed, TypeOK
  <2>2. ASSUME NEW b \in Build, BuildTake(b) PROVE BwOK
    BY <2>2 DEF BuildTake
  <2> QED
    BY <2>1, <2>2, <1>3, <1>h
<1> QED
  BY <1>4, <1>5, <1>6, <1>7, <1>8

\* What an AppEnv names and what its workload runs was asked for by a deploy,
\* or is the digest of a build that was pushed with all its evidence
\* (maybeBackfillDigest, FinalizeBuild).
THEOREM OnlyReleased == Spec => []ImagesAreReleased
<1>1. Init => ImagesFit
  BY DEF Init, ImagesFit, Good, NoAppEnv, EnvIdle, BuildIdle
<1>2. Typed /\ BuildInv /\ ImagesFit /\ [Next]_vars => ImagesFit'
  BY ImagesStep
<1>3. ImagesFit => ImagesAreReleased
  BY DEF ImagesFit, ImagesAreReleased, Good
<1> QED
  BY <1>1, <1>2, <1>3, Copies, PTL DEF Spec
=============================================================================
