------------------------------ MODULE Releases ------------------------------
(***************************************************************************)
(* Plans, deployments and their revisions: what handleGetPlan,             *)
(* handleDeploy, handleRollback, handleDelete and the spec handlers of     *)
(* control-plane/internal/apps do to the rows of one application.          *)
(*                                                                         *)
(* Each statement runs in a transaction of its own (pgxpool, READ          *)
(* COMMITTED), so a call is a sequence of statements that interleaves with *)
(* the calls of other clients.  A deployment is named by its id, a random  *)
(* uuid: the numbers are the order uuids sort in, not the order rows are   *)
(* made in.                                                                *)
(***************************************************************************)
EXTENDS Naturals

CONSTANTS
    Deployment,     \* the ids deployments can draw
    Client,         \* who calls the API, one call at a time
    Image,          \* well-formed image digests
    NoImage,
    MaxRevision     \* bound: revisions a deployment can have

ASSUME ReleasesAssumption ==
    /\ Deployment \subseteq Nat \ {0}
    /\ MaxRevision \in Nat
    /\ NoImage \notin Image

VARIABLES
    live,       \* the application row has no deleted_at
    hasSpec,    \* applications.current_spec is set
    state,      \* state[d]: deployments.state
    expired,    \* the deployments whose plan snapshot is past its expires_at
    newest,     \* the deployment made last (created_at), 0 before the first
    image,      \* image[d][n]: image_digest of row (d, n) of deployment_revisions
    sent,       \* the deployments whose manifest reached the cluster
    pc,         \* pc[c]: the next statement of the call of c
    job,        \* job[c]: the local variables of that call
    reply       \* reply[c]: how the last call of c was answered

app == <<live, hasSpec>>
plans == <<state, expired, newest>>
rows == <<app, plans, image, sent>>
vars == <<live, hasSpec, state, expired, newest, image, sent, pc, job, reply>>

Revision == 1 .. MaxRevision
Steps == {"idle", "plan.app", "plan.insert", "approve", "bridge.app",
          "bridge.apply", "rollback.target", "save.app", "save.max",
          "save.insert"}
Ways == {"image", "git", "none"}

\* dep: the deployment the call works on; way: what a deploy call names to run;
\* to: the revision a rollback goes back to, 0 in other calls; img: what is
\* about to be saved; next: the number it is about to get.  An answer tells of
\* which deployment it is when it ends a rollback (from which revision, as
\* which) or a deploy call that had something to apply.
NoJob == [dep |-> 0, way |-> "none", to |-> 0, img |-> NoImage, next |-> 0]
Answers == {"none", "planned", "accepted", "saved", "rolled back", "NOT_FOUND",
            "SPEC_REQUIRED", "VALIDATION_FAILED", "PLAN_EXPIRED", "CONFLICT",
            "NOT_ENOUGH_REVISIONS", "INTERNAL"}
Answer(what, d, to, as) == [what |-> what, of |-> d, to |-> to, as |-> as]
NoAnswer == Answer("none", 0, 0, 0)

Jobs == [dep : Deployment \union {0}, way : Ways, to : Revision \union {0},
         img : Image \union {NoImage}, next : Revision \union {0}]
Replies == [what : Answers, of : Deployment \union {0}, to : Revision \union {0},
            as : Revision \union {0}]

TypeOK ==
    /\ live \in BOOLEAN
    /\ hasSpec \in BOOLEAN
    /\ state \in [Deployment -> {"none", "AWAITING_APPROVAL", "PLANNED"}]
    /\ expired \subseteq Deployment
    /\ newest \in Deployment \union {0}
    /\ image \in [Deployment -> [Revision -> Image \union {NoImage}]]
    /\ sent \subseteq Deployment
    /\ pc \in [Client -> Steps]
    /\ job \in [Client -> Jobs]
    /\ reply \in [Client -> Replies]

Init ==
    /\ live = TRUE
    /\ hasSpec = FALSE
    /\ state = [d \in Deployment |-> "none"]
    /\ expired = {}
    /\ newest = 0
    /\ image = [d \in Deployment |-> [n \in Revision |-> NoImage]]
    /\ sent = {}
    /\ pc = [c \in Client |-> "idle"]
    /\ job = [c \in Client |-> NoJob]
    /\ reply = [c \in Client |-> NoAnswer]

-----------------------------------------------------------------------------
(* Helpers *)

Made == {d \in Deployment : state[d] # "none"}
Saved(d) == {n \in Revision : image[d][n] # NoImage}

\* SELECT COALESCE(max(revision), 0), and ORDER BY revision DESC LIMIT 1 OFFSET 1.
MaxOf(S) == CHOOSE n \in 0 .. MaxRevision : n \in S \union {0} /\ \A m \in S : m <= n
Newest(d) == MaxOf(Saved(d))
SecondNewest(d) == MaxOf(Saved(d) \ {Newest(d)})

Goto(c, step) == pc' = [pc EXCEPT ![c] = step]

Idle(c) == pc[c] = "idle"
At(c, step) == pc[c] = step

\* The call of c goes on to its next statement with local variables j.
Proceed(c, step, j) ==
    /\ Goto(c, step)
    /\ job' = [job EXCEPT ![c] = j]
    /\ reply' = [reply EXCEPT ![c] = NoAnswer]

Return(c, answer) ==
    /\ Goto(c, "idle")
    /\ job' = [job EXCEPT ![c] = NoJob]
    /\ reply' = [reply EXCEPT ![c] = answer]

End(c, what) == Return(c, Answer(what, 0, 0, 0))

-----------------------------------------------------------------------------
(* Faulty forms of the actions below; no specification here takes them. *)

\* deployment_revisions without UNIQUE (deployment_id, revision).
SaveInsertNotUnique(c) ==
    /\ At(c, "save.insert")
    /\ LET d == job[c].dep  n == job[c].next IN
         /\ image' = [image EXCEPT ![d][n] = job[c].img]
         /\ Return(c, Answer("rolled back", d, job[c].to, n))
    /\ UNCHANGED <<app, plans, sent>>

\* An expired plan is refused without leaving the handler.
DeploySelectFallsThrough(c, d, way) ==
    /\ Idle(c)
    /\ IF d \in Made
       THEN Proceed(c, IF d \in expired THEN "bridge.app" ELSE "approve",
                    [NoJob EXCEPT !.dep = d, !.way = way])
       ELSE End(c, "NOT_FOUND")
    /\ UNCHANGED rows

-----------------------------------------------------------------------------
(* GET /v1/apps/{appId}/plan *)

\* handleGetPlan reads the application with its spec.  What is stored was parsed
\* before, but a spec with a worker or a cron job has no plan.
PlanSelect(c) ==
    /\ Idle(c)
    /\ \/ live /\ hasSpec /\ Proceed(c, "plan.app", NoJob)
       \/ live /\ hasSpec /\ End(c, "VALIDATION_FAILED")
       \/ live /\ ~hasSpec /\ End(c, "SPEC_REQUIRED")
       \/ ~live /\ End(c, "NOT_FOUND")
    /\ UNCHANGED rows

\* EnsureEnvironment looks the application up again; its upsert leaves the
\* environment row as it is.
PlanEnsure(c) ==
    /\ At(c, "plan.app")
    /\ IF live THEN Proceed(c, "plan.insert", NoJob) ELSE End(c, "NOT_FOUND")
    /\ UNCHANGED rows

\* SaveAwaitingPlan inserts the deployment under a random id.
PlanInsert(c) ==
    /\ At(c, "plan.insert")
    /\ \E d \in Deployment \ Made :
         /\ state' = [state EXCEPT ![d] = "AWAITING_APPROVAL"]
         /\ newest' = d
         /\ End(c, "planned")
    /\ UNCHANGED <<app, expired, image, sent>>

-----------------------------------------------------------------------------
(* POST /v1/apps/{appId}/deployments *)

\* ApprovePlan, the SELECT: it does not ask for a live application.
DeploySelect(c, d, way) ==
    /\ Idle(c)
    /\ \/ d \notin Made /\ End(c, "NOT_FOUND")
       \/ d \in Made \cap expired /\ End(c, "PLAN_EXPIRED")
       \/ /\ d \in Made \ expired
          /\ IF state[d] = "AWAITING_APPROVAL"
             THEN Proceed(c, "approve", [NoJob EXCEPT !.dep = d, !.way = way])
             ELSE End(c, "CONFLICT")
    /\ UNCHANGED rows

\* ApprovePlan, the UPDATE: by id alone.
DeployUpdate(c) ==
    /\ At(c, "approve")
    /\ state' = [state EXCEPT ![job[c].dep] = "PLANNED"]
    /\ Proceed(c, "bridge.app", job[c])
    /\ UNCHANGED <<app, expired, newest, image, sent>>

\* applyBridgeBestEffort: no application, no image and no git source all end
\* the call the way success does.
BridgeGetApp(c) ==
    /\ At(c, "bridge.app")
    /\ IF live /\ job[c].way # "none"
       THEN Proceed(c, "bridge.apply", job[c])
       ELSE End(c, "accepted")
    /\ UNCHANGED rows

\* Applier.Apply: its error is logged, and the call accepted all the same.
BridgeApply(c) ==
    /\ At(c, "bridge.apply")
    /\ sent' \in {sent, sent \union {job[c].dep}}
    /\ Return(c, Answer("accepted", job[c].dep, 0, 0))
    /\ UNCHANGED <<app, plans, image>>

-----------------------------------------------------------------------------
(* POST /v1/apps/{appId}/rollback, and SaveRevision *)

\* RollbackLatest picks a deployment: ORDER BY dp.id DESC LIMIT 1.
RollbackSelect(c) ==
    /\ Idle(c)
    /\ IF live /\ Made # {}
       THEN \E d \in Made :
              /\ \A e \in Made : e <= d
              /\ Proceed(c, "rollback.target", [NoJob EXCEPT !.dep = d])
       ELSE End(c, "NOT_ENOUGH_REVISIONS")
    /\ UNCHANGED rows

\* RollbackTarget: the second-newest revision.
RollbackTarget(c) ==
    /\ At(c, "rollback.target")
    /\ LET d == job[c].dep IN
         IF Saved(d) \ {Newest(d)} = {}
         THEN End(c, "NOT_ENOUGH_REVISIONS")
         ELSE Proceed(c, "save.app", [job[c] EXCEPT !.to = SecondNewest(d),
                                                    !.img = image[d][SecondNewest(d)]])
    /\ UNCHANGED rows

\* SaveRevision for a release (its digest is well formed): GetApp.
SaveRelease(c, d, i) ==
    /\ Idle(c)
    /\ d \in Made
    /\ IF live THEN Proceed(c, "save.max", [NoJob EXCEPT !.dep = d, !.img = i])
               ELSE End(c, "NOT_FOUND")
    /\ UNCHANGED rows

\* SaveRevision on behalf of a rollback: GetApp.
SaveGetApp(c) ==
    /\ At(c, "save.app")
    /\ IF live THEN Proceed(c, "save.max", job[c]) ELSE End(c, "NOT_FOUND")
    /\ UNCHANGED rows

\* SELECT max(revision) + 1; the model stops at MaxRevision.
SaveMax(c) ==
    /\ At(c, "save.max")
    /\ LET n == Newest(job[c].dep) IN
         IF n < MaxRevision
         THEN Proceed(c, "save.insert", [job[c] EXCEPT !.next = n + 1])
         ELSE End(c, "INTERNAL")
    /\ UNCHANGED rows

\* INSERT: UNIQUE (deployment_id, revision) refuses a number that is taken.
SaveInsert(c) ==
    /\ At(c, "save.insert")
    /\ LET d == job[c].dep  n == job[c].next IN
         IF image[d][n] = NoImage
         THEN /\ image' = [image EXCEPT ![d][n] = job[c].img]
              /\ IF job[c].to = 0
                 THEN End(c, "saved")
                 ELSE Return(c, Answer("rolled back", d, job[c].to, n))
         ELSE End(c, "INTERNAL") /\ UNCHANGED image
    /\ UNCHANGED <<app, plans, sent>>

-----------------------------------------------------------------------------
(* The rest of the system *)

\* A statement fails, or the server stops: the call ends where it is.  The load
\* of the application for the bridge fails unseen.
Fails(c) ==
    /\ ~Idle(c)
    /\ End(c, IF At(c, "bridge.app") THEN "accepted" ELSE "INTERNAL")
    /\ UNCHANGED rows

\* SoftDeleteApp: nothing but the application row changes.
Delete ==
    /\ live
    /\ live' = FALSE
    /\ UNCHANGED <<hasSpec, plans, image, sent, pc, job, reply>>

\* UpdateSpec and SaveAppSpec: WHERE deleted_at IS NULL.
PutSpec ==
    /\ live
    /\ hasSpec' = TRUE
    /\ UNCHANGED <<live, plans, image, sent, pc, job, reply>>

\* 24 hours pass since the plan was generated.
Expire(d) ==
    /\ d \in Made \ expired
    /\ expired' = expired \union {d}
    /\ UNCHANGED <<app, state, newest, image, sent, pc, job, reply>>

Continue(c) ==
    \/ PlanEnsure(c) \/ PlanInsert(c) \/ DeployUpdate(c) \/ BridgeGetApp(c)
    \/ BridgeApply(c) \/ RollbackTarget(c) \/ SaveGetApp(c) \/ SaveMax(c)
    \/ SaveInsert(c)

Next ==
    \/ \E c \in Client :
         \/ PlanSelect(c) \/ RollbackSelect(c) \/ Continue(c) \/ Fails(c)
         \/ \E d \in Deployment :
              \/ \E way \in Ways : DeploySelect(c, d, way)
              \/ \E i \in Image : SaveRelease(c, d, i)
    \/ Delete \/ PutSpec
    \/ \E d \in Deployment : Expire(d)

\* A server that has taken a call goes on with it.
Fairness == \A c \in Client : WF_vars(Continue(c))

Spec == Init /\ [][Next]_vars
FairSpec == Spec /\ Fairness

-----------------------------------------------------------------------------
(* Properties *)

\* The revisions of a deployment are a log: numbered without gaps, never
\* overwritten, and a rollback appends a copy of an entry that was not the
\* last, whatever saves and rollbacks race for the next number (SaveRevision,
\* "appends the next sequential revision").
Length == [d \in Deployment |-> Newest(d)]
Untold == [of |-> 0, to |-> 0, as |-> 0]
Told == [c \in Client |->
           IF reply[c].what = "rolled back"
           THEN [of |-> reply[c].of, to |-> reply[c].to, as |-> reply[c].as]
           ELSE Untold]

Log == INSTANCE ReleaseLog WITH entry <- image, length <- Length, told <- Told

\* Every behaviour of the handlers is one of the release log.
KeepsLog == Log!Spec

\* Nothing reaches the cluster before the plan it comes from is approved, and
\* what is approved stays so (handleDeploy: ApprovePlan, then the bridge).
OnlyApprovedIsSent == \A d \in sent : state[d] = "PLANNED"

\* A rollback works on the newest deployment (RollbackLatest, "restores the
\* previous revision of the app's newest deployment").
RollsBackNewest ==
    [][\A c \in Client :
         Idle(c) /\ At(c, "rollback.target")' => job'[c].dep = newest]_vars

\* What handleDeploy accepts with an image or a git source reaches the cluster
\* in the end (applyBridgeBestEffort, "convergence is eventual by design").
DeployConverges ==
    \A c \in Client, d \in Deployment :
        (reply[c].what = "accepted" /\ reply[c].of = d) ~> (d \in sent)

=============================================================================
