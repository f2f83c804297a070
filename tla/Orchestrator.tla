---------------------------- MODULE Orchestrator ----------------------------
(***************************************************************************)
(* The library that guards the life of one application                     *)
(* (control-plane/internal/orchestrator: deploy_state.go, lifecycle.go,    *)
(* delete_pipeline.go, rollback.go).  Its callers hold the state and the   *)
(* completed steps and change them only by what the library allows; time   *)
(* is counted in units of which the retention period is a few.             *)
(***************************************************************************)
EXTENDS Naturals, FiniteSets

CONSTANTS
    Deployer,   \* callers that deploy, each through Acquire and Release
    Retention,  \* RetentionPeriod, in units of time
    MaxTime     \* bound on the clock

ASSUME OrchestratorAssumption == MaxTime \in Nat /\ Retention \in Nat

VARIABLES
    state,      \* the orchestration state of the application
    inFlight,   \* DeployLocks has the application
    holder,     \* the callers whose Acquire succeeded and that have not released
    passed,     \* states entered since the application was last at rest
    completed,  \* the finished steps of the deletion pipeline
    clock,      \* the time
    softDeleted \* when step 4 was completed (0 before)

lifecycle == <<state, inFlight, holder, passed>>
deletion == <<completed, softDeleted>>
orchestratorVars == <<lifecycle, deletion, clock>>

allowedTransitions ==
    [PLANNED      |-> {"BUILDING"},
     BUILDING     |-> {"DEPLOYING", "FAILED"},
     DEPLOYING    |-> {"VERIFYING", "FAILED"},
     VERIFYING    |-> {"RUNNING", "DEGRADED", "FAILED"},
     RUNNING      |-> {"VERIFYING", "DEGRADED", "ROLLING_BACK", "STOPPED", "DELETING"},
     DEGRADED     |-> {"VERIFYING", "ROLLING_BACK", "STOPPED", "FAILED", "DELETING"},
     FAILED       |-> {"PLANNED", "DELETING"},
     ROLLING_BACK |-> {"VERIFYING", "FAILED"},
     STOPPED      |-> {"PLANNED", "DELETING"},
     DELETING     |-> {"DELETED", "PLANNED"},
     DELETED      |-> {}]

States == DOMAIN allowedTransitions

ResumesUnverified(from, to) ==
    to \in allowedTransitions[from] \/ (from = "STOPPED" /\ to = "VERIFYING")

CanTransition(from, to) == to \in allowedTransitions[from]

OrchestratorInit ==
    /\ state = "PLANNED"
    /\ inFlight = FALSE
    /\ holder = {}
    /\ passed = {}
    /\ completed = {}
    /\ clock = 0
    /\ softDeleted = 0

\* A state with no workload to serve; what ran before has to be built anew.
AtRest == {"STOPPED", "FAILED", "DELETING"}
Enter(to) ==
    /\ state' = to
    /\ passed' = IF to \in AtRest THEN {} ELSE passed \union {to}

-----------------------------------------------------------------------------
(* deploy_state.go *)

\* A second deploy is answered ErrConcurrentDeploy and changes nothing.
Acquire(d) ==
    /\ ~inFlight
    /\ inFlight' = TRUE
    /\ holder' = holder \union {d}
    /\ UNCHANGED <<state, passed, deletion, clock>>

Release(d) ==
    /\ d \in holder
    /\ inFlight' = FALSE
    /\ holder' = holder \ {d}
    /\ UNCHANGED <<state, passed, deletion, clock>>

\* A deploy moves the application while it holds the lock; rolling back is
\* PlanRollback, stopping and starting are GuardStop and GuardStart.
Transition(d, to) ==
    /\ d \in holder
    /\ to \notin {"STOPPED", "PLANNED", "ROLLING_BACK", "DELETING", "DELETED"}
    /\ CanTransition(state, to)
    /\ Enter(to)
    /\ UNCHANGED <<inFlight, holder, deletion, clock>>

-----------------------------------------------------------------------------
(* lifecycle.go *)

\* GuardStart asks the table alone, so it also leaves FAILED, and DELETING at any
\* step.
GuardStop ==
    /\ CanTransition(state, "STOPPED")
    /\ Enter("STOPPED")
    /\ UNCHANGED <<inFlight, holder, deletion, clock>>

GuardStart ==
    /\ CanTransition(state, "PLANNED")
    /\ Enter("PLANNED")
    /\ UNCHANGED <<inFlight, holder, deletion, clock>>

\* PlanRollback: the target is Rollback's business (module Verdicts).
PlanRollback ==
    /\ CanTransition(state, "ROLLING_BACK")
    /\ Enter("ROLLING_BACK")
    /\ UNCHANGED <<inFlight, holder, deletion, clock>>

-----------------------------------------------------------------------------
(* delete_pipeline.go *)

NextDeleteStep(done) ==
    CHOOSE step \in 1 .. 7 : step \notin done /\ \A s \in 1 .. step - 1 : s \in done

PurgeAllowed == clock >= softDeleted + Retention

RestoreWindowOpen(done) == \A step \in done : step < 4

BeginDelete ==
    /\ CanTransition(state, "DELETING")
    /\ Enter("DELETING")
    /\ UNCHANGED <<inFlight, holder, deletion, clock>>

PurgeAtOnce ==
    LET step == NextDeleteStep(completed)
    IN  /\ state = "DELETING"
        /\ completed # 1 .. 7
        /\ completed' = completed \union {step}
        /\ softDeleted' = IF step = 4 THEN clock ELSE softDeleted
        /\ IF step = 7 THEN Enter("DELETED") ELSE UNCHANGED <<state, passed>>
        /\ UNCHANGED <<inFlight, holder, clock>>

\* The step is done and its completion persisted before the next; the purge
\* waits for SoftDeleteUntil.
DeleteStep ==
    LET step == NextDeleteStep(completed)
    IN  /\ state = "DELETING"
        /\ completed # 1 .. 7
        /\ step = 7 => PurgeAllowed
        /\ completed' = completed \union {step}
        /\ softDeleted' = IF step = 4 THEN clock ELSE softDeleted
        /\ IF step = 7 THEN Enter("DELETED") ELSE UNCHANGED <<state, passed>>
        /\ UNCHANGED <<inFlight, holder, clock>>

Restore ==
    /\ state = "DELETING"
    /\ RestoreWindowOpen(completed)
    /\ CanTransition(state, "PLANNED")
    /\ Enter("PLANNED")
    /\ completed' = {}
    /\ UNCHANGED <<inFlight, holder, softDeleted, clock>>

Tick ==
    /\ clock < MaxTime
    /\ clock' = clock + 1
    /\ UNCHANGED <<lifecycle, deletion>>

OrchestratorNext ==
    \/ \E d \in Deployer : Acquire(d) \/ Release(d) \/ \E to \in States : Transition(d, to)
    \/ GuardStop \/ GuardStart \/ PlanRollback
    \/ BeginDelete \/ DeleteStep \/ Restore
    \/ Tick

OrchestratorSpec == OrchestratorInit /\ [][OrchestratorNext]_orchestratorVars

OrchestratorTypeOK ==
    /\ state \in States
    /\ inFlight \in BOOLEAN
    /\ holder \subseteq Deployer
    /\ passed \subseteq States
    /\ completed \subseteq 1 .. 7
    /\ clock \in 0 .. MaxTime
    /\ softDeleted \in 0 .. MaxTime

-----------------------------------------------------------------------------
(* Properties *)

\* "The next deploy rebuilds and re-verifies everything" (lifecycle.go:26-27):
\* whatever way leads out of a stop, a failure or a deletion, the application
\* serves only after a build, a deploy and a verification since.
ServesWhatWasVerified ==
    state \in {"RUNNING", "DEGRADED"} => {"BUILDING", "DEPLOYING", "VERIFYING"} \subseteq passed

\* Two deploys of the application are never under way together (DeployLocks);
\* and data are purged last, when the retention period of the soft deletion is
\* over, however often the deletion was left and taken up again
\* (delete_pipeline.go:11-12).
PurgeComesLast ==
    /\ Cardinality(holder) <= 1
    /\ 7 \in completed => completed = 1 .. 7 /\ PurgeAllowed
=============================================================================
