---------------------------- MODULE GuardsProofs ----------------------------
(***************************************************************************)
(* What the guards promise, proved for any number of callers: the count of *)
(* CreateApp against the calls that counted with it (Apps), the deploy     *)
(* lock, the transition table and the delete pipeline (Orchestrator), the  *)
(* window of the replay guard (Previews), and the limiter, the build gate  *)
(* and the repair loop (Budgets).                                          *)
(***************************************************************************)
EXTENDS Apps, Orchestrator, Previews, Budgets, FiniteSetTheorems, TLAPS

-----------------------------------------------------------------------------
(* Apps *)

Inserting == {c \in Task : todo[c] = "insert"}

Carries(step, with) ==
    /\ step \in {"insert", "classifyName", "classifyCount"} => with.name \in Name
    /\ step \in {"service", "environment"} => with.name \in Child /\ with.app \in App

\* A call past the count has its room: the applications there are and those on
\* their way are together below the ceiling and one call less.
AppsInv ==
    /\ AppsTypeOK
    /\ \A c \in Task : Carries(todo[c], arg[c])
    /\ Cardinality(LiveApps) + Cardinality(Inserting) <= MaxApps + Cardinality(Task) - 1

LEMMA AppsCounts ==
    /\ IsFiniteSet(LiveApps) /\ IsFiniteSet(Inserting)
    /\ Cardinality(LiveApps) \in Nat /\ Cardinality(Inserting) \in Nat
    /\ Cardinality(Task) \in Nat /\ Cardinality(Inserting) <= Cardinality(Task)
<1>1. LiveApps \subseteq App /\ Inserting \subseteq Task
  BY DEF LiveApps, Inserting
<1> QED
  BY <1>1, FS_Subset, FS_CardinalityType, AppsAssumption

\* Neither more applications nor more calls about to insert one.
LEMMA AppsShrink ==
    ASSUME AppsInv, LiveApps' \subseteq LiveApps, Inserting' \subseteq Inserting
    PROVE  Cardinality(LiveApps') + Cardinality(Inserting') <= MaxApps + Cardinality(Task) - 1
<1>1. /\ Cardinality(LiveApps') <= Cardinality(LiveApps) /\ Cardinality(LiveApps') \in Nat
      /\ Cardinality(Inserting') <= Cardinality(Inserting) /\ Cardinality(Inserting') \in Nat
  BY AppsCounts, FS_Subset, FS_CardinalityType
<1> QED
  BY <1>1, AppsCounts, AppsAssumption DEF AppsInv

LEMMA AppsStart == ASSUME AppsInit PROVE AppsInv
<1>1. AppsTypeOK /\ \A c \in Task : Carries(todo[c], arg[c])
  BY AppsAssumption DEF AppsInit, AppsTypeOK, Todos, Answers, NoArg, Arg, Carries
<1>2. LiveApps = {} /\ Inserting = {}
  BY DEF AppsInit, LiveApps, Inserting
<1>3. Cardinality(Task) \in Nat /\ Cardinality(Task) # 0
  BY FS_EmptySet, FS_CardinalityType, AppsAssumption
<1>4. Cardinality({}) = 0
  BY FS_EmptySet
<1> QED
  BY <1>1, <1>2, <1>3, <1>4, AppsAssumption DEF AppsInv

Args == [name: Name \union Child \union {Free}, app: App \union {Free}]

\* A call that goes on keeps the types of the calls.
LEMMA AppsGoes ==
    ASSUME AppsTypeOK, \A c \in Task : Carries(todo[c], arg[c]), NEW c \in Task, NEW from,
           NEW to \in Todos, NEW with \in Args, Carries(to, with), Goes(c, from, to, with)
    PROVE  /\ todo' \in [Task -> Todos] /\ arg' \in [Task -> Args]
           /\ \A d \in Task : Carries(todo'[d], arg'[d])
           /\ to # "insert" => Inserting' \subseteq Inserting
           /\ from = "insert" /\ to # "insert" => c \in Inserting /\ c \notin Inserting'
           /\ Inserting' \subseteq Inserting \union {c}
<1>1. todo' \in [Task -> Todos] /\ arg' \in [Task -> Args]
  BY DEF Goes, AppsTypeOK, Args
<1>2. \A d \in Task : Carries(todo'[d], arg'[d])
  <2> TAKE d \in Task
  <2>1. CASE d = c
    BY <2>1 DEF Goes, AppsTypeOK
  <2>2. CASE d # c
    BY <2>2 DEF Goes, AppsTypeOK
  <2> QED
    BY <2>1, <2>2
<1>3. /\ to # "insert" => Inserting' \subseteq Inserting
      /\ from = "insert" /\ to # "insert" => c \in Inserting /\ c \notin Inserting'
      /\ Inserting' \subseteq Inserting \union {c}
  BY DEF Goes, AppsTypeOK, Inserting
<1> QED
  BY <1>1, <1>2, <1>3

\* A call that counted below the ceiling takes the room it found.
LEMMA AppsEnters ==
    ASSUME AppsInv, NEW c \in Task, Cardinality(LiveApps) < MaxApps,
           LiveApps' = LiveApps,
           Inserting' \subseteq Inserting \union {c}
    PROVE  Cardinality(LiveApps') + Cardinality(Inserting') <= MaxApps + Cardinality(Task) - 1
<1>1. Inserting' \subseteq Task
  BY DEF Inserting
<1>2. Cardinality(Inserting') <= Cardinality(Task) /\ Cardinality(Inserting') \in Nat
  BY <1>1, FS_Subset, FS_CardinalityType, AppsAssumption
<1> QED
  BY <1>2, AppsCounts, AppsAssumption

\* A call that inserts leaves its room to the application.
LEMMA AppsInserts ==
    ASSUME AppsInv, NEW c \in Task, NEW a \in App, c \in Inserting,
           LiveApps' \subseteq LiveApps \union {a}, Inserting' \subseteq Inserting,
           c \notin Inserting'
    PROVE  Cardinality(LiveApps') + Cardinality(Inserting') <= MaxApps + Cardinality(Task) - 1
<1>1. Inserting' \subseteq Inserting \ {c}
  OBVIOUS
<1>2. Cardinality(Inserting \ {c}) = Cardinality(Inserting) - 1 /\ IsFiniteSet(Inserting \ {c})
  BY AppsCounts, FS_RemoveElement
<1>3. IsFiniteSet(LiveApps \union {a}) /\ Cardinality(LiveApps \union {a})
          = IF a \in LiveApps THEN Cardinality(LiveApps) ELSE Cardinality(LiveApps) + 1
  BY AppsCounts, FS_AddElement
<1>4. /\ Cardinality(LiveApps \union {a}) <= Cardinality(LiveApps) + 1
      /\ Cardinality(LiveApps \union {a}) \in Nat
  BY <1>3, AppsCounts
<1>5. /\ Cardinality(LiveApps') <= Cardinality(LiveApps \union {a})
      /\ Cardinality(LiveApps') \in Nat
      /\ Cardinality(Inserting') <= Cardinality(Inserting \ {c})
      /\ Cardinality(Inserting') \in Nat
  BY <1>1, <1>2, <1>3, FS_Subset, FS_CardinalityType
<1> QED
  BY <1>2, <1>5, <1>4, AppsCounts, AppsAssumption DEF AppsInv

LEMMA AppsCreates ==
    ASSUME AppsInv, NEW c \in Task,
           (\E n \in Name : CreateCount(c, n)) \/ (\E a \in App : CreateInsert(c, a))
    PROVE  AppsInv'
<1> USE DEF AppsInv, AppsTypeOK
<1>1. ASSUME NEW n \in Name, CreateCount(c, n) PROVE AppsInv'
  <2> DEFINE to == IF Cardinality(LiveApps) < MaxApps THEN "insert" ELSE "classifyName"
  <2>1. /\ to \in Todos /\ Arg(n, Free) \in Args /\ Carries(to, Arg(n, Free))
        /\ Goes(c, "idle", to, Arg(n, Free))
    BY <1>1 DEF CreateCount, Todos, Args, Arg, Carries
  <2>2. /\ todo' \in [Task -> Todos] /\ arg' \in [Task -> Args]
        /\ \A d \in Task : Carries(todo'[d], arg'[d])
        /\ to # "insert" => Inserting' \subseteq Inserting
        /\ Inserting' \subseteq Inserting \union {c}
    <3> HIDE DEF to
    <3> QED
      BY <2>1, AppsGoes
  <2>3. LiveApps' = LiveApps
    BY <1>1 DEF CreateCount, rows, LiveApps
  <2>4. AppsTypeOK'
    BY <1>1, <2>2 DEF CreateCount, rows, children, Answers, Args
  <2>5. Cardinality(LiveApps') + Cardinality(Inserting') <= MaxApps + Cardinality(Task) - 1
    BY <2>2, <2>3, AppsEnters, AppsShrink
  <2> QED
    BY <2>2, <2>4, <2>5
<1>2. ASSUME NEW a \in App, CreateInsert(c, a) PROVE AppsInv'
  <2>1. Carries(todo[c], arg[c]) /\ arg[c] \in Args /\ NoArg \in Args
    BY DEF Args, NoArg, Arg
  <2>2. CASE name' = [name EXCEPT ![a] = arg[c].name] /\ Answered(c, "insert", "created")
             /\ UNCHANGED <<deleted, children>>
    <3>1. Goes(c, "insert", "idle", NoArg) /\ todo[c] = "insert"
      BY <2>2 DEF Answered, Goes
    <3>2. arg[c].name \in Name
      BY <2>1, <3>1 DEF Carries
    <3>3. /\ todo' \in [Task -> Todos] /\ arg' \in [Task -> Args]
          /\ \A d \in Task : Carries(todo'[d], arg'[d])
          /\ Inserting' \subseteq Inserting /\ c \in Inserting /\ c \notin Inserting'
      BY <2>1, <3>1, AppsGoes DEF Todos, Carries
    <3>4. LiveApps' \subseteq LiveApps \union {a}
      BY <2>2 DEF LiveApps
    <3>5. AppsTypeOK'
      BY <2>2, <3>2, <3>3, <1>2, AppsAssumption
         DEF CreateInsert, children, Answered, Answers, Args
    <3> QED
      BY <3>3, <3>4, <3>5, AppsInserts
  <2>3. CASE /\ Goes(c, "insert", "classifyName", arg[c])
             /\ UNCHANGED <<rows, children, answer>>
    <3>1. Carries("classifyName", arg[c])
      BY <2>1, <2>3 DEF Carries, Goes
    <3>2. /\ todo' \in [Task -> Todos] /\ arg' \in [Task -> Args]
          /\ \A d \in Task : Carries(todo'[d], arg'[d])
          /\ Inserting' \subseteq Inserting
      BY <2>1, <2>3, <3>1, AppsGoes DEF Todos
    <3>3. AppsTypeOK' /\ LiveApps' = LiveApps
      BY <2>3, <3>2 DEF rows, children, LiveApps, Args
    <3> QED
      BY <3>2, <3>3, AppsShrink
  <2> QED
    BY <1>2, <2>2, <2>3 DEF CreateInsert
<1> QED
  BY <1>1, <1>2

\* The statements that make no application.
LEMMA AppsKeep ==
    ASSUME AppsInv, NEW c \in Task, NEW from, NEW to \in Todos \ {"insert"},
           NEW with \in Args, Carries(to, with), Goes(c, from, to, with), UNCHANGED rows,
           services' \in [App -> SUBSET Child], envs' \in [App -> SUBSET Child],
           answer' \in [Task -> Answers]
    PROVE  AppsInv'
<1> USE DEF AppsInv, AppsTypeOK
<1>1. /\ todo' \in [Task -> Todos] /\ arg' \in [Task -> Args]
      /\ \A d \in Task : Carries(todo'[d], arg'[d])
      /\ Inserting' \subseteq Inserting
  BY AppsGoes
<1>2. AppsTypeOK' /\ LiveApps' = LiveApps
  BY <1>1 DEF rows, LiveApps, Args
<1> QED
  BY <1>1, <1>2, AppsShrink

LEMMA AppsAnswers ==
    ASSUME AppsInv, NEW c \in Task, NEW from, NEW what \in Answers,
           Answered(c, from, what), UNCHANGED <<rows, children>>
    PROVE  AppsInv'
<1>1. /\ Goes(c, from, "idle", NoArg) /\ "idle" \in Todos \ {"insert"}
      /\ NoArg \in Args /\ Carries("idle", NoArg)
  BY DEF Answered, Todos, NoArg, Arg, Args, Carries
<1>2. answer' \in [Task -> Answers]
  BY DEF Answered, AppsInv, AppsTypeOK
<1>3. /\ UNCHANGED rows
      /\ services' \in [App -> SUBSET Child] /\ envs' \in [App -> SUBSET Child]
  BY DEF children, AppsInv, AppsTypeOK
<1> QED
  BY <1>1, <1>2, <1>3, AppsKeep

LEMMA AppsClassify ==
    ASSUME AppsInv, NEW c \in Task,
           ClassifyName(c) \/ ClassifyCount(c) \/ Quit(c)
    PROVE  AppsInv'
<1>1. CASE ClassifyName(c)
  <2>1. CASE Answered(c, "classifyName", "name used")
    <3>1. UNCHANGED <<rows, children>> /\ "name used" \in Answers
      BY <1>1 DEF ClassifyName, Answers
    <3> QED
      BY <2>1, <3>1, AppsAnswers
  <2>2. CASE Goes(c, "classifyName", "classifyCount", arg[c]) /\ UNCHANGED answer
    <3>1. /\ "classifyCount" \in Todos \ {"insert"} /\ arg[c] \in Args
          /\ Carries("classifyCount", arg[c])
      BY <2>2 DEF Todos, AppsInv, AppsTypeOK, Args, Carries, Goes
    <3>2. /\ UNCHANGED rows
          /\ services' \in [App -> SUBSET Child] /\ envs' \in [App -> SUBSET Child]
          /\ answer' \in [Task -> Answers]
      BY <1>1, <2>2 DEF ClassifyName, children, AppsInv, AppsTypeOK
    <3> QED
      BY <2>2, <3>1, <3>2, AppsKeep
  <2> QED
    BY <1>1, <2>1, <2>2 DEF ClassifyName
<1>2. CASE ClassifyCount(c)
  <2>1. PICK what \in Answers : Answered(c, "classifyCount", what)
    BY <1>2 DEF ClassifyCount, Answers
  <2>2. UNCHANGED <<rows, children>>
    BY <1>2 DEF ClassifyCount
  <2> QED
    BY <2>1, <2>2, AppsAnswers
<1>3. CASE Quit(c)
  BY <1>3, AppsAnswers DEF Quit, Answers
<1> QED
  BY <1>1, <1>2, <1>3

LEMMA AppsChange ==
    ASSUME AppsInv, NEW a \in App,
           (\E n \in Name : RenameApp(a, n)) \/ SoftDeleteApp(a)
    PROVE  AppsInv'
<1> USE DEF AppsInv, AppsTypeOK
<1>1. Inserting' = Inserting /\ arg' = arg /\ todo' = todo
  BY DEF RenameApp, SoftDeleteApp, Inserting
<1>2. LiveApps' \subseteq LiveApps
  BY DEF RenameApp, SoftDeleteApp, LiveApps
<1>3. AppsTypeOK'
  BY <1>1, AppsAssumption DEF RenameApp, SoftDeleteApp, LiveApps, children
<1> QED
  BY <1>1, <1>2, <1>3, AppsShrink

LEMMA AppsChildren ==
    ASSUME AppsInv, NEW c \in Task,
           \/ \E a \in App, n \in Child :
                  AddChild(c, a, n, "service") \/ AddChild(c, a, n, "environment")
           \/ AddService(c) \/ AddEnvironment(c)
    PROVE  AppsInv'
<1> USE DEF AppsInv, AppsTypeOK
<1>1. ASSUME NEW a \in App, NEW n \in Child, NEW step \in {"service", "environment"},
             AddChild(c, a, n, step)
      PROVE  AppsInv'
  <2>1. /\ step \in Todos \ {"insert"} /\ Arg(n, a) \in Args /\ Carries(step, Arg(n, a))
        /\ Goes(c, "idle", step, Arg(n, a))
    BY <1>1 DEF AddChild, Todos, Args, Arg, Carries
  <2>2. /\ UNCHANGED rows
        /\ services' \in [App -> SUBSET Child] /\ envs' \in [App -> SUBSET Child]
        /\ answer' \in [Task -> Answers]
    BY <1>1 DEF AddChild, children
  <2> QED
    BY <2>1, <2>2, AppsKeep
<1>2. ASSUME AddService(c) \/ AddEnvironment(c) PROVE AppsInv'
  <2>1. PICK from \in {"service", "environment"} : Goes(c, from, "idle", NoArg)
    BY <1>2 DEF AddService, AddEnvironment
  <2>2. arg[c].name \in Child /\ arg[c].app \in App
    BY <2>1 DEF Carries, Goes
  <2>3. /\ "idle" \in Todos \ {"insert"} /\ NoArg \in Args /\ Carries("idle", NoArg)
        /\ UNCHANGED rows
    BY <1>2 DEF AddService, AddEnvironment, Todos, Args, NoArg, Arg, Carries
  <2>4. /\ services' \in [App -> SUBSET Child] /\ envs' \in [App -> SUBSET Child]
        /\ answer' \in [Task -> Answers]
    <3>1. CASE AddService(c)
      BY <3>1, <2>2 DEF AddService
    <3>2. CASE AddEnvironment(c)
      BY <3>2, <2>2 DEF AddEnvironment
    <3> QED
      BY <1>2, <3>1, <3>2
  <2> QED
    BY <2>1, <2>3, <2>4, AppsKeep
<1> QED
  BY <1>1, <1>2

LEMMA AppsStep == ASSUME AppsInv, [AppsNext]_appsVars PROVE AppsInv'
<1>1. CASE UNCHANGED appsVars
  BY <1>1 DEF appsVars, rows, children, AppsInv, AppsTypeOK, LiveApps, Inserting
<1> QED
  BY <1>1, AppsCreates, AppsClassify, AppsChange, AppsChildren DEF AppsNext

LEMMA AppsCarried == AppsSpec => []AppsInv
<1>1. AppsInit => AppsInv
  BY AppsAssumption, AppsStart
<1>2. AppsInv /\ [AppsNext]_appsVars => AppsInv'
  BY AppsAssumption, AppsStep
<1> QED
  BY <1>1, <1>2, PTL DEF AppsSpec

\* The rows of applications, services and environments and the calls of
\* apps/store.go are well typed.
THEOREM AppsTypeCorrect == AppsSpec => []AppsTypeOK
<1>1. AppsInv => AppsTypeOK
  BY DEF AppsInv
<1> QED
  BY <1>1, AppsCarried, PTL

\* CreateApp overshoots the ceiling of the tier by at most one application less
\* than there are calls at a time.
THEOREM QuotaNearlyKept == AppsSpec => []QuotaIsNearlyKept
<1>1. AppsInv => QuotaIsNearlyKept
  BY AppsCounts, AppsAssumption DEF AppsInv, QuotaIsNearlyKept
<1> QED
  BY <1>1, AppsCarried, PTL

-----------------------------------------------------------------------------
(* Orchestrator *)

\* What has been passed since the last rest, by the state the application is
\* in; every way to serve leads through a verification.
Since(s) ==
    CASE s = "BUILDING" -> {"BUILDING"}
      [] s = "DEPLOYING" -> {"BUILDING", "DEPLOYING"}
      [] s \in {"VERIFYING", "RUNNING", "DEGRADED", "ROLLING_BACK"} ->
             {"BUILDING", "DEPLOYING", "VERIFYING"}
      [] OTHER -> {}

StageInv == Since(state) \subseteq passed
LockInv == \/ ~inFlight /\ holder = {}
           \/ inFlight /\ \E d \in Deployer : holder = {d}
\* The finished steps are the first ones; the last is finished in time.
StepsInv ==
    /\ \E k \in 0 .. 7 : completed = 1 .. k
    /\ 7 \in completed => PurgeAllowed

OrchestratorInv == OrchestratorTypeOK /\ StageInv /\ LockInv /\ StepsInv

LEMMA OrchestratorStart ==
    ASSUME OrchestratorInit
    PROVE  OrchestratorInv
<1>1. "PLANNED" \in States
  BY DEF States, allowedTransitions
<1>2. completed = 1 .. 0
  BY DEF OrchestratorInit
<1>3. OrchestratorTypeOK
  <2>1. clock \in 0 .. MaxTime /\ softDeleted \in 0 .. MaxTime
    BY OrchestratorAssumption DEF OrchestratorInit
  <2>2. state \in States
    BY <1>1 DEF OrchestratorInit
  <2>3. /\ inFlight \in BOOLEAN /\ holder \subseteq Deployer
        /\ passed \subseteq States /\ completed \subseteq 1 .. 7
    BY DEF OrchestratorInit
  <2> QED
    BY <2>1, <2>2, <2>3 DEF OrchestratorTypeOK
<1>4. StageInv /\ LockInv
  BY DEF OrchestratorInit, StageInv, Since, LockInv
<1>5. StepsInv
  BY <1>2 DEF OrchestratorInit, StepsInv
<1> QED
  BY <1>3, <1>4, <1>5 DEF OrchestratorInv

\* The table in words: where a state can be entered from.
LEMMA TableReads ==
    ASSUME NEW from \in States, NEW to \in States, CanTransition(from, to)
    PROVE  /\ to = "DEPLOYING" => from = "BUILDING"
           /\ to = "VERIFYING" => from \in {"DEPLOYING", "RUNNING", "DEGRADED", "ROLLING_BACK"}
           /\ to = "RUNNING" => from = "VERIFYING"
           /\ to = "DEGRADED" => from \in {"VERIFYING", "RUNNING"}
           /\ to = "ROLLING_BACK" => from \in {"RUNNING", "DEGRADED"}
           /\ from = "DELETED" => FALSE
           /\ from = "STOPPED" => to \in {"PLANNED", "DELETING"}
           /\ from = "DELETING" => to \in {"PLANNED", "DELETED"}
BY DEF States, allowedTransitions, CanTransition

\* Whoever enters a state by the table has passed what that state asks for.
LEMMA Entering ==
    ASSUME OrchestratorInv, NEW to \in States, CanTransition(state, to), Enter(to)
    PROVE  state' \in States /\ passed' \subseteq States /\ StageInv'
<1>1. state \in States /\ passed \subseteq States /\ Since(state) \subseteq passed
  BY DEF OrchestratorInv, OrchestratorTypeOK, StageInv
<1>2. state' = to /\ passed' = IF to \in AtRest THEN {} ELSE passed \union {to}
  BY DEF Enter
<1>3. CASE to \in AtRest
  BY <1>1, <1>2, <1>3 DEF AtRest, StageInv, Since
<1>4. CASE to \notin AtRest
  <2>1. Since(to) \subseteq Since(state) \union {to}
    BY <1>1, TableReads DEF Since
  <2> QED
    BY <1>1, <1>2, <1>4, <2>1 DEF StageInv
<1> QED
  BY <1>3, <1>4

\* A step that enters a state by the table and leaves lock and deletion alone.
LEMMA OrchestratorMoves ==
    ASSUME OrchestratorInv, NEW to \in States, CanTransition(state, to), Enter(to),
           UNCHANGED <<inFlight, holder, deletion, clock>>
    PROVE  OrchestratorInv'
<1>1. state' \in States /\ passed' \subseteq States /\ StageInv'
  BY Entering
<1>2. OrchestratorTypeOK'
  BY <1>1 DEF OrchestratorInv, OrchestratorTypeOK, deletion
<1>3. LockInv' /\ StepsInv'
  BY DEF OrchestratorInv, LockInv, StepsInv, deletion, PurgeAllowed
<1> QED
  BY <1>1, <1>2, <1>3 DEF OrchestratorInv

LEMMA OrchestratorEnters ==
    ASSUME OrchestratorInv,
           \/ \E d \in Deployer, to \in States : Transition(d, to)
           \/ GuardStop \/ GuardStart \/ PlanRollback \/ BeginDelete
    PROVE  OrchestratorInv'
<1>1. {"STOPPED", "PLANNED", "ROLLING_BACK", "DELETING"} \subseteq States
  BY DEF States, allowedTransitions
<1>2. ASSUME NEW d \in Deployer, NEW to \in States, Transition(d, to) PROVE OrchestratorInv'
  BY <1>2, OrchestratorMoves DEF Transition
<1>3. CASE GuardStop
  BY <1>1, <1>3, OrchestratorMoves DEF GuardStop
<1>4. CASE GuardStart
  BY <1>1, <1>4, OrchestratorMoves DEF GuardStart
<1>5. CASE PlanRollback
  BY <1>1, <1>5, OrchestratorMoves DEF PlanRollback
<1>6. CASE BeginDelete
  BY <1>1, <1>6, OrchestratorMoves DEF BeginDelete
<1> QED
  BY <1>2, <1>3, <1>4, <1>5, <1>6

LEMMA OrchestratorLocks ==
    ASSUME OrchestratorInv, NEW d \in Deployer, Acquire(d) \/ Release(d)
    PROVE  OrchestratorInv'
<1>1. LockInv'
  BY DEF OrchestratorInv, Acquire, Release, LockInv
<1>2. OrchestratorTypeOK'
  BY DEF OrchestratorInv, Acquire, Release, OrchestratorTypeOK, deletion
<1>3. StageInv' /\ StepsInv'
  BY DEF OrchestratorInv, Acquire, Release, StageInv, StepsInv, deletion, PurgeAllowed
<1> QED
  BY <1>1, <1>2, <1>3 DEF OrchestratorInv

\* The next step is the first that is missing.
LEMMA NextStep ==
    ASSUME NEW k \in 0 .. 6
    PROVE  NextDeleteStep(1 .. k) = k + 1
<1>1. \A step \in 1 .. 7 : (step \notin 1 .. k /\ \A s \in 1 .. step - 1 : s \in 1 .. k)
         <=> step = k + 1
  OBVIOUS
<1>2. k + 1 \in 1 .. 7
  OBVIOUS
<1> QED
  BY <1>1, <1>2 DEF NextDeleteStep

LEMMA OrchestratorDeletes ==
    ASSUME OrchestratorInv, DeleteStep
    PROVE  OrchestratorInv'
<1>1. PICK k \in 0 .. 7 : completed = 1 .. k
  BY DEF OrchestratorInv, StepsInv
<1>2. k \in 0 .. 6 /\ state = "DELETING"
  BY <1>1 DEF DeleteStep
<1>3. /\ k + 1 = 7 => PurgeAllowed
      /\ completed' = completed \union {k + 1}
      /\ softDeleted' = IF k + 1 = 4 THEN clock ELSE softDeleted
      /\ IF k + 1 = 7 THEN Enter("DELETED") ELSE UNCHANGED <<state, passed>>
      /\ UNCHANGED <<inFlight, holder, clock>>
  BY <1>1, <1>2, NextStep DEF DeleteStep
<1>4. state' \in States /\ passed' \subseteq States /\ StageInv'
  <2>1. CASE k + 1 = 7
    <3>1. "DELETED" \in States /\ CanTransition(state, "DELETED")
      BY <1>2 DEF States, CanTransition, allowedTransitions
    <3> QED
      BY <1>3, <2>1, <3>1, Entering
  <2>2. CASE k + 1 # 7
    BY <1>3, <2>2 DEF OrchestratorInv, OrchestratorTypeOK, StageInv
  <2> QED
    BY <2>1, <2>2
<1>5. OrchestratorTypeOK'
  <2>1. completed' \subseteq 1 .. 7
    BY <1>1, <1>2, <1>3
  <2> QED
    BY <1>3, <1>4, <2>1 DEF OrchestratorInv, OrchestratorTypeOK
<1>6. LockInv'
  BY <1>3 DEF OrchestratorInv, LockInv
<1>7. StepsInv'
  <2>1. k + 1 \in 0 .. 7 /\ completed' = 1 .. k + 1
    BY <1>1, <1>2, <1>3
  <2>2. 7 \in completed' => PurgeAllowed'
    BY <1>2, <1>3, <2>1 DEF PurgeAllowed
  <2> QED
    BY <2>1, <2>2 DEF StepsInv
<1> QED
  BY <1>4, <1>5, <1>6, <1>7 DEF OrchestratorInv

LEMMA OrchestratorReturns ==
    ASSUME OrchestratorInv, Restore \/ Tick
    PROVE  OrchestratorInv'
<1>1. CASE Restore
  <2>1. "PLANNED" \in States /\ completed' = 1 .. 0
    BY <1>1 DEF Restore, States, allowedTransitions
  <2>2. state' \in States /\ passed' \subseteq States /\ StageInv'
    BY <1>1, <2>1, Entering DEF Restore
  <2>3. OrchestratorTypeOK'
    BY <1>1, <2>2 DEF Restore, OrchestratorInv, OrchestratorTypeOK
  <2>4. LockInv'
    BY <1>1 DEF Restore, OrchestratorInv, LockInv
  <2>5. StepsInv'
    BY <2>1 DEF StepsInv
  <2> QED
    BY <2>2, <2>3, <2>4, <2>5 DEF OrchestratorInv
<1>2. CASE Tick
  <2>1. OrchestratorTypeOK'
    BY <1>2, OrchestratorAssumption
       DEF Tick, lifecycle, deletion, OrchestratorInv, OrchestratorTypeOK
  <2>2. StageInv' /\ LockInv'
    BY <1>2 DEF Tick, lifecycle, OrchestratorInv, StageInv, LockInv
  <2>3. completed' = completed /\ StepsInv
    BY <1>2 DEF Tick, deletion, OrchestratorInv
  <2>4. PurgeAllowed => PurgeAllowed'
    <3>1. clock \in Nat /\ softDeleted \in Int /\ Retention \in Nat
      BY OrchestratorAssumption DEF OrchestratorInv, OrchestratorTypeOK
    <3>2. clock' = clock + 1 /\ softDeleted' = softDeleted
      BY <1>2 DEF Tick, deletion
    <3> QED
      BY <3>1, <3>2 DEF PurgeAllowed
  <2>5. StepsInv'
    BY <2>3, <2>4 DEF StepsInv
  <2> QED
    BY <2>1, <2>2, <2>5 DEF OrchestratorInv
<1> QED
  BY <1>1, <1>2

LEMMA OrchestratorCarried == OrchestratorSpec => []OrchestratorInv
<1>1. OrchestratorInit => OrchestratorInv
  BY OrchestratorAssumption, OrchestratorStart
<1>2. ASSUME OrchestratorInv, [OrchestratorNext]_orchestratorVars PROVE OrchestratorInv'
  <2>1. CASE UNCHANGED orchestratorVars
    BY <1>2, <2>1
       DEF orchestratorVars, lifecycle, deletion, OrchestratorInv, OrchestratorTypeOK,
                      StageInv, LockInv, StepsInv, PurgeAllowed
  <2> QED
    BY <1>2, <2>1, OrchestratorAssumption, OrchestratorLocks, OrchestratorEnters,
       OrchestratorDeletes, OrchestratorReturns DEF OrchestratorNext
<1> QED
  BY <1>1, <1>2, PTL DEF OrchestratorSpec

\* The state, the lock, the finished steps and the clock are well typed
\* (deploy_state.go, delete_pipeline.go).
THEOREM OrchestratorTypeCorrect ==
    OrchestratorSpec => []OrchestratorTypeOK
<1>1. OrchestratorInv => OrchestratorTypeOK
  BY DEF OrchestratorInv
<1> QED
  BY <1>1, OrchestratorCarried, PTL

\* By the table of deploy_state.go an application that serves was built,
\* deployed and verified since it was last at rest.
THEOREM ServesVerified == OrchestratorSpec => []ServesWhatWasVerified
<1>1. OrchestratorInv => ServesWhatWasVerified
  BY DEF OrchestratorInv, StageInv, Since, ServesWhatWasVerified
<1> QED
  BY <1>1, OrchestratorCarried, PTL

\* DeployLocks has one holder at most, and the delete pipeline purges last and
\* when the retention period is over.
THEOREM PurgeLast == OrchestratorSpec => []PurgeComesLast
<1>1. ASSUME OrchestratorInv PROVE Cardinality(holder) <= 1
  <2>1. CASE holder = {}
    BY <2>1, FS_EmptySet
  <2>2. ASSUME NEW d \in Deployer, holder = {d} PROVE Cardinality(holder) <= 1
    BY <2>2, FS_Singleton
  <2> QED
    BY <1>1, <2>1, <2>2 DEF OrchestratorInv, LockInv
<1>2. ASSUME OrchestratorInv, 7 \in completed PROVE completed = 1 .. 7 /\ PurgeAllowed
  BY <1>2 DEF OrchestratorInv, StepsInv
<1>3. OrchestratorInv => PurgeComesLast
  BY <1>1, <1>2 DEF PurgeComesLast
<1> QED
  BY <1>3, OrchestratorCarried, PTL

-----------------------------------------------------------------------------
(* Previews *)

\* A request came before now and says what its delivery says; of each request
\* that was let by, the guard still has the instant, or it is more than Ttl ago.
PreviewsInv ==
    /\ PreviewsTypeOK
    /\ \A q \in Serving : serving[q] # Blank =>
           serving[q].at <= now /\ event[serving[q].id] # Blank
    /\ \A d \in Delivery : \A i \in acted[d] :
           i <= now /\ (seen[d] = i \/ now > i + Ttl)

LEMMA PreviewsStart == ASSUME PreviewsInit PROVE PreviewsInv
BY PreviewsAssumption DEF PreviewsInit, PreviewsInv, PreviewsTypeOK

LEMMA PreviewsDelivers ==
    ASSUME PreviewsInv, NEW q \in Serving, NEW d \in Delivery,
           NEW action \in Actions, NEW number \in Pull,
           Deliver(q, d, [action |-> action, number |-> number])
    PROVE  PreviewsInv' /\ ActsInTime
<1>1. /\ [action |-> action, number |-> number] \in [action: Actions, number: Pull]
      /\ [id |-> d, at |-> now, fresh |-> FALSE] \in Carried
  BY DEF PreviewsInv, PreviewsTypeOK, Carried
<1>2. PreviewsTypeOK'
  BY <1>1 DEF Deliver, PreviewsInv, PreviewsTypeOK
<1>3. ASSUME NEW p \in Serving, serving'[p] # Blank
      PROVE  serving'[p].at <= now' /\ event'[serving'[p].id] # Blank
  <2>1. CASE p = q
    BY <1>1, <2>1, PreviewsAssumption DEF Deliver, PreviewsInv, PreviewsTypeOK
  <2>2. CASE p # q
    <3>1. serving'[p] = serving[p] /\ serving[p] # Blank /\ now' = now
      BY <1>3, <2>2 DEF Deliver, PreviewsInv, PreviewsTypeOK
    <3>2. serving[p].id \in Delivery
      BY <3>1 DEF PreviewsInv, PreviewsTypeOK, Carried
    <3>3. event'[serving[p].id] # Blank
      BY <1>1, <3>1, <3>2, PreviewsAssumption DEF Deliver, PreviewsInv, PreviewsTypeOK
    <3> QED
      BY <3>1, <3>3 DEF PreviewsInv
  <2> QED
    BY <2>1, <2>2
<1>4. \A e \in Delivery : \A i \in acted'[e] :
          i <= now' /\ (seen'[e] = i \/ now' > i + Ttl)
  BY DEF Deliver, PreviewsInv
<1>5. ActsInTime
  BY DEF Deliver, ActsInTime, Admits, PreviewsInv, PreviewsTypeOK
<1> QED
  BY <1>2, <1>3, <1>4, <1>5 DEF PreviewsInv

\* What the guard has after a request: d itself, recorded now or before, and
\* of the others those within their window.
LEMMA PreviewsAllows ==
    ASSUME PreviewsInv, NEW q \in Serving, AllowDelivery(q)
    PROVE  PreviewsInv' /\ ActsInTime
<1>1. serving[q] # Blank /\ serving[q] \in Carried /\ ~serving[q].fresh
  BY DEF AllowDelivery, PreviewsInv, PreviewsTypeOK
<1>2. PICK d \in Delivery, at \in 0 .. EndOfTime : d = serving[q].id /\ at = serving[q].at
  BY <1>1 DEF Carried
<1>3. at <= now /\ now \in 0 .. EndOfTime
  BY <1>1, <1>2 DEF PreviewsInv, PreviewsTypeOK
<1>4. /\ IF ~KeptAt(d, at)
         THEN /\ seen' = [Pruned(at) EXCEPT ![d] = at]
              /\ acted' = [acted EXCEPT ![d] = @ \union {at}]
              /\ serving' = [serving EXCEPT ![q].fresh = TRUE]
         ELSE /\ seen' = Pruned(at)
              /\ serving' = [serving EXCEPT ![q] = Blank]
              /\ UNCHANGED acted
      /\ UNCHANGED <<now, event, env>>
  BY <1>2 DEF AllowDelivery
<1>5. seen' \in [Delivery -> 0 .. EndOfTime \union {Blank}]
  BY <1>4 DEF Pruned, PreviewsInv, PreviewsTypeOK
<1>6. \A e \in Delivery : e # d \/ KeptAt(d, at) =>
          acted'[e] = acted[e] /\ seen'[e] = IF KeptAt(e, at) THEN seen[e] ELSE Blank
  BY <1>4 DEF Pruned, PreviewsInv, PreviewsTypeOK
<1>7. ~KeptAt(d, at) => seen'[d] = at /\ acted'[d] = acted[d] \union {at}
  BY <1>4 DEF Pruned, PreviewsInv, PreviewsTypeOK
<1>8. \A p \in Serving :
          \/ serving'[p] = serving[p]
          \/ p = q /\ serving'[q] = Blank /\ KeptAt(d, at)
          \/ p = q /\ ~KeptAt(d, at) /\ serving'[q] = [serving[q] EXCEPT !.fresh = TRUE]
  BY <1>4 DEF PreviewsInv, PreviewsTypeOK
<1>9. LET by == [serving[q] EXCEPT !.fresh = TRUE]
      IN  by \in Carried /\ by.id = d /\ by.at = at
  BY <1>1, <1>2 DEF Carried
<1>10. PreviewsTypeOK'
  <2>1. acted' \in [Delivery -> SUBSET (0 .. EndOfTime)]
    BY <1>4 DEF PreviewsInv, PreviewsTypeOK
  <2>2. serving' \in [Serving -> {Blank} \union Carried]
    <3>1. DOMAIN serving' = Serving /\ serving' = [p \in Serving |-> serving'[p]]
      BY <1>4 DEF PreviewsInv, PreviewsTypeOK
    <3>2. \A p \in Serving : serving'[p] \in {Blank} \union Carried
      BY <1>8, <1>9 DEF PreviewsInv, PreviewsTypeOK
    <3> QED
      BY <3>1, <3>2
  <2> QED
    BY <1>4, <1>5, <2>1, <2>2 DEF PreviewsInv, PreviewsTypeOK
<1>11. \A p \in Serving : serving'[p] # Blank =>
           serving'[p].at <= now' /\ event'[serving'[p].id] # Blank
  <2>1. now' = now /\ event' = event
    BY <1>4
  <2>2. at <= now /\ event[d] # Blank
    BY <1>1, <1>2, <1>3 DEF PreviewsInv
  <2>3. ASSUME NEW p \in Serving, serving'[p] = serving[p], serving[p] # Blank
        PROVE  serving'[p].at <= now /\ event[serving'[p].id] # Blank
    BY <2>3 DEF PreviewsInv
  <2> QED
    BY <1>8, <1>9, <2>1, <2>2, <2>3
<1>12. ASSUME NEW e \in Delivery, NEW i \in acted[e]
       PROVE  /\ i \in Int /\ i <= now
              /\ ~KeptAt(e, at) => now > i + Ttl
  <2>1. i \in 0 .. EndOfTime /\ i <= now /\ (seen[e] = i \/ now > i + Ttl)
    BY <1>12 DEF PreviewsInv, PreviewsTypeOK
  <2> QED
    BY <1>3, <2>1, PreviewsAssumption DEF KeptAt
<1>13. ASSUME NEW e \in Delivery, NEW i \in acted'[e]
       PROVE  i <= now' /\ (seen'[e] = i \/ now' > i + Ttl)
  <2>1. CASE e = d /\ ~KeptAt(d, at)
    BY <1>3, <1>4, <1>7, <1>12, <1>13, <2>1
  <2>2. CASE e # d \/ KeptAt(d, at)
    BY <1>4, <1>6, <1>12, <1>13, <2>2 DEF PreviewsInv
  <2> QED
    BY <2>1, <2>2
<1>14. ActsInTime
  <2> SUFFICES ASSUME NEW p \in Serving, Admits(p), NEW i \in acted[serving[p].id]
               PROVE  now > i + Ttl
    BY DEF ActsInTime
  <2>1. p = q /\ ~KeptAt(d, at)
    BY <1>8 DEF Admits
  <2> QED
    BY <1>2, <1>12, <2>1
<1> QED
  BY <1>10, <1>11, <1>13, <1>14 DEF PreviewsInv

\* The payload is looked at, and the hooks run, without the guard.
LEMMA PreviewsActs ==
    ASSUME PreviewsInv, NEW q \in Serving, Act(q)
    PROVE  PreviewsInv' /\ ActsInTime
<1>1. serving[q] \in Carried /\ event[serving[q].id] \in [action: Actions, number: Pull]
  <2>1. serving[q] \in Carried
    BY DEF Act, PreviewsInv, PreviewsTypeOK
  <2>2. serving[q].id \in Delivery /\ event[serving[q].id] # Blank
    BY <2>1 DEF Act, PreviewsInv, Carried
  <2> QED
    BY <2>1, <2>2 DEF PreviewsInv, PreviewsTypeOK
<1>2. serving' = [serving EXCEPT ![q] = Blank] /\ UNCHANGED <<now, event, seen, acted>>
  BY DEF Act
<1>3. env' \subseteq Pull
  <2>1. event[serving[q].id].number \in Pull /\ env \subseteq Pull
    BY <1>1 DEF PreviewsInv, PreviewsTypeOK
  <2>2. env' \in {env, env \union {event[serving[q].id].number},
                  env \ {event[serving[q].id].number}}
    BY DEF Act
  <2> QED
    BY <2>1, <2>2
<1>4. PreviewsTypeOK'
  BY <1>2, <1>3 DEF PreviewsInv, PreviewsTypeOK
<1>5. \A p \in Serving : serving'[p] = serving[p] \/ serving'[p] = Blank
  BY <1>2 DEF PreviewsInv, PreviewsTypeOK
<1>6. ActsInTime
  BY <1>5 DEF ActsInTime, Admits
<1> QED
  BY <1>2, <1>4, <1>5, <1>6 DEF PreviewsInv

LEMMA PreviewsPasses == ASSUME PreviewsInv, Passes PROVE PreviewsInv' /\ ActsInTime
<1>1. PreviewsTypeOK'
  BY PreviewsAssumption DEF Passes, PreviewsInv, PreviewsTypeOK
<1>2. now' = now + 1 /\ now \in Nat /\ UNCHANGED <<event, seen, serving, acted, env>>
  BY PreviewsAssumption DEF Passes, PreviewsInv, PreviewsTypeOK
<1>3. ASSUME NEW q \in Serving, serving[q] # Blank
      PROVE  serving[q].at <= now + 1 /\ event[serving[q].id] # Blank
  <2>1. serving[q].at \in 0 .. EndOfTime
    BY <1>3 DEF PreviewsInv, PreviewsTypeOK, Carried
  <2> QED
    BY <1>2, <1>3, <2>1, PreviewsAssumption DEF PreviewsInv
<1>4. ASSUME NEW d \in Delivery, NEW i \in acted[d]
      PROVE  i <= now + 1 /\ (seen[d] = i \/ now + 1 > i + Ttl)
  <2>1. i \in 0 .. EndOfTime
    BY <1>4 DEF PreviewsInv, PreviewsTypeOK
  <2> QED
    BY <1>2, <1>4, <2>1, PreviewsAssumption DEF PreviewsInv
<1>5. ActsInTime
  BY <1>2 DEF ActsInTime, Admits
<1> QED
  BY <1>1, <1>2, <1>3, <1>4, <1>5 DEF PreviewsInv

LEMMA PreviewsStep ==
    ASSUME PreviewsInv, [PreviewsNext]_previewsVars
    PROVE  PreviewsInv' /\ [ActsInTime]_previewsVars
<1>1. CASE UNCHANGED previewsVars
  BY <1>1 DEF previewsVars, PreviewsInv, PreviewsTypeOK
<1> QED
  BY <1>1, PreviewsDelivers, PreviewsAllows, PreviewsActs, PreviewsPasses DEF PreviewsNext

LEMMA PreviewsCarried == PreviewsSpec => []PreviewsInv
<1>1. PreviewsInit => PreviewsInv
  BY PreviewsAssumption, PreviewsStart
<1>2. PreviewsInv /\ [PreviewsNext]_previewsVars => PreviewsInv'
  BY PreviewsAssumption, PreviewsStep
<1> QED
  BY <1>1, <1>2, PTL DEF PreviewsSpec

\* The guard, the requests and the environments of webhook.go are well typed.
THEOREM PreviewsTypeCorrect == PreviewsSpec => []PreviewsTypeOK
<1>1. PreviewsInv => PreviewsTypeOK
  BY DEF PreviewsInv
<1> QED
  BY <1>1, PreviewsCarried, PTL

\* ReplayGuard.Allow: however requests of one delivery overtake each other and
\* prune, another is let by to the hooks only after Ttl.
THEOREM ActOnce == PreviewsSpec => DeliveriesActOnce
<1>1. PreviewsInv /\ [PreviewsNext]_previewsVars => [ActsInTime]_previewsVars
  BY PreviewsAssumption, PreviewsStep
<1> QED
  BY <1>1, PreviewsCarried, PTL DEF PreviewsSpec, DeliveriesActOnce

-----------------------------------------------------------------------------
(* Budgets *)

\* The limiter keeps a balance: what was let through and what is left never
\* exceed what the bucket began with and what was refilled up to its last
\* refill.
RateInv ==
    /\ \A r \in Request : arrived[r] # NoInstant => arrived[r] <= instant
    /\ bucket.lastRefill <= instant
    /\ allowed * Unit + bucket.tokens <= Capacity * Unit + bucket.lastRefill * Rate

GateInv ==
    /\ IsFiniteSet(building)
    /\ gate = Cardinality(building)
    /\ gate <= Slots

LoopInv ==
    /\ loop = "gate" => fired = attempt - 1
    /\ loop = "apply" => fired = attempt
    /\ fired <= attempt

BudgetsInv == BudgetsTypeOK /\ RateInv /\ GateInv /\ LoopInv

-----------------------------------------------------------------------------

\* A product grows with its first factor, by the second one for each unit.
LEMMA Products ==
    ASSUME NEW a \in Nat, NEW b \in Nat, NEW c \in Nat
    PROVE  /\ a * c \in Nat
           /\ (a + 1) * c = a * c + c
           /\ b <= a => (a - b) * c = a * c - b * c
           /\ b <= a => b * c <= a * c
<1>1. a * c \in Nat
  BY SMT
<1>2. (a + 1) * c = a * c + c
  BY SMT
<1>3. ASSUME b <= a
      PROVE  (a - b) * c = a * c - b * c /\ b * c <= a * c
  <2>1. (a - b) * c = a * c - b * c
    BY SMT
  <2>2. a - b \in Nat /\ (a - b) * c \in Nat
    BY <1>3, SMT
  <2>3. b * c \in Nat
    BY SMT
  <2> QED
    BY <1>1, <2>1, <2>2, <2>3
<1> QED
  BY <1>1, <1>2, <1>3

\* What the bucket holds after a refill is paid for by the time since the last.
LEMMA RefillIsPaid ==
    ASSUME BudgetsTypeOK, NEW t \in 0 .. LastInstant
    PROVE  LET full == Refilled(t)
           IN  /\ full \in [tokens: 0 .. Capacity * Unit, lastRefill: 0 .. LastInstant]
               /\ full.tokens - full.lastRefill * Rate <= bucket.tokens - bucket.lastRefill * Rate
               /\ bucket.lastRefill <= full.lastRefill
               /\ full.lastRefill <= t \/ full.lastRefill = bucket.lastRefill
<1> DEFINE last == bucket.lastRefill
           held == bucket.tokens
<1>1. /\ last \in 0 .. LastInstant /\ held \in 0 .. Capacity * Unit
      /\ bucket = [tokens |-> held, lastRefill |-> last]
  BY DEF BudgetsTypeOK
<1>2. Capacity * Unit \in Nat /\ Rate \in Nat /\ LastInstant \in Nat
  BY Products, BudgetsAssumption
<1>3. CASE t - last > 0
  <2>1. last <= t /\ t \in Nat /\ last \in Nat
    BY <1>1, <1>2, <1>3
  <2>2. (t - last) * Rate = t * Rate - last * Rate /\ t * Rate \in Nat /\ last * Rate \in Nat
        /\ last * Rate <= t * Rate
    BY <2>1, <1>2, Products
  <2>3. Refilled(t) = [tokens |-> Smaller(held + (t - last) * Rate, Capacity * Unit),
                       lastRefill |-> t]
    BY <1>3 DEF Refilled
  <2> DEFINE gain == (t - last) * Rate
             paid == t * Rate
             was == last * Rate
  <2>4. gain = paid - was /\ paid \in Nat /\ was \in Nat /\ was <= paid
    BY <2>2
  <2> HIDE DEF gain, paid, was
  <2>5. /\ Smaller(held + gain, Capacity * Unit) \in 0 .. Capacity * Unit
        /\ Smaller(held + gain, Capacity * Unit) <= held + gain
    <3> DEFINE top == Capacity * Unit
    <3>1. top \in Nat /\ held \in 0 .. top
      BY <1>1, <1>2
    <3> HIDE DEF top
    <3>2. Smaller(held + gain, top) \in 0 .. top /\ Smaller(held + gain, top) <= held + gain
      BY <2>4, <3>1 DEF Smaller
    <3> QED
      BY <3>2 DEF top
  <2>6. Smaller(held + gain, Capacity * Unit) - paid <= held - was
    BY <2>4, <2>5, <1>1, <1>2
  <2> QED
    BY <2>1, <2>3, <2>5, <2>6, <1>1 DEF gain, paid, was
<1>4. CASE ~(t - last > 0)
  <2>1. Refilled(t) = bucket
    BY <1>4 DEF Refilled
  <2>2. last * Rate \in Nat
    BY <1>1, <1>2, Products
  <2> QED
    BY <2>1, <2>2, <1>1, <1>2
<1> QED
  BY <1>3, <1>4

\* The invariant holds at first.
LEMMA BudgetsStart ==
    ASSUME BudgetsInit
    PROVE  BudgetsInv
<1>1. Capacity * Unit \in Nat /\ 0 * Unit = 0 /\ 0 * Rate = 0
  BY SMT, BudgetsAssumption
<1>2. BudgetsTypeOK
  BY <1>1, BudgetsAssumption DEF BudgetsInit, BudgetsTypeOK, MaxAttempts
<1>3. RateInv
  BY <1>1, BudgetsAssumption DEF BudgetsInit, RateInv
<1>4. GateInv
  BY FS_EmptySet, BudgetsAssumption DEF BudgetsInit, GateInv
<1>5. LoopInv
  BY DEF BudgetsInit, LoopInv
<1> QED
  BY <1>2, <1>3, <1>4, <1>5 DEF BudgetsInv

\* The steps of the limiter keep its balance.
LEMMA RateStep ==
    ASSUME BudgetsTypeOK, RateInv, NEW r \in Request,
           Arrive(r) \/ Allow(r) \/ Later
    PROVE  BudgetsTypeOK' /\ RateInv'
<1>1. /\ Capacity * Unit \in Nat /\ Rate \in Nat /\ LastInstant \in Nat /\ Unit \in Nat
      /\ bucket.lastRefill * Rate \in Nat /\ allowed * Unit \in Nat
      /\ (allowed + 1) * Unit = allowed * Unit + Unit
  <2>1. Capacity \in Nat /\ Unit \in Nat /\ Rate \in Nat /\ LastInstant \in Nat
    BY BudgetsAssumption
  <2>2. bucket.lastRefill \in Nat /\ allowed \in Nat
    BY <2>1 DEF BudgetsTypeOK
  <2> QED
    BY <2>1, <2>2, Products
<1>2. CASE Arrive(r)
  <2>1. BudgetsTypeOK'
    BY <1>2, <1>1 DEF Arrive, BudgetsTypeOK, gates, repairs
  <2>2. RateInv'
    BY <1>2, <1>1 DEF Arrive, BudgetsTypeOK, RateInv
  <2> QED
    BY <2>1, <2>2
<1>3. CASE Allow(r)
  <2> DEFINE t == arrived[r]
             full == Refilled(t)
  <2>1. t \in 0 .. LastInstant /\ t <= instant
    BY <1>3 DEF Allow, BudgetsTypeOK, RateInv
  <2>2. /\ full \in [tokens: 0 .. Capacity * Unit, lastRefill: 0 .. LastInstant]
        /\ full.tokens - full.lastRefill * Rate <= bucket.tokens - bucket.lastRefill * Rate
        /\ full.lastRefill <= instant
    <3>1. /\ full \in [tokens: 0 .. Capacity * Unit, lastRefill: 0 .. LastInstant]
          /\ full.tokens - full.lastRefill * Rate <= bucket.tokens - bucket.lastRefill * Rate
          /\ full.lastRefill <= t \/ full.lastRefill = bucket.lastRefill
      BY <2>1, RefillIsPaid
    <3> HIDE DEF full
    <3> QED
      BY <3>1, <2>1, <1>1 DEF RateInv, BudgetsTypeOK
  <2>3. full.lastRefill * Rate \in Nat
    BY <1>1, <2>2, Products
  <2>4. full = [tokens |-> full.tokens, lastRefill |-> full.lastRefill]
    BY <2>2
  <2> HIDE DEF full
  <2>5. CASE full.tokens >= Unit
    <3>1. /\ allowed' = allowed + 1
          /\ bucket' = [tokens |-> full.tokens - Unit, lastRefill |-> full.lastRefill]
      BY <1>3, <2>4, <2>5 DEF Allow, full
    <3>2. BudgetsTypeOK'
      BY <1>3, <1>1, <2>2, <2>5, <3>1 DEF Allow, BudgetsTypeOK, gates, repairs
    <3>3. bucket'.tokens = full.tokens - Unit /\ bucket'.lastRefill = full.lastRefill
      BY <3>1
    <3>4. allowed' * Unit = allowed * Unit + Unit
      BY <3>1, <1>1
    <3>5. allowed' * Unit + bucket'.tokens <= Capacity * Unit + bucket'.lastRefill * Rate
      <4> DEFINE A == allowed * Unit
                 A1 == allowed' * Unit
                 C == Capacity * Unit
                 L == bucket.lastRefill * Rate
                 F == full.lastRefill * Rate
      <4>1. /\ A \in Nat /\ C \in Nat /\ L \in Nat /\ F \in Nat /\ A1 = A + Unit
            /\ A + bucket.tokens <= C + L /\ full.tokens - F <= bucket.tokens - L
            /\ bucket.tokens \in Nat /\ full.tokens \in Nat
        BY <1>1, <2>2, <2>3, <3>4 DEF RateInv, BudgetsTypeOK
      <4> HIDE DEF A, A1, C, L, F
      <4>2. A1 + (full.tokens - Unit) <= C + F
        BY <4>1, <1>1
      <4> QED
        BY <4>2, <3>3 DEF A1, C, F
    <3>6. RateInv'
      BY <1>3, <2>2, <3>3, <3>5 DEF Allow, BudgetsTypeOK, RateInv
    <3> QED
      BY <3>2, <3>6
  <2>6. CASE ~(full.tokens >= Unit)
    <3>1. allowed' = allowed /\ bucket' = full
      BY <1>3, <2>6 DEF Allow, full
    <3>2. BudgetsTypeOK'
      BY <1>3, <1>1, <2>2, <3>1 DEF Allow, BudgetsTypeOK, gates, repairs
    <3>3. allowed' * Unit + bucket'.tokens <= Capacity * Unit + bucket'.lastRefill * Rate
      <4> DEFINE A == allowed * Unit
                 C == Capacity * Unit
                 L == bucket.lastRefill * Rate
                 F == full.lastRefill * Rate
      <4>1. /\ A \in Nat /\ C \in Nat /\ L \in Nat /\ F \in Nat
            /\ A + bucket.tokens <= C + L /\ full.tokens - F <= bucket.tokens - L
            /\ bucket.tokens \in Nat /\ full.tokens \in Nat
        BY <1>1, <2>2, <2>3 DEF RateInv, BudgetsTypeOK
      <4> HIDE DEF A, C, L, F
      <4>2. A + full.tokens <= C + F
        BY <4>1
      <4> QED
        BY <4>2, <3>1 DEF A, C, F
    <3>4. RateInv'
      BY <1>3, <2>2, <3>1, <3>3 DEF Allow, BudgetsTypeOK, RateInv
    <3> QED
      BY <3>2, <3>4
  <2> QED
    BY <2>5, <2>6
<1>4. CASE Later
  <2>1. BudgetsTypeOK'
    BY <1>4, <1>1 DEF Later, BudgetsTypeOK, gates, repairs
  <2>2. RateInv'
    BY <1>4, <1>1 DEF Later, BudgetsTypeOK, RateInv
  <2> QED
    BY <2>1, <2>2
<1> QED
  BY <1>2, <1>3, <1>4

\* The counter of the gate counts the builds it let in.
LEMMA GateStep ==
    ASSUME BudgetsTypeOK, GateInv, NEW r \in Request,
           TryAcquire(r) \/ ReleaseSlot(r)
    PROVE  BudgetsTypeOK' /\ GateInv'
<1>1. CASE TryAcquire(r)
  <2>1. IsFiniteSet(building') /\ Cardinality(building') = Cardinality(building) + 1
    BY <1>1, FS_AddElement DEF TryAcquire, GateInv
  <2>2. BudgetsTypeOK'
    BY <1>1 DEF TryAcquire, BudgetsTypeOK, rates, repairs
  <2> QED
    BY <1>1, <2>1, <2>2, BudgetsAssumption DEF TryAcquire, GateInv, BudgetsTypeOK
<1>2. CASE ReleaseSlot(r)
  <2>1. /\ IsFiniteSet(building') /\ Cardinality(building') = Cardinality(building) - 1
        /\ Cardinality(building) \in Nat /\ Cardinality(building') \in Nat
    BY <1>2, FS_RemoveElement, FS_CardinalityType DEF ReleaseSlot, GateInv
  <2>2. gate' = gate - 1 /\ gate' \in Nat
    BY <1>2, <2>1 DEF ReleaseSlot, GateInv
  <2>3. BudgetsTypeOK'
    BY <1>2, <2>2 DEF ReleaseSlot, BudgetsTypeOK, rates, repairs
  <2> QED
    BY <2>1, <2>2, <2>3, BudgetsAssumption DEF GateInv
<1> QED
  BY <1>1, <1>2

\* An attempt is counted before the next one is gated.
LEMMA LoopStep ==
    ASSUME BudgetsTypeOK, LoopInv, LoopGate \/ LoopAttempt \/ LoopAgain
    PROVE  BudgetsTypeOK' /\ LoopInv'
<1> USE DEF BudgetsTypeOK, LoopInv, MaxAttempts, rates, gates
<1>1. CASE LoopGate
  BY <1>1 DEF LoopGate, CanTrigger
<1>2. CASE LoopAttempt
  BY <1>2 DEF LoopAttempt
<1>3. CASE LoopAgain
  BY <1>3 DEF LoopAgain
<1> QED
  BY <1>1, <1>2, <1>3

\* Every step keeps the whole invariant.
LEMMA BudgetsStep ==
    ASSUME BudgetsInv, [BudgetsNext]_budgetsVars
    PROVE  BudgetsInv'
<1> USE DEF BudgetsInv
<1>1. CASE UNCHANGED budgetsVars
  BY <1>1 DEF budgetsVars, rates, gates, repairs, BudgetsTypeOK, RateInv, GateInv, LoopInv
<1>2. ASSUME NEW r \in Request, Arrive(r) \/ Allow(r) \/ Later
      PROVE  BudgetsInv'
  <2>1. UNCHANGED <<gates, repairs>>
    BY <1>2 DEF Arrive, Allow, Later
  <2> QED
    BY <1>2, <2>1, RateStep DEF gates, repairs, GateInv, LoopInv
<1>3. CASE Later
  <2>1. UNCHANGED <<gates, repairs>>
    BY <1>3 DEF Later
  <2>2. BudgetsTypeOK' /\ RateInv'
    BY <1>3, BudgetsAssumption DEF Later, BudgetsTypeOK, RateInv, gates, repairs
  <2> QED
    BY <2>1, <2>2 DEF gates, repairs, GateInv, LoopInv
<1>4. ASSUME NEW r \in Request, TryAcquire(r) \/ ReleaseSlot(r)
      PROVE  BudgetsInv'
  <2>1. UNCHANGED <<rates, repairs>>
    BY <1>4 DEF TryAcquire, ReleaseSlot
  <2> QED
    BY <1>4, <2>1, GateStep DEF rates, repairs, RateInv, LoopInv
<1>5. CASE LoopGate \/ LoopAttempt \/ LoopAgain
  <2>1. UNCHANGED <<rates, gates>>
    BY <1>5 DEF LoopGate, LoopAttempt, LoopAgain
  <2> QED
    BY <1>5, <2>1, LoopStep DEF rates, gates, RateInv, GateInv
<1> QED
  BY <1>1, <1>2, <1>3, <1>4, <1>5 DEF BudgetsNext

\* What the invariant says of the requests, the builds and the patches.
LEMMA BudgetsMean ==
    ASSUME BudgetsInv
    PROVE  BudgetsAreKept
<1>1. /\ instant \in Nat /\ bucket.lastRefill \in Nat /\ bucket.lastRefill <= instant
      /\ bucket.tokens \in Nat /\ Rate \in Nat
  <2>1. Capacity * Unit \in Nat
    BY Products, BudgetsAssumption
  <2> QED
    BY <2>1, BudgetsAssumption DEF BudgetsInv, RateInv, BudgetsTypeOK
<1>2. bucket.lastRefill * Rate <= instant * Rate /\ bucket.lastRefill * Rate \in Nat
      /\ instant * Rate \in Nat /\ allowed * Unit \in Nat /\ Capacity * Unit \in Nat
  <2>1. allowed \in Nat /\ Unit \in Nat /\ Capacity \in Nat
    BY BudgetsAssumption DEF BudgetsInv, BudgetsTypeOK
  <2> QED
    BY <1>1, <2>1, Products
<1>3. RateIsBounded
  <2> DEFINE A == allowed * Unit
             C == Capacity * Unit
             L == bucket.lastRefill * Rate
             N == instant * Rate
  <2>1. A \in Nat /\ C \in Nat /\ L \in Nat /\ N \in Nat /\ L <= N /\ A + bucket.tokens <= C + L
    BY <1>2 DEF BudgetsInv, RateInv
  <2> HIDE DEF A, C, L, N
  <2>2. A <= C + N
    BY <2>1, <1>1
  <2> QED
    BY <2>2 DEF RateIsBounded, A, C, N
<1>4. Cardinality(building) <= Slots
  BY DEF BudgetsInv, GateInv
<1>5. fired <= MaxAttempts /\ fired <= attempt
  BY DEF BudgetsInv, LoopInv, BudgetsTypeOK, MaxAttempts
<1> QED
  BY <1>3, <1>4, <1>5 DEF BudgetsAreKept

-----------------------------------------------------------------------------

\* The types of the limiter, the gate and the loop (limits.go, repair.go).
THEOREM BudgetsTypeCorrect == BudgetsSpec => []BudgetsTypeOK
<1>1. BudgetsInit => BudgetsInv
  BY BudgetsAssumption, BudgetsStart
<1>2. BudgetsInv /\ [BudgetsNext]_budgetsVars => BudgetsInv'
  BY BudgetsAssumption, BudgetsStep
<1>3. BudgetsInv => BudgetsTypeOK
  BY DEF BudgetsInv
<1> QED
  BY <1>1, <1>2, <1>3, PTL DEF BudgetsSpec

\* RateLimiter.Allow lets no more through than was refilled, whatever order its
\* requests come in; BuildGate keeps its limit and the repair loop its three
\* attempts, whatever their callers do.
THEOREM BudgetsHold == BudgetsSpec => []BudgetsAreKept
<1>1. BudgetsInit => BudgetsInv
  BY BudgetsAssumption, BudgetsStart
<1>2. BudgetsInv /\ [BudgetsNext]_budgetsVars => BudgetsInv'
  BY BudgetsAssumption, BudgetsStep
<1>3. BudgetsInv => BudgetsAreKept
  BY BudgetsAssumption, BudgetsMean
<1> QED
  BY <1>1, <1>2, <1>3, PTL DEF BudgetsSpec
=============================================================================
