-------------------------------- MODULE Apps --------------------------------
(***************************************************************************)
(* The applications of one organization with their services and            *)
(* environments (control-plane/internal/apps/store.go, handlers.go).       *)
(*                                                                         *)
(* PostgreSQL runs at READ COMMITTED: the count inside INSERT..SELECT is   *)
(* of the snapshot its statement began with, so that statement is two      *)
(* actions, and the unique index decides at the second.  No row of         *)
(* applications is ever removed: a deleted application keeps its name.     *)
(***************************************************************************)
EXTENDS Naturals, FiniteSets

CONSTANTS
    App,        \* ids of applications (a bound on their number)
    Name,       \* names with alphanumeric characters, as slugify wants them
    Child,      \* names of services and environments
    Task,       \* calls a server works on at a time
    Free,       \* no name, no application
    MaxApps,    \* the ceiling of the organization's tier (3 or 50)
    MaxChildren \* bound on the services and environments of an organization

\* Free is no name and no application; an organization has a ceiling, and a
\* server works on finitely many calls, at least one.
ASSUME AppsAssumption ==
    /\ Free \notin Name \union Child \union App
    /\ IsFiniteSet(App) /\ IsFiniteSet(Task) /\ Task # {}
    /\ MaxApps \in Nat

VARIABLES
    name,       \* name[a]: the name of a, or Free when a has no row
    deleted,    \* the applications with a deleted_at
    services,   \* services[a]: names of its services
    envs,       \* envs[a]: names of its environments
    todo,       \* todo[c]: the next statement of call c
    arg,        \* arg[c]: what c was sent: a name or a child, and an application
    answer      \* answer[c]: the problem c was answered with last

rows == <<name, deleted>>
children == <<services, envs>>
appsVars == <<rows, children, todo, arg, answer>>

Todos == {"idle", "insert", "classifyName", "classifyCount", "service", "environment"}
Answers == {"none", "created", "name used", "QUOTA_EXCEEDED", "race"}
Arg(n, a) == [name |-> n, app |-> a]
NoArg == Arg(Free, Free)

Held(n) == {a \in App : name[a] = n}
LiveApps == {a \in App : name[a] # Free /\ a \notin deleted}

AppsTypeOK ==
    /\ name \in [App -> Name \union {Free}]
    /\ deleted \subseteq {a \in App : name[a] # Free}
    /\ services \in [App -> SUBSET Child]
    /\ envs \in [App -> SUBSET Child]
    /\ todo \in [Task -> Todos]
    /\ arg \in [Task -> [name: Name \union Child \union {Free}, app: App \union {Free}]]
    /\ answer \in [Task -> Answers]

AppsInit ==
    /\ name = [a \in App |-> Free]
    /\ deleted = {}
    /\ services = [a \in App |-> {}]
    /\ envs = [a \in App |-> {}]
    /\ todo = [c \in Task |-> "idle"]
    /\ arg = [c \in Task |-> NoArg]
    /\ answer = [c \in Task |-> "none"]

Goes(c, from, to, with) ==
    /\ todo[c] = from
    /\ todo' = [todo EXCEPT ![c] = to]
    /\ arg' = [arg EXCEPT ![c] = with]
Answered(c, from, what) ==
    /\ Goes(c, from, "idle", NoArg)
    /\ answer' = [answer EXCEPT ![c] = what]

-----------------------------------------------------------------------------
(* POST /v1/apps *)

CreateUncounted(c, n) ==
    /\ Goes(c, "idle", "insert", Arg(n, Free))
    /\ answer' = [answer EXCEPT ![c] = "none"]
    /\ UNCHANGED <<rows, children>>

\* CreateApp up to the count of its statement; at the ceiling it selects no
\* row to insert, and the reason is looked for next.
CreateCount(c, n) ==
    /\ Goes(c, "idle", IF Cardinality(LiveApps) < MaxApps THEN "insert" ELSE "classifyName",
            Arg(n, Free))
    /\ answer' = [answer EXCEPT ![c] = "none"]
    /\ UNCHANGED <<rows, children>>

CreateInsert(c, a) ==
    /\ name[a] = Free
    /\ \/ /\ Held(arg[c].name) = {}
          /\ name' = [name EXCEPT ![a] = arg[c].name]
          /\ Answered(c, "insert", "created")
          /\ UNCHANGED <<deleted, children>>
       \/ /\ Held(arg[c].name) # {}
          /\ Goes(c, "insert", "classifyName", arg[c])
          /\ UNCHANGED <<rows, children, answer>>

\* classifyCreateRejection asks again, with later snapshots.
ClassifyName(c) ==
    /\ IF Held(arg[c].name) \intersect LiveApps # {}
       THEN Answered(c, "classifyName", "name used")
       ELSE Goes(c, "classifyName", "classifyCount", arg[c]) /\ UNCHANGED answer
    /\ UNCHANGED <<rows, children>>

ClassifyCount(c) ==
    /\ Answered(c, "classifyCount",
                IF Cardinality(LiveApps) >= MaxApps THEN "QUOTA_EXCEEDED" ELSE "race")
    /\ UNCHANGED <<rows, children>>

-----------------------------------------------------------------------------
(* One statement each: PATCH and DELETE /v1/apps/{appId} *)

RenameApp(a, n) ==
    /\ a \in LiveApps
    /\ Held(n) \subseteq {a}
    /\ name' = [name EXCEPT ![a] = n]
    /\ UNCHANGED <<deleted, children, todo, arg, answer>>

SoftDeleteApp(a) ==
    /\ a \in LiveApps
    /\ deleted' = deleted \union {a}
    /\ UNCHANGED <<name, children, todo, arg, answer>>

-----------------------------------------------------------------------------
(* Services and environments: GetApp, then the INSERT *)

Size(of) == Cardinality({x \in App \X Child : x[2] \in of[x[1]]})

AddChild(c, a, n, step) ==
    /\ a \in LiveApps
    /\ Size(services) + Size(envs) < MaxChildren
    /\ Goes(c, "idle", step, Arg(n, a))
    /\ UNCHANGED <<rows, children, answer>>

\* A name that exists conflicts and changes nothing.
AddService(c) ==
    /\ Goes(c, "service", "idle", NoArg)
    /\ services' = [services EXCEPT ![arg[c].app] = @ \union {arg[c].name}]
    /\ UNCHANGED <<rows, envs, answer>>

AddEnvironment(c) ==
    /\ Goes(c, "environment", "idle", NoArg)
    /\ envs' = [envs EXCEPT ![arg[c].app] = @ \union {arg[c].name}]
    /\ UNCHANGED <<rows, services, answer>>

\* A storage error or a stopped server.
Quit(c) ==
    /\ todo[c] # "idle"
    /\ Answered(c, todo[c], "none")
    /\ UNCHANGED <<rows, children>>

AppsNext ==
    \/ \E c \in Task, n \in Name : CreateCount(c, n)
    \/ \E c \in Task, a \in App : CreateInsert(c, a)
    \/ \E c \in Task : ClassifyName(c) \/ ClassifyCount(c)
    \/ \E a \in App, n \in Name : RenameApp(a, n)
    \/ \E a \in App : SoftDeleteApp(a)
    \/ \E c \in Task, a \in App, n \in Child :
           AddChild(c, a, n, "service") \/ AddChild(c, a, n, "environment")
    \/ \E c \in Task : AddService(c) \/ AddEnvironment(c) \/ Quit(c)

AppsSpec == AppsInit /\ [][AppsNext]_appsVars

-----------------------------------------------------------------------------
(* Properties *)

\* The ceiling is overshot by the INSERT..SELECT statements that were under way
\* together, so by one less than there are calls at a time, and no more.
QuotaIsNearlyKept == Cardinality(LiveApps) <= MaxApps + Cardinality(Task) - 1

\* The ceiling itself: "racing creations cannot both slip under the limit".
QuotaIsKept == Cardinality(LiveApps) <= MaxApps
=============================================================================
