--------------------------- MODULE MCControlPlane ---------------------------
(* The parts of the control plane and of the libraries beside it that share   *)
(* no state.  A behaviour picks one of them at the start and is one of that   *)
(* part; the variables of the others stay as they were.                       *)
EXTENDS Accounts, Budgets, Workspaces, Apps, Bindings, Orchestrator, Previews, TLC

CONSTANTS
    Owner, State, Worker, None,
    Cell, Fallback, Tenant, NoCell,
    Stage, Pw, Target, Absent,
    Dir, Shared, Root, Traits, Mention, Unset,
    Tenants, Extra, NoLabel,
    Top, StepCount, Usage, Unasked

\* What stands for nothing is none of the things; the namespaces of tenants are
\* not those of the platform (NamespaceName begins with "app-").
ASSUME PartsAssumption ==
    /\ None \notin Owner \union State
    /\ NoCell \notin Cell
    /\ Absent \notin [pw: Pw, db: {"test", "app", "none"}]
    /\ Tenants \intersect {"tenara-data", "kube-system", "envoy-gateway-system", NoLabel} = {}
    /\ {Top, StepCount, Usage} \subseteq Nat

VARIABLES
    part,
    issued, started, github, swap,
    names, pinned,
    phase, identity, attached, secret, drawn, working,
    repo, draft, spec, sizes,
    application, policies, owned, hostnames, verified,
    question

G == INSTANCE GitHubBinding
C == INSTANCE Cells
D == INSTANCE Provisioning
N == INSTANCE Analysis
M == INSTANCE Manifests WITH App <- Owner
V == INSTANCE Verdicts

binding == <<issued, started, github, swap>>
cellsVars == <<names, pinned>>
provisioningVars == <<phase, identity, attached, secret, drawn, working>>
analysisVars == <<repo, draft, spec, sizes>>
manifestsVars == <<application, policies, owned, hostnames, verified>>
verdictsVars == <<question>>

servers == <<vars, workspacesVars, binding, appsVars, bindingsVars>>
libraries == <<orchestratorVars, budgetsVars, cellsVars, previewsVars, provisioningVars,
               analysisVars, manifestsVars, verdictsVars>>
partVars == <<part, servers, libraries>>

\* The parts of the modules extended above keep their initial state when they
\* are not picked; the variables of the instances then have none.
PartInit ==
    /\ part \in {"accounts", "workspaces", "github", "apps", "bindings", "orchestrator",
                 "budgets", "cells", "previews", "provisioning", "analysis", "manifests",
                 "verdicts"}
    /\ Init /\ WorkspacesInit /\ AppsInit /\ BindingsInit
    /\ OrchestratorInit /\ BudgetsInit /\ PreviewsInit
    /\ IF part = "github" THEN G!Init
       ELSE issued = Nil /\ started = Nil /\ github = Nil /\ swap = Nil
    /\ IF part = "cells" THEN C!CellsInit
       ELSE names = Nil /\ pinned = Nil
    /\ IF part = "provisioning" THEN D!ProvisioningInit
       ELSE /\ phase = Nil /\ identity = Nil /\ attached = Nil /\ secret = Nil /\ drawn = Nil
            /\ working = Nil
    /\ IF part = "analysis" THEN N!AnalysisInit
       ELSE repo = Nil /\ draft = Nil /\ spec = Nil /\ sizes = Nil
    /\ IF part = "manifests" THEN M!ManifestsInit
       ELSE application = Nil /\ policies = Nil /\ owned = Nil /\ hostnames = Nil /\ verified = Nil
    /\ IF part = "verdicts" THEN V!VerdictsInit
       ELSE question = Nil

ServiceNext ==
    /\ UNCHANGED <<part, libraries>>
    /\ \/ /\ part = "accounts" /\ Next
          /\ UNCHANGED <<workspacesVars, binding, appsVars, bindingsVars>>
       \/ /\ part = "workspaces" /\ WorkspacesNext
          /\ UNCHANGED <<vars, binding, appsVars, bindingsVars>>
       \/ /\ part = "github" /\ G!Next
          /\ UNCHANGED <<vars, workspacesVars, appsVars, bindingsVars>>
       \/ /\ part = "apps" /\ AppsNext
          /\ UNCHANGED <<vars, workspacesVars, binding, bindingsVars>>
       \/ /\ part = "bindings" /\ BindingsNext
          /\ UNCHANGED <<vars, workspacesVars, binding, appsVars>>

LibraryNext ==
    /\ UNCHANGED <<part, servers>>
    /\ \/ /\ part = "orchestrator" /\ OrchestratorNext
          /\ UNCHANGED <<budgetsVars, cellsVars, previewsVars, provisioningVars,
                         analysisVars, manifestsVars, verdictsVars>>
       \/ /\ part = "budgets" /\ BudgetsNext
          /\ UNCHANGED <<orchestratorVars, cellsVars, previewsVars, provisioningVars,
                         analysisVars, manifestsVars, verdictsVars>>
       \/ /\ part = "cells" /\ C!CellsNext
          /\ UNCHANGED <<orchestratorVars, budgetsVars, previewsVars, provisioningVars,
                         analysisVars, manifestsVars, verdictsVars>>
       \/ /\ part = "previews" /\ PreviewsNext
          /\ UNCHANGED <<orchestratorVars, budgetsVars, cellsVars, provisioningVars,
                         analysisVars, manifestsVars, verdictsVars>>
       \/ /\ part = "provisioning" /\ D!ProvisioningNext
          /\ UNCHANGED <<orchestratorVars, budgetsVars, cellsVars, previewsVars,
                         analysisVars, manifestsVars, verdictsVars>>
       \/ /\ part = "analysis" /\ N!AnalysisNext
          /\ UNCHANGED <<orchestratorVars, budgetsVars, cellsVars, previewsVars,
                         provisioningVars, manifestsVars, verdictsVars>>
       \/ /\ part = "manifests" /\ M!ManifestsNext
          /\ UNCHANGED <<orchestratorVars, budgetsVars, cellsVars, previewsVars,
                         provisioningVars, analysisVars, verdictsVars>>
       \/ /\ part = "verdicts" /\ V!VerdictsNext
          /\ UNCHANGED <<orchestratorVars, budgetsVars, cellsVars, previewsVars,
                         provisioningVars, analysisVars, manifestsVars>>

PartSpec == PartInit /\ [][ServiceNext \/ LibraryNext]_partVars

\* The parts draw their values from the same few sets, so that one group of
\* permutations serves them all.
Symmetry == Permutations(Email) \union Permutations(Token) \union Permutations(Password)
            \union Permutations(Call)

-----------------------------------------------------------------------------
(* The properties of the modules extended above are checked by their names;   *)
(* those of the instances in the behaviours of their part.                    *)

\* The type invariants of the parts, each in the behaviours of its part.
TypesOK ==
    /\ part = "accounts" => TypeOK
    /\ part = "workspaces" => WorkspacesTypeOK
    /\ part = "apps" => AppsTypeOK
    /\ part = "bindings" => BindingsTypeOK
    /\ part = "orchestrator" => OrchestratorTypeOK
    /\ part = "budgets" => BudgetsTypeOK
    /\ part = "previews" => PreviewsTypeOK
    /\ part = "github" => G!TypeOK
    /\ part = "cells" => C!CellsTypeOK
    /\ part = "provisioning" => D!ProvisioningTypeOK
    /\ part = "manifests" => M!ManifestsTypeOK

\* A state of the GitHub hand-shake binds once.
StateBindsOnce == part = "github" => G!StateBindsOnce
\* The URI that was injected logs in where the last database user was created.
InjectedIsCurrent == part = "provisioning" => D!InjectedIsCurrent
\* What the analyzer accepts can be stored and planned.
AnalyzedIsDeployable == part = "analysis" => N!AnalyzedIsDeployable
\* The policies keep tenants apart.
TenantsAreSeparate == part = "manifests" => M!TenantsAreSeparate
\* A rollback goes to the newest eligible revision, or to an eligible one asked for.
RollbackTargetIsRight == part = "verdicts" => V!RollbackTargetIsRight
\* A complete report is RUNNING as long as no step failed.
ReportsAreRight == part = "verdicts" => V!ReportsAreRight
\* Invoices, cron fields, quotas and replicas keep within their bounds.
FiguresAreRight == part = "verdicts" => V!FiguresAreRight
\* Requests are answered, gated and recorded as the contract and the roles say.
RequestsAreAnswered == part = "verdicts" => V!RequestsAreAnswered
\* An organization stays in its cell.
RoutesAreStable == [][part = "cells" => C!RouteIsKept]_partVars
=============================================================================
