------------------------------ MODULE Analysis ------------------------------
(***************************************************************************)
(* From a repository to a plan: the analyzer (analyzer/internal: boundary, *)
(* detectors, generator), the AppSpec an application stores                *)
(* (control-plane/internal/appspec) and the plan made of it                *)
(* (control-plane/internal/orchestrator/plan).  Three programs, each with  *)
(* its own idea of which services there are.                               *)
(*                                                                         *)
(* A repository is what its files say: the traits of the root and of each  *)
(* directory, the directories its workspace globs match (all or none: one  *)
(* without traits is as good as one not matched), and where MongoDB is     *)
(* mentioned.                                                              *)
(***************************************************************************)
EXTENDS Integers, FiniteSets

CONSTANTS
    Dir,        \* directories below the root
    Shared,     \* those under packages/, libs/, ... or node_modules/
    Root,       \* the root (path ".")
    Traits,     \* the sets of traits a directory may have
    Mention,    \* where MongoDB may be mentioned: compose file, dependency, .env
    Unset       \* nothing

Place == Dir \union {Root}

VARIABLES
    repo,       \* the repository, or Unset
    draft,      \* what the analyzer made of it, or Unset
    spec,       \* the AppSpec the application stores, or Unset
    sizes       \* the resources of its plan, or Unset

analysisVars == <<repo, draft, spec, sizes>>

AnalysisInit == repo = Unset /\ draft = Unset /\ spec = Unset /\ sizes = Unset

Checkout(traits, globs, mongo) ==
    /\ repo = Unset
    /\ repo' = [traits |-> traits, globs |-> globs, mongo |-> mongo]
    /\ UNCHANGED <<draft, spec, sizes>>

-----------------------------------------------------------------------------
(* boundary *)

Has(p, files) == files \subseteq repo.traits[p]

\* candidateName: package.json with a main or a dev, start or build script,
\* go.mod with Go sources, or pyproject.toml with scripts.
CandidateName(p) ==
    \/ Has(p, {"package.json", "entry"})
    \/ Has(p, {"go.mod", "*.go"})
    \/ Has(p, {"pyproject.toml", "scripts"})

\* considerDir for the matches of the globs; without globs appendRootService,
\* which knows package.json alone.
Detect ==
    IF repo.globs = {} THEN {p \in {Root} : Has(p, {"package.json", "entry"})}
    ELSE {d \in repo.globs \ Shared : CandidateName(d)}

-----------------------------------------------------------------------------
(* detectors *)

Frameworks == <<"next", "nuxt", "vue", "react", "vite">>
DetectNodeFramework(p) ==
    LET seen == {i \in DOMAIN Frameworks : Has(p, {Frameworks[i]})}
    IN  IF seen = {} THEN "" ELSE Frameworks[CHOOSE i \in seen : \A j \in seen : i <= j]

DefaultPort(framework) ==
    CASE framework = "next" -> 3000 [] framework = "fastapi" -> 8000 [] OTHER -> 0

\* A package.json makes a service a node one, whatever made it a candidate.
\* The trait "fastapi" is of pyproject.toml or, without one, requirements.txt.
DetectService(p) ==
    LET node == DetectNodeFramework(p)
        facts ==
            CASE Has(p, {"package.json"}) ->
                     [runtime |-> "node", framework |-> node, port |-> DefaultPort(node)]
              [] ~Has(p, {"package.json"}) /\ Has(p, {"fastapi"}) ->
                     [runtime |-> "python", framework |-> "fastapi", port |-> 8000]
              [] ~Has(p, {"package.json"}) /\ ~Has(p, {"fastapi"}) /\ Has(p, {"go.mod"}) ->
                     [runtime |-> "go", framework |-> "", port |-> 8080]
              [] OTHER -> [runtime |-> "", framework |-> "", port |-> 0]
    IN  IF Has(p, {"EXPOSE"}) THEN [facts EXCEPT !.port = 9000] ELSE facts

DetectMongoDB == repo.mongo # {}

-----------------------------------------------------------------------------
(* generator *)

TypeOf(facts) ==
    IF \E i \in DOMAIN Frameworks : facts.framework = Frameworks[i] THEN "frontend" ELSE "backend"

ServicesOf(found) ==
    [p \in found |->
        LET facts == DetectService(p)
        IN  [type |-> TypeOf(facts), runtime |-> facts.runtime, port |-> facts.port,
             scheduled |-> FALSE]]

\* One frontend gets "/" and one backend "/api": the first each loop over the
\* map meets, which is any.
TypeAt == [x \in {"/", "/api"} |-> IF x = "/" THEN "frontend" ELSE "backend"]
BuildRouting(services) ==
    LET of(type) == {p \in DOMAIN services : services[p].type = type}
    IN  {routing \in [{x \in DOMAIN TypeAt : of(TypeAt[x]) # {}} -> DOMAIN services] :
             \A x \in DOMAIN routing : routing[x] \in of(TypeAt[x])}

\* buildRouting and buildDatabase on what was found.
Drafted(services) ==
    /\ \E routing \in BuildRouting(services) :
           draft' = [services |-> services, routing |-> routing, mongodb |-> DetectMongoDB]
    /\ UNCHANGED <<repo, spec, sizes>>

GenerateUnsupported ==
    /\ repo # Unset /\ draft = Unset
    /\ Detect # {}
    /\ Drafted(ServicesOf(Detect))

\* AnalyzeLocal and Generate: no service, or one of another runtime, is an
\* error and leaves no draft.
Generate ==
    /\ repo # Unset /\ draft = Unset
    /\ Detect # {}
    /\ \A p \in Detect : DetectService(p).runtime \in {"node", "python", "go"}
    /\ Drafted(ServicesOf(Detect))

-----------------------------------------------------------------------------
(* appspec and plan *)

IsHTTPType(type) == type \in {"frontend", "backend"}

\* validate; a path is always there, and ValidateSchedule is in Verdicts.
Parse(s) ==
    /\ DOMAIN s.services # {}
    /\ \A p \in DOMAIN s.services :
           /\ s.services[p].type \in {"frontend", "backend", "worker", "cron"}
           /\ s.services[p].runtime \in {"node", "python", "go"}
           /\ s.services[p].type = "cron" => s.services[p].scheduled
    /\ \A x \in DOMAIN s.routing :
           /\ s.routing[x] \in DOMAIN s.services
           /\ IsHTTPType(s.services[s.routing[x]].type)

PutSpec(s) ==
    /\ Parse(s)
    /\ spec' = s
    /\ UNCHANGED <<repo, draft, sizes>>

\* A member sends the draft, or makes one of its services another type.
Edit(p, type, scheduled) ==
    [draft EXCEPT !.services = [@ EXCEPT ![p] = [@ EXCEPT !.type = type, !.scheduled = scheduled]]]

ResourceByType == [frontend |-> 250, backend |-> 500]

\* GeneratePlan: a worker or a cron service has no estimate, so a spec that
\* has one is stored and never planned.
Plannable(s) == \A p \in DOMAIN s.services : s.services[p].type \in DOMAIN ResourceByType
GeneratePlan ==
    /\ spec # Unset /\ Plannable(spec)
    /\ sizes' = [p \in DOMAIN spec.services |-> ResourceByType[spec.services[p].type]]
    /\ UNCHANGED <<repo, draft, spec>>

Forget ==
    /\ repo # Unset
    /\ repo' = Unset /\ draft' = Unset /\ spec' = Unset /\ sizes' = Unset

AnalysisNext ==
    \/ \E traits \in [Place -> Traits], globs \in {{}, Dir}, mongo \in SUBSET Mention :
           Checkout(traits, globs, mongo)
    \/ Generate
    \/ draft # Unset /\ spec = Unset /\ PutSpec(draft)
    \/ /\ draft # Unset /\ spec = Unset
       /\ \E p \in DOMAIN draft.services, type \in {"worker", "cron"}, scheduled \in BOOLEAN :
              PutSpec(Edit(p, type, scheduled))
    \/ GeneratePlan
    \/ Forget

AnalysisSpec == AnalysisInit /\ [][AnalysisNext]_analysisVars

-----------------------------------------------------------------------------

\* What the analyzer accepts the rest of the platform can use: the AppSpec
\* admits every draft and the plan has an estimate for each of its services,
\* whichever service a route was given to; and what is planned has an estimate
\* for everything that is routed to (AnalyzeLocal, validate, plan.Generate).
AnalyzedIsDeployable ==
    /\ draft # Unset => Parse(draft) /\ Plannable(draft)
    /\ sizes # Unset => \A x \in DOMAIN spec.routing : spec.routing[x] \in DOMAIN sizes
=============================================================================
