------------------------- MODULE ControlPlaneProofs -------------------------
(***************************************************************************)
(* The control plane proved: what the run of MCControlPlane checks of the  *)
(* parts that have no proofs of their own, and the types of all of them.   *)
(* A behaviour of PartSpec is, of each part, a behaviour of that part.     *)
(***************************************************************************)
EXTENDS MCControlPlane, AccountsProofs, WorkspacesProofs, BindingsProofs, GuardsProofs,
        WellFoundedInduction

-----------------------------------------------------------------------------
(* The parts that are extended keep their specifications *)

\* A step of another part leaves the variables of the accounts alone.
LEMMA AccountsInside == PartSpec => Spec
<1>1. PartInit => Init
  BY DEF PartInit
<1>2. [ServiceNext \/ LibraryNext]_partVars => [Next]_vars
  BY DEF ServiceNext, LibraryNext, partVars, servers
<1> QED
  BY <1>1, <1>2, PTL DEF PartSpec, Spec

LEMMA WorkspacesInside == PartSpec => WorkspacesSpec
<1>1. PartInit => WorkspacesInit
  BY DEF PartInit
<1>2. [ServiceNext \/ LibraryNext]_partVars => [WorkspacesNext]_workspacesVars
  BY DEF ServiceNext, LibraryNext, partVars, servers
<1> QED
  BY <1>1, <1>2, PTL DEF PartSpec, WorkspacesSpec

LEMMA AppsInside == PartSpec => AppsSpec
<1>1. PartInit => AppsInit
  BY DEF PartInit
<1>2. [ServiceNext \/ LibraryNext]_partVars => [AppsNext]_appsVars
  BY DEF ServiceNext, LibraryNext, partVars, servers
<1> QED
  BY <1>1, <1>2, PTL DEF PartSpec, AppsSpec

LEMMA BindingsInside == PartSpec => BindingsSpec
<1>1. PartInit => BindingsInit
  BY DEF PartInit
<1>2. [ServiceNext \/ LibraryNext]_partVars => [BindingsNext]_bindingsVars
  BY DEF ServiceNext, LibraryNext, partVars, servers
<1> QED
  BY <1>1, <1>2, PTL DEF PartSpec, BindingsSpec

LEMMA OrchestratorInside == PartSpec => OrchestratorSpec
<1>1. PartInit => OrchestratorInit
  BY DEF PartInit
<1>2. [ServiceNext \/ LibraryNext]_partVars => [OrchestratorNext]_orchestratorVars
  BY DEF ServiceNext, LibraryNext, partVars, libraries
<1> QED
  BY <1>1, <1>2, PTL DEF PartSpec, OrchestratorSpec

LEMMA BudgetsInside == PartSpec => BudgetsSpec
<1>1. PartInit => BudgetsInit
  BY DEF PartInit
<1>2. [ServiceNext \/ LibraryNext]_partVars => [BudgetsNext]_budgetsVars
  BY DEF ServiceNext, LibraryNext, partVars, libraries
<1> QED
  BY <1>1, <1>2, PTL DEF PartSpec, BudgetsSpec

LEMMA PreviewsInside == PartSpec => PreviewsSpec
<1>1. PartInit => PreviewsInit
  BY DEF PartInit
<1>2. [ServiceNext \/ LibraryNext]_partVars => [PreviewsNext]_previewsVars
  BY DEF ServiceNext, LibraryNext, partVars, libraries
<1> QED
  BY <1>1, <1>2, PTL DEF PartSpec, PreviewsSpec

-----------------------------------------------------------------------------
(* The parts that are instances move when they are picked, and are picked once *)

LEMMA PartMoves ==
    ASSUME [ServiceNext \/ LibraryNext]_partVars
    PROVE  /\ part' = part
           /\ part = "github" => [G!Next]_binding
           /\ part = "cells" => [C!CellsNext]_cellsVars
           /\ part = "provisioning" => [D!ProvisioningNext]_provisioningVars
           /\ part = "analysis" => [N!AnalysisNext]_analysisVars
           /\ part = "manifests" => [M!ManifestsNext]_manifestsVars
           /\ part = "verdicts" => [V!VerdictsNext]_verdictsVars
<1>1. CASE UNCHANGED partVars
  BY <1>1 DEF partVars, servers, libraries
<1>2. CASE ServiceNext
  BY <1>2 DEF ServiceNext, libraries
<1>3. CASE LibraryNext
  BY <1>3 DEF LibraryNext, servers
<1> QED
  BY <1>1, <1>2, <1>3

-----------------------------------------------------------------------------
(* GitHub *)

\* A state that is swapped was drawn for somebody, and its row names that user.
StatesFit ==
    /\ \A s \in State : issued[s] # None => issued[s] = started[s]
    /\ \A w \in Worker : swap[w] # None => started[swap[w]] \in Owner

GitHubInv == G!TypeOK /\ StatesFit /\ G!StateBindsOnce

LEMMA GitHubStart == ASSUME G!Init PROVE GitHubInv
BY PartsAssumption DEF GitHubInv, StatesFit, G!Init, G!TypeOK, G!StateBindsOnce

\* BeginBinding and the callback.
LEMMA GitHubStep == ASSUME GitHubInv, G!Next PROVE GitHubInv'
<1> USE PartsAssumption DEF GitHubInv, StatesFit, G!TypeOK, G!StateBindsOnce
<1>1. ASSUME NEW u \in Owner, NEW s \in State, G!Begin(u, s) PROVE GitHubInv'
  BY <1>1 DEF G!Begin
<1>2. ASSUME NEW w \in Worker, NEW s \in State, G!Exchange(w, s) PROVE GitHubInv'
  BY <1>2 DEF G!Exchange
<1>3. ASSUME NEW w \in Worker, G!StoreBinding(w) PROVE GitHubInv'
  BY <1>3 DEF G!StoreBinding
<1>4. ASSUME NEW w \in Worker, G!Fail(w) PROVE GitHubInv'
  BY <1>4 DEF G!Fail
<1>5. ASSUME NEW u \in Owner, G!ClearBinding(u) PROVE GitHubInv'
  BY <1>5 DEF G!ClearBinding
<1>6. ASSUME NEW s \in State, G!StateExpires(s) PROVE GitHubInv'
  BY <1>6 DEF G!StateExpires
<1> QED
  BY <1>1, <1>2, <1>3, <1>4, <1>5, <1>6 DEF G!Next

LEMMA GitHubCarried == PartSpec => [](part = "github" => GitHubInv)
<1>1. PartInit => (part = "github" => GitHubInv)
  BY GitHubStart DEF PartInit
<1>2. ASSUME part = "github" => GitHubInv, [ServiceNext \/ LibraryNext]_partVars
      PROVE  (part = "github" => GitHubInv)'
  <2>1. ASSUME GitHubInv, UNCHANGED binding PROVE GitHubInv'
    BY <2>1 DEF binding, GitHubInv, StatesFit, G!TypeOK, G!StateBindsOnce
  <2> QED
    BY <1>2, <2>1, PartMoves, GitHubStep
<1> QED
  BY <1>1, <1>2, PTL DEF PartSpec

\* The state of a hand-shake opens one binding at most, and of the user it was
\* drawn for, whatever callbacks race for it (github_handlers.go).
THEOREM BindsOnce == PartSpec => []StateBindsOnce
<1>1. (part = "github" => GitHubInv) => StateBindsOnce
  BY DEF GitHubInv, StateBindsOnce
<1> QED
  BY <1>1, GitHubCarried, PTL

-----------------------------------------------------------------------------
(* Cells *)

\* Only a registered cell has organizations.
CellsInv ==
    /\ C!CellsTypeOK
    /\ \A c \in Cell : pinned[c] # {} => c \in C!Registered

\* The positions of the cells in suits, of which First takes the least.
Places(suits) == {i \in DOMAIN names : names[i] \in suits}
Least(spots) == CHOOSE i \in spots : \A j \in spots : i <= j

\* Any set of positions has a least one, and only one.
LEMMA LeastIsLeast ==
    ASSUME NEW spots, spots \subseteq Nat, spots # {}
    PROVE  /\ Least(spots) \in spots
           /\ \A j \in spots : Least(spots) <= j
           /\ \A i \in spots : (\A j \in spots : i <= j) => i = Least(spots)
<1> DEFINE below == {p \in Nat \X Nat : p[1] < p[2]}
<1>0. OpToRel(<, Nat) = below
  BY DEF OpToRel
<1>1. PICK i \in spots : \A j \in spots : ~ (<<j, i>> \in below)
  <2>1. IsWellFoundedOn(below, Nat)
    BY <1>0, NatLessThanWellFounded
  <2> HIDE DEF below
  <2> QED
    BY <2>1, WFMin, Zenon
<1>2. ASSUME NEW j \in spots PROVE i <= j
  <2>1. j \in Nat /\ i \in Nat /\ <<j, i>> \notin below
    BY <1>1
  <2> QED
    BY <2>1
<1>3. Least(spots) \in spots /\ \A j \in spots : Least(spots) <= j
  BY <1>2 DEF Least
<1>4. ASSUME NEW other \in spots, \A j \in spots : other <= j PROVE other = Least(spots)
  <2>1. other \in Nat /\ Least(spots) \in Nat
    BY <1>3
  <2>2. other <= Least(spots) /\ Least(spots) <= other
    BY <1>3, <1>4
  <2> QED
    BY <2>1, <2>2
<1> QED
  BY <1>3, <1>4

LEMMA FirstIsLeast ==
    ASSUME NEW suits
    PROVE  /\ Places(suits) = {} => C!First(suits) = NoCell
           /\ Places(suits) # {} => C!First(suits) = names[Least(Places(suits))]
BY DEF C!First, Places, Least

\* A cell that joins is the last: what is first stays first.
LEMMA FirstStays ==
    ASSUME CellsInv, NEW c \in Cell, C!RegisterCell(c), NEW suits, C!First(suits) # NoCell
    PROVE  C!First(suits)' = C!First(suits)
<1>1. /\ names \in Seq(Cell) /\ names' = Append(names, c) /\ Len(names) \in Nat
      /\ DOMAIN names = 1 .. Len(names) /\ DOMAIN names' = 1 .. Len(names) + 1
      /\ \A i \in DOMAIN names : names'[i] = names[i]
  BY DEF CellsInv, C!CellsTypeOK, C!RegisterCell
<1>2. /\ Places(suits) # {} /\ Places(suits) \subseteq DOMAIN names
      /\ Places(suits) \subseteq Places(suits)'
      /\ \A j \in Places(suits)' \ Places(suits) : j = Len(names) + 1
  <2>1. Places(suits) # {}
    BY FirstIsLeast
  <2>2. \A i \in DOMAIN names' : i \in DOMAIN names \/ i = Len(names) + 1
    BY <1>1
  <2> QED
    BY <1>1, <2>1, <2>2 DEF Places
<1>3. /\ Places(suits) \subseteq Nat /\ Places(suits)' \subseteq Nat /\ Places(suits)' # {}
  BY <1>1, <1>2 DEF Places
<1>4. /\ Least(Places(suits)) \in Places(suits)
      /\ \A j \in Places(suits) : Least(Places(suits)) <= j
      /\ \A i \in Places(suits)' :
             (\A j \in Places(suits)' : i <= j) => i = Least(Places(suits)')
  BY <1>2, <1>3, LeastIsLeast
<1>5. Least(Places(suits)) = Least(Places(suits)')
  BY <1>1, <1>2, <1>4
<1>6. C!First(suits)' = names'[Least(Places(suits)')]
  BY <1>3 DEF C!First, Places, Least
<1>7. C!First(suits) = names[Least(Places(suits))]
  BY <1>2, FirstIsLeast
<1> QED
  BY <1>1, <1>2, <1>4, <1>5, <1>6, <1>7


\* Where an organization was assigned.
Assigned(t) == {c \in Cell : t \in pinned[c]}

RoutesAsAssigned ==
    \A t \in Tenant :
        /\ C!First(Assigned(t)) # NoCell => C!RouteForOrg(t) = C!First(Assigned(t))
        /\ C!First(Assigned(t)) = NoCell => C!RouteForOrg(t) = C!First(Fallback)
        /\ C!First(Assigned(t)) = NoCell <=> Assigned(t) = {}

LEMMA RouteIsFirst == CellsInv => RoutesAsAssigned
<1> SUFFICES ASSUME CellsInv, NEW t \in Tenant
             PROVE  /\ C!First(Assigned(t)) # NoCell => C!RouteForOrg(t) = C!First(Assigned(t))
                    /\ C!First(Assigned(t)) = NoCell => C!RouteForOrg(t) = C!First(Fallback)
                    /\ C!First(Assigned(t)) = NoCell <=> Assigned(t) = {}
  BY DEF RoutesAsAssigned
<1>1. /\ names \in Seq(Cell) /\ Len(names) \in Nat /\ DOMAIN names = 1 .. Len(names)
      /\ \A i \in DOMAIN names : names[i] \in Cell
  BY DEF CellsInv, C!CellsTypeOK
<1>2. Places(Assigned(t)) = {} <=> Assigned(t) = {}
  BY <1>1 DEF CellsInv, C!CellsTypeOK, C!Registered, Places, Assigned
<1>3. ASSUME Places(Assigned(t)) # {} PROVE C!First(Assigned(t)) # NoCell
  <2>1. Places(Assigned(t)) \subseteq Nat /\ Places(Assigned(t)) \subseteq DOMAIN names
    BY <1>1 DEF Places
  <2>2. Least(Places(Assigned(t))) \in DOMAIN names
    BY <1>3, <2>1, LeastIsLeast
  <2> QED
    BY <1>1, <1>3, <2>2, FirstIsLeast, PartsAssumption
<1> QED
  BY <1>2, <1>3, FirstIsLeast DEF C!RouteForOrg, Assigned

LEMMA CellsStart == ASSUME C!CellsInit PROVE CellsInv
BY DEF CellsInv, C!CellsInit, C!CellsTypeOK, C!Registered

LEMMA CellsStep == ASSUME CellsInv, C!CellsNext PROVE CellsInv'
<1>1. ASSUME NEW c \in Cell, C!RegisterCell(c) PROVE CellsInv'
  <2>1. C!CellsTypeOK'
    BY <1>1 DEF CellsInv, C!CellsTypeOK, C!RegisterCell
  <2>2. C!Registered \subseteq C!Registered'
    BY <1>1 DEF CellsInv, C!CellsTypeOK, C!RegisterCell, C!Registered
  <2> QED
    BY <1>1, <2>1, <2>2 DEF CellsInv, C!RegisterCell
<1>2. ASSUME NEW t \in Tenant, NEW c \in Cell, C!Assign(t, c) PROVE CellsInv'
  BY <1>2 DEF CellsInv, C!CellsTypeOK, C!Assign, C!Registered
<1> QED
  BY <1>1, <1>2 DEF C!CellsNext

LEMMA CellsCarried == PartSpec => [](part = "cells" => CellsInv)
<1>1. PartInit => (part = "cells" => CellsInv)
  BY CellsStart DEF PartInit
<1>2. ASSUME part = "cells" => CellsInv, [ServiceNext \/ LibraryNext]_partVars
      PROVE  (part = "cells" => CellsInv)'
  <2>1. ASSUME CellsInv, UNCHANGED cellsVars PROVE CellsInv'
    BY <2>1 DEF cellsVars, CellsInv, C!CellsTypeOK, C!Registered
  <2> QED
    BY <1>2, <2>1, PartMoves, CellsStep
<1> QED
  BY <1>1, <1>2, PTL DEF PartSpec

\* A new cell, as default or not, moves nobody who has one.
LEMMA RegisterKeepsRoutes ==
    ASSUME CellsInv, CellsInv', NEW c \in Cell, C!RegisterCell(c), NEW t \in Tenant,
           C!RouteForOrg(t) # NoCell
    PROVE  C!RouteForOrg(t)' = C!RouteForOrg(t)
<1>1. Assigned(t)' = Assigned(t)
  BY DEF C!RegisterCell, Assigned
<1>2. RoutesAsAssigned /\ RoutesAsAssigned'
  BY RouteIsFirst, PTL
<1>3. PICK suits : suits = Assigned(t)
  OBVIOUS
<1>4. C!First(Assigned(t))' = C!First(suits)'
  BY <1>1, <1>3 DEF C!First
<1> QED
  BY <1>1, <1>2, <1>3, <1>4, FirstStays DEF RoutesAsAssigned

\* An assignment moves the organization it is of, and to the cell it names.
LEMMA AssignMovesItsOwn ==
    ASSUME CellsInv, CellsInv', NEW u \in Tenant, NEW c \in Cell, C!Assign(u, c),
           NEW t \in Tenant, C!RouteForOrg(t)' # C!RouteForOrg(t)
    PROVE  t \in pinned'[c] \ pinned[c] /\ C!RouteForOrg(t)' = c
<1>1. /\ names' = names /\ names \in Seq(Cell) /\ DOMAIN names = 1 .. Len(names)
      /\ Len(names) \in Nat /\ \A i \in DOMAIN names : names[i] \in Cell
  BY DEF C!Assign, CellsInv, C!CellsTypeOK
<1>2. \A suits : C!First(suits)' = C!First(suits)
  BY <1>1 DEF C!First
<1>3. Assigned(t)' = Assigned(t) \/ (Assigned(t)' = Assigned(t) \union {c} /\ t = u)
  BY DEF C!Assign, CellsInv, C!CellsTypeOK, Assigned
<1>4. C!First(Assigned(t))' = C!First(Assigned(t)')
  BY <1>1 DEF C!First
<1>5. C!RouteForOrg(t)' = IF C!First(Assigned(t)') # NoCell THEN C!First(Assigned(t)')
                          ELSE C!First(Fallback)
  <2>1. C!RouteForOrg(t)' = IF C!First(Assigned(t))' # NoCell THEN C!First(Assigned(t))'
                            ELSE C!First(Fallback)'
    BY DEF C!RouteForOrg, Assigned
  <2>2. C!First(Fallback)' = C!First(Fallback)
    BY <1>1 DEF C!First
  <2> QED
    BY <1>4, <2>1, <2>2
<1>6. C!RouteForOrg(t) = IF C!First(Assigned(t)) # NoCell THEN C!First(Assigned(t))
                         ELSE C!First(Fallback)
  BY DEF C!RouteForOrg, Assigned
<1>7. Assigned(t)' # Assigned(t) /\ Assigned(t)' = Assigned(t) \union {c} /\ t = u
  BY <1>3, <1>5, <1>6
<1>8. t \in pinned'[c] \ pinned[c]
  BY <1>7 DEF Assigned
<1> DEFINE before == Places(Assigned(t))
           after == Places(Assigned(t)')
<1>9. /\ before \subseteq after /\ after \subseteq Nat /\ before \subseteq Nat
      /\ \A i \in after \ before : names[i] = c
      /\ after # {} /\ after \subseteq DOMAIN names
  BY <1>1, <1>7 DEF Places, C!Assign, C!Registered
<1>10. /\ Least(after) \in after /\ \A j \in after : Least(after) <= j
       /\ before # {} => \A i \in before : (\A j \in before : i <= j) => i = Least(before)
  BY <1>9, LeastIsLeast
<1>11. C!First(Assigned(t)') = names[Least(after)] /\ names[Least(after)] # NoCell
  BY <1>1, <1>9, <1>10, FirstIsLeast, PartsAssumption
<1>12. CASE Least(after) \in before
  <2>1. Least(before) = Least(after)
    BY <1>9, <1>10, <1>12
  <2>2. C!First(Assigned(t)) = names[Least(after)]
    BY <1>12, <2>1, FirstIsLeast
  <2> QED
    BY <1>5, <1>6, <1>11, <2>2
<1>13. CASE Least(after) \notin before
  BY <1>5, <1>8, <1>9, <1>10, <1>11, <1>13
<1> QED
  BY <1>12, <1>13

\* An organization keeps its cell whatever is registered later: only its own
\* assignment moves it, to the cell it is assigned to (RouteForOrg, cells.go).
THEOREM RoutesStable == PartSpec => RoutesAreStable
<1>1. ASSUME CellsInv, CellsInv', C!CellsNext PROVE C!RouteIsKept
  <2>1. ASSUME NEW c \in Cell, C!RegisterCell(c) PROVE C!RouteIsKept
    BY <1>1, <2>1, RegisterKeepsRoutes DEF C!RouteIsKept
  <2>2. ASSUME NEW u \in Tenant, NEW c \in Cell, C!Assign(u, c) PROVE C!RouteIsKept
    BY <1>1, <2>2, AssignMovesItsOwn DEF C!RouteIsKept
  <2> QED
    BY <1>1, <2>1, <2>2 DEF C!CellsNext
<1>2. ASSUME part = "cells" => CellsInv, (part = "cells" => CellsInv)',
             [ServiceNext \/ LibraryNext]_partVars
      PROVE  [part = "cells" => C!RouteIsKept]_partVars
  <2>1. ASSUME UNCHANGED cellsVars PROVE C!RouteIsKept
    BY <2>1 DEF cellsVars, C!RouteIsKept, C!RouteForOrg, C!First
  <2> QED
    BY <1>1, <1>2, <2>1, PartMoves
<1> QED
  BY <1>2, CellsCarried, PTL DEF PartSpec, RoutesAreStable

-----------------------------------------------------------------------------
(* Provisioning *)

\* What the reconcile under way has done so far: policies are of
\* storage, the password it carries is the one MongoDB knows, there is a user,
\* and storage has its policy.
WorkFits ==
    LET sort == D!KindOf(working.binding)
    IN  /\ working.step \in {"policy", "attach"} => sort = "storage"
        /\ working.step = "inject" /\ sort = "mongo" =>
               working.pw = identity["mongo"].pw
        /\ working.step \in {"policy", "attach", "inject", "ready"} =>
               identity[sort] # Absent /\ working.pw \in Pw
        /\ working.step \in {"inject", "ready"} /\ sort = "storage" => attached

ProvisioningInv == D!ProvisioningTypeOK /\ WorkFits /\ D!InjectedIsCurrent

LEMMA BindingParts ==
    /\ \A b \in D!Binding : D!KindOf(b) \in D!BindingKind /\ D!EnvOf(b) \in Stage
    /\ D!Resting.step = "rest"
    /\ {"mongo", "redis", "storage"} = D!BindingKind
    /\ \A pw \in Pw, base \in {"test", "app", "none"} :
           LET login == [pw |-> pw, db |-> base]
           IN  login \in D!Login /\ login # Absent /\ login.pw = pw
BY PartsAssumption DEF D!Login, D!Binding, D!KindOf, D!EnvOf, D!BindingKind, D!Resting

LEMMA ProvisioningStart == ASSUME D!ProvisioningInit PROVE ProvisioningInv
BY BindingParts DEF ProvisioningInv, WorkFits, D!ProvisioningInit, D!ProvisioningTypeOK,
   D!InjectedIsCurrent, D!NoKeys, D!Resting

\* A user is created, or given its password, by a reconcile that then carries it.
LEMMA UserStep ==
    ASSUME ProvisioningInv, NEW sort \in D!BindingKind, NEW pw \in Pw, NEW next, NEW login,
           login \in D!Login, login # Absent, login.pw = pw,
           next \in {"policy", "inject"}, next = "policy" <=> sort = "storage",
           sort = "mongo" => identity[sort] = Absent,
           working.step = "create", D!KindOf(working.binding) = sort,
           drawn' = drawn \union {pw},
           identity' = [identity EXCEPT ![sort] = login],
           working' = [working EXCEPT !.step = next, !.pw = pw],
           UNCHANGED <<phase, attached, secret>>
    PROVE  ProvisioningInv'
<1>1. /\ working \in [binding: D!Binding,
                      step: {"create", "policy", "attach", "inject", "ready"},
                      pw: Pw \union {Absent}]
      /\ identity \in [D!BindingKind -> D!Login \union {Absent}]
  BY BindingParts DEF ProvisioningInv, D!ProvisioningTypeOK
<1>2. D!ProvisioningTypeOK'
  BY <1>1 DEF ProvisioningInv, D!ProvisioningTypeOK
<1>3. /\ working'.binding = working.binding /\ working'.step = next /\ working'.pw = pw
      /\ identity'[sort] = login
      /\ \A k \in D!BindingKind : k # sort => identity'[k] = identity[k]
  BY <1>1, PartsAssumption
<1>4. WorkFits'
  BY <1>3 DEF WorkFits, D!KindOf
<1>5. D!InjectedIsCurrent'
  BY <1>1, <1>3, BindingParts DEF ProvisioningInv, D!InjectedIsCurrent
<1> QED
  BY <1>2, <1>4, <1>5 DEF ProvisioningInv

\* One step per command of the reconcile.
LEMMA ProvisioningStep == ASSUME ProvisioningInv, D!ProvisioningNext PROVE ProvisioningInv'
<1>0. /\ working.step # "rest" =>
             working \in [binding: D!Binding,
                          step: {"create", "policy", "attach", "inject", "ready"},
                          pw: Pw \union {Absent}]
      /\ working.step \in {"rest", "create", "policy", "attach", "inject", "ready"}
  BY BindingParts DEF ProvisioningInv, D!ProvisioningTypeOK
<1>1. ASSUME NEW b \in D!Binding, D!Reconcile(b) PROVE ProvisioningInv'
  <2>1. /\ working' = [binding |-> b, step |-> "create", pw |-> Absent]
        /\ phase' = [phase EXCEPT ![b] = IF @ = "READY" THEN @ ELSE "PENDING"]
        /\ UNCHANGED <<identity, attached, secret, drawn>>
    BY <1>1 DEF D!Reconcile
  <2>2. phase' \in [D!Binding -> {"", "PENDING", "READY"}]
        /\ \A c \in D!Binding : phase'[c] = "READY" => phase[c] = "READY"
    BY <2>1 DEF ProvisioningInv, D!ProvisioningTypeOK
  <2>3. D!ProvisioningTypeOK'
    BY <2>1, <2>2 DEF ProvisioningInv, D!ProvisioningTypeOK
  <2>4. WorkFits'
    BY <2>1 DEF WorkFits
  <2>5. D!InjectedIsCurrent'
    BY <2>1, <2>2 DEF ProvisioningInv, D!InjectedIsCurrent
  <2> QED
    BY <2>3, <2>4, <2>5 DEF ProvisioningInv
<1>2. ASSUME NEW pw \in Pw, D!CreateAppDatabase(pw) PROVE ProvisioningInv'
  <2> DEFINE login == [pw |-> pw, db |-> "test"]
  <2>1. login \in D!Login /\ login # Absent /\ login.pw = pw
    BY BindingParts
  <2>2. identity' = [identity EXCEPT !["mongo"] = login]
    BY <1>2 DEF D!CreateAppDatabase
  <2> HIDE DEF login
  <2> QED
    BY <1>2, <2>1, <2>2, BindingParts, UserStep DEF D!CreateAppDatabase, D!Works, D!Draw
<1>3. ASSUME NEW pw \in Pw, D!CreateAppCache(pw) PROVE ProvisioningInv'
  <2> DEFINE login == [pw |-> pw, db |-> "none"]
  <2>1. login \in D!Login /\ login # Absent /\ login.pw = pw
    BY BindingParts
  <2>2. identity' = [identity EXCEPT !["redis"] = login]
    BY <1>3 DEF D!CreateAppCache
  <2> HIDE DEF login
  <2> QED
    BY <1>3, <2>1, <2>2, BindingParts, UserStep DEF D!CreateAppCache, D!Works, D!Draw
<1>4. ASSUME NEW pw \in Pw, D!CreateAppStorage(pw) PROVE ProvisioningInv'
  <2> DEFINE login == [pw |-> pw, db |-> "none"]
  <2>1. login \in D!Login /\ login # Absent /\ login.pw = pw
    BY BindingParts
  <2>2. identity' = [identity EXCEPT !["storage"] = login]
    BY <1>4 DEF D!CreateAppStorage
  <2> HIDE DEF login
  <2> QED
    BY <1>4, <2>1, <2>2, BindingParts, UserStep DEF D!CreateAppStorage, D!Works, D!Draw
<1>5. ASSUME D!AddPolicy PROVE ProvisioningInv'
  BY <1>0, <1>5
  DEF ProvisioningInv, D!AddPolicy, D!Works, D!Proceed, D!ProvisioningTypeOK, WorkFits,
      D!InjectedIsCurrent
<1>6. ASSUME D!AttachPolicy PROVE ProvisioningInv'
  <2>1. D!ProvisioningTypeOK'
    BY <1>0, <1>6
    DEF ProvisioningInv, D!AttachPolicy, D!Works, D!Proceed, D!ProvisioningTypeOK
  <2>2. /\ working'.step = "inject" /\ working'.binding = working.binding
        /\ working.step = "attach" /\ attached' = TRUE /\ working'.pw = working.pw
        /\ UNCHANGED <<phase, identity, secret>>
    BY <1>0, <1>6 DEF D!AttachPolicy, D!Works, D!Proceed
  <2>3. WorkFits'
    BY <2>2 DEF ProvisioningInv, WorkFits
  <2>4. D!InjectedIsCurrent'
    BY <2>2 DEF ProvisioningInv, D!InjectedIsCurrent
  <2> QED
    BY <2>1, <2>3, <2>4 DEF ProvisioningInv
<1>7. ASSUME D!InjectToNamespace PROVE ProvisioningInv'
  <2> DEFINE sort == D!KindOf(working.binding)
             stage == D!EnvOf(working.binding)
             keys == [D!NoKeys EXCEPT ![sort] = D!UriOf(sort, working.pw)]
  <2>1. /\ working \in [binding: D!Binding,
                        step: {"create", "policy", "attach", "inject", "ready"},
                        pw: Pw \union {Absent}]
        /\ working.step = "inject" /\ sort \in D!BindingKind /\ stage \in Stage
        /\ working' = [working EXCEPT !.step = "ready"]
        /\ UNCHANGED <<phase, identity, attached, drawn>>
        /\ secret' = [secret EXCEPT ![stage] = keys]
    BY <1>0, <1>7, BindingParts DEF D!InjectToNamespace, D!Works, D!Proceed
  <2>2. /\ keys \in [D!BindingKind -> D!Login \union {Target, Absent}]
        /\ keys["mongo"] # Absent =>
               identity["mongo"] # Absent /\ keys["mongo"].pw = identity["mongo"].pw
    <3>1. sort # "storage" => working.pw \in Pw
      BY <2>1 DEF ProvisioningInv, WorkFits
    <3>2. D!UriOf(sort, working.pw) \in D!Login \union {Target}
      BY <2>1, <3>1, BindingParts DEF D!UriOf
    <3>3. keys \in [D!BindingKind -> D!Login \union {Target, Absent}]
      BY <2>1, <3>2 DEF D!NoKeys
    <3>4. ASSUME keys["mongo"] # Absent
          PROVE  identity["mongo"] # Absent /\ keys["mongo"].pw = identity["mongo"].pw
      <4>1. sort = "mongo"
        BY <2>1, <3>4, BindingParts DEF D!NoKeys
      <4>2. keys["mongo"] = [pw |-> working.pw, db |-> "app"]
        BY <4>1, BindingParts DEF D!NoKeys, D!UriOf
      <4> QED
        BY <2>1, <4>1, <4>2 DEF ProvisioningInv, WorkFits
    <3> QED
      BY <3>3, <3>4
  <2>3. /\ secret \in [Stage -> {Absent} \union [D!BindingKind -> D!Login \union {Target, Absent}]]
        /\ secret' \in [Stage -> {Absent} \union [D!BindingKind -> D!Login \union {Target, Absent}]]
        /\ \A e \in Stage : secret'[e] = IF e = stage THEN keys ELSE secret[e]
    BY <2>1, <2>2 DEF ProvisioningInv, D!ProvisioningTypeOK
  <2>4. D!ProvisioningTypeOK'
    BY <2>1, <2>3 DEF ProvisioningInv, D!ProvisioningTypeOK
  <2>5. WorkFits'
    BY <2>1 DEF ProvisioningInv, WorkFits
  <2>6. D!InjectedIsCurrent'
    BY <2>1, <2>2, <2>3 DEF ProvisioningInv, D!InjectedIsCurrent
  <2> QED
    BY <2>4, <2>5, <2>6 DEF ProvisioningInv
<1>8. ASSUME D!SetReady PROVE ProvisioningInv'
  <2>1. /\ working.binding \in D!Binding /\ working.step = "ready"
        /\ working' = D!Resting /\ UNCHANGED <<identity, attached, secret, drawn>>
        /\ phase \in [D!Binding -> {"", "PENDING", "READY"}]
        /\ phase' = [phase EXCEPT ![working.binding] = "READY"]
    BY <1>0, <1>8 DEF ProvisioningInv, D!ProvisioningTypeOK, D!SetReady, D!Works
  <2>2. D!ProvisioningTypeOK'
    BY <2>1 DEF ProvisioningInv, D!ProvisioningTypeOK
  <2>3. WorkFits'
    BY <2>1, BindingParts DEF WorkFits
  <2>4. D!InjectedIsCurrent'
    BY <2>1 DEF ProvisioningInv, WorkFits, D!InjectedIsCurrent
  <2> QED
    BY <2>2, <2>3, <2>4 DEF ProvisioningInv
<1>9. ASSUME D!Fail PROVE ProvisioningInv'
  BY <1>9, BindingParts
  DEF ProvisioningInv, D!Fail, D!ProvisioningTypeOK, WorkFits, D!InjectedIsCurrent
<1> QED
  BY <1>1, <1>2, <1>3, <1>4, <1>5, <1>6, <1>7, <1>8, <1>9 DEF D!ProvisioningNext

LEMMA ProvisioningCarried == PartSpec => [](part = "provisioning" => ProvisioningInv)
<1>1. PartInit => (part = "provisioning" => ProvisioningInv)
  BY ProvisioningStart DEF PartInit
<1>2. ASSUME part = "provisioning" => ProvisioningInv, [ServiceNext \/ LibraryNext]_partVars
      PROVE  (part = "provisioning" => ProvisioningInv)'
  <2>1. ASSUME ProvisioningInv, UNCHANGED provisioningVars PROVE ProvisioningInv'
    BY <2>1 DEF provisioningVars, ProvisioningInv, WorkFits, D!ProvisioningTypeOK,
       D!InjectedIsCurrent
  <2> QED
    BY <1>2, <2>1, PartMoves, ProvisioningStep
<1> QED
  BY <1>1, <1>2, PTL DEF PartSpec

\* The password of an injected MONGODB_URI stays that of its user, and what is
\* READY has its user and its policy, whatever fails, is tried again or is done
\* again from a stale copy (provision.go).
THEOREM Provisioned == PartSpec => []InjectedIsCurrent
<1>1. (part = "provisioning" => ProvisioningInv) => InjectedIsCurrent
  BY DEF ProvisioningInv, InjectedIsCurrent
<1> QED
  BY <1>1, ProvisioningCarried, PTL

-----------------------------------------------------------------------------
(* Manifests *)

\* Routes carry verified hosts alone, and a host is verified for one tenant.
ManifestsInv ==
    /\ M!ManifestsTypeOK
    /\ \A t \in Tenants : hostnames[t] \subseteq verified[t]
    /\ \A t, u \in Tenants : t # u => verified[t] \intersect verified[u] = {}

LEMMA ManifestsStart == ASSUME M!ManifestsInit PROVE ManifestsInv
BY DEF ManifestsInv, M!ManifestsInit, M!ManifestsTypeOK

LEMMA ManifestsStep == ASSUME ManifestsInv, M!ManifestsNext PROVE ManifestsInv'
<1> USE DEF ManifestsInv, M!ManifestsTypeOK
<1> SUFFICES ASSUME UNCHANGED application, NEW t \in Tenants,
                 \/ \E policy \in M!Expected : M!Remove(t, policy) \/ M!Repair(t, policy)
                 \/ M!Disown(t) \/ M!DesiredNamespace(t) \/ M!RenderHTTPRoute(t)
                 \/ \E host \in Extra :
                        M!PassChallenge(t, host) \/ M!AppendVerifiedHostname(t, host)
             PROVE  ManifestsInv'
  BY DEF M!ManifestsNext
<1>1. ASSUME NEW policy \in M!Expected, M!Remove(t, policy) PROVE ManifestsInv'
  BY <1>1 DEF M!Remove
<1>2. ASSUME NEW policy \in M!Expected, M!Repair(t, policy) PROVE ManifestsInv'
  BY <1>2 DEF M!Repair
<1>3. ASSUME M!Disown(t) PROVE ManifestsInv'
  BY <1>3 DEF M!Disown
<1>4. ASSUME M!DesiredNamespace(t) PROVE ManifestsInv'
  BY <1>4 DEF M!DesiredNamespace
<1>5. ASSUME M!RenderHTTPRoute(t) PROVE ManifestsInv'
  BY <1>5 DEF M!RenderHTTPRoute
<1>6. ASSUME NEW host \in Extra, M!PassChallenge(t, host) PROVE ManifestsInv'
  BY <1>6 DEF M!PassChallenge
<1>7. ASSUME NEW host \in Extra, M!AppendVerifiedHostname(t, host) PROVE ManifestsInv'
  BY <1>7 DEF M!AppendVerifiedHostname
<1> QED
  BY <1>1, <1>2, <1>3, <1>4, <1>5, <1>6, <1>7

LEMMA ManifestsCarried == PartSpec => [](part = "manifests" => ManifestsInv)
<1>1. PartInit => (part = "manifests" => ManifestsInv)
  BY ManifestsStart DEF PartInit
<1>2. ASSUME part = "manifests" => ManifestsInv, [ServiceNext \/ LibraryNext]_partVars
      PROVE  (part = "manifests" => ManifestsInv)'
  <2>1. ASSUME ManifestsInv, UNCHANGED manifestsVars PROVE ManifestsInv'
    BY <2>1 DEF manifestsVars, ManifestsInv, M!ManifestsTypeOK
  <2> QED
    BY <1>2, <2>1, PartMoves, ManifestsStep
<1> QED
  BY <1>1, <1>2, PTL DEF PartSpec

\* The policy that denies egress selects every pod of its namespace, so that
\* only what a rule names is open.
LEMMA EgressIsNamed ==
    ASSUME NEW t \in Tenants, "deny-all-egress" \in policies[t],
           NEW from, from.ns = t, NEW to, M!Opens(M!Egress, t, from, to)
    PROVE  to.role = "kube-dns"
           \/ (to.ns = "tenara-data" /\ to.app = application[t] /\ from.role = "backend")
BY DEF M!Opens, M!Egress, M!Selects, M!EgressRule

LEMMA IngressIsNamed ==
    ASSUME NEW t \in Tenants, "deny-all-ingress" \in policies[t],
           NEW to, to.ns = t, NEW from, M!Opens(M!Expected \ M!Egress, t, to, from)
    PROVE  \/ from.ns = "envoy-gateway-system" /\ to.role = "frontend"
           \/ from.ns = t /\ from.role = "frontend" /\ to.role = "backend"
<1>1. "deny-all-ingress" \in M!Expected \ M!Egress /\ M!Expected \ M!Egress # M!Egress
  BY DEF M!Expected, M!Egress
<1> QED
  BY <1>1 DEF M!Opens, M!Selects, M!IngressRule

\* The pods are those of the tenants and three of the platform.
LEMMA PodsAre ==
    ASSUME NEW pod \in M!Pods
    PROVE  \/ pod.ns \in Tenants /\ pod.role \in {"frontend", "backend"}
           \/ pod.ns = "tenara-data" /\ pod.role = "mongo"
           \/ pod.ns = "kube-system" /\ pod.role = "kube-dns"
           \/ pod.ns = "envoy-gateway-system" /\ pod.role = "gateway"
BY DEF M!Pods, M!Pod

LEMMA PodsApart ==
    ASSUME \A t \in Tenants : {"deny-all-ingress", "deny-all-egress"} \subseteq policies[t],
           NEW from \in M!Pods, NEW to \in M!Pods, M!Admitted(from, to)
    PROVE  /\ from.ns \in Tenants =>
                  to.role = "kube-dns" \/ (to.role = "mongo" /\ from.role = "backend"
                                           /\ to.app = application[from.ns])
           /\ to.ns \in Tenants => from.role = "gateway" \/ from.ns = to.ns
<1>1. ASSUME from.ns \in Tenants
      PROVE  to.role = "kube-dns"
             \/ (to.ns = "tenara-data" /\ to.app = application[from.ns] /\ from.role = "backend")
  <2>1. "deny-all-egress" \in policies[from.ns] /\ M!Opens(M!Egress, from.ns, from, to)
    BY <1>1 DEF M!Admitted
  <2> QED
    BY <1>1, <2>1, EgressIsNamed
<1>2. ASSUME to.ns \in Tenants
      PROVE  \/ from.ns = "envoy-gateway-system" /\ to.role = "frontend"
             \/ from.ns = to.ns /\ from.role = "frontend" /\ to.role = "backend"
  <2>1. /\ "deny-all-ingress" \in policies[to.ns]
        /\ M!Opens(M!Expected \ M!Egress, to.ns, to, from)
    BY <1>2 DEF M!Admitted
  <2> QED
    BY <1>2, <2>1, IngressIsNamed
<1> QED
  BY <1>1, <1>2, PodsAre, PartsAssumption

\* While the policies that deny stand, environments never meet in the network
\* but in the MongoDB of their common application, and a host leads to one
\* environment at most (netpol.go, httproute.go).
THEOREM TenantsApart == PartSpec => []TenantsAreSeparate
<1>1. ASSUME ManifestsInv PROVE M!TenantsAreSeparate
  <2>1. \A t, u \in Tenants : t # u => hostnames[t] \intersect hostnames[u] = {}
    BY <1>1 DEF ManifestsInv
  <2> QED
    BY <2>1, PodsApart DEF M!TenantsAreSeparate
<1>2. (part = "manifests" => ManifestsInv) => TenantsAreSeparate
  BY <1>1 DEF TenantsAreSeparate
<1> QED
  BY <1>2, ManifestsCarried, PTL

-----------------------------------------------------------------------------
(* Analysis *)

Drafts(d) == N!Parse(d) /\ N!Plannable(d)

\* A draft is accepted and has its estimates; what is stored was accepted, and
\* what is planned has an estimate for each of its services.
AnalysisInv ==
    /\ draft # Unset => Drafts(draft)
    /\ spec # Unset => N!Parse(spec)
    /\ sizes # Unset => spec # Unset /\ DOMAIN sizes = DOMAIN spec.services

\* What the generator makes of the candidates: frontends and backends of
\* runtimes it knows, and routes to services of those types.
LEMMA DraftedIsAccepted ==
    ASSUME NEW found, found # {},
           \A p \in found : N!DetectService(p).runtime \in {"node", "python", "go"},
           NEW routing \in N!BuildRouting(N!ServicesOf(found)), NEW mongo
    PROVE  Drafts([services |-> N!ServicesOf(found), routing |-> routing, mongodb |-> mongo])
<1> DEFINE offered == N!ServicesOf(found)
           draught == [services |-> offered, routing |-> routing, mongodb |-> mongo]
<1>1. /\ DOMAIN offered = found
      /\ \A p \in found : /\ offered[p].type = N!TypeOf(N!DetectService(p))
                          /\ offered[p].runtime = N!DetectService(p).runtime
  BY DEF N!ServicesOf
<1>2. \A p \in found : offered[p].type \in {"frontend", "backend"}
  BY <1>1 DEF N!TypeOf
<1>3. \A x \in DOMAIN routing : routing[x] \in found
  BY <1>1 DEF N!BuildRouting
<1>4. draught.services = offered /\ draught.routing = routing
  OBVIOUS
<1>5. N!Parse(draught)
  BY <1>1, <1>2, <1>3, <1>4 DEF N!Parse, N!IsHTTPType
<1>6. N!Plannable(draught)
  BY <1>1, <1>2, <1>4 DEF N!Plannable, N!ResourceByType
<1> QED
  BY <1>5, <1>6 DEF Drafts

LEMMA AnalysisStep == ASSUME AnalysisInv, N!AnalysisNext PROVE AnalysisInv'
<1>1. ASSUME NEW traits, NEW globs, NEW mongo, N!Checkout(traits, globs, mongo)
      PROVE  AnalysisInv'
  BY <1>1 DEF N!Checkout, AnalysisInv, Drafts, N!Parse, N!Plannable
<1>2. ASSUME N!Generate PROVE AnalysisInv'
  <2>1. PICK routing \in N!BuildRouting(N!ServicesOf(N!Detect)) :
            draft' = [services |-> N!ServicesOf(N!Detect), routing |-> routing,
                      mongodb |-> N!DetectMongoDB]
    BY <1>2 DEF N!Generate, N!Drafted
  <2>2. /\ UNCHANGED <<spec, sizes>> /\ N!Detect # {}
        /\ \A p \in N!Detect : N!DetectService(p).runtime \in {"node", "python", "go"}
    BY <1>2 DEF N!Generate, N!Drafted
  <2>3. Drafts([services |-> N!ServicesOf(N!Detect), routing |-> routing,
                mongodb |-> N!DetectMongoDB])
    BY <2>2, DraftedIsAccepted
  <2> QED
    BY <2>1, <2>2, <2>3 DEF AnalysisInv, Drafts, N!Parse, N!Plannable
<1>3. ASSUME NEW s, spec = Unset, N!PutSpec(s) PROVE AnalysisInv'
  BY <1>3 DEF N!PutSpec, AnalysisInv, Drafts, N!Parse, N!Plannable
<1>4. ASSUME N!GeneratePlan PROVE AnalysisInv'
  BY <1>4 DEF N!GeneratePlan, AnalysisInv, Drafts, N!Parse, N!Plannable
<1>5. ASSUME N!Forget PROVE AnalysisInv'
  BY <1>5 DEF N!Forget, AnalysisInv
<1> QED
  BY <1>1, <1>2, <1>3, <1>4, <1>5 DEF N!AnalysisNext

LEMMA AnalysisCarried == PartSpec => [](part = "analysis" => AnalysisInv)
<1>1. PartInit => (part = "analysis" => AnalysisInv)
  BY DEF PartInit, N!AnalysisInit, AnalysisInv
<1>2. ASSUME part = "analysis" => AnalysisInv, [ServiceNext \/ LibraryNext]_partVars
      PROVE  (part = "analysis" => AnalysisInv)'
  <2>1. ASSUME AnalysisInv, UNCHANGED analysisVars PROVE AnalysisInv'
    BY <2>1 DEF analysisVars, AnalysisInv, Drafts, N!Parse, N!Plannable
  <2> QED
    BY <1>2, <2>1, PartMoves, AnalysisStep
<1> QED
  BY <1>1, <1>2, PTL DEF PartSpec

\* What the analyzer accepts the AppSpec admits and the plan has estimates for,
\* and what is planned has one for all that is routed to (plan.Generate).
THEOREM AnalyzedDeployable == PartSpec => []AnalyzedIsDeployable
<1>1. (part = "analysis" => AnalysisInv) => AnalyzedIsDeployable
  BY DEF AnalysisInv, Drafts, N!Parse, N!AnalyzedIsDeployable, AnalyzedIsDeployable
<1> QED
  BY <1>1, AnalysisCarried, PTL

-----------------------------------------------------------------------------
(* The types of all the parts *)

\* Users, tokens, rows, objects and calls of every part stay what they are, for
\* any sets of them: the types the modules give to what the tables and the
\* programs hold.
THEOREM TypesCorrect == PartSpec => []TypesOK
<1>1. PartSpec => []TypeOK
  BY AccountsInside, AccountsTypeCorrect, PTL
<1>2. PartSpec => []WorkspacesTypeOK
  BY WorkspacesInside, WorkspacesTypeCorrect, PTL
<1>3. PartSpec => []AppsTypeOK
  BY AppsInside, AppsTypeCorrect, PTL
<1>4. PartSpec => []BindingsTypeOK
  BY BindingsInside, BindingsTypeCorrect, PTL
<1>5. PartSpec => []OrchestratorTypeOK
  BY OrchestratorInside, OrchestratorTypeCorrect, PTL
<1>6. PartSpec => []BudgetsTypeOK
  BY BudgetsInside, BudgetsTypeCorrect, PTL
<1>7. PartSpec => []PreviewsTypeOK
  BY PreviewsInside, PreviewsTypeCorrect, PTL
<1>8. GitHubInv => G!TypeOK
  BY DEF GitHubInv
<1>9. CellsInv => C!CellsTypeOK
  BY DEF CellsInv
<1>10. ProvisioningInv => D!ProvisioningTypeOK
  BY DEF ProvisioningInv
<1>11. ManifestsInv => M!ManifestsTypeOK
  BY DEF ManifestsInv
<1> QED
  BY <1>1, <1>2, <1>3, <1>4, <1>5, <1>6, <1>7, <1>8, <1>9, <1>10, <1>11, GitHubCarried,
     CellsCarried, ProvisioningCarried, ManifestsCarried, PTL DEF TypesOK

-----------------------------------------------------------------------------
(* Loops *)

\* What holds at the start and is kept by each turn holds after each.
LEMMA Climb ==
    ASSUME NEW n \in Nat, NEW reached, 0 \in reached,
           \A i \in 1 .. n : i - 1 \in reached => i \in reached
    PROVE  \A i \in 0 .. n : i \in reached
<1> DEFINE missed == {i \in 0 .. n : i \notin reached}
<1> SUFFICES ASSUME missed # {} PROVE FALSE
  OBVIOUS
<1>1. PICK i \in missed : \A j \in missed : i <= j
  <2>1. missed \subseteq Nat
    OBVIOUS
  <2> HIDE DEF missed
  <2> QED
    BY <2>1, LeastIsLeast
<1>2. i \in 1 .. n /\ i - 1 \in 0 .. n /\ ~ (i <= i - 1)
  OBVIOUS
<1>3. i - 1 \notin missed
  BY <1>1, <1>2
<1> QED
  BY <1>2, <1>3


\* f[i] is what the variable of a loop holds after its i-th turn.
Runs(f, n, V0, start, turn) ==
    /\ f \in [0 .. n -> V0] /\ f[0] = start
    /\ \A i \in 1 .. n : f[i] = turn[i][f[i - 1]]

LEMMA LoopRuns ==
    ASSUME NEW n \in Nat, NEW V0, NEW start \in V0, NEW turn \in [1 .. n -> [V0 -> V0]]
    PROVE  \E f : Runs(f, n, V0, start, turn)
<1> DEFINE Run(k, f) == Runs(f, k, V0, start, turn)
           reached == {k \in 0 .. n : \E f : Run(k, f)}
<1>1. 0 \in reached
  <2>1. Run(0, [i \in 0 .. 0 |-> start])
    BY DEF Runs
  <2>2. 0 \in 0 .. n
    OBVIOUS
  <2> HIDE DEF Run
  <2> QED
    BY <2>1, <2>2
<1>2. ASSUME NEW k \in 1 .. n, k - 1 \in reached PROVE k \in reached
  <2>1. PICK f : Run(k - 1, f)
    BY <1>2
  <2> DEFINE g == [i \in 0 .. k |-> IF i = k THEN turn[k][f[k - 1]] ELSE f[i]]
  <2>2. f[k - 1] \in V0 /\ turn[k][f[k - 1]] \in V0
    BY <2>1 DEF Runs
  <2>3. g \in [0 .. k -> V0] /\ g[0] = start
    BY <2>1, <2>2 DEF Runs
  <2>4. ASSUME NEW i \in 1 .. k PROVE g[i] = turn[i][g[i - 1]]
    <3>1. i - 1 \in 0 .. k /\ i - 1 # k /\ i \in 0 .. k
      OBVIOUS
    <3>2. g[i - 1] = f[i - 1]
      BY <3>1
    <3>3. CASE i = k
      <4>1. g[i] = turn[k][f[k - 1]]
        BY <3>1, <3>3
      <4> QED
        BY <4>1, <3>2, <3>3
    <3>4. CASE i # k
      <4>1. g[i] = f[i] /\ i \in 1 .. k - 1
        BY <3>1, <3>4
      <4> QED
        BY <2>1, <4>1, <3>2 DEF Runs
    <3> QED
      BY <3>3, <3>4
  <2>5. Run(k, g)
    <3> HIDE DEF g
    <3> QED
      BY <2>3, <2>4 DEF Runs
  <2>6. k \in 0 .. n
    OBVIOUS
  <2> HIDE DEF Run
  <2> QED
    BY <2>5, <2>6
<1> HIDE DEF reached
<1>3. \A i \in 0 .. n : i \in reached
  BY <1>1, <1>2, Climb
<1>4. n \in reached
  BY <1>3
<1> QED
  BY <1>4 DEF reached

\* Loop is what such a function holds in the end.
LEMMA LoopEnds ==
    ASSUME NEW n \in Nat, NEW V0, NEW start \in V0, NEW turn \in [1 .. n -> [V0 -> V0]]
    PROVE  \E f : Runs(f, n, V0, start, turn) /\ V!Loop(turn, start, n) = f[n]
<1> DEFINE F(g) == [i \in 0 .. n |-> IF i = 0 THEN start ELSE turn[i][g[i - 1]]]
           h == CHOOSE g : g = F(g)
<1>1. PICK f : Runs(f, n, V0, start, turn)
  BY LoopRuns
<1>2. f = F(f)
  BY <1>1 DEF Runs
<1>3. V!Loop(turn, start, n) = h[n]
  BY DEF V!Loop
<1>4. h = F(h)
  BY <1>2
<1> HIDE DEF h
<1>5. DOMAIN h = 0 .. n /\ h[0] = start /\ \A i \in 1 .. n : h[i] = turn[i][h[i - 1]]
  BY <1>4
<1> DEFINE typed == {i \in 0 .. n : h[i] \in V0}
<1>6. \A i \in 0 .. n : i \in typed
  <2>1. 0 \in typed
    BY <1>5
  <2>2. ASSUME NEW i \in 1 .. n, i - 1 \in typed PROVE i \in typed
    <3>1. h[i - 1] \in V0 /\ i \in 0 .. n
      BY <2>2
    <3>2. turn[i][h[i - 1]] \in V0
      BY <3>1
    <3> QED
      BY <1>5, <3>1, <3>2
  <2> HIDE DEF typed
  <2> QED
    BY <2>1, <2>2, Climb
<1>7. Runs(h, n, V0, start, turn)
  BY <1>4, <1>5, <1>6 DEF Runs
<1> QED
  BY <1>3, <1>7

-----------------------------------------------------------------------------
(* Verdicts *)

NumberOf(b) == b.number
\* The revisions a rollback may go to.
Good(revs, current) == {i \in DOMAIN revs : revs[i].number < current /\ revs[i].gates}

\* The loop over the revisions ends at one of the good ones, none newer, or at
\* nothing if there is none.
LEMMA BestIsNewest ==
    ASSUME NEW n \in Nat, NEW revs \in [1 .. n -> V!Snapshots], NEW current \in Nat
    PROVE  /\ \/ V!BestBehind(revs, current) = V!NoSnapshot
              \/ \E i \in Good(revs, current) : V!BestBehind(revs, current) = revs[i]
           /\ \A i \in Good(revs, current) :
                  revs[i].number <= V!BestBehind(revs, current).number
<1> DEFINE V0 == V!Snapshots \union {V!NoSnapshot}
           Turn(i, b) == IF /\ revs[i].number < current /\ revs[i].gates
                            /\ revs[i].number > b.number
                         THEN revs[i] ELSE b
           turn == [i \in 1 .. n |-> [b \in V0 |-> Turn(i, b)]]
           good == Good(revs, current)
<1>1. Len(revs) = n /\ DOMAIN revs = 1 .. n
  OBVIOUS
<1>2. V!BestBehind(revs, current) = V!Loop(turn, V!NoSnapshot, n)
  BY <1>1 DEF V!BestBehind
<1>3. /\ \A i \in 1 .. n : revs[i] \in V!Snapshots
      /\ \A b \in V0 : b.number \in Nat
      /\ V!NoSnapshot.number = 0 /\ V!NoSnapshot \in V0
  BY PartsAssumption DEF V!Snapshots, V!NoSnapshot
<1>4. \A i \in 1 .. n, b \in V0 : Turn(i, b) \in V0
  BY <1>3
<1>5. turn \in [1 .. n -> [V0 -> V0]]
  BY <1>4
<1>6. \A i \in 1 .. n, b \in V0 : turn[i][b] = Turn(i, b)
  OBVIOUS
<1> HIDE DEF turn, V0
<1>7. PICK f : Runs(f, n, V0, V!NoSnapshot, turn) /\ V!Loop(turn, V!NoSnapshot, n) = f[n]
  BY <1>3, <1>5, LoopEnds
<1> DEFINE Kept(k) == /\ f[k] \in V0
                      /\ f[k] = V!NoSnapshot \/ \E i \in good : f[k] = revs[i]
                      /\ \A i \in good : i <= k => revs[i].number <= f[k].number
           reached == {k \in 0 .. n : Kept(k)}
<1>8. 0 \in reached
  <2>1. f[0] = V!NoSnapshot
    BY <1>7 DEF Runs
  <2>2. \A i \in good : ~ (i <= 0)
    BY <1>1 DEF Good
  <2> QED
    BY <1>3, <2>1, <2>2
<1>9. ASSUME NEW k \in 1 .. n, k - 1 \in reached PROVE k \in reached
  <2>1. Kept(k - 1) /\ k - 1 \in 0 .. n /\ k \in 0 .. n
    BY <1>9
  <2>2. f[k] = Turn(k, f[k - 1])
    BY <1>6, <1>7, <2>1 DEF Runs
  <2>3. f[k] \in V0
    BY <1>4, <2>1, <2>2
  <2>4. f[k].number \in Nat /\ f[k - 1].number \in Nat /\ revs[k].number \in Nat
    BY <1>3, <2>1, <2>3 DEF V!Snapshots, V0
  <2>5. CASE k \in good /\ revs[k].number > f[k - 1].number
    <3>1. f[k] = revs[k]
      BY <2>2, <2>5 DEF Good
    <3>2. \A i \in good : i <= k => revs[i].number <= f[k].number
      <4>1. \A i \in good : i \in 1 .. n /\ revs[i].number \in Nat
        BY <1>1, <1>3 DEF Good, V!Snapshots, V0
      <4>2. \A i \in good : i <= k => i = k \/ i <= k - 1
        BY <4>1
      <4> QED
        BY <2>1, <2>4, <2>5, <3>1, <4>1, <4>2
    <3> QED
      BY <2>1, <2>3, <2>5, <3>1, <3>2
  <2>6. CASE ~ (k \in good /\ revs[k].number > f[k - 1].number)
    <3>1. f[k] = f[k - 1]
      BY <1>1, <2>2, <2>6 DEF Good
    <3>2. \A i \in good : i <= k => revs[i].number <= f[k].number
      <4>1. \A i \in good : i \in 1 .. n
        BY <1>1 DEF Good
      <4>2. \A i \in good : i <= k => i = k \/ i <= k - 1
        BY <4>1
      <4>3. k \in good => revs[k].number <= f[k].number
        BY <2>4, <2>6, <3>1
      <4> QED
        BY <2>1, <3>1, <4>2, <4>3
    <3> QED
      BY <2>1, <2>3, <3>1, <3>2
  <2> QED
    BY <2>5, <2>6
<1> HIDE DEF Kept
<1>10. n \in reached
  <2>1. \A k \in 0 .. n : k \in reached
    <3> HIDE DEF reached
    <3> QED
      BY <1>8, <1>9, Climb
  <2> QED
    BY <2>1
<1>11. Kept(n) /\ \A i \in good : i <= n
  BY <1>1, <1>10 DEF Good
<1> QED
  BY <1>2, <1>7, <1>11 DEF Kept

\* The one that is asked for, if it is a good one.
LEMMA AskedIsFound ==
    ASSUME NEW n \in Nat, NEW revs \in [1 .. n -> V!Snapshots], NEW current \in Nat,
           NEW target \in Nat \ {0}, V!Distinct(revs)
    PROVE  V!FindEligible(revs, current, target) = V!RightTarget(revs, current, target)
<1> DEFINE asked == {i \in DOMAIN revs : revs[i].number = target}
           good == {i \in DOMAIN revs : /\ revs[i].number < current /\ revs[i].gates
                                        /\ target \in {0, revs[i].number}}
<1>1. \A i, j \in asked : i = j
  BY DEF V!Distinct
<1>2. good \subseteq asked /\ good = {i \in asked : revs[i].number < current /\ revs[i].gates}
  OBVIOUS
<1>3. CASE asked = {}
  BY <1>2, <1>3 DEF V!FindEligible, V!RightTarget
<1>4. CASE asked # {}
  <2>1. PICK i \in asked : TRUE
    BY <1>4
  <2>2. i \in Nat /\ \A S : S \subseteq asked /\ S # {} => S = {i}
    BY <1>1, <2>1
  <2>3. revs[i].number \in Nat
    BY <2>1
  <2>4. (CHOOSE j \in asked : \A k \in asked : j <= k) = i
    BY <1>1, <2>1, <2>2
  <2>5. V!FindEligible(revs, current, target) =
            IF revs[i].number < current /\ revs[i].gates THEN revs[i] ELSE V!NoSnapshot
    <3> DEFINE first == CHOOSE j \in asked : \A k \in asked : j <= k
    <3>1. V!FindEligible(revs, current, target) =
              IF asked # {} /\ revs[first].number < current /\ revs[first].gates
              THEN revs[first] ELSE V!NoSnapshot
      BY DEF V!FindEligible
    <3> HIDE DEF first
    <3>2. first = i
      BY <2>4 DEF first
    <3> QED
      BY <1>4, <3>1, <3>2
  <2>6. CASE good = {}
    BY <1>2, <2>1, <2>5, <2>6 DEF V!RightTarget
  <2>7. CASE good # {}
    <3>1. good = {i}
      BY <1>2, <2>2, <2>7
    <3>2. (CHOOSE j \in good : \A k \in good : revs[j].number >= revs[k].number) = i
      BY <2>3, <3>1
    <3>3. V!RightTarget(revs, current, target) = revs[i]
      BY <2>7, <3>2 DEF V!RightTarget
    <3>4. revs[i].number < current /\ revs[i].gates
      BY <3>1
    <3> QED
      BY <2>5, <3>3, <3>4
  <2> QED
    BY <2>6, <2>7
<1> QED
  BY <1>3, <1>4

LEMMA RollbackIsRight ==
    ASSUME NEW n \in Nat, NEW revs \in [1 .. n -> V!Snapshots], NEW current \in Nat,
           NEW target \in Nat, V!Distinct(revs)
    PROVE  V!ResolveRollbackTarget(revs, current, target)
               = V!RightTarget(revs, current, target)
<1>1. CASE target # 0
  BY <1>1, AskedIsFound DEF V!ResolveRollbackTarget
<1>2. CASE target = 0
  <2> DEFINE best == V!BestBehind(revs, current)
             good == Good(revs, current)
             newest == CHOOSE i \in good : \A j \in good : revs[i].number >= revs[j].number
  <2>1. /\ V!ResolveRollbackTarget(revs, current, target) = best
        /\ V!RightTarget(revs, current, target) =
               IF good = {} THEN V!NoSnapshot ELSE revs[newest]
    <3>1. good = {i \in DOMAIN revs : /\ revs[i].number < current /\ revs[i].gates
                                      /\ target \in {0, revs[i].number}}
      BY <1>2 DEF Good
    <3> QED
      BY <1>2, <3>1 DEF V!ResolveRollbackTarget, V!RightTarget
  <2>2. \A i \in good : revs[i] \in V!Snapshots /\ revs[i].number \in Nat \ {0} /\ i \in 1 .. n
    BY PartsAssumption DEF Good, V!Snapshots
  <2>3. /\ best = V!NoSnapshot \/ \E i \in good : best = revs[i]
        /\ \A i \in good : revs[i].number <= best.number
    BY BestIsNewest
  <2> HIDE DEF best, good
  <2>4. CASE good = {}
    BY <2>1, <2>3, <2>4
  <2>5. CASE good # {}
    <3>1. best # V!NoSnapshot
      BY <2>2, <2>3, <2>5 DEF V!NoSnapshot
    <3>2. PICK i \in good : best = revs[i]
      BY <2>3, <3>1
    <3>3. newest \in good /\ \A j \in good : revs[newest].number >= revs[j].number
      BY <2>2, <2>3, <3>2
    <3>4. revs[newest].number = revs[i].number
      BY <2>2, <2>3, <3>2, <3>3
    <3>5. newest = i
      BY <3>3, <3>4 DEF V!Distinct, good, Good
    <3> QED
      BY <2>1, <2>5, <3>2, <3>5
  <2> QED
    BY <2>4, <2>5
<1> QED
  BY <1>1, <1>2

\* One step that failed is enough.
LEMMA AggregateIsAll ==
    ASSUME NEW n \in Nat, NEW steps \in [1 .. n -> [id: Nat, status: V!Statuses]]
    PROVE  V!Aggregate(steps) = "RUNNING" <=> \A i \in 1 .. n : steps[i].status # "fail"
<1> DEFINE V0 == {"RUNNING", "DEGRADED"}
           turn == [i \in 1 .. n |->
                       [b \in V0 |-> IF steps[i].status = "fail" THEN "DEGRADED" ELSE b]]
<1>1. V!Aggregate(steps) = V!Loop(turn, "RUNNING", n)
  BY DEF V!Aggregate
<1>2. /\ turn \in [1 .. n -> [V0 -> V0]] /\ "RUNNING" \in V0
      /\ \A i \in 1 .. n, b \in V0 :
            turn[i][b] = IF steps[i].status = "fail" THEN "DEGRADED" ELSE b
  OBVIOUS
<1> HIDE DEF turn
<1>3. PICK f : Runs(f, n, V0, "RUNNING", turn) /\ V!Loop(turn, "RUNNING", n) = f[n]
  <2> HIDE DEF V0
  <2> QED
    BY <1>2, LoopEnds
<1> DEFINE reached == {k \in 0 .. n : f[k] = "RUNNING" <=>
                                           \A i \in 1 .. k : steps[i].status # "fail"}
<1>4. 0 \in reached
  BY <1>3 DEF Runs
<1>5. ASSUME NEW k \in 1 .. n, k - 1 \in reached PROVE k \in reached
  <2>1. f[k] = IF steps[k].status = "fail" THEN "DEGRADED" ELSE f[k - 1]
    BY <1>2, <1>3 DEF Runs
  <2>2. \A i \in 1 .. k : i = k \/ i \in 1 .. k - 1
    OBVIOUS
  <2> QED
    BY <1>5, <2>1, <2>2
<1>6. \A k \in 0 .. n : k \in reached
  <2> HIDE DEF reached
  <2> QED
    BY <1>4, <1>5, Climb
<1>7. n \in reached
  BY <1>6
<1> QED
  BY <1>1, <1>3, <1>7

LEMMA ReportIsRight ==
    ASSUME NEW steps \in V!Lists([id: 1 .. StepCount, status: V!Statuses])
    PROVE  V!ValidateComplete(steps) =>
               ((V!Aggregate(steps) = "RUNNING") <=>
                    \A id \in 1 .. StepCount :
                        \E i \in DOMAIN steps : steps[i].id = id /\ steps[i].status # "fail")
<1> SUFFICES ASSUME V!ValidateComplete(steps)
             PROVE  (V!Aggregate(steps) = "RUNNING") <=>
                        \A id \in 1 .. StepCount :
                            \E i \in DOMAIN steps :
                                steps[i].id = id /\ steps[i].status # "fail"
  OBVIOUS
<1>0. PICK n \in Nat : steps \in [1 .. n -> [id: 1 .. StepCount, status: V!Statuses]]
  BY PartsAssumption DEF V!Lists
<1>1. /\ n = StepCount /\ DOMAIN steps = 1 .. n
      /\ \A i \in 1 .. n : steps[i].id = i
  BY <1>0 DEF V!ValidateComplete
<1>2. V!Aggregate(steps) = "RUNNING" <=> \A i \in 1 .. n : steps[i].status # "fail"
  <2>1. steps \in [1 .. n -> [id: Nat, status: V!Statuses]]
    BY <1>0, PartsAssumption
  <2> QED
    BY <2>1, AggregateIsAll
<1> QED
  BY <1>1, <1>2

\* The first rule that applies, or none if none does.
LEMMA DiagnosisIsRight ==
    ASSUME NEW words
    PROVE  LET class == V!Classify(words)
           IN  /\ \A i \in 1 .. class - 1 : V!rules[i] \intersect words = {}
               /\ IF class = 0 THEN \A i \in DOMAIN V!rules : V!rules[i] \intersect words = {}
                  ELSE V!rules[class] \intersect words # {}
<1> DEFINE n == Len(V!rules)
           V0 == 0 .. n
           Applies(i) == V!rules[i] \intersect words # {}
           turn == [i \in 1 .. n |-> [b \in V0 |-> IF b = 0 /\ Applies(i) THEN i ELSE b]]
<1>1. n \in Nat /\ DOMAIN V!rules = 1 .. n
  BY DEF V!rules
<1>2. V!Classify(words) = V!Loop(turn, 0, n)
  BY <1>1 DEF V!Classify
<1> HIDE DEF n, Applies
<1>3. /\ turn \in [1 .. n -> [V0 -> V0]] /\ 0 \in V0
      /\ \A i \in 1 .. n, b \in V0 : turn[i][b] = IF b = 0 /\ Applies(i) THEN i ELSE b
  BY <1>1
<1> HIDE DEF turn
<1>4. PICK f : Runs(f, n, V0, 0, turn) /\ V!Loop(turn, 0, n) = f[n]
  <2> HIDE DEF V0
  <2> QED
    BY <1>1, <1>3, LoopEnds
<1> DEFINE Kept(k) == /\ f[k] \in 0 .. k
                      /\ f[k] = 0 => \A i \in 1 .. k : ~ Applies(i)
                      /\ f[k] # 0 => Applies(f[k]) /\ \A i \in 1 .. f[k] - 1 : ~ Applies(i)
           reached == {k \in 0 .. n : Kept(k)}
<1>5. 0 \in reached
  BY <1>1, <1>4 DEF Runs
<1>6. ASSUME NEW k \in 1 .. n, k - 1 \in reached PROVE k \in reached
  <2>1. f[k] = IF f[k - 1] = 0 /\ Applies(k) THEN k ELSE f[k - 1]
    <3>1. f[k - 1] \in V0 /\ f[k] = turn[k][f[k - 1]]
      BY <1>1, <1>4, <1>6 DEF Runs
    <3> QED
      BY <1>3, <3>1
  <2>2. \A i \in 1 .. k : i = k \/ i \in 1 .. k - 1
    BY <1>1
  <2> QED
    BY <1>1, <1>6, <2>1, <2>2
<1>7. \A k \in 0 .. n : k \in reached
  <2> HIDE DEF reached
  <2> QED
    BY <1>1, <1>5, <1>6, Climb
<1>8. Kept(n)
  BY <1>1, <1>7
<1> QED
  BY <1>1, <1>2, <1>4, <1>8 DEF Applies

\* More hours never cost less; the free plan has no price per hour.
LEMMA InvoiceIsRight ==
    ASSUME NEW tier \in {"free", "pro"}, NEW hours \in Nat
    PROVE  /\ V!AggregateInvoice(tier, hours) <= V!AggregateInvoice(tier, hours + 25)
           /\ V!AggregateInvoice("free", hours) = 0
<1>1. /\ V!catalog["free"] = [base |-> 0, hours |-> 1000, cents |-> 0]
      /\ V!catalog["pro"] = [base |-> 1900, hours |-> 12000, cents |-> 8]
  BY DEF V!catalog
<1>2. V!AggregateInvoice("free", hours) = 0 /\ V!AggregateInvoice("free", hours + 25) = 0
  BY <1>1 DEF V!AggregateInvoice
<1>3. V!AggregateInvoice("pro", hours) <= V!AggregateInvoice("pro", hours + 25)
  BY <1>1 DEF V!AggregateInvoice
<1> QED
  BY <1>2, <1>3

\* An accepted part of a cron field fires, and within the field.
LEMMA ScheduleIsRight ==
    ASSUME NEW form \in {"*", "*/n", "m-n", "n"}, NEW m \in Nat, NEW n \in Nat,
           NEW lo \in Nat, NEW hi \in Nat, lo <= hi,
           V!CheckPart([form |-> form, m |-> m, n |-> n], lo, hi)
    PROVE  /\ V!FiresAt([form |-> form, m |-> m, n |-> n], lo, hi) # {}
           /\ V!FiresAt([form |-> form, m |-> m, n |-> n], lo, hi) \subseteq lo .. hi
<1>1. CASE form = "*"
  BY <1>1 DEF V!FiresAt
<1>2. CASE form = "*/n"
  <2>1. n >= 1
    BY <1>2 DEF V!CheckPart
  <2>2. (lo - lo) % n = 0
    BY <2>1
  <2>3. V!FiresAt([form |-> form, m |-> m, n |-> n], lo, hi)
            = {v \in lo .. hi : n > 0 /\ (v - lo) % n = 0}
    BY <1>2 DEF V!FiresAt
  <2>4. lo \in {v \in lo .. hi : n > 0 /\ (v - lo) % n = 0}
    BY <2>1, <2>2
  <2> QED
    BY <2>3, <2>4
<1>3. CASE form = "m-n"
  BY <1>3 DEF V!CheckPart, V!FiresAt
<1>4. CASE form = "n"
  BY <1>4 DEF V!CheckPart, V!FiresAt
<1> QED
  BY <1>1, <1>2, <1>3, <1>4

\* Three services have room for a pod each, and an autoscaler its bounds in order.
LEMMA SizeIsRight ==
    ASSUME NEW n \in Nat, NEW ceiling \in Nat
    PROVE  /\ n \in 1 .. 3 => n \in V!Room(n)
           /\ LET hpa == V!RenderHPA(n, ceiling)
              IN  /\ hpa.min >= 1 /\ hpa.min <= hpa.max
                  /\ hpa.min >= n /\ (1 <= ceiling /\ n <= ceiling => hpa.max <= ceiling)
<1>1. ASSUME n \in 1 .. 3 PROVE n \in V!Room(n)
  BY <1>1 DEF V!Room, V!FreeResourceQuota, V!DefaultLimitRange
<1> QED
  BY <1>1 DEF V!RenderHPA

-----------------------------------------------------------------------------
(* The routes *)

\* The routes of the applications, by what their handlers do.
Reads ==
    {<<"GET", "/v1/apps">>, <<"GET", "/v1/apps/:appId">>, <<"GET", "/v1/apps/:appId/domains">>,
     <<"GET", "/v1/apps/:appId/plan">>, <<"GET", "/v1/apps/:appId/deployments">>,
     <<"GET", "/v1/apps/:appId/logs">>, <<"GET", "/v1/apps/:appId/diagnostics">>,
     <<"GET", "/v1/apps/:appId/secrets">>}
Creates ==
    {<<"POST", "/v1/apps">>, <<"PATCH", "/v1/apps/:appId">>,
     <<"POST", "/v1/apps/:appId/services">>, <<"POST", "/v1/apps/:appId/environments">>,
     <<"PUT", "/v1/apps/:appId/spec">>}
Deploys ==
    {<<"POST", "/v1/apps/:appId/deployments">>, <<"POST", "/v1/apps/:appId/rollback">>}
Single(method, path) == {<<method, path>>}
Analyzes == Single("POST", "/v1/apps/:appId/analyze")
Deletes == Single("DELETE", "/v1/apps/:appId")
Attaches == Single("POST", "/v1/apps/:appId/databases")
Binds == Single("POST", "/v1/apps/:appId/domains")
Verifies == Single("POST", "/v1/apps/:appId/domains/:domainId/verify")
Writes == Single("PUT", "/v1/apps/:appId/env")
Reveals == Single("POST", "/v1/apps/:appId/secrets/reveal")

Opens ==
    {<<"POST", "/v1/auth/register">>, <<"POST", "/v1/auth/verify">>, <<"POST", "/v1/auth/login">>,
     <<"POST", "/v1/auth/request-password-reset">>, <<"POST", "/v1/auth/reset-password">>}
Owns == {<<"GET", "/v1/me">>, <<"GET", "/v1/auditlogs">>, <<"GET", "/v1/tokens">>,
         <<"DELETE", "/v1/tokens/:tokenId">>}
Issues == Single("POST", "/v1/tokens")
Lists == Single("GET", "/v1/members")
Invites == Single("POST", "/v1/members")
Probes == {<<"GET", "/healthz">>, <<"GET", "/readyz">>, <<"POST", "/v1/analyze">>}
Hooks(hook) == IF hook THEN {<<"POST", "/v1/webhooks/github">>} ELSE {}

LEMMA AppRoutesAre ==
    V!AppRoutes =
        V!Mount(V!Reading("app:read"), Reads)
        \union V!Mount(V!Recorded("app:create"), Creates)
        \union V!Mount(V!Acting("app:create"), Analyzes)
        \union V!Mount(V!Recorded("app:delete"), Deletes)
        \union V!Mount(V!Recorded("app:deploy"), Deploys)
        \union V!Mount(V!Recorded("database:create"), Attaches)
        \union V!Mount(V!Recorded("domain:bind"), Binds)
        \union V!Mount(V!Acting("domain:bind"), Verifies)
        \union V!Mount(V!Recorded("secret:write"), Writes)
        \union V!Mount(V!Acting("secret:reveal"), Reveals)
  BY DEF V!AppRoutes, Reads, Creates, Analyzes, Deletes, Deploys, Attaches, Binds, Verifies,
         Writes, Reveals, Single

LEMMA AuthRoutesAre ==
    V!AuthRoutes =
        V!Mount(<<>>, Opens)
        \union V!Mount(<<"authenticated">>, Owns)
        \union V!Mount(<<"authenticated", "idem", "audited">>, Issues)
        \union V!Mount(<<"app:read">>, Lists)
        \union V!Mount(<<"member:invite", "idem", "audited">>, Invites)
  BY DEF V!AuthRoutes, Opens, Owns, Issues, Lists, Invites, Single

LEMMA ServerRoutesAre ==
    \A hook : V!ServerRoutes(hook) = V!Mount(<<>>, Probes \union Hooks(hook))
  BY DEF V!ServerRoutes, Probes, Hooks

LEMMA MountRoutes ==
    ASSUME NEW layers, NEW routes, NEW mount \in V!Mount(layers, routes)
    PROVE  mount.route \in routes /\ mount.layers = layers
  BY DEF V!Mount

LEMMA MountServes ==
    ASSUME NEW hook, NEW layers, NEW routes, NEW r \in routes,
           V!Mount(layers, routes) \subseteq V!Served(hook)
    PROVE  V!IsServed(r, hook)
<1>1. [route |-> r, layers |-> layers] \in V!Mount(layers, routes)
  BY DEF V!Mount
<1> QED
  BY <1>1 DEF V!IsServed

\* All that is served, by its layers.
RecordedRoutes == Creates \union Deletes \union Deploys \union Attaches \union Binds \union Writes
ActingRoutes == Analyzes \union Verifies \union Reveals

LEMMA Serves ==
    ASSUME NEW hook,
           NEW r \in Reads \union RecordedRoutes \union ActingRoutes \union Opens \union Owns
                     \union Issues \union Lists \union Invites \union Probes
    PROVE  V!IsServed(r, hook)
<1>1. CASE r \in Reads \union RecordedRoutes \union ActingRoutes
  BY <1>1, AppRoutesAre, MountServes DEF V!Served, RecordedRoutes, ActingRoutes
<1>2. CASE r \in Opens \union Owns \union Issues \union Lists \union Invites
  BY <1>2, AuthRoutesAre, MountServes DEF V!Served
<1>3. CASE r \in Probes
  BY <1>3, ServerRoutesAre, MountServes DEF V!Served
<1> QED
  BY <1>1, <1>2, <1>3

-----------------------------------------------------------------------------
(* The contract *)

Unserved ==
    {<<"GET", "/v1/admin/apps">>, <<"GET", "/v1/admin/security-events">>,
     <<"GET", "/v1/admin/users">>, <<"PUT", "/v1/admin/quota">>,
     <<"POST", "/v1/admin/users/:userId/suspend">>,
     <<"GET", "/v1/apps/:appId/deployments/:deploymentId">>,
     <<"POST", "/v1/apps/:appId/restart">>, <<"GET", "/v1/github/start">>,
     <<"GET", "/v1/github/callback">>, <<"GET", "/v1/github/repos">>,
     <<"DELETE", "/v1/github/binding">>}

LEMMA TakingRoutes ==
    ASSUME NEW parameters, NEW routes, NEW op \in V!Taking(parameters, routes)
    PROVE  op.route \in routes /\ op.takes = parameters
  BY DEF V!Taking

LEMMA OperationsAre ==
    ASSUME NEW op \in V!Contract
    PROVE  op.route \in Reads \union RecordedRoutes \union ActingRoutes \union Opens \union Owns
                        \union Issues \union Lists \union Invites \union Probes \union Unserved
<1>1. CASE op \in V!AdminOps
  <2>1. op.route \in {<<"GET", "/healthz">>, <<"GET", "/readyz">>, <<"GET", "/v1/admin/apps">>,
                <<"GET", "/v1/admin/security-events">>, <<"GET", "/v1/admin/users">>}
      \/ op.route \in {<<"PUT", "/v1/admin/quota">>,
                            <<"POST", "/v1/admin/users/:userId/suspend">>}
    BY <1>1, TakingRoutes DEF V!AdminOps
  <2> QED
    BY <2>1 DEF Probes, Unserved
<1>2. CASE op \in V!AppOps
  <2>1. op.route \in {<<"GET", "/v1/apps">>, <<"GET", "/v1/apps/:appId">>}
        \/ op.route \in {<<"POST", "/v1/analyze">>, <<"POST", "/v1/apps">>,
                         <<"DELETE", "/v1/apps/:appId">>, <<"PATCH", "/v1/apps/:appId">>}
    BY <1>2, TakingRoutes DEF V!AppOps
  <2> QED
    BY <2>1 DEF Reads, Probes, RecordedRoutes, Creates, Deletes, Single
<1>3. CASE op \in V!DeploymentOps
  <2>1. op.route \in {<<"GET", "/v1/apps/:appId/deployments/:deploymentId">>,
                <<"GET", "/v1/apps/:appId/diagnostics">>}
        \/ op.route \in {<<"POST", "/v1/apps/:appId/databases">>,
                            <<"POST", "/v1/apps/:appId/deployments">>}
    BY <1>3, TakingRoutes DEF V!DeploymentOps
  <2> QED
    BY <2>1 DEF Unserved, Reads, RecordedRoutes, Deploys, Attaches, Single
<1>4. CASE op \in V!DomainOps
  <2>1. op.route \in {<<"GET", "/v1/apps/:appId/domains">>}
        \/ op.route \in {<<"POST", "/v1/apps/:appId/domains">>,
                            <<"POST", "/v1/apps/:appId/domains/:domainId/verify">>}
    BY <1>4, TakingRoutes DEF V!DomainOps
  <2> QED
    BY <2>1 DEF Reads, RecordedRoutes, ActingRoutes, Binds, Verifies, Single
<1>5. CASE op \in V!EnvironmentOps
  <2>1. op.route \in {<<"GET", "/v1/apps/:appId/plan">>}
        \/ op.route \in {<<"GET", "/v1/apps/:appId/logs">>}
        \/ op.route \in {<<"PUT", "/v1/apps/:appId/env">>,
                            <<"POST", "/v1/apps/:appId/environments">>}
    BY <1>5, TakingRoutes DEF V!EnvironmentOps
  <2> QED
    BY <2>1 DEF Reads, RecordedRoutes, Creates, Writes, Single
<1>6. CASE op \in V!SecretOps
  <2>1. op.route \in {<<"GET", "/v1/apps/:appId/secrets">>}
        \/ op.route \in {<<"POST", "/v1/apps/:appId/restart">>,
                            <<"POST", "/v1/apps/:appId/rollback">>,
                            <<"POST", "/v1/apps/:appId/secrets/reveal">>}
    BY <1>6, TakingRoutes DEF V!SecretOps
  <2> QED
    BY <2>1 DEF Reads, Unserved, RecordedRoutes, ActingRoutes, Deploys, Reveals, Single
<1>7. CASE op \in V!ServiceOps
  <2>1. op.route \in {<<"GET", "/v1/auditlogs">>}
        \/ op.route \in {<<"POST", "/v1/apps/:appId/services">>,
                            <<"PUT", "/v1/apps/:appId/spec">>}
    BY <1>7, TakingRoutes DEF V!ServiceOps
  <2> QED
    BY <2>1 DEF Owns, RecordedRoutes, Creates
<1>8. CASE op \in V!AuthOps
  <2>1. op.route \in {<<"POST", "/v1/auth/login">>, <<"POST", "/v1/auth/register">>,
                     <<"POST", "/v1/auth/request-password-reset">>,
                     <<"POST", "/v1/auth/reset-password">>, <<"POST", "/v1/auth/verify">>}
    BY <1>8, TakingRoutes DEF V!AuthOps
  <2> QED
    BY <2>1 DEF Opens
<1>9. CASE op \in V!GithubOps
  <2>1. op.route \in {<<"GET", "/v1/github/start">>, <<"GET", "/v1/github/callback">>,
                      <<"GET", "/v1/github/repos">>, <<"DELETE", "/v1/github/binding">>}
    BY <1>9, TakingRoutes DEF V!GithubOps
  <2> QED
    BY <2>1 DEF Unserved
<1>10. CASE op \in V!AccountOps
  <2>1. op.route \in {<<"GET", "/v1/me">>, <<"GET", "/v1/members">>, <<"GET", "/v1/tokens">>}
        \/ op.route \in {<<"POST", "/v1/members">>, <<"POST", "/v1/tokens">>,
                            <<"DELETE", "/v1/tokens/:tokenId">>}
    BY <1>10, TakingRoutes DEF V!AccountOps
  <2> QED
    BY <2>1 DEF Owns, Issues, Lists, Invites, Single
<1> QED
  BY <1>1, <1>2, <1>3, <1>4, <1>5, <1>6, <1>7, <1>8, <1>9, <1>10 DEF V!Contract

LEMMA TakingKeys ==
    ASSUME NEW routes, NEW r \in routes, V!Taking({"key"}, routes) \subseteq V!Contract
    PROVE  \E op \in V!Contract : op.route = r /\ "key" \in op.takes
<1>1. [route |-> r, takes |-> {"key"}] \in V!Taking({"key"}, routes)
  BY DEF V!Taking
<1> QED
  BY <1>1

\* The contract lets clients send a key to all that is recorded.
LEMMA RecordedTakesKey ==
    ASSUME NEW r \in RecordedRoutes \union Issues \union Invites
    PROVE  \E op \in V!Contract : op.route = r /\ "key" \in op.takes
<1> DEFINE AppKeys == {<<"POST", "/v1/analyze">>, <<"POST", "/v1/apps">>,
                       <<"DELETE", "/v1/apps/:appId">>, <<"PATCH", "/v1/apps/:appId">>}
<1> DEFINE DeploymentKeys == {<<"POST", "/v1/apps/:appId/databases">>,
                              <<"POST", "/v1/apps/:appId/deployments">>}
<1> DEFINE DomainKeys == {<<"POST", "/v1/apps/:appId/domains">>,
                          <<"POST", "/v1/apps/:appId/domains/:domainId/verify">>}
<1> DEFINE EnvironmentKeys == {<<"PUT", "/v1/apps/:appId/env">>,
                               <<"POST", "/v1/apps/:appId/environments">>}
<1> DEFINE SecretKeys == {<<"POST", "/v1/apps/:appId/restart">>,
                          <<"POST", "/v1/apps/:appId/rollback">>,
                          <<"POST", "/v1/apps/:appId/secrets/reveal">>}
<1> DEFINE ServiceKeys == {<<"POST", "/v1/apps/:appId/services">>,
                           <<"PUT", "/v1/apps/:appId/spec">>}
<1> DEFINE AccountKeys == {<<"POST", "/v1/members">>, <<"POST", "/v1/tokens">>,
                           <<"DELETE", "/v1/tokens/:tokenId">>}
<1> DEFINE Keyed(routes) == V!Taking({"key"}, routes) \subseteq V!Contract
<1>1. Keyed(AppKeys)
  BY DEF V!Contract, V!AppOps
<1>2. Keyed(DeploymentKeys)
  BY DEF V!Contract, V!DeploymentOps
<1>3. Keyed(DomainKeys)
  BY DEF V!Contract, V!DomainOps
<1>4. Keyed(EnvironmentKeys)
  BY DEF V!Contract, V!EnvironmentOps
<1>5. Keyed(SecretKeys)
  BY DEF V!Contract, V!SecretOps
<1>6. Keyed(ServiceKeys)
  BY DEF V!Contract, V!ServiceOps
<1>7. Keyed(AccountKeys)
  BY DEF V!Contract, V!AccountOps
<1>8. r \in AppKeys \union DeploymentKeys \union DomainKeys \union EnvironmentKeys
             \union SecretKeys \union ServiceKeys \union AccountKeys
  BY DEF RecordedRoutes, Creates, Deletes, Deploys, Attaches, Binds, Writes, Issues, Invites, Single
<1> HIDE DEF AppKeys, DeploymentKeys, DomainKeys, EnvironmentKeys, SecretKeys, ServiceKeys,
             AccountKeys
<1> QED
  BY <1>1, <1>2, <1>3, <1>4, <1>5, <1>6, <1>7, <1>8, TakingKeys

-----------------------------------------------------------------------------
(* The layers *)

\* What the callers of the routes that act must be allowed to do.
Deeds == {"app:create", "app:delete", "app:deploy", "database:create", "domain:bind",
          "secret:write", "secret:reveal", "member:invite"}

\* The mounts, by their layers.
MountIs(mount, hook) ==
    \/ mount.route \in Reads /\ mount.layers = V!Reading("app:read")
    \/ mount.route \in RecordedRoutes /\ \E cap \in Deeds : mount.layers = V!Recorded(cap)
    \/ /\ mount.route \in Analyzes \union Verifies
       /\ \E cap \in Deeds : mount.layers = V!Acting(cap)
    \/ mount.route \in Reveals /\ mount.layers = V!Acting("secret:reveal")
    \/ mount.route \in Opens \union Probes \union Hooks(hook) /\ mount.layers = <<>>
    \/ mount.route \in Owns /\ mount.layers = <<"authenticated">>
    \/ mount.route \in Issues /\ mount.layers = <<"authenticated", "idem", "audited">>
    \/ mount.route \in Lists /\ mount.layers = <<"app:read">>
    \/ mount.route \in Invites /\ mount.layers = <<"member:invite", "idem", "audited">>

LEMMA MountsAre ==
    ASSUME NEW hook, NEW mount \in V!Served(hook)
    PROVE  MountIs(mount, hook)
<1>1. CASE mount \in V!AppRoutes
  <2>1. ASSUME NEW cap \in Deeds, NEW routes \in SUBSET RecordedRoutes,
               mount \in V!Mount(V!Recorded(cap), routes)
        PROVE  MountIs(mount, hook)
    BY <2>1, MountRoutes DEF MountIs
  <2>2. ASSUME NEW cap \in Deeds, NEW routes \in SUBSET (Analyzes \union Verifies),
               mount \in V!Mount(V!Acting(cap), routes)
        PROVE  MountIs(mount, hook)
    BY <2>2, MountRoutes DEF MountIs
  <2>3. /\ Creates \subseteq RecordedRoutes /\ Deletes \subseteq RecordedRoutes
        /\ Deploys \subseteq RecordedRoutes /\ Attaches \subseteq RecordedRoutes
        /\ Binds \subseteq RecordedRoutes /\ Writes \subseteq RecordedRoutes
    BY DEF RecordedRoutes
  <2>4. CASE mount \in V!Mount(V!Recorded("app:create"), Creates)
                       \union V!Mount(V!Recorded("app:delete"), Deletes)
                       \union V!Mount(V!Recorded("app:deploy"), Deploys)
    BY <2>1, <2>3, <2>4 DEF Deeds
  <2>5. CASE mount \in V!Mount(V!Recorded("database:create"), Attaches)
                       \union V!Mount(V!Recorded("domain:bind"), Binds)
                       \union V!Mount(V!Recorded("secret:write"), Writes)
    BY <2>1, <2>3, <2>5 DEF Deeds
  <2>6. CASE mount \in V!Mount(V!Acting("app:create"), Analyzes)
                       \union V!Mount(V!Acting("domain:bind"), Verifies)
    BY <2>2, <2>6 DEF Deeds
  <2>7. CASE mount \in V!Mount(V!Reading("app:read"), Reads)
    BY <2>7, MountRoutes DEF MountIs
  <2>8. CASE mount \in V!Mount(V!Acting("secret:reveal"), Reveals)
    BY <2>8, MountRoutes DEF MountIs
  <2> QED
    BY <1>1, <2>4, <2>5, <2>6, <2>7, <2>8, AppRoutesAre
<1>2. CASE mount \in V!AuthRoutes
  BY <1>2, AuthRoutesAre, MountRoutes DEF MountIs
<1>3. CASE mount \in V!ServerRoutes(hook)
  <2>1. mount \in V!Mount(<<>>, Probes \union Hooks(hook))
    BY <1>3, ServerRoutesAre
  <2>2. mount.route \in Probes \union Hooks(hook) /\ mount.layers = <<>>
    BY <2>1, MountRoutes
  <2> QED
    BY <2>2 DEF MountIs
<1> QED
  BY <1>1, <1>2, <1>3 DEF V!Served

\* Nothing is mounted on the path of an operation that is not served.
UnservedPaths ==
    {"/v1/admin/apps", "/v1/admin/security-events", "/v1/admin/users", "/v1/admin/quota",
     "/v1/admin/users/:userId/suspend", "/v1/apps/:appId/deployments/:deploymentId",
     "/v1/apps/:appId/restart", "/v1/github/start", "/v1/github/callback",
     "/v1/github/repos", "/v1/github/binding"}

LEMMA PathsApart ==
    ASSUME NEW hook, NEW mount \in V!Served(hook)
    PROVE  mount.route[2] \notin UnservedPaths
<1>1. CASE mount.route \in Reads
  <2>1. mount.route[2] \in {"/v1/apps", "/v1/apps/:appId", "/v1/apps/:appId/domains",
             "/v1/apps/:appId/plan", "/v1/apps/:appId/deployments", "/v1/apps/:appId/logs",
             "/v1/apps/:appId/diagnostics", "/v1/apps/:appId/secrets"}
    BY <1>1 DEF Reads
  <2> QED
    BY <2>1 DEF UnservedPaths
<1>2. CASE mount.route \in Creates \union Deletes \union Deploys
  <2>1. mount.route[2] \in {"/v1/apps", "/v1/apps/:appId", "/v1/apps/:appId/services",
             "/v1/apps/:appId/environments", "/v1/apps/:appId/spec",
             "/v1/apps/:appId/deployments", "/v1/apps/:appId/rollback"}
    BY <1>2 DEF Creates, Deletes, Deploys, Single
  <2> QED
    BY <2>1 DEF UnservedPaths
<1>3. CASE mount.route \in Attaches \union Binds \union Writes \union ActingRoutes
  <2>1. mount.route[2] \in {"/v1/apps/:appId/databases", "/v1/apps/:appId/domains",
             "/v1/apps/:appId/env", "/v1/apps/:appId/analyze",
             "/v1/apps/:appId/domains/:domainId/verify", "/v1/apps/:appId/secrets/reveal"}
    BY <1>3 DEF Attaches, Binds, Writes, ActingRoutes, Analyzes, Verifies, Reveals, Single
  <2> QED
    BY <2>1 DEF UnservedPaths
<1>4. CASE mount.route \in Opens
  <2>1. mount.route[2] \in {"/v1/auth/register", "/v1/auth/verify", "/v1/auth/login",
             "/v1/auth/request-password-reset", "/v1/auth/reset-password"}
    BY <1>4 DEF Opens
  <2> QED
    BY <2>1 DEF UnservedPaths
<1>5. CASE mount.route \in Owns \union Issues \union Lists \union Invites
  <2>1. mount.route[2] \in {"/v1/me", "/v1/auditlogs", "/v1/tokens", "/v1/tokens/:tokenId",
                            "/v1/members"}
    BY <1>5 DEF Owns, Issues, Lists, Invites, Single
  <2> QED
    BY <2>1 DEF UnservedPaths
<1>6. CASE mount.route \in Probes \union Hooks(hook)
  <2>1. mount.route[2] \in {"/healthz", "/readyz", "/v1/analyze", "/v1/webhooks/github"}
    BY <1>6 DEF Probes, Hooks
  <2> QED
    BY <2>1 DEF UnservedPaths
<1> QED
  BY <1>1, <1>2, <1>3, <1>4, <1>5, <1>6, MountsAre
     DEF MountIs, RecordedRoutes, ActingRoutes

\* What a layer does not pass on is answered by it.
LEMMA LayersAnswer ==
    ASSUME NEW layers, NEW i, NEW request, request.claim \in V!Claims
    PROVE  V!Verdict(layers, i, request) \notin {"handled", "not found", "not allowed"}
<1>1. request.claim \notin {"handled", "not found", "not allowed"}
  BY DEF V!Claims
<1> QED
  BY <1>1 DEF V!Verdict, V!Authenticated, V!Idem, V!RequireCap

LEMMA WalksAnswer ==
    ASSUME NEW layers, NEW request, request.claim \in V!Claims
    PROVE  /\ V!Walk(layers, request) \notin {"not found", "not allowed"}
           /\ V!Walk(layers, request) = "handled" <=> V!Handled(layers, request)
  BY LayersAnswer DEF V!Walk

LEMMA StubsAnswer ==
    ASSUME NEW request
    PROVE  /\ V!Stub(request) # "handled"
           /\ (\E op \in V!Contract : op.route = request.route) =>
                  V!Stub(request) \notin {"not found", "not allowed"}
  BY DEF V!Stub

LEMMA ContractKept ==
    ASSUME NEW hook, NEW request, request.claim \in V!Claims
    PROVE  V!ContractIsKept(request, hook)
<1> SUFFICES ASSUME NEW op \in V!Contract, op.route = request.route
             PROVE  V!Outcome(request, hook) \notin {"not found", "not allowed"}
  BY DEF V!ContractIsKept
<1>1. CASE V!IsServed(request.route, hook)
  BY <1>1, WalksAnswer DEF V!Outcome
<1>2. CASE ~V!IsServed(request.route, hook)
  <2>1. request.route \in Unserved
    BY <1>2, OperationsAre, Serves
  <2>2. request.route[2] \in UnservedPaths
    BY <2>1 DEF Unserved, UnservedPaths
  <2>3. request.route[2] \notin V!Paths(V!Served(hook))
    BY <2>2, PathsApart DEF V!Paths
  <2> QED
    BY <1>2, <2>3, StubsAnswer DEF V!Outcome
<1> QED
  BY <1>1, <1>2

\* A caller that gets past a layer was allowed to.
LEMMA AskedOf ==
    ASSUME NEW cap \in Deeds, NEW layers, NEW i, layers[i] = cap, NEW request,
           V!Verdict(layers, i, request) = "next"
    PROVE  request.bearer /\ V!Can(request.role, cap)
<1>1. cap \notin {"audited", "authenticated", "idem"}
  BY DEF Deeds
<1> QED
  BY <1>1 DEF V!Verdict, V!RequireCap

LEMMA ObserversDoNothing ==
    ASSUME NEW cap \in Deeds, NEW role, V!Can(role, cap)
    PROVE  role \notin V!Observers
<1>1. cap \notin {"app:read", "billing:manage", "admin:security:read"}
  BY DEF Deeds
<1>2. role \in V!Role /\ cap \in V!RoleCapabilities[role]
  BY DEF V!Can
<1>3. ASSUME role = "none" PROVE FALSE
  BY <1>2, <1>3 DEF V!Role, V!RoleCapabilities
<1>4. ASSUME role = "viewer" PROVE FALSE
  BY <1>1, <1>2, <1>4 DEF V!RoleCapabilities
<1>5. ASSUME role = "billing_admin" PROVE FALSE
  BY <1>1, <1>2, <1>5 DEF V!RoleCapabilities
<1>6. ASSUME role = "security_admin" PROVE FALSE
  BY <1>1, <1>2, <1>6 DEF V!RoleCapabilities
<1> QED
  BY <1>3, <1>4, <1>5, <1>6 DEF V!Observers

LEMMA OnlyAdminsReveal ==
    ASSUME NEW role, V!Can(role, "secret:reveal")
    PROVE  role \in {"platform_admin", "workspace_admin"}
<1>1. role \in {"platform_admin", "workspace_admin", "member", "developer", "viewer",
                "billing_admin", "security_admin"}
  BY DEF V!Can, V!Role, V!RoleCapabilities
<1>2. "secret:reveal" \in V!RoleCapabilities[role]
  BY DEF V!Can
<1>3. "secret:reveal" \notin V!RoleCapabilities["member"]
  BY DEF V!RoleCapabilities, V!Lifecycle
<1>4. "secret:reveal" \notin V!RoleCapabilities["developer"]
  BY DEF V!RoleCapabilities, V!Lifecycle, V!Deletions
<1>5. /\ "secret:reveal" \notin V!RoleCapabilities["viewer"]
      /\ "secret:reveal" \notin V!RoleCapabilities["billing_admin"]
      /\ "secret:reveal" \notin V!RoleCapabilities["security_admin"]
  BY DEF V!RoleCapabilities
<1> QED
  BY <1>1, <1>2, <1>3, <1>4, <1>5

\* The layers of a route are those of a mount of it.
LEMMA LayersAre ==
    ASSUME NEW hook, NEW asked, V!IsServed(asked, hook)
    PROVE  \E mount \in V!Served(hook) :
               mount.route = asked /\ V!LayersOf(asked, hook) = mount.layers
  BY DEF V!IsServed, V!LayersOf

LEMMA HandledIs ==
    ASSUME NEW hook, NEW request, request.claim \in V!Claims
    PROVE  V!Outcome(request, hook) = "handled" <=>
               /\ V!IsServed(request.route, hook)
               /\ V!Handled(V!LayersOf(request.route, hook), request)
  BY WalksAnswer, StubsAnswer DEF V!Outcome

\* The routes of the applications that act, and the invitation.
LEMMA ActsAre ==
    ASSUME NEW asked, V!Acts(asked)
    PROVE  asked \in RecordedRoutes \union ActingRoutes \union Invites /\ asked[1] # "GET"
<1>1. CASE asked = <<"POST", "/v1/members">>
  BY <1>1 DEF Invites, Single
<1>2. CASE \E mount \in V!AppRoutes : mount.route = asked
  <2>1. asked \in Reads \union RecordedRoutes \union ActingRoutes
    BY <1>2, AppRoutesAre, MountRoutes DEF RecordedRoutes, ActingRoutes
  <2>2. \A r \in Reads : r[1] = "GET"
    BY DEF Reads
  <2> QED
    BY <2>1, <2>2 DEF V!Acts
<1> QED
  BY <1>1, <1>2 DEF V!Acts

\* Nothing that acts is mounted with less.
LEMMA NoOpenDeed ==
    ASSUME NEW asked \in RecordedRoutes \union ActingRoutes \union Invites, asked[1] # "GET",
           NEW hook
    PROVE  asked \notin Reads \union Opens \union Probes \union Hooks(hook) \union Owns
                        \union Issues \union Lists
<1>1. ASSUME NEW r \in RecordedRoutes \union ActingRoutes \union Invites
      PROVE  r[2] \notin {"/v1/tokens", "/v1/me", "/v1/auditlogs", "/v1/tokens/:tokenId",
                          "/healthz", "/readyz", "/v1/analyze", "/v1/webhooks/github",
                          "/v1/auth/register", "/v1/auth/verify", "/v1/auth/login",
                          "/v1/auth/request-password-reset", "/v1/auth/reset-password"}
  BY <1>1 DEF RecordedRoutes, ActingRoutes, Invites, Creates, Deletes, Deploys, Attaches, Binds,
              Writes, Analyzes, Verifies, Reveals, Single
<1>2. asked \notin Opens \union Probes
  BY <1>1 DEF Opens, Probes
<1>3. asked \notin Hooks(hook) \union Owns \union Issues
  BY <1>1 DEF Hooks, Owns, Issues, Single
<1>4. asked \notin Reads \union Lists
  BY DEF Reads, Lists, Single
<1> QED
  BY <1>2, <1>3, <1>4

LEMMA RolesAsked ==
    ASSUME NEW hook, NEW request, request.claim \in V!Claims
    PROVE  V!RolesAreAsked(request, hook)
<1> DEFINE asked == request.route
<1> DEFINE layers == V!LayersOf(asked, hook)
<1> SUFFICES ASSUME V!Outcome(request, hook) = "handled"
             PROVE  /\ V!Acts(asked) => request.bearer /\ request.role \notin V!Observers
                    /\ asked = <<"POST", "/v1/apps/:appId/secrets/reveal">> =>
                           request.role \in {"platform_admin", "workspace_admin"}
  BY DEF V!RolesAreAsked
<1>1. V!IsServed(asked, hook) /\ V!Handled(layers, request)
  BY HandledIs
<1>2. PICK mount \in V!Served(hook) : mount.route = asked /\ layers = mount.layers
  BY <1>1, LayersAre
<1>3. ASSUME V!Acts(asked) PROVE request.bearer /\ request.role \notin V!Observers
  <2>1. asked \in RecordedRoutes \union ActingRoutes \union Invites /\ asked[1] # "GET"
    BY <1>3, ActsAre
  <2>2. PICK cap \in Deeds : \/ layers \in {V!Acting(cap), V!Recorded(cap)}
                             \/ layers = <<cap, "idem", "audited">>
    BY <1>2, <2>1, MountsAre, NoOpenDeed DEF MountIs, Deeds
  <2>3. PICK i \in 1 .. Len(layers) : layers[i] = cap
    BY <2>2 DEF V!Acting, V!Recorded
  <2>4. V!Verdict(layers, i, request) = "next"
    BY <1>1, <2>3 DEF V!Handled, V!Reached
  <2> QED
    BY <2>3, <2>4, AskedOf, ObserversDoNothing
<1>4. ASSUME asked = <<"POST", "/v1/apps/:appId/secrets/reveal">>
      PROVE  request.role \in {"platform_admin", "workspace_admin"}
  <2>1. asked \in Reveals /\ asked[1] # "GET"
    BY <1>4 DEF Reveals, Single
  <2>2. asked \notin RecordedRoutes \union Analyzes \union Verifies \union Invites
    BY <1>4 DEF RecordedRoutes, Creates, Deletes, Deploys, Attaches, Binds, Writes, Analyzes,
                Verifies, Invites, Single
  <2>3. layers = V!Acting("secret:reveal")
    BY <1>2, <2>1, <2>2, MountsAre, NoOpenDeed DEF MountIs, ActingRoutes
  <2>4. Len(layers) = 2 /\ layers[2] = "secret:reveal"
    BY <2>3 DEF V!Acting
  <2>5. V!Verdict(layers, 2, request) = "next"
    BY <1>1, <2>4 DEF V!Handled, V!Reached
  <2> QED
    BY <2>4, <2>5, AskedOf, OnlyAdminsReveal DEF Deeds
<1> QED
  BY <1>3, <1>4

\* On what is recorded the handler is the innermost, the audit is around it and
\* the key is asked for before.
LEMMA RecordedLayers ==
    ASSUME NEW layers, NEW n \in 3 .. 4, Len(layers) = n, DOMAIN layers = 1 .. n,
           layers[n] = "audited", layers[n - 1] = "idem",
           \A i \in 1 .. n - 2 : layers[i] \in V!AllCapabilities \union {"authenticated"},
           NEW request, request.route[1] # "GET", request.claim \in V!Claims
    PROVE  /\ V!Audits(layers, request) <=> V!Handled(layers, request)
           /\ V!Repeated(request) => ~V!Handled(layers, request)
<1>1. V!Identified(layers, n) /\ V!Identified(layers, n - 1)
  BY DEF V!Identified
<1>2. V!Verdict(layers, n, request) = "next"
  BY DEF V!Verdict
<1>3. V!Reached(layers, n + 1, request) <=> V!Reached(layers, n, request)
  BY <1>2 DEF V!Reached
<1>4. \A i \in 1 .. n : layers[i] = "audited" => i = n
  BY DEF V!AllCapabilities, V!Lifecycle, V!Deletions
<1>5. V!Audits(layers, request) <=> V!Handled(layers, request)
  BY <1>1, <1>3, <1>4 DEF V!Audits, V!Handled
<1>6. ASSUME V!Repeated(request) PROVE V!Verdict(layers, n - 1, request) # "next"
  BY <1>1, <1>6 DEF V!Verdict, V!Idem, V!Repeated, V!Claims
<1> QED
  BY <1>5, <1>6 DEF V!Handled, V!Reached

LEMMA RunsRecorded ==
    ASSUME NEW hook, NEW request, request.claim \in V!Claims
    PROVE  V!RunsAreRecorded(request, hook)
<1> DEFINE asked == request.route
<1> DEFINE layers == V!LayersOf(asked, hook)
<1> SUFFICES ASSUME V!IsServed(asked, hook), \E i \in DOMAIN layers : layers[i] = "audited"
             PROVE  /\ V!Audits(layers, request) <=> V!Outcome(request, hook) = "handled"
                    /\ V!Repeated(request) => V!Outcome(request, hook) # "handled"
                    /\ \E op \in V!Contract : op.route = asked /\ "key" \in op.takes
  BY DEF V!RunsAreRecorded
<1>1. PICK mount \in V!Served(hook) : mount.route = asked /\ layers = mount.layers
  BY LayersAre
<1>2. Deeds \subseteq V!AllCapabilities /\ "audited" \notin V!AllCapabilities
  BY DEF Deeds, V!AllCapabilities, V!Lifecycle, V!Deletions
<1>3. \/ asked \in RecordedRoutes /\ \E cap \in Deeds : layers = V!Recorded(cap)
      \/ asked \in Issues /\ layers = <<"authenticated", "idem", "audited">>
      \/ asked \in Invites /\ layers = <<"member:invite", "idem", "audited">>
  <2>1. layers # V!Reading("app:read") /\ layers # <<>> /\ layers # <<"authenticated">>
        /\ layers # <<"app:read">>
    BY DEF V!Reading
  <2>2. \A cap \in Deeds : layers # V!Acting(cap)
    BY <1>2 DEF V!Acting
  <2> QED
    BY <1>1, <2>1, <2>2, MountsAre DEF MountIs, Deeds
<1>4. asked[1] # "GET"
  BY <1>3 DEF RecordedRoutes, Creates, Deletes, Deploys, Attaches, Binds, Writes, Issues,
              Invites, Single
<1>5. \E n \in 3 .. 4 :
          /\ Len(layers) = n /\ DOMAIN layers = 1 .. n
          /\ layers[n] = "audited" /\ layers[n - 1] = "idem"
          /\ \A i \in 1 .. n - 2 : layers[i] \in V!AllCapabilities \union {"authenticated"}
  <2>1. CASE \E cap \in Deeds : layers = V!Recorded(cap)
    BY <1>2, <2>1 DEF V!Recorded
  <2>2. CASE layers = <<"authenticated", "idem", "audited">>
    BY <2>2
  <2>3. CASE layers = <<"member:invite", "idem", "audited">>
    BY <2>3 DEF V!AllCapabilities
  <2> QED
    BY <1>3, <2>1, <2>2, <2>3
<1>6. \E op \in V!Contract : op.route = asked /\ "key" \in op.takes
  BY <1>3, RecordedTakesKey
<1> HIDE DEF layers
<1>7. /\ V!Audits(layers, request) <=> V!Handled(layers, request)
      /\ V!Repeated(request) => ~V!Handled(layers, request)
  BY <1>4, <1>5, RecordedLayers
<1> QED
  BY <1>6, <1>7, HandledIs DEF layers

-----------------------------------------------------------------------------
(* The questions *)

\* What was asked is of one of the seven kinds.
Posed(q) ==
    \/ \E revs \in V!Lists(V!Snapshots), current \in 1 .. Top + 1, target \in 0 .. Top :
           q = [kind |-> "rollback", a |-> revs, b |-> current, c |-> target]
    \/ \E steps \in V!Lists([id: 1 .. StepCount, status: V!Statuses]) :
           q = [kind |-> "report", a |-> steps, b |-> Unasked, c |-> Unasked]
    \/ \E words : q = [kind |-> "diagnosis", a |-> words, b |-> Unasked, c |-> Unasked]
    \/ \E tier \in {"free", "pro"}, hours \in 0 .. Usage :
           q = [kind |-> "invoice", a |-> tier, b |-> 25 * hours, c |-> Unasked]
    \/ \E form \in {"*", "*/n", "m-n", "n"}, m, n \in 0 .. 8 :
           q = [kind |-> "schedule", a |-> [form |-> form, m |-> m, n |-> n], b |-> 1, c |-> 7]
    \/ \E n, ceiling \in 0 .. 4 :
           q = [kind |-> "size", a |-> n, b |-> ceiling, c |-> Unasked]
    \/ \E request, hook :
           /\ request.claim \in V!Claims
           /\ q = [kind |-> "route", a |-> request, b |-> hook, c |-> Unasked]

AllAnswered ==
    /\ V!RollbackTargetIsRight
    /\ V!ReportsAreRight
    /\ V!FiguresAreRight
    /\ V!RequestsAreAnswered

LEMMA PosedIsAnswered ==
    ASSUME question # Unasked => Posed(question)
    PROVE  AllAnswered
<1> SUFFICES ASSUME question # Unasked, Posed(question) PROVE AllAnswered
  BY DEF AllAnswered, V!RollbackTargetIsRight, V!ReportsAreRight, V!FiguresAreRight,
         V!RequestsAreAnswered
<1> USE PartsAssumption
<1>1. ASSUME NEW revs \in V!Lists(V!Snapshots), NEW current \in 1 .. Top + 1,
             NEW target \in 0 .. Top,
             question = [kind |-> "rollback", a |-> revs, b |-> current, c |-> target]
      PROVE  AllAnswered
  <2>1. PICK n \in Nat : revs \in [1 .. n -> V!Snapshots]
    BY DEF V!Lists
  <2>2. V!Distinct(revs) => V!ResolveRollbackTarget(revs, current, target)
                                = V!RightTarget(revs, current, target)
    BY <2>1, RollbackIsRight
  <2> QED
    BY <1>1, <2>2 DEF AllAnswered, V!RollbackTargetIsRight, V!ReportsAreRight,
                      V!FiguresAreRight, V!RequestsAreAnswered
<1>2. ASSUME NEW steps \in V!Lists([id: 1 .. StepCount, status: V!Statuses]),
             question = [kind |-> "report", a |-> steps, b |-> Unasked, c |-> Unasked]
      PROVE  AllAnswered
  <2>1. /\ question.kind = "report" /\ question.kind # "diagnosis"
        /\ question.a \in V!Lists([id: 1 .. StepCount, status: V!Statuses])
    BY <1>2
  <2>2. V!ReportsAreRight
    BY <2>1, ReportIsRight, Zenon DEF V!ReportsAreRight
  <2>3. V!RollbackTargetIsRight /\ V!FiguresAreRight /\ V!RequestsAreAnswered
    BY <2>1 DEF V!RollbackTargetIsRight, V!FiguresAreRight, V!RequestsAreAnswered
  <2> QED
    BY <2>2, <2>3 DEF AllAnswered
<1>3. ASSUME NEW words,
             question = [kind |-> "diagnosis", a |-> words, b |-> Unasked, c |-> Unasked]
      PROVE  AllAnswered
  BY <1>3, DiagnosisIsRight DEF AllAnswered, V!RollbackTargetIsRight, V!ReportsAreRight,
                                V!FiguresAreRight, V!RequestsAreAnswered
<1>4. ASSUME NEW tier \in {"free", "pro"}, NEW hours \in 0 .. Usage,
             question = [kind |-> "invoice", a |-> tier, b |-> 25 * hours, c |-> Unasked]
      PROVE  AllAnswered
  <2>1. 25 * hours \in Nat
    OBVIOUS
  <2> QED
    BY <1>4, <2>1, InvoiceIsRight DEF AllAnswered, V!RollbackTargetIsRight, V!ReportsAreRight,
                                      V!FiguresAreRight, V!RequestsAreAnswered
<1>5. ASSUME NEW form \in {"*", "*/n", "m-n", "n"}, NEW m \in 0 .. 8, NEW n \in 0 .. 8,
             question = [kind |-> "schedule", a |-> [form |-> form, m |-> m, n |-> n],
                         b |-> 1, c |-> 7]
      PROVE  AllAnswered
  <2> DEFINE field == [form |-> form, m |-> m, n |-> n]
  <2>1. ASSUME V!CheckPart(field, 1, 7)
        PROVE  V!FiresAt(field, 1, 7) # {} /\ V!FiresAt(field, 1, 7) \subseteq 1 .. 7
    BY <2>1, ScheduleIsRight
  <2>2. question = [kind |-> "schedule", a |-> field, b |-> 1, c |-> 7]
    BY <1>5
  <2> HIDE DEF field
  <2> QED
    BY <2>1, <2>2 DEF AllAnswered, V!RollbackTargetIsRight, V!ReportsAreRight,
                      V!FiguresAreRight, V!RequestsAreAnswered
<1>6. ASSUME NEW n \in 0 .. 4, NEW ceiling \in 0 .. 4,
             question = [kind |-> "size", a |-> n, b |-> ceiling, c |-> Unasked]
      PROVE  AllAnswered
  <2>1. n \in Nat /\ ceiling \in Nat
    OBVIOUS
  <2> QED
    BY <1>6, <2>1, SizeIsRight DEF AllAnswered, V!RollbackTargetIsRight, V!ReportsAreRight,
                                   V!FiguresAreRight, V!RequestsAreAnswered
<1>7. ASSUME NEW request, NEW hook, request.claim \in V!Claims,
             question = [kind |-> "route", a |-> request, b |-> hook, c |-> Unasked]
      PROVE  AllAnswered
  <2>1. /\ V!ContractIsKept(request, hook)
        /\ V!RolesAreAsked(request, hook)
        /\ V!RunsAreRecorded(request, hook)
    BY <1>7, ContractKept, RolesAsked, RunsRecorded
  <2> QED
    BY <1>7, <2>1 DEF AllAnswered, V!RollbackTargetIsRight, V!ReportsAreRight,
                      V!FiguresAreRight, V!RequestsAreAnswered
<1> QED
  BY <1>1, <1>2, <1>3, <1>4, <1>5, <1>6, <1>7 DEF Posed

LEMMA QuestionsArePosed ==
    ASSUME question # Unasked => Posed(question), [V!VerdictsNext]_verdictsVars
    PROVE  (question # Unasked => Posed(question))'
<1>1. CASE UNCHANGED verdictsVars
  BY <1>1 DEF verdictsVars, Posed, V!Lists, V!Snapshots
<1>2. ASSUME NEW revs \in V!Lists(V!Snapshots), NEW current \in 1 .. Top + 1,
             NEW target \in 0 .. Top, V!Ask("rollback", revs, current, target)
      PROVE  Posed(question')
  BY <1>2 DEF V!Ask, Posed
<1>3. ASSUME NEW steps \in V!Lists([id: 1 .. StepCount, status: V!Statuses]),
             V!Ask("report", steps, Unasked, Unasked)
      PROVE  Posed(question')
  BY <1>3 DEF V!Ask, Posed
<1>4. ASSUME NEW words, V!Ask("diagnosis", words, Unasked, Unasked)
      PROVE  Posed(question')
  BY <1>4 DEF V!Ask, Posed
<1>5. ASSUME NEW tier \in DOMAIN V!catalog, NEW hours \in 0 .. Usage,
             V!Ask("invoice", tier, 25 * hours, Unasked)
      PROVE  Posed(question')
  <2>1. tier \in {"free", "pro"}
    BY DEF V!catalog
  <2> QED
    BY <1>5, <2>1 DEF V!Ask, Posed
<1>6. ASSUME NEW form \in {"*", "*/n", "m-n", "n"}, NEW m \in 0 .. 8, NEW n \in 0 .. 8,
             V!Ask("schedule", [form |-> form, m |-> m, n |-> n], 1, 7)
      PROVE  Posed(question')
  BY <1>6 DEF V!Ask, Posed
<1>7. ASSUME NEW n \in 0 .. 4, NEW ceiling \in 0 .. 4, V!Ask("size", n, ceiling, Unasked)
      PROVE  Posed(question')
  BY <1>7 DEF V!Ask, Posed
<1>8. ASSUME NEW request \in V!Requests, NEW hook \in BOOLEAN,
             V!Ask("route", request, hook, Unasked)
      PROVE  Posed(question')
  <2>1. request.claim \in V!Claims
    BY DEF V!Requests
  <2> QED
    BY <1>8, <2>1 DEF V!Ask, Posed
<1>9. CASE V!Answer
  BY <1>9 DEF V!Answer
<1>10. CASE V!VerdictsNext
  BY <1>2, <1>3, <1>4, <1>5, <1>6, <1>7, <1>8, <1>9, <1>10 DEF V!VerdictsNext
<1> QED
  BY <1>1, <1>10 DEF Posed, V!Lists, V!Snapshots, V!Claims

LEMMA VerdictsAreRight ==
    PartSpec => [](/\ RollbackTargetIsRight /\ ReportsAreRight
                   /\ FiguresAreRight /\ RequestsAreAnswered)
<1> DEFINE Kept == part = "verdicts" => (question # Unasked => Posed(question))
<1>1. PartInit => Kept
  BY DEF PartInit, V!VerdictsInit
<1>2. Kept /\ [ServiceNext \/ LibraryNext]_partVars => Kept'
  BY PartMoves, QuestionsArePosed
<1>3. Kept => /\ RollbackTargetIsRight /\ ReportsAreRight
              /\ FiguresAreRight /\ RequestsAreAnswered
  BY PosedIsAnswered DEF AllAnswered, RollbackTargetIsRight, ReportsAreRight, FiguresAreRight,
                         RequestsAreAnswered
<1> QED
  BY <1>1, <1>2, <1>3, PTL DEF PartSpec

\* From a history of any length in any order a rollback goes to the newest
\* eligible revision, or to the one asked for if it is eligible (rollback.go).
THEOREM TargetsAreRight == PartSpec => []RollbackTargetIsRight
<1> QED
  BY VerdictsAreRight, PTL

\* However many steps the catalog has, a complete report is DEGRADED exactly when
\* one of them failed (report.go), and a diagnosis is the first rule that
\* applies (diagnose.go).
THEOREM ReportsRight == PartSpec => []ReportsAreRight
<1> QED
  BY VerdictsAreRight, PTL

\* The invoice for any hours, cron fields, the quota and the autoscaler keep
\* within their bounds (invoice.go, cron.go, tenant_defaults.go, workload_kinds.go).
THEOREM FiguresRight == PartSpec => []FiguresAreRight
<1> QED
  BY VerdictsAreRight, PTL

\* Any request to the routes of main.go, auth and apps is answered by who may,
\* and what is audited runs once for its key.
THEOREM RequestsAnswered == PartSpec => []RequestsAreAnswered
<1> QED
  BY VerdictsAreRight, PTL

-----------------------------------------------------------------------------
(* The parts that have proofs of their own, side by side *)

\* The invariants of the accounts, workspaces, applications, bindings, deletions
\* and budgets hold of the parts side by side, as they are model-checked.
THEOREM PlatformIsSafe ==
    PartSpec => [](/\ SessionsAreProven /\ SignupsAreBounded
                   /\ TokenOwnersAreMembers /\ WorkspacesAreFew
                   /\ QuotaIsNearlyKept
                   /\ OneBinding /\ VerifiedIsProven /\ LiveIsNewest
                   /\ ServesWhatWasVerified /\ PurgeComesLast
                   /\ BudgetsAreKept)
<1>1. Spec => []SessionsAreProven /\ []SignupsAreBounded
  BY SessionsProven, SignupsBounded, PTL
<1>2. WorkspacesSpec => []TokenOwnersAreMembers /\ []WorkspacesAreFew
  BY OwnersAreMembers, FewWorkspaces, PTL
<1>3. AppsSpec => []QuotaIsNearlyKept
  BY QuotaNearlyKept
<1>4. BindingsSpec => []OneBinding /\ []VerifiedIsProven /\ []LiveIsNewest
  BY BoundOnce, ProvenFirst, NewestLives, PTL
<1>5. OrchestratorSpec => []ServesWhatWasVerified /\ []PurgeComesLast
  BY ServesVerified, PurgeLast, PTL
<1>6. BudgetsSpec => []BudgetsAreKept
  BY BudgetsHold
<1> QED
  BY <1>1, <1>2, <1>3, <1>4, <1>5, <1>6, AccountsInside, WorkspacesInside, AppsInside,
     BindingsInside, OrchestratorInside, BudgetsInside, PTL

\* And so do the properties of their steps: consumed tokens are taken up by no
\* later call, passwords and roles change by those who may change them, and a
\* delivery acts once.
THEOREM PlatformStepsAreSafe ==
    PartSpec => /\ ConsumedIsDead /\ OnlyResetsChangePasswords /\ RolesAreGranted
                /\ DeliveriesActOnce
<1> QED
  BY DeadStayDead, OnlyResets, GrantedRoles, ActOnce, AccountsInside,
     WorkspacesInside, PreviewsInside, PTL
=============================================================================
