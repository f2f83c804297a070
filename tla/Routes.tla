------------------------------- MODULE Routes -------------------------------
(***************************************************************************)
(* What becomes of a request: the routes the server mounts (main.go, the   *)
(* Mount of auth and apps), the layers around their handlers, and behind   *)
(* them the router generated from the contract (gen.gen.go), all of whose  *)
(* operations a stub answers (httpapi).                                    *)
(*                                                                         *)
(* A request is [route, bearer, role, claim, bad]: its method and the      *)
(* pattern its path matches (:name for a parameter); whether resolveBearer *)
(* accepts it; the role of its caller in the workspace it names, or        *)
(* "none"; what ClaimIdempotency and LoadIdempotentResponse find of its    *)
(* key ("absent" without one); and the kinds of parameters it gives        *)
(* wrongly: a "key" header twice, a "query" value that does not parse.  A  *)
(* path parameter is a string that is unescaped before it is bound, which  *)
(* cannot fail.  A body that cannot be read is left out.                   *)
(***************************************************************************)
EXTENDS Roles, Naturals, Sequences

-----------------------------------------------------------------------------
(* The contract: operations by their methods, paths and parameters, in the *)
(* order of their wrappers.                                                *)

Taking(parameters, routes) == {[route |-> r, takes |-> parameters] : r \in routes}

AdminOps ==
    Taking({}, {<<"GET", "/healthz">>, <<"GET", "/readyz">>, <<"GET", "/v1/admin/apps">>,
                <<"GET", "/v1/admin/security-events">>, <<"GET", "/v1/admin/users">>})
    \union Taking({"key"}, {<<"PUT", "/v1/admin/quota">>,
                            <<"POST", "/v1/admin/users/:userId/suspend">>})
AppOps ==
    Taking({}, {<<"GET", "/v1/apps">>, <<"GET", "/v1/apps/:appId">>})
    \union Taking({"key"}, {<<"POST", "/v1/analyze">>, <<"POST", "/v1/apps">>,
                            <<"DELETE", "/v1/apps/:appId">>, <<"PATCH", "/v1/apps/:appId">>})
DeploymentOps ==
    Taking({}, {<<"GET", "/v1/apps/:appId/deployments/:deploymentId">>,
                <<"GET", "/v1/apps/:appId/diagnostics">>})
    \union Taking({"key"}, {<<"POST", "/v1/apps/:appId/databases">>,
                            <<"POST", "/v1/apps/:appId/deployments">>})
DomainOps ==
    Taking({}, {<<"GET", "/v1/apps/:appId/domains">>})
    \union Taking({"key"}, {<<"POST", "/v1/apps/:appId/domains">>,
                            <<"POST", "/v1/apps/:appId/domains/:domainId/verify">>})
EnvironmentOps ==
    Taking({}, {<<"GET", "/v1/apps/:appId/plan">>})
    \union Taking({"query"}, {<<"GET", "/v1/apps/:appId/logs">>})
    \union Taking({"key"}, {<<"PUT", "/v1/apps/:appId/env">>,
                            <<"POST", "/v1/apps/:appId/environments">>})
SecretOps ==
    Taking({}, {<<"GET", "/v1/apps/:appId/secrets">>})
    \union Taking({"key"}, {<<"POST", "/v1/apps/:appId/restart">>,
                            <<"POST", "/v1/apps/:appId/rollback">>,
                            <<"POST", "/v1/apps/:appId/secrets/reveal">>})
ServiceOps ==
    Taking({"query"}, {<<"GET", "/v1/auditlogs">>})
    \union Taking({"key"}, {<<"POST", "/v1/apps/:appId/services">>,
                            <<"PUT", "/v1/apps/:appId/spec">>})
AuthOps ==
    Taking({"key"}, {<<"POST", "/v1/auth/login">>, <<"POST", "/v1/auth/register">>,
                     <<"POST", "/v1/auth/request-password-reset">>,
                     <<"POST", "/v1/auth/reset-password">>, <<"POST", "/v1/auth/verify">>})
GithubOps ==
    Taking({}, {<<"GET", "/v1/github/start">>})
    \union Taking({"query"}, {<<"GET", "/v1/github/callback">>, <<"GET", "/v1/github/repos">>})
    \union Taking({"key"}, {<<"DELETE", "/v1/github/binding">>})
AccountOps ==
    Taking({}, {<<"GET", "/v1/me">>, <<"GET", "/v1/members">>, <<"GET", "/v1/tokens">>})
    \union Taking({"key"}, {<<"POST", "/v1/members">>, <<"POST", "/v1/tokens">>,
                            <<"DELETE", "/v1/tokens/:tokenId">>})

\* HandlerWithOptions registers them all.
Contract == AdminOps \union AppOps \union DeploymentOps \union DomainOps \union EnvironmentOps
                \union SecretOps \union ServiceOps \union AuthOps \union GithubOps \union AccountOps

Paths(table) == {row.route[2] : row \in table}

\* The wrapper of an operation binds its parameters, or answers 400; each
\* operation of the stub answers 501.
Bound(op, request) == op.takes \intersect request.bad = {}
Stub(request) ==
    LET ops == {op \in Contract : op.route = request.route}
    IN  IF ops # {}
        THEN IF \A op \in ops : Bound(op, request) THEN "not implemented" ELSE "bad request"
        ELSE IF request.route[2] \in Paths(Contract) THEN "not allowed" ELSE "not found"

-----------------------------------------------------------------------------
(* The routes that are mounted: layers around a handler, the outermost first. *)
(* A capability stands for the requireCap that asks for it.                   *)

Mount(layers, routes) == {[route |-> r, layers |-> layers] : r \in routes}
Reading(cap) == <<cap, "authenticated">>
Acting(cap) == <<"authenticated", cap>>
Recorded(cap) == <<"authenticated", cap, "idem", "audited">>

AppRoutes ==
    Mount(Reading("app:read"),
        {<<"GET", "/v1/apps">>, <<"GET", "/v1/apps/:appId">>, <<"GET", "/v1/apps/:appId/domains">>,
         <<"GET", "/v1/apps/:appId/plan">>, <<"GET", "/v1/apps/:appId/deployments">>,
         <<"GET", "/v1/apps/:appId/logs">>, <<"GET", "/v1/apps/:appId/diagnostics">>,
         <<"GET", "/v1/apps/:appId/secrets">>})
    \union Mount(Recorded("app:create"),
        {<<"POST", "/v1/apps">>, <<"PATCH", "/v1/apps/:appId">>,
         <<"POST", "/v1/apps/:appId/services">>, <<"POST", "/v1/apps/:appId/environments">>,
         <<"PUT", "/v1/apps/:appId/spec">>})
    \union Mount(Acting("app:create"), {<<"POST", "/v1/apps/:appId/analyze">>})
    \union Mount(Recorded("app:delete"), {<<"DELETE", "/v1/apps/:appId">>})
    \union Mount(Recorded("app:deploy"),
        {<<"POST", "/v1/apps/:appId/deployments">>, <<"POST", "/v1/apps/:appId/rollback">>})
    \union Mount(Recorded("database:create"), {<<"POST", "/v1/apps/:appId/databases">>})
    \union Mount(Recorded("domain:bind"), {<<"POST", "/v1/apps/:appId/domains">>})
    \union Mount(Acting("domain:bind"), {<<"POST", "/v1/apps/:appId/domains/:domainId/verify">>})
    \union Mount(Recorded("secret:write"), {<<"PUT", "/v1/apps/:appId/env">>})
    \union Mount(Acting("secret:reveal"), {<<"POST", "/v1/apps/:appId/secrets/reveal">>})

AuthRoutes ==
    Mount(<<>>,
        {<<"POST", "/v1/auth/register">>, <<"POST", "/v1/auth/verify">>,
         <<"POST", "/v1/auth/login">>, <<"POST", "/v1/auth/request-password-reset">>,
         <<"POST", "/v1/auth/reset-password">>})
    \union Mount(<<"authenticated">>,
        {<<"GET", "/v1/me">>, <<"GET", "/v1/auditlogs">>, <<"GET", "/v1/tokens">>,
         <<"DELETE", "/v1/tokens/:tokenId">>})
    \union Mount(<<"authenticated", "idem", "audited">>, {<<"POST", "/v1/tokens">>})
    \union Mount(<<"app:read">>, {<<"GET", "/v1/members">>})
    \union Mount(<<"member:invite", "idem", "audited">>, {<<"POST", "/v1/members">>})

\* The webhook is mounted when GITHUB_WEBHOOK_SECRET is set; nothing mounts
\* the routes of GithubHandlers.
ServerRoutes(hook) ==
    Mount(<<>>, {<<"GET", "/healthz">>, <<"GET", "/readyz">>, <<"POST", "/v1/analyze">>}
                \union IF hook THEN {<<"POST", "/v1/webhooks/github">>} ELSE {})

Served(hook) == AppRoutes \union AuthRoutes \union ServerRoutes(hook)

-----------------------------------------------------------------------------

\* A layer that has verified the caller puts its identity into the context.
Identified(layers, i) ==
    \E j \in 1 .. i - 1 : layers[j] \in AllCapabilities \union {"authenticated"}

Claims == {"absent", "first", "replayed", "running", "mismatch", "store failed"}

\* What a layer answers, or "next" if it calls the one inside.
Authenticated(request) == IF request.bearer THEN "next" ELSE "unauthorized"
RequireCapAnyRole(cap, request) == IF request.bearer THEN "next" ELSE "unauthorized"
RequireCap(cap, request) ==
    IF ~request.bearer THEN "unauthorized"
    ELSE IF Can(request.role, cap) THEN "next" ELSE "forbidden"
Idem(identified, request) ==
    IF request.route[1] = "GET" \/ request.claim \in {"absent", "first"} THEN "next"
    ELSE IF identified THEN request.claim ELSE "unauthorized"

Verdict(layers, i, request) ==
    IF layers[i] = "audited" THEN "next"
    ELSE IF layers[i] = "authenticated" THEN Authenticated(request)
    ELSE IF layers[i] = "idem" THEN Idem(Identified(layers, i), request)
    ELSE RequireCap(layers[i], request)

Reached(layers, i, request) == \A j \in 1 .. i - 1 : Verdict(layers, j, request) = "next"
Handled(layers, request) == Reached(layers, Len(layers) + 1, request)

\* audited writes its row when what it wraps is over, for an identity in the context.
Audits(layers, request) ==
    \E i \in DOMAIN layers :
        layers[i] = "audited" /\ Reached(layers, i, request) /\ Identified(layers, i)

Walk(layers, request) ==
    IF Handled(layers, request) THEN "handled"
    ELSE LET i == CHOOSE i \in DOMAIN layers : /\ Reached(layers, i, request)
                                               /\ Verdict(layers, i, request) # "next"
         IN  Verdict(layers, i, request)

IsServed(route, hook) == \E mount \in Served(hook) : mount.route = route
LayersOf(route, hook) == (CHOOSE mount \in Served(hook) : mount.route = route).layers

\* The mounted routes come first; what they do not match is left to the contract.
Outcome(request, hook) ==
    IF IsServed(request.route, hook)
    THEN Walk(LayersOf(request.route, hook), request)
    ELSE IF request.route[2] \in Paths(Served(hook)) THEN "not allowed"
    ELSE Stub(request)
-----------------------------------------------------------------------------
(* What is to come of a request *)

Repeated(request) == request.claim \notin {"absent", "first"}
Observers == {"viewer", "billing_admin", "security_admin", "none"}
Acts(route) == /\ route[1] # "GET"
               /\ \/ \E mount \in AppRoutes : mount.route = route
                  \/ route = <<"POST", "/v1/members">>

\* A mounted handler, or the stub, answers every operation of the contract.
ContractIsKept(request, hook) ==
    (\E op \in Contract : op.route = request.route) =>
        Outcome(request, hook) \notin {"not found", "not allowed"}

\* Who only observes changes nothing of an application and invites nobody;
\* secrets are revealed to the administrators of the workspace.
RolesAreAsked(request, hook) ==
    Outcome(request, hook) = "handled" =>
        /\ Acts(request.route) => request.bearer /\ request.role \notin Observers
        /\ request.route = <<"POST", "/v1/apps/:appId/secrets/reveal">> =>
               request.role \in {"platform_admin", "workspace_admin"}

\* On a route that is audited a handler that ran leaves a row, and nothing else
\* does; a request repeated with its key does not run it; and the contract
\* tells clients that they may send a key.
RunsAreRecorded(request, hook) ==
    LET layers == LayersOf(request.route, hook)
    IN  IsServed(request.route, hook) /\ (\E i \in DOMAIN layers : layers[i] = "audited") =>
            /\ Audits(layers, request) <=> Outcome(request, hook) = "handled"
            /\ Repeated(request) => Outcome(request, hook) # "handled"
            /\ \E op \in Contract : op.route = request.route /\ "key" \in op.takes

Requests ==
    [route: {row.route : row \in Contract \union Served(TRUE)} \union
            {<<"GET", "/v1/nothing">>, <<"DELETE", "/v1/members">>,
             <<"PUT", "/v1/github/binding">>},
     bearer: BOOLEAN, role: Role \union {"none"}, claim: Claims, bad: SUBSET {"key", "query"}]
=============================================================================
