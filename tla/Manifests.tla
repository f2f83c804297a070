----------------------------- MODULE Manifests -----------------------------
(***************************************************************************)
(* The network manifests of the tenant namespaces                          *)
(* (controllers/internal/appenv: netpol.go, httproute.go, namespace.go)    *)
(* and their repair (drift.go).  Somebody removes policies, changes or     *)
(* adds them under names of their own; the repair puts back what is        *)
(* missing.  What a set of policies admits is the semantics of Kubernetes' *)
(* NetworkPolicy.                                                          *)
(***************************************************************************)
EXTENDS Naturals, FiniteSets

CONSTANTS
    App,        \* applications
    Tenants,    \* their environments, one namespace each
    Extra,      \* custom hosts of the routes
    NoLabel     \* no label, or anything that is not a tenant

VARIABLES
    application,\* application[t]: whose environment t is; it never changes
    policies,   \* policies[t]: names of the policies in the namespace of t
    owned,      \* owned[t]: that namespace carries the label of the platform
    hostnames,  \* hostnames[t]: custom hosts of the route of t
    verified    \* verified[t]: hosts whose DNS challenge t has passed

manifestsVars == <<application, policies, owned, hostnames, verified>>

Expected == {"deny-all-ingress", "deny-all-egress", "allow-gateway", "allow-internal",
             "allow-mongo"}

ManifestsTypeOK ==
    /\ application \in [Tenants -> App]
    /\ policies \in [Tenants -> SUBSET Expected]
    /\ owned \in [Tenants -> BOOLEAN]
    /\ hostnames \in [Tenants -> SUBSET Extra]
    /\ verified \in [Tenants -> SUBSET Extra]

ManifestsInit ==
    /\ application \in [Tenants -> App]
    /\ policies = [t \in Tenants |-> Expected]
    /\ owned = [t \in Tenants |-> TRUE]
    /\ hostnames = [t \in Tenants |-> {}]
    /\ verified = [t \in Tenants |-> {}]

-----------------------------------------------------------------------------
(* netpol.go: pods, and what the policies admit *)

Pod(ns, role, app) == [ns |-> ns, role |-> role, app |-> app]
Pods == {Pod(t, role, application[t]) : t \in Tenants, role \in {"frontend", "backend"}}
        \union {Pod("tenara-data", "mongo", a) : a \in App}
        \union {Pod("kube-system", "kube-dns", NoLabel),
                Pod("envoy-gateway-system", "gateway", NoLabel)}

\* The pods of namespace t a policy selects.
Selects(policy, t, pod) ==
    /\ pod.ns = t
    /\ policy = "allow-gateway" => pod.role = "frontend"
    /\ policy \in {"allow-internal", "allow-mongo"} => pod.role = "backend"

EgressRuleAnyMongo(policy, t, to) ==
    \/ policy = "deny-all-egress" /\ to.ns = "kube-system" /\ to.role = "kube-dns"
    \/ policy = "allow-mongo" /\ to.ns = "tenara-data"

\* Each egress rule: DefaultEgress and AllowBackendToMongo, which knows the
\* MongoDB pods by the application they are labelled with.
EgressRule(policy, t, to) ==
    \/ policy = "deny-all-egress" /\ to.ns = "kube-system" /\ to.role = "kube-dns"
    \/ policy = "allow-mongo" /\ to.ns = "tenara-data" /\ to.app = application[t]

\* Each ingress rule: AllowGatewayIngress and AllowFrontendToBackend;
\* DenyAllIngress has none.
IngressRule(policy, t, from) ==
    \/ policy = "allow-gateway" /\ from.ns = "envoy-gateway-system"
    \/ policy = "allow-internal" /\ from.ns = t /\ from.role = "frontend"

Egress == {"deny-all-egress", "allow-mongo"}

\* A direction is closed when a policy of it selects the pod, and open again
\* for what a rule of such a policy names.
Opens(kind, t, pod, peer) ==
    LET chosen == {p \in policies[t] \intersect kind : Selects(p, t, pod)}
    IN  chosen = {} \/ \E p \in chosen :
            IF kind = Egress THEN EgressRule(p, t, peer) ELSE IngressRule(p, t, peer)

Admitted(from, to) ==
    /\ from.ns \in Tenants => Opens(Egress, from.ns, from, to)
    /\ to.ns \in Tenants => Opens(Expected \ Egress, to.ns, to, from)

-----------------------------------------------------------------------------
(* drift.go and namespace.go *)

\* A tenant's administrator deletes a policy, or takes the label away.
Remove(t, policy) ==
    /\ policy \in policies[t]
    /\ policies' = [policies EXCEPT ![t] = @ \ {policy}]
    /\ UNCHANGED <<owned, hostnames, verified>>

Disown(t) ==
    /\ owned[t]
    /\ owned' = [owned EXCEPT ![t] = FALSE]
    /\ UNCHANGED <<policies, hostnames, verified>>

DesiredNamespace(t) ==
    /\ ~owned[t]
    /\ owned' = [owned EXCEPT ![t] = TRUE]
    /\ UNCHANGED <<policies, hostnames, verified>>

MissingNetPols(t) == Expected \ policies[t]

\* OwnedByUs and EnsurePlatformOwned: another's namespace is not touched.
Repair(t, policy) ==
    /\ owned[t]
    /\ policy \in MissingNetPols(t)
    /\ policies' = [policies EXCEPT ![t] = @ \union {policy}]
    /\ UNCHANGED <<owned, hostnames, verified>>

-----------------------------------------------------------------------------
(* httproute.go *)

PassChallenge(t, host) ==
    /\ \A u \in Tenants : host \notin verified[u]
    /\ verified' = [verified EXCEPT ![t] = @ \union {host}]
    /\ UNCHANGED <<policies, owned, hostnames>>

AppendVerifiedHostname(t, host) ==
    /\ host \in verified[t]
    /\ hostnames' = [hostnames EXCEPT ![t] = @ \union {host}]
    /\ UNCHANGED <<policies, owned, verified>>

\* RenderHTTPRoute starts from the default host alone.
RenderHTTPRoute(t) ==
    /\ hostnames' = [hostnames EXCEPT ![t] = {}]
    /\ UNCHANGED <<policies, owned, verified>>

ManifestsNext ==
    /\ UNCHANGED application
    /\ \E t \in Tenants :
           \/ \E policy \in Expected : Remove(t, policy) \/ Repair(t, policy)
           \/ Disown(t) \/ DesiredNamespace(t) \/ RenderHTTPRoute(t)
           \/ \E host \in Extra : PassChallenge(t, host) \/ AppendVerifiedHostname(t, host)

ManifestsSpec == ManifestsInit /\ [][ManifestsNext]_manifestsVars

-----------------------------------------------------------------------------

\* While the two policies that deny stand, whatever others are missing or put
\* back, a pod of an environment talks to the cluster's DNS, and its backend to
\* the MongoDB of its own application; nothing but the gateway and the pods beside
\* it talks to it.  So environments never meet but in the MongoDB that those of
\* one application share.  And one host leads to one environment at most.
TenantsAreSeparate ==
    /\ (\A t \in Tenants : {"deny-all-ingress", "deny-all-egress"} \subseteq policies[t]) =>
           \A from, to \in Pods : from # to /\ Admitted(from, to) =>
               /\ from.ns \in Tenants =>
                      to.role = "kube-dns" \/ (to.role = "mongo" /\ from.role = "backend"
                                               /\ to.app = application[from.ns])
               /\ to.ns \in Tenants => from.role = "gateway" \/ from.ns = to.ns
    /\ \A t, u \in Tenants : t # u => hostnames[t] \intersect hostnames[u] = {}
=============================================================================
