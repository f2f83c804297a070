------------------------------- MODULE Roles --------------------------------
(***************************************************************************)
(* Roles and what they may do (control-plane/internal/rbac/rbac.go).  What *)
(* a caller may do is always asked of Can; no handler looks at a role.     *)
(***************************************************************************)

Lifecycle == {"app:create", "app:read", "app:deploy", "app:rollback",
              "database:create", "secret:write", "domain:bind"}
Deletions == {"app:delete", "database:delete"}
AllCapabilities == Lifecycle \union Deletions \union
    {"secret:reveal", "member:invite", "admin:user:manage", "admin:quota:manage",
     "admin:cluster:read", "admin:security:read", "billing:manage"}

RoleCapabilities ==
    [platform_admin  |-> AllCapabilities,
     workspace_admin |-> Lifecycle \union Deletions \union {"secret:reveal", "member:invite"},
     member          |-> Lifecycle,
     developer       |-> Lifecycle \union Deletions,
     viewer          |-> {"app:read"},
     billing_admin   |-> {"app:read", "billing:manage"},
     security_admin  |-> {"app:read", "admin:security:read"}]

Role == DOMAIN RoleCapabilities
Can(role, capability) == role \in Role /\ capability \in RoleCapabilities[role]
=============================================================================
