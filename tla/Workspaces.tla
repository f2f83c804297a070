----------------------------- MODULE Workspaces -----------------------------
(***************************************************************************)
(* Workspaces (organizations), their members, the capability gate and the  *)
(* API tokens of the control plane (control-plane/internal/auth:           *)
(* handler.go, members.go, apitoken.go, tokens_handler.go; rbac/rbac.go).  *)
(*                                                                         *)
(* A call is authenticated, gated and served by separate statements.       *)
(* Registered accounts are taken from the start; how they come to be is    *)
(* Accounts' business.                                                     *)
(***************************************************************************)
EXTENDS Naturals, FiniteSets, Roles

CONSTANTS
    User,       \* e-mail addresses, each naming one row of users at most
    Person,     \* the users that have registered and can log in
    Admin,      \* ADMIN_EMAIL
    Org,        \* ids of organizations (a bound on their number)
    ApiToken,   \* ids of api_tokens (a bound on their number)
    Client,     \* calls a server works on at a time
    Nil         \* no role, organization, token or user

VARIABLES
    account,    \* account[u]: there is a row of u in users
    member,     \* member[o][u]: the role of u in o, or Nil
    made,       \* made[u]: the organizations DefaultOrgForUser made for u
    apitoken,   \* apitoken[t]: creator, organization and revocation of a token
    at,         \* at[c]: the next statement of call c
    ask         \* ask[c]: who calls, in which organization, for what

orgs == <<member, made>>
workspacesVars == <<account, orgs, apitoken, at, ask>>

-----------------------------------------------------------------------------
(* Roles; Roles says what they may do *)

\* The CHECK of organization_members admits three of the seven roles.
SqlRole == {"platform_admin", "workspace_admin", "member"}

-----------------------------------------------------------------------------

Ops == {"invite", "list", "token", "revoke", "boot"}
ClientSteps == {"idle", "org", "gate", "serve", "tokenOrg", "tokenInsert", "promote"}
Asks(u, o, op, role) == [user |-> u, org |-> o, op |-> op, role |-> role]
NoAsk == Asks(Nil, Nil, Nil, Nil)
TokenRow(u, o, revoked) == [user |-> u, org |-> o, revoked |-> revoked]

\* Nil is nothing a row can hold; the administrator and those who log in have
\* addresses; a server works on finitely many calls.
ASSUME WorkspacesAssumption ==
    /\ Nil \notin SqlRole \union Org \union User \union Ops
    /\ Person \subseteq User /\ Admin \in User
    /\ IsFiniteSet(Client)

WorkspacesTypeOK ==
    /\ account \in [User -> BOOLEAN]
    /\ member \in [Org -> [User -> SqlRole \union {Nil}]]
    /\ made \in [User -> Nat]
    /\ apitoken \in [ApiToken -> {Nil} \union [user: User, org: Org, revoked: BOOLEAN]]
    /\ at \in [Client -> ClientSteps]
    /\ ask \in [Client -> [user: User \union {Nil}, org: Org \union {Nil},
            op: Ops \union {Nil}, role: SqlRole \union {Nil}]]

WorkspacesInit ==
    /\ account = [u \in User |-> u \in Person]
    /\ member = [o \in Org |-> [u \in User |-> Nil]]
    /\ made = [u \in User |-> 0]
    /\ apitoken = [t \in ApiToken |-> Nil]
    /\ at = [c \in Client |-> "idle"]
    /\ ask = [c \in Client |-> NoAsk]

Step(c, from, to, with) ==
    /\ at[c] = from
    /\ at' = [at EXCEPT ![c] = to]
    /\ ask' = [ask EXCEPT ![c] = with]
Ends(c, from) == Step(c, from, "idle", NoAsk)

-----------------------------------------------------------------------------
(* Authentication: a session resolves to the default organization, or to the *)
(* one X-Tenara-Org names; an API token to the organization of its row.      *)

\* ORDER BY role sorts the names, not the privileges; ties come in any order.
Memberships(u) == {o \in Org : member[o][u] # Nil}
SortsFirst(role) ==
    CASE role = "member" -> 1 [] role = "platform_admin" -> 2 [] OTHER -> 3
DefaultOrgs(u) ==
    {o \in Memberships(u) : \A p \in Memberships(u) :
        SortsFirst(member[o][u]) <= SortsFirst(member[p][u])}

\* The first statement of DefaultOrgForUser; "org" is where it goes on when
\* the user has no membership yet.
Authenticate(c, u, op, override) ==
    /\ u \in Person
    /\ \/ /\ Memberships(u) = {}
          /\ Step(c, "idle", "org", Asks(u, override, op, Nil))
       \/ \E o \in DefaultOrgs(u) :
              Step(c, "idle", "gate", Asks(u, IF override = Nil THEN o ELSE override, op, Nil))
    /\ UNCHANGED <<account, orgs, apitoken>>

AuthenticateToken(c, t, op) ==
    /\ apitoken[t] # Nil /\ ~apitoken[t].revoked
    /\ Step(c, "idle", "gate",
            Asks(apitoken[t].user, apitoken[t].org, op, Nil))
    /\ UNCHANGED <<account, orgs, apitoken>>

Unused(o) == \A u \in User : member[o][u] = Nil

MakeOrgAlone(c, o) ==
    /\ at[c] = "org"
    /\ Unused(o)
    /\ made' = [made EXCEPT ![ask[c].user] = @ + 1]
    /\ Ends(c, "org")
    /\ UNCHANGED <<account, member, apitoken>>

\* The rest of DefaultOrgForUser: an organization and its first member in one
\* transaction.  An id that is in use is never drawn again.
MakeOrg(c, o) ==
    LET u == ask[c].user
        opened == IF ask[c].org = Nil THEN o ELSE ask[c].org
    IN  /\ at[c] = "org"
        /\ Unused(o)
        /\ member' = [member EXCEPT ![o][u] = "workspace_admin"]
        /\ made' = [made EXCEPT ![u] = @ + 1]
        /\ Step(c, "org", IF ask[c].op = "boot" THEN "promote" ELSE "gate",
                Asks(u, opened, ask[c].op, Nil))
        /\ UNCHANGED <<account, apitoken>>

\* requireCap for the member routes; the token routes only authenticate.
Needed(op) == IF op = "list" THEN "app:read" ELSE "member:invite"

GateAuthenticatesOnly(c) ==
    /\ at[c] = "gate"
    /\ ask[c].op \in {"invite", "list"}
    /\ Step(c, "gate", "serve", Asks(ask[c].user, ask[c].org, ask[c].op,
                                     member[ask[c].org][ask[c].user]))
    /\ UNCHANGED <<account, orgs, apitoken>>

Gate(c) ==
    LET role == member[ask[c].org][ask[c].user]
    IN  /\ at[c] = "gate"
        /\ \/ /\ ask[c].op \in {"invite", "list"}
              /\ IF Can(role, Needed(ask[c].op))
                 THEN Step(c, "gate", "serve", Asks(ask[c].user, ask[c].org, ask[c].op, role))
                 ELSE Ends(c, "gate")
           \/ /\ ask[c].op = "token"
              /\ Step(c, "gate", "tokenOrg", ask[c])
           \/ /\ ask[c].op = "revoke"
              /\ Step(c, "gate", "serve", ask[c])
        /\ UNCHANGED <<account, orgs, apitoken>>

-----------------------------------------------------------------------------
(* What the routes do *)

\* One transaction: the stub user when the address is new, then the upsert of
\* the membership.  A role the CHECK refuses undoes both.
InviteMember(c, u, role) ==
    /\ at[c] = "serve" /\ ask[c].op = "invite"
    /\ role \in SqlRole
    /\ account' = [account EXCEPT ![u] = TRUE]
    /\ member' = [member EXCEPT ![ask[c].org][u] = role]
    /\ Ends(c, "serve")
    /\ UNCHANGED <<made, apitoken>>

ListMembers(c) ==
    /\ ask[c].op = "list"
    /\ Ends(c, "serve")
    /\ UNCHANGED <<account, orgs, apitoken>>

TokenOrgAsAsked(c) ==
    /\ Step(c, "tokenOrg", "tokenInsert", ask[c])
    /\ UNCHANGED <<account, orgs, apitoken>>

\* handleCreateToken resolves the default organization once more, whatever
\* organization the call was authenticated for; authentication has seen to it
\* that there is one.
TokenOrg(c) ==
    /\ at[c] = "tokenOrg"
    /\ \E o \in DefaultOrgs(ask[c].user) :
           Step(c, "tokenOrg", "tokenInsert", Asks(ask[c].user, o, ask[c].op, Nil))
    /\ UNCHANGED <<account, orgs, apitoken>>

CreateAPIToken(c, t) ==
    /\ at[c] = "tokenInsert"
    /\ apitoken[t] = Nil
    /\ apitoken' = [apitoken EXCEPT ![t] = TokenRow(ask[c].user, ask[c].org, FALSE)]
    /\ Ends(c, "tokenInsert")
    /\ UNCHANGED <<account, orgs>>

\* Only its creator revokes a token; another's is answered NOT_FOUND.
RevokeAPIToken(c, t) ==
    /\ at[c] = "serve" /\ ask[c].op = "revoke"
    /\ apitoken' = IF apitoken[t] # Nil /\ apitoken[t].user = ask[c].user
                   THEN [apitoken EXCEPT ![t] = TokenRow(@.user, @.org, TRUE)] ELSE apitoken
    /\ Ends(c, "serve")
    /\ UNCHANGED <<account, orgs>>

\* EnsurePlatformAdmin at the start of a server: the user row, a default
\* organization, then the role in it.
BootAdmin(c) ==
    /\ account' = [account EXCEPT ![Admin] = TRUE]
    /\ \/ /\ Memberships(Admin) = {}
          /\ Step(c, "idle", "org", Asks(Admin, Nil, "boot", Nil))
       \/ \E o \in DefaultOrgs(Admin) :
              Step(c, "idle", "promote", Asks(Admin, o, "boot", Nil))
    /\ UNCHANGED <<orgs, apitoken>>

Promote(c) ==
    /\ at[c] = "promote"
    /\ member' = [member EXCEPT ![ask[c].org][ask[c].user] = "platform_admin"]
    /\ Ends(c, "promote")
    /\ UNCHANGED <<account, made, apitoken>>

\* Storage errors, failures of GitHub and stopped servers end a call anywhere.
Abort(c) ==
    /\ at[c] # "idle"
    /\ Ends(c, at[c])
    /\ UNCHANGED <<account, orgs, apitoken>>

-----------------------------------------------------------------------------

WorkspacesNext ==
    \/ \E c \in Client, op \in {"invite", "list", "token", "revoke"} :
           \/ \E u \in User, o \in Org \union {Nil} : Authenticate(c, u, op, o)
           \/ \E t \in ApiToken : AuthenticateToken(c, t, op)
    \/ \E c \in Client, o \in Org : MakeOrg(c, o)
    \/ \E c \in Client, u \in User, role \in Role : InviteMember(c, u, role)
    \/ \E c \in Client, t \in ApiToken : CreateAPIToken(c, t) \/ RevokeAPIToken(c, t)
    \/ \E c \in Client : Gate(c) \/ ListMembers(c) \/ TokenOrg(c)
    \/ \E c \in Client : BootAdmin(c) \/ Promote(c) \/ Abort(c)

WorkspacesSpec == WorkspacesInit /\ [][WorkspacesNext]_workspacesVars

-----------------------------------------------------------------------------
(* Properties *)

\* An API token acts in an organization its creator belongs to, whatever
\* X-Tenara-Org its creation named (handleCreateToken, ResolveAPIToken).
TokenOwnersAreMembers ==
    \A t \in ApiToken : apitoken[t] # Nil => member[apitoken[t].org][apitoken[t].user] # Nil

\* "So every user always has exactly one default org" (apitoken.go), says the
\* comment of DefaultOrgForUser, but first calls that race make a workspace each,
\* for nothing in the schema refuses the second.  What holds is that there are
\* never more than calls at a time: whoever comes later finds one.
WorkspacesAreFew == \A u \in User : made[u] <= Cardinality(Client)

\* A step that changes a role is one of the three that may.
RoleIsGranted ==
    \A o \in Org, u \in User : member'[o][u] # member[o][u] =>
       \/ Unused(o)
       \/ u = Admin /\ member'[o][u] = "platform_admin"
       \/ \E c \in Client :
              /\ at[c] = "serve" /\ ask[c].org = o
              /\ Can(ask[c].role, "member:invite")

\* A role changes in an organization only by somebody who held the right to
\* invite in that very organization when the gate asked, by the making of the
\* organization, or by the bootstrap of the platform administrator.
RolesAreGranted == [][RoleIsGranted]_workspacesVars
=============================================================================
