-------------------------- MODULE WorkspacesProofs --------------------------
(***************************************************************************)
(* Workspaces proved, for any number of users, organizations, tokens and   *)
(* calls.  What a call was told at the gate stays with it, and nobody      *)
(* loses a membership; the workspaces of a user are counted against the    *)
(* calls that found none.                                                  *)
(***************************************************************************)
EXTENDS Workspaces, FiniteSetTheorems, TLAPS

\* What a call is about, by the statement it is at.
AskFits(step, with) ==
    /\ step # "idle" => with.user \in User
    /\ step \in {"gate", "serve", "tokenInsert", "promote"} => with.org \in Org
    /\ with.op = "boot" => with.user = Admin
    /\ step = "promote" => with.user = Admin
    /\ step = "serve" /\ with.op = "invite" => Can(with.role, "member:invite")
    /\ step = "tokenInsert" => member[with.org][with.user] # Nil

Lookers(u) == {c \in Client : at[c] = "org" /\ ask[c].user = u}

\* Once a user has a workspace, no more calls can make another one.
Few(u) == made[u] > 0 =>
    /\ Memberships(u) # {}
    /\ made[u] + Cardinality(Lookers(u)) <= Cardinality(Client)

WorkspacesInv ==
    /\ WorkspacesTypeOK
    /\ \A c \in Client : AskFits(at[c], ask[c])
    /\ TokenOwnersAreMembers
    /\ \A u \in User : Few(u)

AskRows == [user: User \union {Nil}, org: Org \union {Nil},
            op: Ops \union {Nil}, role: SqlRole \union {Nil}]

\* Nobody loses a membership.
MembersLast == \A o \in Org, u \in User : member[o][u] # Nil => member'[o][u] # Nil

-----------------------------------------------------------------------------

LEMMA Made ==
    /\ NoAsk \in AskRows /\ NoAsk.op = Nil
    /\ \A u \in User, o \in Org \union {Nil}, op \in Ops, role \in SqlRole \union {Nil} :
           /\ Asks(u, o, op, role) \in AskRows /\ Asks(u, o, op, role).user = u
           /\ Asks(u, o, op, role).org = o /\ Asks(u, o, op, role).op = op
           /\ Asks(u, o, op, role).role = role
BY DEF NoAsk, Asks, AskRows

LEMMA FewOf ==
    ASSUME WorkspacesInv, MembersLast, NEW u \in User,
           made'[u] = made[u], Lookers(u)' \subseteq Lookers(u)
    PROVE  Few(u)'
<1> SUFFICES ASSUME made[u] > 0
             PROVE  /\ (Memberships(u) # {})'
                    /\ (made[u] + Cardinality(Lookers(u)) <= Cardinality(Client))'
  BY DEF Few
<1>1. /\ Memberships(u) # {} /\ made[u] + Cardinality(Lookers(u)) <= Cardinality(Client)
      /\ made[u] \in Nat
  BY DEF WorkspacesInv, Few, WorkspacesTypeOK
<1>2. (Memberships(u) # {})'
  BY <1>1 DEF Memberships, MembersLast
<1>3. Lookers(u) \subseteq Client
  BY DEF Lookers
<1>4. /\ IsFiniteSet(Lookers(u)) /\ Cardinality(Lookers(u)') <= Cardinality(Lookers(u))
      /\ Cardinality(Lookers(u)) \in Nat /\ Cardinality(Lookers(u)') \in Nat
      /\ Cardinality(Client) \in Nat
  BY <1>3, FS_Subset, FS_CardinalityType, WorkspacesAssumption
<1> QED
  BY <1>1, <1>2, <1>4

\* A call that does not go to look for a workspace leaves the count as it was.
LEMMA FewKept ==
    ASSUME WorkspacesInv, MembersLast, UNCHANGED made,
           NEW c \in Client, NEW to, NEW with,
           at'[c] = to, ask'[c] = with, to = "org" => Memberships(with.user) = {},
           \A d \in Client \ {c} : at'[d] = at[d] /\ ask'[d] = ask[d]
    PROVE  \A u \in User : Few(u)'
<1> SUFFICES ASSUME NEW u \in User PROVE Few(u)'
  OBVIOUS
<1>1. CASE made[u] > 0
  <2>1. Memberships(u) # {}
    BY <1>1 DEF WorkspacesInv, Few
  <2>2. Lookers(u)' \subseteq Lookers(u)
    BY <2>1 DEF Lookers
  <2> QED
    BY <2>2, FewOf
<1>2. CASE ~(made[u] > 0)
  BY <1>2 DEF Few
<1> QED
  BY <1>1, <1>2

\* A step of a call that changes no organization.
LEMMA CallStep ==
    ASSUME WorkspacesInv, NEW c \in Client, NEW from,
           NEW to \in ClientSteps, NEW with \in AskRows,
           Step(c, from, to, with), UNCHANGED orgs, AskFits(to, with),
           to = "org" => Memberships(with.user) = {},
           account' \in [User -> BOOLEAN],
           apitoken' \in [ApiToken -> {Nil} \union [user: User, org: Org, revoked: BOOLEAN]],
           TokenOwnersAreMembers'
    PROVE  WorkspacesInv'
<1>1. /\ at' \in [Client -> ClientSteps] /\ ask' \in [Client -> AskRows] /\ at'[c] = to /\ ask'[c] = with
      /\ \A d \in Client \ {c} : at'[d] = at[d] /\ ask'[d] = ask[d]
  <2>1. at \in [Client -> ClientSteps] /\ ask \in [Client -> AskRows]
    BY DEF WorkspacesInv, WorkspacesTypeOK, AskRows
  <2>2. at' = [at EXCEPT ![c] = to] /\ ask' = [ask EXCEPT ![c] = with]
    BY DEF Step
  <2> QED
    BY <2>1, <2>2
<1>2. member' = member /\ made' = made
  BY DEF orgs
<1>3. WorkspacesTypeOK'
  BY <1>1, <1>2 DEF WorkspacesInv, WorkspacesTypeOK, AskRows
<1>4. \A d \in Client : AskFits(at[d], ask[d])'
  BY <1>1, <1>2 DEF WorkspacesInv, AskFits
<1>5. \A u \in User : Few(u)'
  BY <1>1, <1>2, FewKept DEF MembersLast
<1> QED
  BY <1>3, <1>4, <1>5 DEF WorkspacesInv

LEMMA WorkspacesStart == ASSUME WorkspacesInit PROVE WorkspacesInv
<1>1. WorkspacesTypeOK
  BY Made DEF WorkspacesInit, WorkspacesTypeOK, AskRows, ClientSteps
<1>2. \A c \in Client : AskFits(at[c], ask[c])
  BY Made, WorkspacesAssumption DEF WorkspacesInit, AskFits, Ops
<1>3. TokenOwnersAreMembers /\ \A u \in User : Few(u)
  BY DEF WorkspacesInit, TokenOwnersAreMembers, Few
<1> QED
  BY <1>1, <1>2, <1>3 DEF WorkspacesInv

-----------------------------------------------------------------------------
(* Authentication and the gate *)

LEMMA AuthenticateStep ==
    ASSUME WorkspacesInv, NEW c \in Client, NEW u \in User,
           NEW op \in Ops \ {"boot"},
           NEW o \in Org \union {Nil}, Authenticate(c, u, op, o)
    PROVE  WorkspacesInv'
<1> USE DEF WorkspacesInv
<1>1. UNCHANGED <<account, orgs, apitoken>>
  BY DEF Authenticate
<1>2. PICK to \in {"org", "gate"}, p \in Org \union {Nil} :
         /\ Step(c, "idle", to, Asks(u, p, op, Nil))
         /\ to = "org" => Memberships(u) = {}
         /\ to = "gate" => p \in Org
  BY DEF Authenticate, DefaultOrgs, Memberships
<1> DEFINE with == Asks(u, p, op, Nil)
<1>3. with \in AskRows /\ with.user = u /\ AskFits(to, with)
  BY <1>2, Made DEF AskFits
<1>4. TokenOwnersAreMembers'
  BY <1>1 DEF TokenOwnersAreMembers, orgs
<1>5. Step(c, "idle", to, with) /\ (to = "org" => Memberships(with.user) = {}) /\ to \in ClientSteps
  BY <1>2, <1>3 DEF ClientSteps
<1> HIDE DEF with
<1> QED
  BY <1>1, <1>3, <1>4, <1>5, CallStep DEF WorkspacesTypeOK

LEMMA TokenStep ==
    ASSUME WorkspacesInv, NEW c \in Client, NEW t \in ApiToken,
           NEW op \in Ops \ {"boot"},
           AuthenticateToken(c, t, op)
    PROVE  WorkspacesInv'
<1> USE DEF WorkspacesInv
<1> DEFINE with == Asks(apitoken[t].user, apitoken[t].org, op, Nil)
<1>1. UNCHANGED <<account, orgs, apitoken>> /\ Step(c, "idle", "gate", with)
  BY DEF AuthenticateToken
<1>2. apitoken[t].user \in User /\ apitoken[t].org \in Org
  BY DEF AuthenticateToken, WorkspacesTypeOK
<1>3. with \in AskRows /\ AskFits("gate", with)
  BY <1>2, Made DEF AskFits
<1>4. TokenOwnersAreMembers'
  BY <1>1 DEF TokenOwnersAreMembers, orgs
<1> HIDE DEF with
<1> QED
  BY <1>1, <1>3, <1>4, CallStep DEF ClientSteps, WorkspacesTypeOK

\* Only a role that may invite gets an invitation served.
LEMMA EntryStep ==
    ASSUME WorkspacesInv, NEW c \in Client, Gate(c)
    PROVE  WorkspacesInv'
<1> USE DEF WorkspacesInv
<1> DEFINE role == member[ask[c].org][ask[c].user]
           with == Asks(ask[c].user, ask[c].org, ask[c].op, role)
<1>1. UNCHANGED <<account, orgs, apitoken>> /\ at[c] = "gate" /\ ask[c] \in AskRows
  BY DEF Gate, WorkspacesTypeOK, AskRows
<1>2. ask[c].user \in User /\ ask[c].org \in Org /\ (ask[c].op = "boot" => ask[c].user = Admin)
  BY <1>1 DEF AskFits
<1>3. role \in SqlRole \union {Nil}
  BY <1>2 DEF WorkspacesTypeOK
<1>4. TokenOwnersAreMembers'
  BY <1>1 DEF TokenOwnersAreMembers, orgs
<1>5. CASE ask[c].op \in {"invite", "list"} /\ Can(role, Needed(ask[c].op))
  <2>1. Step(c, "gate", "serve", with)
    BY <1>5 DEF Gate
  <2>2. with \in AskRows /\ with.op = ask[c].op /\ with.role = role /\ with.user = ask[c].user
        /\ with.org = ask[c].org
    <3>1. ask[c].op \in Ops /\ ask[c].org \in Org \union {Nil}
      BY <1>2, <1>5 DEF Ops
    <3> QED
      BY <1>2, <1>3, <3>1 DEF Asks, AskRows
  <2>3. AskFits("serve", with)
    BY <1>2, <1>5, <2>2 DEF AskFits, Needed
  <2> HIDE DEF with
  <2> QED
    BY <1>1, <1>4, <2>1, <2>2, <2>3, CallStep DEF ClientSteps, WorkspacesTypeOK
<1>6. CASE ~(ask[c].op \in {"invite", "list"} /\ Can(role, Needed(ask[c].op)))
  <2>1. \/ Step(c, "gate", "idle", NoAsk)
        \/ Step(c, "gate", "tokenOrg", ask[c])
        \/ ask[c].op = "revoke" /\ Step(c, "gate", "serve", ask[c])
    BY <1>6 DEF Gate, Ends
  <2>2. NoAsk \in AskRows /\ AskFits("idle", NoAsk) /\ AskFits("tokenOrg", ask[c])
        /\ (ask[c].op = "revoke" => AskFits("serve", ask[c]))
    BY <1>2, Made, WorkspacesAssumption DEF AskFits, Ops
  <2> QED
    BY <1>1, <1>4, <2>1, <2>2, CallStep DEF ClientSteps, WorkspacesTypeOK
<1> QED
  BY <1>5, <1>6

-----------------------------------------------------------------------------
(* The routes *)

\* A step that writes no membership and no token.
LEMMA EndStep ==
    ASSUME WorkspacesInv, NEW c \in Client, NEW from, Step(c, from,
           "idle", NoAsk),
           UNCHANGED <<account, orgs, apitoken>>
    PROVE  WorkspacesInv'
<1>1. NoAsk \in AskRows /\ AskFits("idle", NoAsk)
  BY Made, WorkspacesAssumption DEF AskFits, Ops
<1>2. TokenOwnersAreMembers'
  BY DEF TokenOwnersAreMembers, orgs, WorkspacesInv
<1> QED
  BY <1>1, <1>2, CallStep DEF ClientSteps, WorkspacesTypeOK, WorkspacesInv

LEMMA TokenOrgStep ==
    ASSUME WorkspacesInv, NEW c \in Client, TokenOrg(c)
    PROVE  WorkspacesInv'
<1> USE DEF WorkspacesInv
<1>1. /\ at[c] = "tokenOrg" /\ UNCHANGED <<account, orgs, apitoken>> /\ ask[c] \in AskRows
  BY DEF TokenOrg, WorkspacesTypeOK, AskRows
<1>2. ask[c].user \in User /\ (ask[c].op = "boot" => ask[c].user = Admin)
  BY <1>1 DEF AskFits
<1>3. PICK o \in DefaultOrgs(ask[c].user) :
         Step(c, "tokenOrg", "tokenInsert", Asks(ask[c].user, o, ask[c].op, Nil))
  BY DEF TokenOrg
<1>4. o \in Org /\ member[o][ask[c].user] # Nil
  BY DEF DefaultOrgs, Memberships
<1>5. ask[c].op \in Ops \union {Nil}
  BY <1>1 DEF AskRows
<1> DEFINE with == Asks(ask[c].user, o, ask[c].op, Nil)
<1>6. with \in AskRows /\ AskFits("tokenInsert", with)
  BY <1>2, <1>4, <1>5 DEF Asks, AskRows, AskFits
<1>7. TokenOwnersAreMembers'
  BY <1>1 DEF TokenOwnersAreMembers, orgs
<1> HIDE DEF with
<1> QED
  BY <1>1, <1>3, <1>6, <1>7, CallStep DEF ClientSteps, WorkspacesTypeOK, with

LEMMA CreateTokenStep ==
    ASSUME WorkspacesInv, NEW c \in Client, NEW t \in ApiToken,
           CreateAPIToken(c, t) \/ RevokeAPIToken(c, t)
    PROVE  WorkspacesInv'
<1> USE DEF WorkspacesInv
<1>1. /\ UNCHANGED <<account, orgs>>
      /\ Step(c, "tokenInsert", "idle", NoAsk) \/ Step(c, "serve", "idle", NoAsk)
  BY DEF CreateAPIToken, RevokeAPIToken, Ends
<1>2. NoAsk \in AskRows /\ AskFits("idle", NoAsk)
  BY Made, WorkspacesAssumption DEF AskFits, Ops
<1>3. /\ apitoken' \in [ApiToken -> {Nil} \union [user: User, org: Org, revoked: BOOLEAN]]
      /\ \A r \in ApiToken : apitoken'[r] # Nil => member[apitoken'[r].org][apitoken'[r].user] # Nil
  <2>1. CASE CreateAPIToken(c, t)
    <3> DEFINE new == TokenRow(ask[c].user, ask[c].org, FALSE)
    <3>1. at[c] = "tokenInsert" /\ apitoken' = [apitoken EXCEPT ![t] = new]
      BY <2>1 DEF CreateAPIToken
    <3>2. ask[c].user \in User /\ ask[c].org \in Org /\ member[ask[c].org][ask[c].user] # Nil
      BY <3>1 DEF AskFits
    <3>3. new \in [user: User, org: Org, revoked: BOOLEAN] /\ new.user = ask[c].user
          /\ new.org = ask[c].org
      BY <3>2 DEF TokenRow
    <3> HIDE DEF new
    <3> QED
      BY <3>1, <3>2, <3>3 DEF WorkspacesTypeOK, TokenOwnersAreMembers
  <2>2. CASE RevokeAPIToken(c, t) /\ apitoken' = apitoken
    BY <2>2 DEF WorkspacesTypeOK, TokenOwnersAreMembers
  <2>3. CASE RevokeAPIToken(c, t) /\ apitoken' # apitoken
    <3> DEFINE new == TokenRow(apitoken[t].user, apitoken[t].org, TRUE)
    <3>1. apitoken[t] # Nil /\ apitoken' = [apitoken EXCEPT ![t] = new]
      BY <2>3 DEF RevokeAPIToken
    <3>2. apitoken[t].user \in User /\ apitoken[t].org \in Org
          /\ member[apitoken[t].org][apitoken[t].user] # Nil
      BY <3>1 DEF WorkspacesTypeOK, TokenOwnersAreMembers
    <3>3. new \in [user: User, org: Org, revoked: BOOLEAN] /\ new.user = apitoken[t].user
          /\ new.org = apitoken[t].org
      BY <3>2 DEF TokenRow
    <3> HIDE DEF new
    <3> QED
      BY <3>1, <3>2, <3>3 DEF WorkspacesTypeOK, TokenOwnersAreMembers
  <2> QED
    BY <2>1, <2>2, <2>3
<1>4. TokenOwnersAreMembers'
  BY <1>1, <1>3 DEF TokenOwnersAreMembers, orgs
<1> QED
  BY <1>1, <1>2, <1>3, <1>4, CallStep DEF ClientSteps, WorkspacesTypeOK

-----------------------------------------------------------------------------
(* The steps that write a membership *)

\* A membership written for a user of a call that does not look for one.
LEMMA GrantStep ==
    ASSUME WorkspacesInv, NEW c \in Client, NEW from, Step(c, from,
           "idle", NoAsk),
           NEW o \in Org, NEW u \in User, NEW role \in SqlRole,
           member' = [member EXCEPT ![o][u] = role], UNCHANGED <<made, apitoken>>,
           account' \in [User -> BOOLEAN]
    PROVE  WorkspacesInv'
<1>1. NoAsk \in AskRows /\ AskFits("idle", NoAsk)'
  BY Made, WorkspacesAssumption DEF AskFits, Ops
<1>2. /\ at' \in [Client -> ClientSteps] /\ ask' \in [Client -> AskRows] /\ at'[c] = "idle" /\ ask'[c] = NoAsk
      /\ \A d \in Client \ {c} : at'[d] = at[d] /\ ask'[d] = ask[d]
  <2>1. at \in [Client -> ClientSteps] /\ ask \in [Client -> AskRows]
    BY DEF WorkspacesInv, WorkspacesTypeOK, AskRows
  <2>2. at' = [at EXCEPT ![c] = "idle"] /\ ask' = [ask EXCEPT ![c] = NoAsk]
    BY DEF Step
  <2> QED
    BY <1>1, <2>1, <2>2 DEF ClientSteps
<1>3. MembersLast
  BY WorkspacesAssumption DEF MembersLast, WorkspacesInv, WorkspacesTypeOK
<1>4. WorkspacesTypeOK'
  <2>1. member' \in [Org -> [User -> SqlRole \union {Nil}]]
    BY DEF WorkspacesInv, WorkspacesTypeOK
  <2> QED
    BY <1>2, <2>1 DEF WorkspacesInv, WorkspacesTypeOK, AskRows
<1>5. \A d \in Client : AskFits(at[d], ask[d])'
  <2>1. ASSUME NEW d \in Client \ {c}
        PROVE  AskFits(at[d], ask[d])'
    BY <1>2, <1>3 DEF AskFits, MembersLast, WorkspacesInv
  <2> QED
    BY <1>1, <1>2, <2>1
<1>6. TokenOwnersAreMembers'
  BY <1>3 DEF TokenOwnersAreMembers, MembersLast, WorkspacesInv, WorkspacesTypeOK
<1>7. \A v \in User : Few(v)'
  BY <1>2, <1>3, FewKept
<1> QED
  BY <1>4, <1>5, <1>6, <1>7 DEF WorkspacesInv

LEMMA InviteStep ==
    ASSUME WorkspacesInv, NEW c \in Client, NEW u \in User, NEW role,
           InviteMember(c, u, role)
    PROVE  WorkspacesInv'
<1>1. /\ at[c] = "serve" /\ role \in SqlRole /\ Step(c, "serve", "idle", NoAsk)
      /\ member' = [member EXCEPT ![ask[c].org][u] = role] /\ UNCHANGED <<made, apitoken>>
      /\ account' \in [User -> BOOLEAN]
  BY DEF InviteMember, Ends, WorkspacesInv, WorkspacesTypeOK
<1>2. ask[c].org \in Org
  BY <1>1 DEF AskFits, WorkspacesInv
<1> QED
  BY <1>1, <1>2, GrantStep

LEMMA PromoteStep ==
    ASSUME WorkspacesInv, NEW c \in Client, Promote(c)
    PROVE  WorkspacesInv'
<1>1. /\ at[c] = "promote" /\ Step(c, "promote", "idle", NoAsk)
      /\ member' = [member EXCEPT ![ask[c].org][ask[c].user] = "platform_admin"]
      /\ UNCHANGED <<made, apitoken>> /\ account' \in [User -> BOOLEAN]
  BY DEF Promote, Ends, WorkspacesInv, WorkspacesTypeOK
<1>2. ask[c].org \in Org /\ ask[c].user \in User
  BY <1>1 DEF AskFits, WorkspacesInv
<1> QED
  BY <1>1, <1>2, GrantStep DEF SqlRole

LEMMA BootStep ==
    ASSUME WorkspacesInv, NEW c \in Client, BootAdmin(c)
    PROVE  WorkspacesInv'
<1>1. /\ account' \in [User -> BOOLEAN] /\ UNCHANGED <<orgs, apitoken>>
  BY DEF BootAdmin, WorkspacesInv, WorkspacesTypeOK
<1>2. PICK to \in {"org", "promote"}, p \in Org \union {Nil} :
         /\ Step(c, "idle", to, Asks(Admin, p, "boot", Nil))
         /\ to = "org" => Memberships(Admin) = {}
         /\ to = "promote" => p \in Org
  BY DEF BootAdmin, DefaultOrgs, Memberships
<1> DEFINE with == Asks(Admin, p, "boot", Nil)
<1>3. with \in AskRows /\ with.user = Admin /\ AskFits(to, with)
  BY <1>2, Made, WorkspacesAssumption DEF AskFits, Ops
<1>4. TokenOwnersAreMembers'
  BY <1>1 DEF TokenOwnersAreMembers, orgs, WorkspacesInv
<1>5. Step(c, "idle", to, with) /\ (to = "org" => Memberships(with.user) = {}) /\ to \in ClientSteps
  BY <1>2, <1>3 DEF ClientSteps
<1> HIDE DEF with
<1> QED
  BY <1>1, <1>3, <1>4, <1>5, CallStep DEF WorkspacesInv, WorkspacesTypeOK

\* The call that makes a workspace is one of those that looked for one.
LEMMA MakeStep ==
    ASSUME WorkspacesInv, NEW c \in Client, NEW o \in Org, MakeOrg(c, o)
    PROVE  WorkspacesInv'
<1>0. PICK u, opened, op, to, with :
         /\ u = ask[c].user /\ opened = (IF ask[c].org = Nil THEN o ELSE ask[c].org)
         /\ op = ask[c].op /\ to = (IF op = "boot" THEN "promote" ELSE "gate")
         /\ with = Asks(u, opened, op, Nil)
  OBVIOUS
<1>1. /\ at[c] = "org" /\ Unused(o) /\ member' = [member EXCEPT ![o][u] = "workspace_admin"]
      /\ made' = [made EXCEPT ![u] = @ + 1] /\ Step(c, "org", to, with)
      /\ UNCHANGED <<account, apitoken>>
  BY <1>0 DEF MakeOrg
<1>2. /\ u \in User /\ opened \in Org /\ op \in Ops \union {Nil} /\ (op = "boot" => u = Admin)
  BY <1>0, <1>1 DEF WorkspacesInv, AskFits, WorkspacesTypeOK
<1>3. to \in ClientSteps /\ with \in AskRows /\ AskFits(to, with)' /\ to # "org"
  BY <1>0, <1>2 DEF Asks, AskRows, AskFits, ClientSteps
<1>4. /\ at' \in [Client -> ClientSteps] /\ ask' \in [Client -> AskRows] /\ at'[c] = to /\ ask'[c] = with
      /\ \A d \in Client \ {c} : at'[d] = at[d] /\ ask'[d] = ask[d]
  <2>1. at \in [Client -> ClientSteps] /\ ask \in [Client -> AskRows]
    BY DEF WorkspacesInv, WorkspacesTypeOK, AskRows
  <2>2. at' = [at EXCEPT ![c] = to] /\ ask' = [ask EXCEPT ![c] = with]
    BY <1>1 DEF Step
  <2> QED
    BY <1>3, <2>1, <2>2
<1>5. MembersLast /\ member'[o][u] # Nil
  BY <1>1, <1>2, WorkspacesAssumption DEF MembersLast, WorkspacesInv, WorkspacesTypeOK, SqlRole
<1>6. WorkspacesTypeOK'
  <2>1. member' \in [Org -> [User -> SqlRole \union {Nil}]] /\ made' \in [User -> Nat]
    BY <1>1, <1>2 DEF WorkspacesInv, WorkspacesTypeOK, SqlRole
  <2> QED
    BY <1>1, <1>4, <2>1 DEF WorkspacesInv, WorkspacesTypeOK, AskRows
<1>7. \A d \in Client : AskFits(at[d], ask[d])'
  <2>1. ASSUME NEW d \in Client \ {c}
        PROVE  AskFits(at[d], ask[d])'
    BY <1>4, <1>5 DEF AskFits, MembersLast, WorkspacesInv
  <2> QED
    BY <1>3, <1>4, <2>1
<1>8. TokenOwnersAreMembers'
  BY <1>1, <1>5 DEF TokenOwnersAreMembers, MembersLast, WorkspacesInv, WorkspacesTypeOK
<1>9. ASSUME NEW v \in User
      PROVE  Few(v)'
  <2>1. CASE v # u
    <3>1. made'[v] = made[v]
      BY <1>1, <2>1 DEF WorkspacesInv, WorkspacesTypeOK
    <3>2. Lookers(v)' \subseteq Lookers(v)
      BY <1>3, <1>4 DEF Lookers
    <3> QED
      BY <3>1, <3>2, <1>5, FewOf
  <2>2. CASE v = u
    <3>1. made'[v] = made[v] + 1 /\ made[v] \in Nat
      BY <1>1, <1>2, <2>2 DEF WorkspacesInv, WorkspacesTypeOK
    <3>2. Lookers(v)' = Lookers(v) \ {c} /\ c \in Lookers(v)
      BY <1>0, <1>1, <1>3, <1>4, <2>2 DEF Lookers
    <3>3. Lookers(v) \subseteq Client
      BY DEF Lookers
    <3>4. /\ IsFiniteSet(Lookers(v)) /\ Cardinality(Lookers(v)) <= Cardinality(Client)
          /\ Cardinality(Lookers(v)) \in Nat /\ Cardinality(Client) \in Nat
      BY <3>3, FS_Subset, FS_CardinalityType, WorkspacesAssumption
    <3>5. Cardinality(Lookers(v)') = Cardinality(Lookers(v)) - 1
      BY <3>2, <3>4, FS_RemoveElement
    <3>6. made[v] > 0 => made[v] + Cardinality(Lookers(v)) <= Cardinality(Client)
      BY DEF WorkspacesInv, Few
    <3>7. (made[v] + Cardinality(Lookers(v)) <= Cardinality(Client))'
      BY <3>1, <3>4, <3>5, <3>6
    <3>8. (Memberships(v) # {})'
      BY <1>1, <1>2, <2>2, WorkspacesAssumption
         DEF Memberships, WorkspacesInv, WorkspacesTypeOK, SqlRole
    <3> QED
      BY <3>7, <3>8 DEF Few
  <2> QED
    BY <2>1, <2>2
<1> QED
  BY <1>6, <1>7, <1>8, <1>9 DEF WorkspacesInv

LEMMA WorkspacesStep ==
    ASSUME WorkspacesInv, [WorkspacesNext]_workspacesVars
    PROVE  WorkspacesInv'
<1>1. CASE UNCHANGED workspacesVars
  <2>1. WorkspacesTypeOK' /\ TokenOwnersAreMembers' /\ \A c \in Client : AskFits(at[c], ask[c])'
    BY <1>1
       DEF workspacesVars, orgs, WorkspacesInv, WorkspacesTypeOK, TokenOwnersAreMembers, AskFits
  <2>2. \A u \in User : Few(u)'
    BY <1>1 DEF workspacesVars, orgs, WorkspacesInv, Few, Lookers, Memberships
  <2> QED
    BY <2>1, <2>2 DEF WorkspacesInv
<1>2. ASSUME NEW c \in Client, NEW op \in {"invite", "list", "token", "revoke"}, NEW u \in User,
             NEW o \in Org \union {Nil}, Authenticate(c, u, op, o)
      PROVE  WorkspacesInv'
  BY <1>2, AuthenticateStep DEF Ops
<1>3. ASSUME NEW c \in Client, NEW op \in {"invite", "list", "token", "revoke"},
             NEW t \in ApiToken, AuthenticateToken(c, t, op)
      PROVE  WorkspacesInv'
  BY <1>3, TokenStep DEF Ops
<1>4. ASSUME NEW c \in Client, NEW o \in Org, MakeOrg(c, o) PROVE WorkspacesInv'
  BY <1>4, MakeStep
<1>5. ASSUME NEW c \in Client, NEW u \in User, NEW role \in Role, InviteMember(c, u, role)
      PROVE  WorkspacesInv'
  BY <1>5, InviteStep
<1>6. ASSUME NEW c \in Client, NEW t \in ApiToken, CreateAPIToken(c, t) \/ RevokeAPIToken(c, t)
      PROVE  WorkspacesInv'
  BY <1>6, CreateTokenStep
<1>7. ASSUME NEW c \in Client, Gate(c) PROVE WorkspacesInv'
  BY <1>7, EntryStep
<1>8. ASSUME NEW c \in Client, ListMembers(c) \/ Abort(c) PROVE WorkspacesInv'
  <2>1. PICK from : Step(c, from, "idle", NoAsk)
    BY <1>8 DEF ListMembers, Abort, Ends
  <2> QED
    BY <1>8, <2>1, EndStep DEF ListMembers, Abort
<1>9. ASSUME NEW c \in Client, TokenOrg(c) PROVE WorkspacesInv'
  BY <1>9, TokenOrgStep
<1>10. ASSUME NEW c \in Client, BootAdmin(c) PROVE WorkspacesInv'
  BY <1>10, BootStep
<1>11. ASSUME NEW c \in Client, Promote(c) PROVE WorkspacesInv'
  BY <1>11, PromoteStep
<1> QED
  BY <1>1, <1>2, <1>3, <1>4, <1>5, <1>6, <1>7, <1>8, <1>9, <1>10, <1>11 DEF WorkspacesNext

-----------------------------------------------------------------------------

LEMMA WorkspacesCarried == WorkspacesSpec => []WorkspacesInv
<1>1. WorkspacesInit => WorkspacesInv
  BY WorkspacesAssumption, WorkspacesStart
<1>2. WorkspacesInv /\ [WorkspacesNext]_workspacesVars => WorkspacesInv'
  BY WorkspacesAssumption, WorkspacesStep
<1> QED
  BY <1>1, <1>2, PTL DEF WorkspacesSpec

\* The rows of users, members and tokens and the calls under way are well
\* typed; a role is one the SQL check admits.
THEOREM WorkspacesTypeCorrect == WorkspacesSpec => []WorkspacesTypeOK
<1>1. WorkspacesInv => WorkspacesTypeOK
  BY DEF WorkspacesInv
<1> QED
  BY <1>1, WorkspacesCarried, PTL

\* handleCreateToken gives no token of an organization its creator is not in,
\* whatever organization the call asked for, and nothing makes it one later.
THEOREM OwnersAreMembers == WorkspacesSpec => []TokenOwnersAreMembers
<1>1. WorkspacesInv => TokenOwnersAreMembers
  BY DEF WorkspacesInv
<1> QED
  BY <1>1, WorkspacesCarried, PTL

\* DefaultOrgForUser makes a user at most as many workspaces as calls race.
THEOREM FewWorkspaces == WorkspacesSpec => []WorkspacesAreFew
<1>1. ASSUME WorkspacesInv, NEW u \in User
      PROVE  made[u] <= Cardinality(Client)
  <2>1. Lookers(u) \subseteq Client
    BY DEF Lookers
  <2>2. Cardinality(Client) \in Nat /\ Cardinality(Lookers(u)) \in Nat /\ made[u] \in Nat
    BY <1>1, <2>1, WorkspacesAssumption, FS_Subset, FS_CardinalityType
       DEF WorkspacesInv, WorkspacesTypeOK
  <2>3. made[u] > 0 => made[u] + Cardinality(Lookers(u)) <= Cardinality(Client)
    BY <1>1 DEF WorkspacesInv, Few
  <2> QED
    BY <2>2, <2>3
<1>2. WorkspacesInv => WorkspacesAreFew
  BY <1>1 DEF WorkspacesAreFew
<1> QED
  BY <1>2, WorkspacesCarried, PTL

\* No role changes but by a call the gate let invite in that organization, by
\* the making of the organization or by the bootstrap (members.go).
THEOREM GrantedRoles == WorkspacesSpec => RolesAreGranted
<1>1. ASSUME WorkspacesInv, [WorkspacesNext]_workspacesVars,
             NEW o \in Org, NEW u \in User, member'[o][u] # member[o][u]
      PROVE  \/ Unused(o)
             \/ u = Admin /\ member'[o][u] = "platform_admin"
             \/ \E c \in Client :
                    at[c] = "serve" /\ ask[c].org = o /\ Can(ask[c].role, "member:invite")
  <2>1. \/ \E c \in Client, p \in Org : MakeOrg(c, p)
        \/ \E c \in Client, v \in User, role \in Role : InviteMember(c, v, role)
        \/ \E c \in Client : Promote(c)
    BY <1>1 DEF WorkspacesNext, workspacesVars, orgs, Authenticate, AuthenticateToken,
                CreateAPIToken, RevokeAPIToken, Gate, ListMembers, TokenOrg, BootAdmin, Abort
  <2>2. ASSUME NEW c \in Client, NEW p \in Org, MakeOrg(c, p)
        PROVE  Unused(o)
    BY <1>1, <2>2 DEF MakeOrg, WorkspacesInv, WorkspacesTypeOK
  <2>3. ASSUME NEW c \in Client, NEW v \in User, NEW role \in Role, InviteMember(c, v, role)
        PROVE  at[c] = "serve" /\ ask[c].org = o /\ Can(ask[c].role, "member:invite")
    BY <1>1, <2>3 DEF InviteMember, WorkspacesInv, WorkspacesTypeOK, AskFits
  <2>4. ASSUME NEW c \in Client, Promote(c)
        PROVE  u = Admin /\ member'[o][u] = "platform_admin"
    BY <1>1, <2>4 DEF Promote, WorkspacesInv, WorkspacesTypeOK, AskFits
  <2> QED
    BY <2>1, <2>2, <2>3, <2>4
<1>2. WorkspacesInv /\ [WorkspacesNext]_workspacesVars => [RoleIsGranted]_workspacesVars
  BY <1>1 DEF RoleIsGranted
<1> QED
  BY <1>2, WorkspacesCarried, PTL DEF WorkspacesSpec, RolesAreGranted
=============================================================================
