------------------------------ MODULE Bindings ------------------------------
(***************************************************************************)
(* What an application is bound to: databases, custom domains and secrets  *)
(* (control-plane/internal/apps: databases.go, domains.go, handlers.go,    *)
(* secrets_handlers.go; secrets/service.go).  Each statement is a          *)
(* transaction of its own, but for SetSecret.  The application is there;   *)
(* that it may be deleted meanwhile is Apps' business.  DNS is external:   *)
(* whoever owns a host publishes and withdraws challenges at will.         *)
(***************************************************************************)
EXTENDS Naturals, Sequences

CONSTANTS
    Kind,       \* database kinds after normalizeKind
    Host,       \* host names, unique over all applications
    Default,    \* the hosts that are <slug>.<base domain> of an application
    Secret,     \* names of secrets
    Value,      \* plaintexts, as their ciphertexts tell them apart
    Job,        \* calls a server works on at a time
    Void,       \* nothing
    MaxSets     \* bound on the revisions of a secret

\* Void is none of the states a row can have.
ASSUME BindingsAssumption == MaxSets \in Nat /\ Void \notin {"pending", "ready", "verified"}

VARIABLES
    db,         \* db[k]: state of the row of k in databases, or Void
    bound,      \* bound[k]: states of its rows in database_bindings
    domain,     \* domain[h]: "pending", "verified" or Void
    published,  \* published[h]: DNS answers with the challenge of h's row
    proven,     \* proven[h]: it did so at some time
    live,       \* live[s]: the ciphertext of the row of s, or Void
    revision,   \* revision[s]: secret_revisions of s, by version
    do,         \* do[j]: the next statement of call j
    on          \* on[j]: what j works on and has read

databases == <<db, bound>>
domains == <<domain, published, proven>>
secrets == <<live, revision>>
bindingsVars == <<databases, domains, secrets, do, on>>

Jobs == {"idle", "dbInsert", "bindInsert", "isolate", "readyDb", "lookup", "mark", "set"}
WorkOn(x) == [of |-> x, value |-> Void, version |-> 0]
Unoccupied == WorkOn(Void)

BindingsTypeOK ==
    /\ db \in [Kind -> {Void, "pending", "ready"}]
    /\ bound \in [Kind -> Seq({"pending", "ready"})]
    /\ domain \in [Host -> {Void, "pending", "verified"}]
    /\ published \in [Host -> BOOLEAN]
    /\ proven \in [Host -> BOOLEAN]
    /\ live \in [Secret -> Value \union {Void}]
    /\ revision \in [Secret -> Seq(Value)]
    /\ \A s \in Secret : Len(revision[s]) <= MaxSets
    /\ do \in [Job -> Jobs]
    /\ on \in [Job -> [of: Kind \union Host \union Secret \union {Void},
                       value: Value \union {Void}, version: 0 .. MaxSets]]

BindingsInit ==
    /\ db = [k \in Kind |-> Void]
    /\ bound = [k \in Kind |-> <<>>]
    /\ domain = [h \in Host |-> Void]
    /\ published = [h \in Host |-> FALSE]
    /\ proven = [h \in Host |-> FALSE]
    /\ live = [s \in Secret |-> Void]
    /\ revision = [s \in Secret |-> <<>>]
    /\ do = [j \in Job |-> "idle"]
    /\ on = [j \in Job |-> Unoccupied]

Does(j, from, to, with) ==
    /\ do[j] = from
    /\ do' = [do EXCEPT ![j] = to]
    /\ on' = [on EXCEPT ![j] = with]
Stops(j, from) == Does(j, from, "idle", Unoccupied)

-----------------------------------------------------------------------------
(* POST /v1/apps/{appId}/databases *)

RequestDatabase(j, k) ==
    /\ Does(j, "idle", IF db[k] = Void THEN "dbInsert" ELSE "isolate", WorkOn(k))
    /\ UNCHANGED <<databases, domains, secrets>>

InsertDatabaseOrMerge(j) ==
    /\ do[j] = "dbInsert"
    /\ db' = [db EXCEPT ![on[j].of] = IF @ = Void THEN "pending" ELSE @]
    /\ Does(j, "dbInsert", "bindInsert", on[j])
    /\ UNCHANGED <<bound, domains, secrets>>

\* The second INSERT of one kind meets UNIQUE (app_id, type): INTERNAL.
InsertDatabase(j) ==
    LET k == on[j].of
    IN  /\ \/ /\ do[j] = "dbInsert" /\ db[k] = Void
              /\ db' = [db EXCEPT ![k] = "pending"]
              /\ Does(j, "dbInsert", "bindInsert", on[j])
           \/ /\ do[j] = "dbInsert" /\ db[k] # Void
              /\ Stops(j, "dbInsert")
              /\ UNCHANGED db
        /\ UNCHANGED <<bound, domains, secrets>>

InsertBinding(j) ==
    /\ do[j] = "bindInsert"
    /\ bound' = [bound EXCEPT ![on[j].of] = Append(@, "pending")]
    /\ Stops(j, "bindInsert")
    /\ UNCHANGED <<db, domains, secrets>>

\* A repeated request sets the isolation and answers with the binding, or with
\* NOT_FOUND when the call that made the database lost its second INSERT.
UpdateIsolation(j) ==
    /\ Stops(j, "isolate")
    /\ UNCHANGED <<databases, domains, secrets>>

\* MarkBindingReady: all pending bindings of the application, then its
\* databases.
Ready(states) == [i \in DOMAIN states |-> "ready"]

MarkBindings(j) ==
    /\ bound' = [k \in Kind |-> Ready(bound[k])]
    /\ Does(j, "idle", "readyDb", Unoccupied)
    /\ UNCHANGED <<db, domains, secrets>>

MarkDatabases(j) ==
    /\ db' = [k \in Kind |-> IF db[k] = "pending" THEN "ready" ELSE db[k]]
    /\ Stops(j, "readyDb")
    /\ UNCHANGED <<bound, domains, secrets>>

-----------------------------------------------------------------------------
(* POST /v1/apps/{appId}/domains and .../verify *)

\* The unique host name refuses a second row, of this or another application.
InsertDomain(h) ==
    /\ domain[h] = Void
    /\ domain' = [domain EXCEPT ![h] = IF h \in Default THEN "verified" ELSE "pending"]
    /\ UNCHANGED <<databases, published, proven, secrets, do, on>>

VerifyRead(j, h) ==
    /\ domain[h] = "pending"
    /\ Does(j, "idle", "lookup", WorkOn(h))
    /\ UNCHANGED <<databases, domains, secrets>>

LookupAcceptsAny(j) ==
    /\ Does(j, "lookup", "mark", on[j])
    /\ UNCHANGED <<databases, domains, secrets>>

\* A failed lookup and one without the challenge leave the domain pending.
Lookup(j) ==
    /\ do[j] = "lookup"
    /\ IF published[on[j].of] THEN Does(j, "lookup", "mark", on[j]) ELSE Stops(j, "lookup")
    /\ UNCHANGED <<databases, domains, secrets>>

MarkDomainVerified(j) ==
    /\ do[j] = "mark"
    /\ domain' = [domain EXCEPT ![on[j].of] = "verified"]
    /\ Stops(j, "mark")
    /\ UNCHANGED <<databases, published, proven, secrets>>

Publish(h) ==
    /\ domain[h] # Void
    /\ published' = [published EXCEPT ![h] = ~@]
    /\ proven' = [proven EXCEPT ![h] = TRUE]
    /\ UNCHANGED <<databases, domain, secrets, do, on>>

-----------------------------------------------------------------------------
(* PUT /v1/apps/{appId}/env: one transaction of two statements.  The version  *)
(* is counted in the snapshot the first one began with, before it waited for  *)
(* another transaction's lock on the row.                                     *)

SetBegin(j, s, v) ==
    /\ Len(revision[s]) < MaxSets
    /\ Does(j, "idle", "set", [of |-> s, value |-> v, version |-> Len(revision[s]) + 1])
    /\ UNCHANGED <<databases, domains, secrets>>

SetSecretKeepsRevision(j) ==
    LET s == on[j].of
    IN  /\ do[j] = "set"
        /\ live' = [live EXCEPT ![s] = on[j].value]
        /\ revision' = IF on[j].version = Len(revision[s]) + 1
                       THEN [revision EXCEPT ![s] = Append(@, on[j].value)] ELSE revision
        /\ Stops(j, "set")
        /\ UNCHANGED <<databases, domains>>

\* UNIQUE (secret_id, version) undoes a transaction whose count was stale.
SetSecret(j) ==
    LET s == on[j].of
    IN  /\ do[j] = "set"
        /\ on[j].version = Len(revision[s]) + 1
        /\ live' = [live EXCEPT ![s] = on[j].value]
        /\ revision' = [revision EXCEPT ![s] = Append(@, on[j].value)]
        /\ Stops(j, "set")
        /\ UNCHANGED <<databases, domains>>

\* A refused INSERT, a storage error or a stopped server.
Fails(j) ==
    /\ do[j] # "idle"
    /\ Stops(j, do[j])
    /\ UNCHANGED <<databases, domains, secrets>>

BindingsNext ==
    \/ \E j \in Job, k \in Kind : RequestDatabase(j, k)
    \/ \E j \in Job : InsertDatabase(j) \/ InsertBinding(j) \/ UpdateIsolation(j)
    \/ \E j \in Job : MarkBindings(j) \/ MarkDatabases(j)
    \/ \E h \in Host : InsertDomain(h) \/ Publish(h)
    \/ \E j \in Job, h \in Host : VerifyRead(j, h)
    \/ \E j \in Job : Lookup(j) \/ MarkDomainVerified(j) \/ SetSecret(j) \/ Fails(j)
    \/ \E j \in Job, s \in Secret, v \in Value : SetBegin(j, s, v)

BindingsSpec == BindingsInit /\ [][BindingsNext]_bindingsVars

-----------------------------------------------------------------------------
(* Properties *)

\* A database has one binding at most, although two calls may both find no
\* database and nothing in the schema makes database_bindings unique.
OneBinding == \A k \in Kind : Len(bound[k]) <= 1

\* A custom host is verified only after DNS gave the challenge of its own row,
\* whatever DNS says by the time the mark is written (VerifyCustomDomain).
VerifiedIsProven == \A h \in Host \ Default : domain[h] = "verified" => proven[h]

\* The live ciphertext of a secret is that of its newest revision, although
\* racing SetSecrets count versions in stale snapshots.
LiveIsNewest ==
    \A s \in Secret :
        live[s] = IF revision[s] = <<>> THEN Void ELSE revision[s][Len(revision[s])]
=============================================================================
