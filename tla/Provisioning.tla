---------------------------- MODULE Provisioning ----------------------------
(***************************************************************************)
(* The DatabaseBinding reconciler of one application and the local         *)
(* providers behind it (controllers/internal/database: reconciler.go,      *)
(* provision.go; providers/mongo, cache, storage and secret, local).       *)
(*                                                                         *)
(* controller-runtime reconciles one binding at a time, from the copy its  *)
(* informer holds, and tries a failed one again.  MongoDB, Redis, MinIO    *)
(* and the API server are external: what a command does on them is the     *)
(* documented effect of that command.                                      *)
(***************************************************************************)
EXTENDS FiniteSets

CONSTANTS
    Stage,      \* environments; each has its namespace and Secret
    Pw,         \* passwords ever drawn (a bound on their number)
    Target,     \* the S3 target: a name, without the secret key
    Absent      \* nothing

BindingKind == {"mongo", "redis", "storage"}
Binding == BindingKind \X Stage

VARIABLES
    phase,      \* phase[b] of the DatabaseBinding of one kind and environment
    identity,   \* identity[k]: the application's user in the service of kind k
    attached,   \* the storage policy is attached to the user
    secret,     \* secret[e]: the data of app-<id>-secrets, or Absent
    drawn,      \* passwords drawn
    working     \* the reconcile under way: its binding, next step and password

provisioningVars == <<phase, identity, attached, secret, drawn, working>>

Resting == [binding |-> Absent, step |-> "rest", pw |-> Absent]
NoKeys == [k \in BindingKind |-> Absent]

\* A password and, for MongoDB, the database it is checked in.
Login == [pw: Pw, db: {"test", "app", "none"}]

ProvisioningTypeOK ==
    /\ phase \in [Binding -> {"", "PENDING", "READY"}]
    /\ identity \in [BindingKind -> Login \union {Absent}]
    /\ attached \in BOOLEAN
    /\ secret \in [Stage -> {Absent} \union [BindingKind -> Login \union {Target, Absent}]]
    /\ drawn \subseteq Pw
    /\ working \in {Resting} \union
           [binding: Binding, step: {"create", "policy", "attach", "inject", "ready"},
            pw: Pw \union {Absent}]

ProvisioningInit ==
    /\ phase = [b \in Binding |-> ""]
    /\ identity = NoKeys
    /\ attached = FALSE
    /\ secret = [e \in Stage |-> Absent]
    /\ drawn = {}
    /\ working = Resting

KindOf(b) == b[1]
EnvOf(b) == b[2]
Works(step) == working.step = step
Proceed(step) == working' = [working EXCEPT !.step = step]

\* A copy that is READY is left alone, and one that is not is PENDING from here
\* on.  The copy may be behind its binding, which is then provisioned again
\* though it is READY.  (When it is older than PENDING the Update meets a
\* conflict, and nothing is done.)
Reconcile(b) ==
    /\ Works("rest")
    /\ phase' = [phase EXCEPT ![b] = IF @ = "READY" THEN @ ELSE "PENDING"]
    /\ working' = [binding |-> b, step |-> "create", pw |-> Absent]
    /\ UNCHANGED <<identity, attached, secret, drawn>>

Draw(pw) ==
    /\ pw \notin drawn
    /\ drawn' = drawn \union {pw}

CreateAppDatabaseAnew(pw) ==
    /\ Works("create") /\ KindOf(working.binding) = "mongo"
    /\ Draw(pw)
    /\ identity' = [identity EXCEPT !["mongo"] = [pw |-> pw, db |-> "test"]]
    /\ working' = [working EXCEPT !.step = "inject", !.pw = pw]
    /\ UNCHANGED <<phase, attached, secret>>

\* adminArgs names no database, so that db is mongosh's own, test.  createUser
\* refuses a user that exists: the reconcile fails (see Fail), as it does on
\* every later attempt.
CreateAppDatabase(pw) ==
    /\ Works("create") /\ KindOf(working.binding) = "mongo"
    /\ identity["mongo"] = Absent
    /\ Draw(pw)
    /\ identity' = [identity EXCEPT !["mongo"] = [pw |-> pw, db |-> "test"]]
    /\ working' = [working EXCEPT !.step = "inject", !.pw = pw]
    /\ UNCHANGED <<phase, attached, secret>>

\* ACL SETUSER with reset: the user of the application, whatever environment
\* asks, has the new password and no other.
CreateAppCache(pw) ==
    /\ Works("create") /\ KindOf(working.binding) = "redis"
    /\ Draw(pw)
    /\ identity' = [identity EXCEPT !["redis"] = [pw |-> pw, db |-> "none"]]
    /\ working' = [working EXCEPT !.step = "inject", !.pw = pw]
    /\ UNCHANGED <<phase, attached, secret>>

\* provisionSteps: user add, policy add, policy attach.
CreateAppStorage(pw) ==
    /\ Works("create") /\ KindOf(working.binding) = "storage"
    /\ Draw(pw)
    /\ identity' = [identity EXCEPT !["storage"] = [pw |-> pw, db |-> "none"]]
    /\ working' = [working EXCEPT !.step = "policy", !.pw = pw]
    /\ UNCHANGED <<phase, attached, secret>>

AddPolicy ==
    /\ Works("policy")
    /\ Proceed("attach")
    /\ UNCHANGED <<phase, identity, attached, secret, drawn>>

AttachPolicy ==
    /\ Works("attach")
    /\ attached' = TRUE
    /\ Proceed("inject")
    /\ UNCHANGED <<phase, identity, secret, drawn>>

\* The credential's URI: for storage the target alone, for MongoDB with the
\* database of the application as its authSource.
UriOf(kind, pw) ==
    CASE kind = "storage" -> Target
      [] kind = "mongo"   -> [pw |-> pw, db |-> "app"]
      [] kind = "redis"   -> [pw |-> pw, db |-> "none"]

\* Create or, when there is one, Update of the whole Secret: its data are the
\* entries of this call and no others.
InjectToNamespace ==
    LET kind == KindOf(working.binding)
    IN  /\ Works("inject")
        /\ secret' = [secret EXCEPT ![EnvOf(working.binding)] =
               [NoKeys EXCEPT ![kind] = UriOf(kind, working.pw)]]
        /\ Proceed("ready")
        /\ UNCHANGED <<phase, identity, attached, drawn>>

\* (Of a READY binding the copy was behind, and a conflict refuses the Update.)
SetReady ==
    /\ Works("ready")
    /\ phase[working.binding] # "READY"
    /\ phase' = [phase EXCEPT ![working.binding] = "READY"]
    /\ working' = Resting
    /\ UNCHANGED <<identity, attached, secret, drawn>>

\* An error of any command or update, or a stopped controller: the binding
\* stays PENDING and what was done stays done.
Fail ==
    /\ ~Works("rest")
    /\ working' = Resting
    /\ UNCHANGED <<phase, identity, attached, secret, drawn>>

ProvisioningNext ==
    \/ \E b \in Binding : Reconcile(b)
    \/ \E pw \in Pw : CreateAppDatabase(pw) \/ CreateAppCache(pw) \/ CreateAppStorage(pw)
    \/ AddPolicy \/ AttachPolicy \/ InjectToNamespace \/ SetReady \/ Fail

ProvisioningSpec == ProvisioningInit /\ [][ProvisioningNext]_provisioningVars

-----------------------------------------------------------------------------
(* Properties *)

\* The password of a MONGODB_URI that was ever injected stays that of the
\* application's user: no retry, crash, stale copy or other environment changes
\* it (CreateAppDatabase).  And a READY binding has its user, a storage one its
\* policy.  That the URI opens the database is not said: its authSource is not
\* the database the user is made in.
InjectedIsCurrent ==
    /\ \A e \in Stage : secret[e] # Absent /\ secret[e]["mongo"] # Absent =>
           identity["mongo"] # Absent /\ secret[e]["mongo"].pw = identity["mongo"].pw
    /\ \A b \in Binding : phase[b] = "READY" =>
           identity[KindOf(b)] # Absent /\ (KindOf(b) = "storage" => attached)

\* The Secret of an environment holds the key of every READY binding: the
\* entries of a call are upserted, and the Secret is the single one of the
\* application (providers/secret/local/provider.go:74-75).
ReadyBindingsAreInjected ==
    \A b \in Binding : phase[b] = "READY" =>
        secret[EnvOf(b)] # Absent /\ secret[EnvOf(b)][KindOf(b)] # Absent
=============================================================================
