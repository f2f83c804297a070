---------------------------- MODULE Idempotency ----------------------------
(***************************************************************************)
(* The Idempotency-Key middleware of the control plane                     *)
(* (control-plane/internal/auth/idem.go) with the audit middleware it      *)
(* wraps (audit.go).  Every statement is its own PostgreSQL transaction,   *)
(* so the calls of several servers interleave between statements.          *)
(*                                                                         *)
(* A key here is the primary key (idempotency_key, org_id) of the table.   *)
(* A response is named by the request whose handler produced it.  Time is  *)
(* kept as ages that stop counting at the TTL, so no clock grows.          *)
(***************************************************************************)
EXTENDS Naturals

CONSTANTS
    Request,    \* the HTTP calls that reach the middleware
    Key,        \* the (idempotency_key, org_id) pairs
    Payload,    \* method + path + body, as the SHA-256 tells them apart
    NoKey,      \* the call carries no Idempotency-Key header
    Nobody,     \* no request: no row, or no response stored
    TTL,        \* lifetime of a row (24 hours in the schema)
    MaxRun      \* longest time a server spends on a call once it has claimed

ASSUME ConstantsAssumption ==
    /\ TTL \in Nat \ {0}
    /\ MaxRun \in Nat
    /\ NoKey \notin Key
    /\ Nobody \notin Request

\* A handler is over, its response stored, before its row can expire.
ASSUME RunsWithinTTL == MaxRun < TTL

VARIABLES
    owner,      \* owner[k]: the request whose INSERT made the row of k; its
                \* payload is the row's request_hash
    answer,     \* answer[k]: whose response the row of k holds
    age,        \* age[k]: time since k was last claimed, at most TTL
    pc,         \* pc[r]: the next statement of the server working on r
    key,        \* key[r]: the key r carries
    payload,    \* payload[r]: the hash of r
    elapsed,    \* elapsed[r]: time since r claimed its key
    reply       \* reply[r]: what the caller of r was sent

vars == <<owner, answer, age, pc, key, payload, elapsed, reply>>
table == <<owner, answer, age>>
input == <<key, payload>>

Steps == {"idle", "purge", "insert", "load", "next", "audited", "complete",
          "done", "dead"}

\* The steps a server takes between its claim and the end of the call.
Running == {"next", "audited", "complete"}
InProgress == Running \union {"purge", "insert", "load"}

Kinds == {"none", "response", "replayed", "IDEMPOTENCY_CONFLICT",
          "IDEMPOTENCY_IN_FLIGHT", "INTERNAL", "refused"}

TypeOK ==
    /\ owner \in [Key -> Request \union {Nobody}]
    /\ answer \in [Key -> Request \union {Nobody}]
    /\ age \in [Key -> 0 .. TTL]
    /\ pc \in [Request -> Steps]
    /\ key \in [Request -> Key \union {NoKey}]
    /\ payload \in [Request -> Payload]
    /\ elapsed \in [Request -> 0 .. MaxRun]
    /\ reply \in [Request -> [kind: Kinds, by: Request \union {Nobody}]]

\* No row exists; what a request carries is read only once it has arrived.
Init ==
    /\ owner = [k \in Key |-> Nobody]
    /\ answer = [k \in Key |-> Nobody]
    /\ age = [k \in Key |-> TTL]
    /\ pc = [r \in Request |-> "idle"]
    /\ key = [r \in Request |-> NoKey]
    /\ payload \in [Request -> Payload]
    /\ elapsed = [r \in Request |-> 0]
    /\ reply = [r \in Request |-> [kind |-> "none", by |-> Nobody]]

-----------------------------------------------------------------------------
(* The middleware, one action per statement *)

Goto(r, step) == pc' = [pc EXCEPT ![r] = step]
Send(r, kind, q) == reply' = [reply EXCEPT ![r] = [kind |-> kind, by |-> q]]
Expired(k) == age[k] >= TTL
Old == {k \in Key : Expired(k)}

DeleteRows(K) ==
    /\ owner' = [k \in Key |-> IF k \in K THEN Nobody ELSE owner[k]]
    /\ answer' = [k \in Key |-> IF k \in K THEN Nobody ELSE answer[k]]

Claimed(r) == pc[r] \in Running /\ key[r] # NoKey

(* Faulty forms of the actions below; no specification here takes them. *)

\* An expiry that is compared one unit too early.
PurgeEarly(r) ==
    /\ pc[r] = "purge"
    /\ DeleteRows({k \in {key[r]} : age[k] >= TTL - 1})
    /\ Goto(r, "insert")
    /\ UNCHANGED <<age, input, elapsed, reply>>

\* A claim that makes room for itself whatever the row's age.
PurgeAlways(r) ==
    /\ pc[r] = "purge"
    /\ DeleteRows({key[r]})
    /\ Goto(r, "insert")
    /\ UNCHANGED <<age, input, elapsed, reply>>

\* ON CONFLICT DO UPDATE: the later claim of a key takes over its row.
InsertUpsert(r) ==
    /\ pc[r] = "insert"
    /\ owner' = [owner EXCEPT ![key[r]] = r]
    /\ answer' = [answer EXCEPT ![key[r]] = Nobody]
    /\ age' = [age EXCEPT ![key[r]] = 0]
    /\ elapsed' = [elapsed EXCEPT ![r] = 0]
    /\ Goto(r, "next")
    /\ UNCHANGED <<input, reply>>

\* The stored response is replayed without a look at the request hash.
LoadAnyPayload(r) ==
    /\ pc[r] = "load"
    /\ IF answer[key[r]] = Nobody THEN Send(r, "IDEMPOTENCY_IN_FLIGHT", Nobody)
                                   ELSE Send(r, "replayed", answer[key[r]])
    /\ Goto(r, "done")
    /\ UNCHANGED <<table, input, elapsed>>

\* A purge of the rows that hold a response only.
CleanupTerminal ==
    /\ DeleteRows({k \in Old : answer[k] # Nobody})
    /\ UNCHANGED <<age, pc, input, elapsed, reply>>

\* A purge that also takes the rows still in flight.
CleanupInFlight ==
    /\ DeleteRows(Old \union {k \in Key : answer[k] = Nobody})
    /\ UNCHANGED <<age, pc, input, elapsed, reply>>

(* The actions. *)

\* A call without the header goes straight to the handler; one without an
\* identity or with an unreadable body is refused before any statement.
Arrive(r) ==
    /\ pc[r] = "idle"
    /\ \E k \in Key \union {NoKey} :
         /\ key' = [key EXCEPT ![r] = k]
         /\ \/ /\ Goto(r, IF k = NoKey THEN "next" ELSE "purge")
               /\ UNCHANGED reply
            \/ /\ k # NoKey
               /\ Goto(r, "done")
               /\ Send(r, "refused", Nobody)
    /\ UNCHANGED <<table, payload, elapsed>>

\* ClaimIdempotency, first statement: DELETE the row of the key if expired.
Purge(r) ==
    /\ pc[r] = "purge"
    /\ DeleteRows({key[r]} \cap Old)
    /\ Goto(r, "insert")
    /\ UNCHANGED <<age, input, elapsed, reply>>

\* ClaimIdempotency, second statement: INSERT .. ON CONFLICT DO NOTHING.
Insert(r) ==
    /\ pc[r] = "insert"
    /\ \/ /\ owner[key[r]] = Nobody
          /\ owner' = [owner EXCEPT ![key[r]] = r]
          /\ answer' = [answer EXCEPT ![key[r]] = Nobody]
          /\ age' = [age EXCEPT ![key[r]] = 0]
          /\ elapsed' = [elapsed EXCEPT ![r] = 0]
          /\ Goto(r, "next")
       \/ /\ owner[key[r]] # Nobody
          /\ Goto(r, "load")
          /\ UNCHANGED <<table, elapsed>>
    /\ UNCHANGED <<input, reply>>

\* LoadIdempotentResponse: what a second call of the key is told.  The row may
\* be gone by now, or belong to another claim; its expiry is not looked at.
Load(r) ==
    /\ pc[r] = "load"
    /\ LET k == key[r]
           sameHash == payload[owner[k]] = payload[r]
       IN \/ owner[k] = Nobody /\ Send(r, "INTERNAL", Nobody)
          \/ owner[k] # Nobody /\ ~sameHash /\ Send(r, "IDEMPOTENCY_CONFLICT", Nobody)
          \/ /\ owner[k] # Nobody /\ sameHash
             /\ IF answer[k] = Nobody THEN Send(r, "IDEMPOTENCY_IN_FLIGHT", Nobody)
                                      ELSE Send(r, "replayed", answer[k])
    /\ Goto(r, "done")
    /\ UNCHANGED <<table, input, elapsed>>

\* The handler runs; captureRW passes its response on to the caller at once.
Handle(r) ==
    /\ pc[r] = "next"
    /\ Send(r, "response", r)
    /\ Goto(r, "audited")
    /\ UNCHANGED <<table, input, elapsed>>

\* audited inserts its row after the handler; a failure is dropped.
Audit(r) ==
    /\ pc[r] = "audited"
    /\ Goto(r, IF key[r] = NoKey THEN "done" ELSE "complete")
    /\ UNCHANGED <<table, input, elapsed, reply>>

\* CompleteIdempotency: the UPDATE names the key only, so it fills whatever row
\* the key has now, and no row at all if it was purged meanwhile.
Complete(r) ==
    /\ pc[r] = "complete"
    /\ answer' = [answer EXCEPT ![key[r]] = IF owner[key[r]] = Nobody THEN @ ELSE r]
    /\ Goto(r, "done")
    /\ UNCHANGED <<owner, age, input, elapsed, reply>>

\* A statement fails: the caller hears INTERNAL before the handler has run,
\* and nothing after it (the response is out; the row stays in flight).
StoreFails(r) ==
    /\ \/ /\ pc[r] \in {"purge", "insert", "load"}
          /\ Send(r, "INTERNAL", Nobody)
       \/ /\ pc[r] = "complete"
          /\ UNCHANGED reply
    /\ Goto(r, "done")
    /\ UNCHANGED <<table, input, elapsed>>

\* The server working on r stops; its rows stay behind.
Crash(r) ==
    /\ pc[r] \in InProgress
    /\ Goto(r, "dead")
    /\ UNCHANGED <<table, input, elapsed, reply>>

\* The hourly CleanupExpiredIdempotency.
Cleanup ==
    /\ DeleteRows(Old)
    /\ UNCHANGED <<age, pc, input, elapsed, reply>>

\* Time passes, unless a claimed call has used up its time.
Tick ==
    /\ \A r \in Request : Claimed(r) => elapsed[r] < MaxRun
    /\ age' = [k \in Key |-> IF Expired(k) THEN TTL ELSE age[k] + 1]
    /\ elapsed' = [r \in Request |-> IF Claimed(r) THEN elapsed[r] + 1 ELSE elapsed[r]]
    /\ UNCHANGED <<owner, answer, pc, input, reply>>

Serve(r) == Purge(r) \/ Insert(r) \/ Load(r) \/ Handle(r) \/ Audit(r) \/ Complete(r)

Next ==
    \/ \E r \in Request : Arrive(r) \/ Serve(r) \/ StoreFails(r) \/ Crash(r)
    \/ Cleanup
    \/ Tick

\* A server that is up goes on with its call, the purge ticks, time passes;
\* nobody has to call, no statement has to fail and no server has to stop.
Fairness ==
    /\ \A r \in Request : WF_vars(Serve(r))
    /\ WF_vars(Cleanup)
    /\ WF_vars(Tick)

Spec == Init /\ [][Next]_vars
FairSpec == Spec /\ Fairness

-----------------------------------------------------------------------------
(* Properties *)

\* A replayed response is the response of a handler that ran for the same key
\* and the same payload: a late CompleteIdempotency never lends one call's
\* response to another (idem, "the same key with a different payload is
\* rejected").
ReplayIsFaithful ==
    \A r \in Request :
        reply[r].kind = "replayed" =>
            /\ reply[r].by \in Request
            /\ LET q == reply[r].by IN
                 /\ reply[q].kind = "response"
                 /\ key[q] = key[r]
                 /\ payload[q] = payload[r]

\* The row of a key is there for as long as a call that claimed it is being
\* served, and is still that call's row: neither purge nor another call's
\* claim takes it away (CompleteIdempotency updates by key alone).
RunnerKeepsItsRow ==
    \A r \in Request : Claimed(r) => owner[key[r]] = r /\ answer[key[r]] = Nobody

\* Handlers of one key start at least a TTL apart, however many callers retry,
\* servers stop or purges run: within its 24 hours a key executes once.
ClaimsAreSpaced ==
    [][\A r \in Request :
         ~Claimed(r) /\ Claimed(r)' => age[key[r]'] = TTL]_vars

\* Once the response of a claim is stored it stays: until the row expires
\* every replay returns that response (RB-33, "replays return the stored
\* response").
StoredAnswerIsFinal ==
    [][\A k \in Key :
         answer[k] # Nobody /\ age[k] < TTL =>
            answer'[k] = answer[k] /\ owner'[k] = owner[k]]_vars

\* The middleware implements OncePerKey: a row is the key's holder, a stored
\* response settles it, a claimed call is being served, and the caller was told
\* its own response or a replayed one.
Settled == {k \in Key : answer[k] # Nobody}
Serving == {r \in Request : Claimed(r)}
Told == [r \in Request |->
           IF key[r] # NoKey /\ reply[r].kind \in {"response", "replayed"}
           THEN reply[r].by ELSE Nobody]

Promise == INSTANCE OncePerKey WITH
    holder <- owner, settled <- Settled, serving <- Serving, told <- Told

\* Every behaviour of the middleware is one OncePerKey allows (idem as a whole:
\* the claim, the handler, the stored response, its replays and the purges).
KeepsPromise == Promise!Spec

\* A row goes away in the end, also the one a stopped server left in flight,
\* so that no key answers IDEMPOTENCY_IN_FLIGHT for ever.  The hourly purge sees
\* to it because its DELETE takes all rows past their TTL, and not only "terminal-
\* state rows" as the comment of CleanupExpiredIdempotency says: with those alone
\* a row left in flight would stay (CleanupTerminal).
RowsExpire ==
    \A k \in Key, r \in Request : (owner[k] = r) ~> (owner[k] # r)

=============================================================================
