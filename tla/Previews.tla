------------------------------ MODULE Previews ------------------------------
(***************************************************************************)
(* The GitHub webhook of preview environments                              *)
(* (control-plane/internal/previews/webhook.go).  GitHub delivers an event *)
(* any number of times, in any order and to several requests at once; the  *)
(* signature is right (a wrong one is refused and changes nothing).        *)
(***************************************************************************)
EXTENDS Integers

CONSTANTS
    Delivery,   \* delivery ids
    Pull,       \* numbers of pull requests
    Serving,    \* requests the handler serves at a time
    Ttl,        \* how long the guard keeps an id
    EndOfTime,  \* bound on the clock
    Blank       \* nothing

VARIABLES
    now,        \* the time
    event,      \* event[d]: what delivery d says, drawn when it is first sent
    seen,       \* seen[d]: when the guard recorded d, or Blank
    serving,    \* serving[q]: the delivery and the instant request q carries, and
                \* whether the guard let it by
    acted,      \* acted[d]: the instants of the requests for d it let by
    env         \* pull requests with a preview environment

previewsVars == <<now, event, seen, serving, acted, env>>

\* What a payload asks for, or that it is none of a pull request.
Actions == {"opened", "reopened", "closed", "synchronize", "unsupported"}
Carried == [id: Delivery, at: 0 .. EndOfTime, fresh: BOOLEAN]

\* Blank is no instant, no event and no request.
ASSUME PreviewsAssumption ==
    /\ Ttl \in Nat /\ EndOfTime \in Nat /\ Blank \notin Int
    /\ Blank \notin [action: Actions, number: Pull]
    /\ Blank \notin Carried

PreviewsTypeOK ==
    /\ now \in 0 .. EndOfTime
    /\ event \in [Delivery -> {Blank} \union [action: Actions, number: Pull]]
    /\ seen \in [Delivery -> 0 .. EndOfTime \union {Blank}]
    /\ serving \in [Serving -> {Blank} \union Carried]
    /\ acted \in [Delivery -> SUBSET (0 .. EndOfTime)]
    /\ env \subseteq Pull

PreviewsInit ==
    /\ now = 0
    /\ event = [d \in Delivery |-> Blank]
    /\ seen = [d \in Delivery |-> Blank]
    /\ serving = [q \in Serving |-> Blank]
    /\ acted = [d \in Delivery |-> {}]
    /\ env = {}

DecidePRAction(action) ==
    CASE action \in {"opened", "reopened"} -> "open"
      [] action = "closed" -> "close"
      [] OTHER -> "ignore"

\* A request reaches the guard with the instant it was served at.
Deliver(q, d, what) ==
    /\ serving[q] = Blank
    /\ event[d] \in {Blank, what}
    /\ event' = [event EXCEPT ![d] = what]
    /\ serving' = [serving EXCEPT ![q] = [id |-> d, at |-> now, fresh |-> FALSE]]
    /\ UNCHANGED <<now, seen, acted, env>>

\* Ids older than Ttl are forgotten.
KeptAt(d, at) == seen[d] # Blank /\ ~(at - seen[d] > Ttl)
Pruned(at) == [d \in Delivery |-> IF KeptAt(d, at) THEN seen[d] ELSE Blank]

AllowPrunesEarly(q) ==
    LET d == serving[q].id
        at == serving[q].at
    IN  /\ serving[q] # Blank /\ ~serving[q].fresh
        /\ IF seen[d] = Blank \/ at - seen[d] >= Ttl
           THEN /\ seen' = [Pruned(at) EXCEPT ![d] = at]
                /\ acted' = [acted EXCEPT ![d] = @ \union {at}]
                /\ serving' = [serving EXCEPT ![q].fresh = TRUE]
           ELSE /\ seen' = Pruned(at)
                /\ serving' = [serving EXCEPT ![q] = Blank]
                /\ UNCHANGED acted
        /\ UNCHANGED <<now, event, env>>

\* ReplayGuard.Allow, under its mutex: an id that is kept is refused (409), and a
\* fresh one is recorded before its payload is even looked at.
AllowDelivery(q) ==
    LET d == serving[q].id
        at == serving[q].at
    IN  /\ serving[q] # Blank /\ ~serving[q].fresh
        /\ IF ~KeptAt(d, at)
           THEN /\ seen' = [Pruned(at) EXCEPT ![d] = at]
                /\ acted' = [acted EXCEPT ![d] = @ \union {at}]
                /\ serving' = [serving EXCEPT ![q].fresh = TRUE]
           ELSE /\ seen' = Pruned(at)
                /\ serving' = [serving EXCEPT ![q] = Blank]
                /\ UNCHANGED acted
        /\ UNCHANGED <<now, event, env>>

\* The rest of ServeHTTP, without the mutex: an unsupported payload is answered
\* 400, and a hook may fail (500); either way the id stays recorded, so GitHub's
\* redelivery is refused like any other.
Act(q) ==
    LET what == event[serving[q].id]
    IN  /\ serving[q] # Blank /\ serving[q].fresh
        /\ serving' = [serving EXCEPT ![q] = Blank]
        /\ CASE DecidePRAction(what.action) = "open" -> env' \in {env, env \union {what.number}}
             [] DecidePRAction(what.action) = "close" -> env' \in {env, env \ {what.number}}
             [] OTHER -> env' = env
        /\ UNCHANGED <<now, event, seen, acted>>

Passes ==
    /\ now < EndOfTime
    /\ now' = now + 1
    /\ UNCHANGED <<event, seen, serving, acted, env>>

PreviewsNext ==
    \/ \E q \in Serving, d \in Delivery, action \in Actions, number \in Pull :
           Deliver(q, d, [action |-> action, number |-> number])
    \/ \E q \in Serving : AllowDelivery(q) \/ Act(q)
    \/ Passes

PreviewsSpec == PreviewsInit /\ [][PreviewsNext]_previewsVars

-----------------------------------------------------------------------------

\* A step that lets a request by.
Admits(q) == serving[q] # Blank /\ serving'[q] # Blank /\ serving'[q].fresh # serving[q].fresh

ActsInTime ==
    \A q \in Serving : Admits(q) => \A at \in acted[serving[q].id] : now > at + Ttl

\* The guard lets a delivery by to its hooks again only when more than Ttl has
\* passed since the instant of every request it let by before, although requests
\* reach the guard out of order, each prunes by its own instant, and one may
\* prune an id that another, older one is about to ask for (ReplayGuard.Allow).
DeliveriesActOnce == [][ActsInTime]_previewsVars
=============================================================================
