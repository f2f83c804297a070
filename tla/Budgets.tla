------------------------------ MODULE Budgets ------------------------------
(***************************************************************************)
(* What is let through only so often: the token bucket and the build gate  *)
(* (control-plane/internal/limits/limits.go) and the attempts of the       *)
(* repair loop (control-plane/internal/repair/repair.go).                  *)
(*                                                                         *)
(* The instant of a request is read before the mutex of the limiter is     *)
(* taken, so requests reach the bucket with instants out of order.         *)
(***************************************************************************)
EXTENDS Integers, FiniteSets

CONSTANTS
    Request,    \* requests of one key under way at a time, and builds of one org
    Capacity,   \* tokens a full bucket holds
    Unit,       \* a token, in the fractions that are refilled
    Rate,       \* fractions refilled in a unit of time (perMinute)
    Slots,      \* the limit of the build gate
    LastInstant,\* bound on the clock
    NoInstant   \* no request

ASSUME BudgetsAssumption ==
    /\ Capacity \in Nat \ {0} /\ Unit \in Nat \ {0} /\ Rate \in Nat /\ Slots \in Nat
    /\ LastInstant \in Nat /\ NoInstant \notin Nat

MaxAttempts == 3

VARIABLES
    instant,    \* the time
    arrived,    \* arrived[r]: the instant request r was given, or NoInstant
    bucket,     \* fractions in the bucket and the instant of its last refill
    allowed,    \* requests let through since the bucket was made
    gate,       \* inFlight of the build gate
    building,   \* builds that acquired and did not release
    attempt,    \* the attempt the repair loop is at
    loop,       \* what it does: "gate", "apply", "record" or how it ended
    fired       \* patches asked for

rates == <<instant, arrived, bucket, allowed>>
gates == <<gate, building>>
repairs == <<attempt, loop, fired>>
budgetsVars == <<rates, gates, repairs>>

BudgetsTypeOK ==
    /\ instant \in 0 .. LastInstant
    /\ arrived \in [Request -> 0 .. LastInstant \union {NoInstant}]
    /\ bucket \in [tokens: 0 .. Capacity * Unit, lastRefill: 0 .. LastInstant]
    /\ allowed \in Nat
    /\ gate \in Nat
    /\ building \subseteq Request
    /\ attempt \in 1 .. MaxAttempts + 1
    /\ loop \in {"gate", "apply", "record", "repaired", "refused", "unrecorded"}
    /\ fired \in 0 .. MaxAttempts

BudgetsInit ==
    /\ instant = 0
    /\ arrived = [r \in Request |-> NoInstant]
    /\ bucket = [tokens |-> Capacity * Unit, lastRefill |-> 0]
    /\ allowed = 0
    /\ gate = 0
    /\ building = {}
    /\ attempt = 1
    /\ loop = "gate"
    /\ fired = 0

-----------------------------------------------------------------------------
(* RateLimiter.Allow *)

Arrive(r) ==
    /\ arrived[r] = NoInstant
    /\ arrived' = [arrived EXCEPT ![r] = instant]
    /\ UNCHANGED <<instant, bucket, allowed, gates, repairs>>

Smaller(m, n) == IF m < n THEN m ELSE n

\* The bucket as a request of instant now finds it.
Refilled(now) ==
    LET elapsed == now - bucket.lastRefill
    IN  IF elapsed > 0
        THEN [tokens |-> Smaller(bucket.tokens + elapsed * Rate, Capacity * Unit),
              lastRefill |-> now]
        ELSE bucket

\* The instant of the refill forgotten.
AllowRefillsAgain(r) ==
    LET full == Refilled(arrived[r])
        pass == full.tokens >= Unit
    IN  /\ arrived[r] # NoInstant
        /\ bucket' = [bucket EXCEPT !.tokens = IF pass THEN full.tokens - Unit ELSE full.tokens]
        /\ allowed' = IF pass THEN allowed + 1 ELSE allowed
        /\ arrived' = [arrived EXCEPT ![r] = NoInstant]
        /\ UNCHANGED <<instant, gates, repairs>>

Allow(r) ==
    LET full == Refilled(arrived[r])
        pass == full.tokens >= Unit
    IN  /\ arrived[r] # NoInstant
        /\ bucket' = IF pass THEN [full EXCEPT !.tokens = @ - Unit] ELSE full
        /\ allowed' = IF pass THEN allowed + 1 ELSE allowed
        /\ arrived' = [arrived EXCEPT ![r] = NoInstant]
        /\ UNCHANGED <<instant, gates, repairs>>

Later ==
    /\ instant < LastInstant
    /\ instant' = instant + 1
    /\ UNCHANGED <<arrived, bucket, allowed, gates, repairs>>

-----------------------------------------------------------------------------
(* BuildGate: TryAcquire and Release *)

TryAcquire(r) ==
    /\ r \notin building
    /\ gate < Slots
    /\ gate' = gate + 1
    /\ building' = building \union {r}
    /\ UNCHANGED <<rates, repairs>>

ReleaseSlot(r) ==
    /\ r \in building
    /\ gate' = IF gate > 0 THEN gate - 1 ELSE gate
    /\ building' = building \ {r}
    /\ UNCHANGED <<rates, repairs>>

-----------------------------------------------------------------------------
(* Loop.Run: the gate, the patch and its verification, the audit record *)

CanTrigger(n) == n \in 1 .. MaxAttempts

\* The refusal is recorded too; its record may fail.
LoopGate ==
    /\ loop = "gate"
    /\ IF CanTrigger(attempt)
       THEN loop' = "apply" /\ fired' = fired + 1
       ELSE loop' \in {"refused", "unrecorded"} /\ fired' = fired
    /\ UNCHANGED <<rates, gates, attempt>>

\* GeneratePatch, Apply and RecordAttempt: only a recorded attempt goes on.
LoopAttempt ==
    /\ loop = "apply"
    /\ \/ loop' \in {"repaired", "unrecorded"} /\ attempt' = attempt
       \/ loop' = "gate" /\ attempt' = attempt + 1
    /\ UNCHANGED <<rates, gates, fired>>

\* Another failed deploy starts the loop anew.
LoopAgain ==
    /\ loop \in {"repaired", "refused", "unrecorded"}
    /\ loop' = "gate"
    /\ attempt' = 1
    /\ fired' = 0
    /\ UNCHANGED <<rates, gates>>

BudgetsNext ==
    \/ \E r \in Request : Arrive(r) \/ Allow(r) \/ TryAcquire(r) \/ ReleaseSlot(r)
    \/ Later \/ LoopGate \/ LoopAttempt \/ LoopAgain

BudgetsSpec == BudgetsInit /\ [][BudgetsNext]_budgetsVars

-----------------------------------------------------------------------------
(* Properties *)

\* A key is let through at most as often as a full bucket and what was refilled
\* up to now allow, in whatever order its requests reach the bucket.
RateIsBounded == allowed * Unit <= Capacity * Unit + instant * Rate

\* No more builds are under way than there are slots, and "the fourth call must
\* never reach a patch source" (repair.go:20-21).
BudgetsAreKept ==
    /\ RateIsBounded
    /\ Cardinality(building) <= Slots
    /\ fired <= MaxAttempts /\ fired <= attempt
=============================================================================
