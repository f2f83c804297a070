------------------------------ MODULE Verdicts ------------------------------
(***************************************************************************)
(* Functions that decide from lists and numbers, as their loops go, beside *)
(* what they are to answer: the rollback target (orchestrator/rollback.go),*)
(* the report and the diagnosis of a verification (verifier/internal), the *)
(* invoice (billing), cron fields (appspec/cron.go), replicas and quota    *)
(* (controllers/internal/appenv), and what becomes of a request (Routes).  *)
(* A question is asked and forgotten.                                      *)
(***************************************************************************)
EXTENDS Integers, Sequences, Routes

CONSTANTS
    Top,        \* bound on revision numbers and lengths of lists
    StepCount,      \* the number of verification steps (nine in the code)
    Usage,      \* bound on hours used, in quarters
    Unasked        \* no question

VARIABLE question
verdictsVars == <<question>>

Lists(S) == UNION {[1 .. n -> S] : n \in 0 .. Top}
VerdictsInit == question = Unasked
Ask(kind, a, b, c) == question' = [kind |-> kind, a |-> a, b |-> b, c |-> c]
Answer == question # Unasked /\ question' = Unasked

\* What the variable of a loop of n turns holds in the end, where turn[i][h]
\* is what the i-th turn makes of h.
Loop(turn, start, n) ==
    LET held[i \in 0 .. n] == IF i = 0 THEN start ELSE turn[i][held[i - 1]]
    IN  held[n]

-----------------------------------------------------------------------------
(* rollback.go *)

NoSnapshot == [number |-> 0, gates |-> FALSE]
Snapshots == [number: 1 .. Top, gates: BOOLEAN]

\* findSnapshot and eligible on what it finds.
FindEligible(revs, current, target) ==
    LET asked == {i \in DOMAIN revs : revs[i].number = target}
        found == revs[CHOOSE i \in asked : \A j \in asked : i <= j]
    IN  IF asked # {} /\ found.number < current /\ found.gates THEN found ELSE NoSnapshot

BestOfAny(revs) ==
    Loop([i \in DOMAIN revs |-> [best \in Snapshots \union {NoSnapshot} |->
             IF revs[i].gates /\ revs[i].number > best.number THEN revs[i] ELSE best]],
         NoSnapshot, Len(revs))
ResolveRollbackTargetAny(revs, current, target) ==
    IF target # 0 THEN FindEligible(revs, current, target) ELSE BestOfAny(revs)

\* The loop that keeps the best.
BestBehind(revs, current) ==
    Loop([i \in DOMAIN revs |-> [best \in Snapshots \union {NoSnapshot} |->
             IF /\ revs[i].number < current /\ revs[i].gates
                /\ revs[i].number > best.number
             THEN revs[i] ELSE best]],
         NoSnapshot, Len(revs))

\* NoSnapshot stands for the three errors.
ResolveRollbackTarget(revs, current, target) ==
    IF target # 0 THEN FindEligible(revs, current, target) ELSE BestBehind(revs, current)

\* The newest revision before the current one that passed its gates, or the
\* one that was asked for if it is such a one; revisions have one row each.
RightTarget(revs, current, target) ==
    LET good == {i \in DOMAIN revs : /\ revs[i].number < current /\ revs[i].gates
                                     /\ target \in {0, revs[i].number}}
    IN  IF good = {} THEN NoSnapshot
        ELSE revs[CHOOSE i \in good : \A j \in good : revs[i].number >= revs[j].number]

-----------------------------------------------------------------------------
(* report.go and diagnose.go *)

\* A step that was never filled in has the zero value of Status.
Statuses == {"pass", "fail", ""}

AggregateLast(steps) ==
    Loop([i \in DOMAIN steps |-> [outcome \in {"RUNNING", "DEGRADED"} |->
             IF steps[i].status = "fail" THEN "DEGRADED" ELSE "RUNNING"]],
         "RUNNING", Len(steps))

Aggregate(steps) ==
    Loop([i \in DOMAIN steps |-> [outcome \in {"RUNNING", "DEGRADED"} |->
             IF steps[i].status = "fail" THEN "DEGRADED" ELSE outcome]],
         "RUNNING", Len(steps))

ValidateComplete(steps) == Len(steps) = StepCount /\ \A i \in DOMAIN steps : steps[i].id = i

rules == <<{"DATABASE_URL"}, {"CrashLoopBackOff"}, {"OOMKilled", "out of memory"},
           {"ImagePullBackOff", "ErrImagePull"}, {"502 Bad Gateway"}>>

\* The first rule one of whose keywords the texts contain; 0 is UNCLASSIFIED.
Classify(words) ==
    Loop([i \in DOMAIN rules |-> [class \in 0 .. Len(rules) |->
             IF class = 0 /\ rules[i] \intersect words # {} THEN i ELSE class]],
         0, Len(rules))

-----------------------------------------------------------------------------
(* billing/plan.go and invoice.go, in hundredths of an hour *)

catalog == [free |-> [base |-> 0, hours |-> 1000, cents |-> 0],
            pro |-> [base |-> 1900, hours |-> 12000, cents |-> 8]]

\* The amount is cut to whole cents; build minutes beyond the plan are listed
\* and cost nothing.
AggregateInvoice(tier, hours) ==
    LET plan == catalog[tier]
        extra == hours - plan.hours
    IN  plan.base + (IF extra > 0 /\ plan.cents > 0 THEN (extra * plan.cents) \div 100 ELSE 0)

-----------------------------------------------------------------------------
(* appspec/cron.go: one part of a field of the domain lo .. hi *)

CheckPart(part, lo, hi) ==
    CASE part.form = "*" -> TRUE
      [] part.form = "*/n" -> part.n >= 1
      [] part.form = "m-n" -> part.m <= part.n /\ part.m >= lo /\ part.n <= hi
      [] part.form = "n" -> part.n >= lo /\ part.n <= hi

\* The values of the domain at which a part fires.
FiresAt(part, lo, hi) ==
    CASE part.form = "*" -> lo .. hi
      [] part.form = "*/n" -> {v \in lo .. hi : part.n > 0 /\ (v - lo) % part.n = 0}
      [] part.form = "m-n" -> part.m .. part.n
      [] part.form = "n" -> {part.n}

-----------------------------------------------------------------------------
(* tenant_defaults.go and workload_kinds.go: millicores, megabytes, replicas *)

FreeResourceQuota(services) ==
    LET n == IF services < 1 THEN 1 ELSE services
    IN  [pods |-> 3, cpu |-> 250 * n, memory |-> 512 * n]
DefaultLimitRange == [cpu |-> 250, memory |-> 256]

\* Pods of one container each, under the defaults, that the quota admits.
Room(services) ==
    {n \in 0 .. 3 : /\ n * DefaultLimitRange.cpu <= FreeResourceQuota(services).cpu
                    /\ n * DefaultLimitRange.memory <= FreeResourceQuota(services).memory}

RenderHPAUnclamped(replicas, ceiling) ==
    [min |-> IF replicas < 1 THEN 1 ELSE replicas, max |-> ceiling]

RenderHPA(replicas, ceiling) ==
    LET least == IF replicas < 1 THEN 1 ELSE replicas
    IN  [min |-> least, max |-> IF ceiling < least THEN least ELSE ceiling]

-----------------------------------------------------------------------------

VerdictsNext ==
    \/ /\ question = Unasked
       /\ \/ \E revs \in Lists(Snapshots), current \in 1 .. Top + 1, target \in 0 .. Top :
                 Ask("rollback", revs, current, target)
          \/ \E steps \in Lists([id: 1 .. StepCount, status: Statuses]) :
                 Ask("report", steps, Unasked, Unasked)
          \/ \E words \in SUBSET UNION {rules[i] : i \in DOMAIN rules} :
                 Ask("diagnosis", words, Unasked, Unasked)
          \/ \E tier \in DOMAIN catalog, hours \in 0 .. Usage :
                 Ask("invoice", tier, 25 * hours, Unasked)
          \/ \E form \in {"*", "*/n", "m-n", "n"}, m, n \in 0 .. 8 :
                 Ask("schedule", [form |-> form, m |-> m, n |-> n], 1, 7)
          \/ \E n, ceiling \in 0 .. 4 : Ask("size", n, ceiling, Unasked)
          \/ \E request \in Requests, hook \in BOOLEAN : Ask("route", request, hook, Unasked)
    \/ Answer

VerdictsSpec == VerdictsInit /\ [][VerdictsNext]_verdictsVars

-----------------------------------------------------------------------------

Distinct(revs) == \A i, j \in DOMAIN revs : i # j => revs[i].number # revs[j].number

\* A rollback never lands on the current revision, a later one or one that did
\* not pass its gates, and of the others on the newest: best starts at the zero
\* snapshot and the list comes in any order (rollback.go).
RollbackTargetIsRight ==
    LET q == question
    IN  question # Unasked /\ q.kind = "rollback" /\ Distinct(q.a) =>
            ResolveRollbackTarget(q.a, q.b, q.c) = RightTarget(q.a, q.b, q.c)

\* Over a complete report, "any failed step degrades the whole application,
\* otherwise it lands RUNNING" (report.go:40-41): wherever in the order it
\* failed, and whatever the others say, so steps with no status at all pass.
\* A diagnosis is the first rule that applies, if one does.
ReportsAreRight ==
    LET q == question
    IN  /\ question # Unasked /\ q.kind = "report" /\ ValidateComplete(q.a) =>
               ((Aggregate(q.a) = "RUNNING") <=>
                    \A id \in 1 .. StepCount :
                        \E i \in DOMAIN q.a : q.a[i].id = id /\ q.a[i].status # "fail")
        /\ question # Unasked /\ q.kind = "diagnosis" =>
               /\ \A i \in 1 .. Classify(q.a) - 1 : rules[i] \intersect q.a = {}
               /\ IF Classify(q.a) = 0 THEN \A i \in DOMAIN rules : rules[i] \intersect q.a = {}
                  ELSE rules[Classify(q.a)] \intersect q.a # {}

\* Figures at their boundaries: a bill does not shrink when more is used, and a
\* free one is nothing; an accepted cron part fires, and only within its field;
\* each of up to three services has room for a pod under the defaults; and an
\* autoscaler keeps at least one, at least what is asked for, and no more than
\* the ceiling as long as that is not more itself.
FiguresAreRight ==
    LET q == question
    IN  /\ question # Unasked /\ q.kind = "invoice" =>
               /\ AggregateInvoice(q.a, q.b) <= AggregateInvoice(q.a, q.b + 25)
               /\ AggregateInvoice("free", q.b) = 0
        /\ question # Unasked /\ q.kind = "schedule" /\ CheckPart(q.a, q.b, q.c) =>
               FiresAt(q.a, q.b, q.c) # {} /\ FiresAt(q.a, q.b, q.c) \subseteq q.b .. q.c
        /\ question # Unasked /\ q.kind = "size" =>
               /\ q.a \in 1 .. 3 => q.a \in Room(q.a)
               /\ LET hpa == RenderHPA(q.a, q.b)
                  IN  /\ hpa.min >= 1 /\ hpa.min >= q.a /\ hpa.min <= hpa.max
                      /\ 1 <= q.b /\ q.a <= q.b => hpa.max <= q.b

\* Each operation of the contract is answered, roles are asked for what acts,
\* and what is audited runs once for a key and leaves its row: layers, mounts
\* and the contract are three lists kept by hand (see Routes).
RequestsAreAnswered ==
    LET q == question
    IN  question # Unasked /\ q.kind = "route" =>
            ContractIsKept(q.a, q.b) /\ RolesAreAsked(q.a, q.b) /\ RunsAreRecorded(q.a, q.b)
=============================================================================
