------------------------- MODULE IdempotencyProofs -------------------------
(***************************************************************************)
(* Proofs about Idempotency, for any number of calls, keys and payloads    *)
(* and any TTL longer than the time a claimed call may take.               *)
(***************************************************************************)
EXTENDS Idempotency, TLAPS

\* A call that is at a statement about its key carries one.
KeyedSteps ==
    \A r \in Request :
        pc[r] \in {"purge", "insert", "load", "complete"} => key[r] \in Key

\* Type correctness of the middleware's state (the table, the calls, the
\* replies), and that only calls with a key reach the table.
THEOREM Typing == Spec => [](TypeOK /\ KeyedSteps)
<1> DEFINE Inv == TypeOK /\ KeyedSteps
<1> USE ConstantsAssumption
        DEF TypeOK, KeyedSteps, Steps, Kinds, Running, InProgress
<1>1. Init => Inv
  BY DEF Init
<1>2. Inv /\ [Next]_vars => Inv'
  <2> SUFFICES ASSUME TypeOK, KeyedSteps, [Next]_vars PROVE TypeOK' /\ KeyedSteps'
    OBVIOUS
  <2>1. ASSUME NEW r \in Request, Arrive(r) PROVE Inv'
    BY <2>1 DEF Arrive, Goto, Send, table
  <2>2. ASSUME NEW r \in Request, Purge(r) PROVE Inv'
    BY <2>2 DEF Purge, DeleteRows, Goto, input
  <2>3. ASSUME NEW r \in Request, Insert(r) PROVE Inv'
    BY <2>3 DEF Insert, Goto, input, table
  <2>4. ASSUME NEW r \in Request, Load(r) PROVE Inv'
    BY <2>4 DEF Load, Goto, Send, input, table
  <2>5. ASSUME NEW r \in Request, Handle(r) PROVE Inv'
    BY <2>5 DEF Handle, Goto, Send, input, table
  <2>6. ASSUME NEW r \in Request, Audit(r) PROVE Inv'
    BY <2>6 DEF Audit, Goto, input, table
  <2>7. ASSUME NEW r \in Request, Complete(r) PROVE Inv'
    BY <2>7 DEF Complete, Goto, input
  <2>8. ASSUME NEW r \in Request, StoreFails(r) PROVE Inv'
    <3>1. pc' = [pc EXCEPT ![r] = "done"] /\ UNCHANGED <<table, input, elapsed>>
      BY <2>8 DEF StoreFails, Goto
    <3>2. reply' = reply \/ reply' = [reply EXCEPT ![r] = [kind |-> "INTERNAL", by |-> Nobody]]
      BY <2>8 DEF StoreFails, Send
    <3>3. KeyedSteps'
      BY <3>1 DEF table, input
    <3>4. reply' \in [Request -> [kind: Kinds, by: Request \union {Nobody}]]
      BY <3>2
    <3> QED
      BY <3>1, <3>3, <3>4 DEF table, input
  <2>9. ASSUME NEW r \in Request, Crash(r) PROVE Inv'
    BY <2>9 DEF Crash, Goto, input, table
  <2>10. CASE Cleanup
    BY <2>10 DEF Cleanup, DeleteRows, input
  <2>11. CASE Tick
    BY <2>11 DEF Tick, input, Claimed, Expired
  <2>12. CASE UNCHANGED vars
    BY <2>12 DEF vars
  <2> QED
    BY <2>1, <2>2, <2>3, <2>4, <2>5, <2>6, <2>7, <2>8, <2>9, <2>10, <2>11, <2>12
       DEF Next, Serve
<1> QED
  BY <1>1, <1>2, PTL DEF Spec

-----------------------------------------------------------------------------
(* The inductive invariant *)

\* A row that is gone has run its time and holds no response.
FreeKeysAreOld ==
    \A k \in Key : owner[k] = Nobody => age[k] = TTL /\ answer[k] = Nobody

\* A call being served owns its row, which is as old as its claim.
RunnersAreTimed ==
    \A r \in Request :
        Claimed(r) => /\ owner[key[r]] = r
                      /\ answer[key[r]] = Nobody
                      /\ elapsed[r] = age[key[r]]

\* A row is of the key its call carries, and holds at most that call's own
\* response, which that call's caller was sent.
RowsAreTheirOwners ==
    \A k \in Key :
        /\ owner[k] # Nobody => /\ key[owner[k]] = k
                               /\ pc[owner[k]] \in Running \union {"done", "dead"}
        /\ answer[k] # Nobody => /\ answer[k] = owner[k]
                                /\ reply[owner[k]].kind = "response"

\* What a call has been sent by the step it is at.
RepliesAreInStep ==
    \A r \in Request :
        /\ pc[r] \in {"idle", "purge", "insert", "load", "next"} =>
             reply[r].kind = "none"
        /\ pc[r] \in {"audited", "complete"} => reply[r].kind = "response"
        /\ reply[r].kind = "response" => reply[r].by = r
        /\ pc[r] = "idle" => key[r] = NoKey

IInv ==
    /\ FreeKeysAreOld
    /\ RunnersAreTimed
    /\ RowsAreTheirOwners
    /\ RepliesAreInStep
    /\ ReplayIsFaithful

LEMMA InitIInv == Init => IInv
  BY ConstantsAssumption
     DEF Init, IInv, FreeKeysAreOld, RunnersAreTimed, RowsAreTheirOwners,
         RepliesAreInStep, ReplayIsFaithful, Claimed, Running

\* Only time connects a running call with its row: because a claimed call is
\* over before the TTL, no purge that looks at the age can take its row.
LEMMA RunningRowsAreFresh ==
    ASSUME TypeOK, RunnersAreTimed, NEW r \in Request, Claimed(r), key[r] \in Key
    PROVE  ~Expired(key[r])
  BY ConstantsAssumption, RunsWithinTTL DEF TypeOK, RunnersAreTimed, Expired

LEMMA StepIInv == TypeOK /\ KeyedSteps /\ IInv /\ [Next]_vars => IInv'
<1> SUFFICES ASSUME TypeOK, KeyedSteps, IInv, [Next]_vars PROVE IInv'
  OBVIOUS
<1>k. \A r \in Request : Claimed(r) => key[r] \in Key /\ ~Expired(key[r])
  BY RunningRowsAreFresh DEF IInv, TypeOK, Claimed
<1>o. \A k \in Key : Expired(k) => age[k] = TTL
  <2> SUFFICES ASSUME NEW k \in Key, Expired(k) PROVE age[k] = TTL
    OBVIOUS
  <2>1. age[k] \in 0 .. TTL
    BY DEF TypeOK
  <2> QED BY <2>1, ConstantsAssumption DEF Expired
<1> USE ConstantsAssumption, RunsWithinTTL
        DEF TypeOK, KeyedSteps, Steps, Running, Claimed, Goto, Send, table, input,
            DeleteRows, Old, IInv, FreeKeysAreOld, RunnersAreTimed, RowsAreTheirOwners,
            RepliesAreInStep, ReplayIsFaithful
<1>1. ASSUME NEW r \in Request, Arrive(r) PROVE IInv'
  BY <1>1 DEF Arrive
<1>2. ASSUME NEW r \in Request, Purge(r) PROVE IInv'
  <2>1. FreeKeysAreOld'
    BY <1>2, <1>o DEF Purge
  <2>2. RunnersAreTimed'
    BY <1>2, <1>k DEF Purge
  <2>3. RowsAreTheirOwners'
    BY <1>2 DEF Purge
  <2>4. RepliesAreInStep' /\ ReplayIsFaithful'
    BY <1>2 DEF Purge
  <2> QED BY <2>1, <2>2, <2>3, <2>4
<1>3. ASSUME NEW r \in Request, Insert(r) PROVE IInv'
  BY <1>3 DEF Insert
<1>4. ASSUME NEW r \in Request, Load(r) PROVE IInv'
  BY <1>4 DEF Load
<1>5. ASSUME NEW r \in Request, Handle(r) PROVE IInv'
  BY <1>5 DEF Handle
<1>6. ASSUME NEW r \in Request, Audit(r) PROVE IInv'
  BY <1>6 DEF Audit
<1>7. ASSUME NEW r \in Request, Complete(r) PROVE IInv'
  BY <1>7 DEF Complete
<1>8. ASSUME NEW r \in Request, StoreFails(r) PROVE IInv'
  BY <1>8 DEF StoreFails
<1>9. ASSUME NEW r \in Request, Crash(r) PROVE IInv'
  BY <1>9 DEF Crash, InProgress
<1>10. CASE Cleanup
  <2>1. FreeKeysAreOld'
    BY <1>10, <1>o DEF Cleanup
  <2>2. RunnersAreTimed'
    BY <1>10, <1>k DEF Cleanup
  <2>3. RowsAreTheirOwners'
    BY <1>10 DEF Cleanup
  <2>4. RepliesAreInStep' /\ ReplayIsFaithful'
    BY <1>10 DEF Cleanup
  <2> QED BY <2>1, <2>2, <2>3, <2>4
<1>11. CASE Tick
  BY <1>11, <1>k DEF Tick, Expired
<1>12. CASE UNCHANGED vars
  BY <1>12 DEF vars
<1> QED
  BY <1>1, <1>2, <1>3, <1>4, <1>5, <1>6, <1>7, <1>8, <1>9, <1>10, <1>11, <1>12
     DEF Next, Serve

THEOREM Inductive == Spec => []IInv
<1>1. TypeOK /\ KeyedSteps /\ IInv /\ [Next]_vars => IInv'
  BY StepIInv
<1> QED
  BY InitIInv, <1>1, Typing, PTL DEF Spec

-----------------------------------------------------------------------------
(* The properties *)

\* A call being served keeps its row to the end, so that CompleteIdempotency,
\* which updates by key alone, fills its own row.
THEOREM RunnerKeeps == Spec => []RunnerKeepsItsRow
<1>1. IInv => RunnerKeepsItsRow
  BY DEF IInv, RunnersAreTimed, RunnerKeepsItsRow
<1> QED
  BY <1>1, Inductive, PTL

\* So two servers never run the handler of one key at once.
COROLLARY OneRunnerPerKey ==
    Spec => [](\A r, q \in Request : Claimed(r) /\ Claimed(q) /\ key[r] = key[q] => r = q)
<1>1. RunnerKeepsItsRow =>
        \A r, q \in Request : Claimed(r) /\ Claimed(q) /\ key[r] = key[q] => r = q
  BY DEF RunnerKeepsItsRow
<1> QED
  BY <1>1, RunnerKeeps, PTL

\* A replay is the response of a handler run for the same key and payload.
THEOREM FaithfulReplays == Spec => []ReplayIsFaithful
<1>1. IInv => ReplayIsFaithful
  BY DEF IInv
<1> QED
  BY <1>1, Inductive, PTL

\* Claims of one key are a TTL apart: the key of a row that is not there has
\* aged for as long as a row lives.
THEOREM SpacedClaims == Spec => ClaimsAreSpaced
<1> DEFINE Spaced ==
      \A r \in Request : ~Claimed(r) /\ Claimed(r)' => age[key[r]'] = TTL
<1>1. TypeOK /\ KeyedSteps /\ IInv /\ [Next]_vars => [Spaced]_vars
  <2> SUFFICES ASSUME TypeOK, KeyedSteps, IInv, [Next]_vars,
                      NEW r \in Request, ~Claimed(r), Claimed(r)'
               PROVE  age[key[r]'] = TTL
    BY DEF Spaced
  <2> USE DEF TypeOK, KeyedSteps, Steps, Running, Claimed, Goto, input, table
  <2>1. ASSUME NEW q \in Request, Insert(q) PROVE age[key[r]'] = TTL
    <3>1. r = q /\ key' = key /\ owner[key[r]] = Nobody
      BY <2>1 DEF Insert
    <3> QED BY <2>1, <3>1 DEF IInv, FreeKeysAreOld, Insert
  <2>2. ASSUME NEW q \in Request,
               \/ Arrive(q) \/ Purge(q) \/ Load(q) \/ Handle(q) \/ Audit(q)
               \/ Complete(q) \/ StoreFails(q) \/ Crash(q)
        PROVE  FALSE
    BY <2>2, ConstantsAssumption
       DEF Arrive, Purge, Load, Handle, Audit, Complete, StoreFails, Crash, InProgress
  <2>3. ASSUME Cleanup \/ Tick \/ UNCHANGED vars PROVE FALSE
    BY <2>3 DEF Cleanup, Tick, vars
  <2> QED BY <2>1, <2>2, <2>3 DEF Next, Serve
<1>2. Spec => [][Spaced]_vars
  BY <1>1, Typing, Inductive, PTL DEF Spec
<1> QED
  BY <1>2 DEF ClaimsAreSpaced

\* A stored response is what the key answers until its row expires.
THEOREM FinalAnswers == Spec => StoredAnswerIsFinal
<1> DEFINE Final ==
      \A k \in Key : answer[k] # Nobody /\ age[k] < TTL =>
                       answer'[k] = answer[k] /\ owner'[k] = owner[k]
<1>1. TypeOK /\ KeyedSteps /\ IInv /\ [Next]_vars => [Final]_vars
  <2> SUFFICES ASSUME TypeOK, KeyedSteps, IInv, [Next]_vars,
                      NEW k \in Key, answer[k] # Nobody, age[k] < TTL
               PROVE  answer'[k] = answer[k] /\ owner'[k] = owner[k]
    BY DEF Final
  <2>1. owner[k] # Nobody
    BY DEF IInv, FreeKeysAreOld
  <2>2. \A r \in Request : Claimed(r) => key[r] # k
    BY DEF IInv, RunnersAreTimed
  <2>3. ~Expired(k)
    BY ConstantsAssumption DEF Expired, TypeOK
  <2> USE DEF TypeOK, KeyedSteps, Goto, Send, input, table, DeleteRows, Old
  <2>4. ASSUME NEW r \in Request, Purge(r)
        PROVE  answer'[k] = answer[k] /\ owner'[k] = owner[k]
    BY <2>3, <2>4 DEF Purge
  <2>5. ASSUME NEW r \in Request, Insert(r)
        PROVE  answer'[k] = answer[k] /\ owner'[k] = owner[k]
    BY <2>1, <2>5 DEF Insert
  <2>6. ASSUME NEW r \in Request, Complete(r)
        PROVE  answer'[k] = answer[k] /\ owner'[k] = owner[k]
    BY <2>2, <2>6, ConstantsAssumption DEF Complete, Claimed, Running
  <2>7. ASSUME NEW r \in Request,
               Arrive(r) \/ Load(r) \/ Handle(r) \/ Audit(r) \/ StoreFails(r) \/ Crash(r)
        PROVE  answer'[k] = answer[k] /\ owner'[k] = owner[k]
    BY <2>7 DEF Arrive, Load, Handle, Audit, StoreFails, Crash
  <2>8. CASE Cleanup
    BY <2>3, <2>8 DEF Cleanup
  <2>9. CASE Tick \/ UNCHANGED vars
    BY <2>9 DEF Tick, vars
  <2> QED BY <2>4, <2>5, <2>6, <2>7, <2>8, <2>9 DEF Next, Serve
<1>2. Spec => [][Final]_vars
  BY <1>1, Typing, Inductive, PTL DEF Spec
<1> QED
  BY <1>2 DEF StoredAnswerIsFinal

-----------------------------------------------------------------------------
(* The middleware implements OncePerKey *)

\* A step that changes neither the rows, nor the keys, nor who is served, nor
\* what callers were told is a stutter of the abstract specification.
LEMMA Stutter ==
    ASSUME UNCHANGED <<owner, answer, key, payload, Serving, Told>>
    PROVE  UNCHANGED Promise!vars
  BY DEF Promise!vars, Settled

LEMMA StepRefines ==
    TypeOK /\ KeyedSteps /\ IInv /\ [Next]_vars => [Promise!Next]_(Promise!vars)
<1> SUFFICES ASSUME TypeOK, KeyedSteps, IInv, [Next]_vars
             PROVE  Promise!Next \/ UNCHANGED Promise!vars
  OBVIOUS
<1>k. \A r \in Request : Claimed(r) => key[r] \in Key /\ ~Expired(key[r])
  BY RunningRowsAreFresh DEF IInv, TypeOK, Claimed
<1> USE ConstantsAssumption
        DEF TypeOK, KeyedSteps, Steps, Kinds, Running, InProgress, Claimed, Goto,
            Send, table, input, DeleteRows, Settled, Serving, Told
<1>1. ASSUME NEW r \in Request, Arrive(r)
      PROVE  Promise!Next \/ UNCHANGED Promise!vars
  <2>1. PICK k \in Key \union {NoKey} : key' = [key EXCEPT ![r] = k]
    BY <1>1 DEF Arrive
  <2>2. key[r] = NoKey /\ reply[r].kind = "none"
    BY <1>1 DEF Arrive, IInv, RepliesAreInStep
  <2>3. Told' = Told /\ Serving' = Serving
    BY <1>1, <2>2 DEF Arrive
  <2>4. CASE k = NoKey
    BY <1>1, <2>1, <2>2, <2>3, <2>4, Stutter DEF Arrive
  <2>5. CASE k \in Key
    <3>1. Promise!Call(r, k)
      BY <1>1, <2>1, <2>2, <2>3, <2>5 DEF Arrive, Promise!Call
    <3> QED BY <3>1, <2>5 DEF Promise!Next
  <2> QED BY <2>4, <2>5
<1>2. ASSUME NEW r \in Request, Purge(r)
      PROVE  Promise!Next \/ UNCHANGED Promise!vars
  <2>1. Told' = Told /\ Serving' = Serving
    BY <1>2 DEF Purge
  <2>2. CASE Expired(key[r])
    <3>1. owner[key[r]] \notin Serving
      BY <1>2, <1>k, <2>2 DEF IInv, RowsAreTheirOwners, Purge
    <3>2. Promise!Forget({key[r]})
      BY <1>2, <2>1, <2>2, <3>1 DEF Purge, Old, Promise!Forget
    <3>3. {key[r]} \in SUBSET Key
      BY <1>2 DEF Purge
    <3>4. \E K \in SUBSET Key : Promise!Forget(K)
      BY <3>2, <3>3 DEF Promise!Forget
    <3> QED BY <3>4 DEF Promise!Next
  <2>3. CASE ~Expired(key[r])
    BY <1>2, <2>1, <2>3, Stutter DEF Purge, Old
  <2> QED BY <2>2, <2>3
<1>3. ASSUME NEW r \in Request, Insert(r)
      PROVE  Promise!Next \/ UNCHANGED Promise!vars
  <2>1. Told' = Told /\ reply[r].kind = "none"
    BY <1>3 DEF Insert, IInv, RepliesAreInStep
  <2>2. CASE owner[key[r]] = Nobody
    <3>1. Promise!Begin(r)
      BY <1>3, <2>1, <2>2 DEF Insert, Promise!Begin, IInv, FreeKeysAreOld
    <3> QED BY <3>1 DEF Promise!Next
  <2>3. CASE owner[key[r]] # Nobody
    <3>1. Serving' = Serving
      BY <1>3, <2>3 DEF Insert
    <3> QED BY <1>3, <2>1, <2>3, <3>1, Stutter DEF Insert
  <2> QED BY <2>2, <2>3
<1>4. ASSUME NEW r \in Request, Load(r)
      PROVE  Promise!Next \/ UNCHANGED Promise!vars
  <2>1. Serving' = Serving /\ r \notin Serving
    BY <1>4 DEF Load
  <2>2. reply[r].kind = "none" /\ Told[r] = Nobody
    BY <1>4 DEF Load, IInv, RepliesAreInStep
  <2>3. CASE Send(r, "replayed", answer[key[r]]) /\ answer[key[r]] # Nobody
             /\ payload[owner[key[r]]] = payload[r]
    <3>1. answer[key[r]] = owner[key[r]]
      BY <1>4, <2>3 DEF IInv, RowsAreTheirOwners, Load
    <3>2. key[r] \in Key /\ answer[key[r]] \in Request
      BY <1>4, <2>3 DEF Load
    <3>3. Told' = [Told EXCEPT ![r] = owner[key[r]]]
      BY <1>4, <2>3, <3>1, <3>2 DEF Load
    <3>4. Promise!Replay(r)
      BY <1>4, <2>1, <2>2, <2>3, <3>2, <3>3 DEF Load, Promise!Replay
    <3> QED BY <3>4 DEF Promise!Next
  <2>4. CASE \E kind \in {"INTERNAL", "IDEMPOTENCY_CONFLICT", "IDEMPOTENCY_IN_FLIGHT"} :
               Send(r, kind, Nobody)
    <3>1. Told' = Told
      BY <1>4, <2>2, <2>4 DEF Load
    <3> QED BY <1>4, <2>1, <3>1, Stutter DEF Load
  <2> QED BY <1>4, <2>3, <2>4 DEF Load
<1>5. ASSUME NEW r \in Request, Handle(r)
      PROVE  Promise!Next \/ UNCHANGED Promise!vars
  <2>1. Serving' = Serving /\ reply[r].kind = "none"
    BY <1>5 DEF Handle, IInv, RepliesAreInStep
  <2>2. CASE key[r] = NoKey
    <3>1. Told' = Told
      BY <1>5, <2>1, <2>2 DEF Handle
    <3> QED BY <1>5, <2>1, <3>1, Stutter DEF Handle
  <2>3. CASE key[r] # NoKey
    <3>1. Promise!Execute(r)
      BY <1>5, <2>1, <2>3 DEF Handle, Promise!Execute
    <3> QED BY <3>1 DEF Promise!Next
  <2> QED BY <2>2, <2>3
<1>6. ASSUME NEW r \in Request, Audit(r)
      PROVE  Promise!Next \/ UNCHANGED Promise!vars
  <2>1. Told' = Told /\ Serving' = Serving
    BY <1>6 DEF Audit
  <2> QED BY <1>6, <2>1, Stutter DEF Audit
<1>7. ASSUME NEW r \in Request, Complete(r)
      PROVE  Promise!Next \/ UNCHANGED Promise!vars
  <2>1. Told' = Told /\ Serving' = Serving \ {r} /\ r \in Serving
    BY <1>7 DEF Complete
  <2>2. Told[r] = r /\ owner[key[r]] = r
    BY <1>7 DEF Complete, IInv, RepliesAreInStep, RunnersAreTimed
  <2>3. Settled' = Settled \union {key[r]}
    BY <1>7, <2>2 DEF Complete
  <2>4. Promise!Finish(r)
    BY <1>7, <2>1, <2>2, <2>3 DEF Complete, Promise!Finish
  <2> QED BY <2>4 DEF Promise!Next
<1>8. ASSUME NEW r \in Request, StoreFails(r) \/ Crash(r)
      PROVE  Promise!Next \/ UNCHANGED Promise!vars
  <2>1. Told' = Told
    BY <1>8 DEF StoreFails, Crash, IInv, RepliesAreInStep
  <2>2. CASE r \in Serving
    <3>1. Promise!Finish(r)
      BY <1>8, <2>1, <2>2 DEF StoreFails, Crash, Promise!Finish
    <3> QED BY <3>1 DEF Promise!Next
  <2>3. CASE r \notin Serving
    <3>1. Serving' = Serving
      BY <1>8, <2>3 DEF StoreFails, Crash
    <3> QED BY <1>8, <2>1, <3>1, Stutter DEF StoreFails, Crash
  <2> QED BY <2>2, <2>3
<1>9. CASE Cleanup
  <2>1. Told' = Told /\ Serving' = Serving
    BY <1>9 DEF Cleanup
  <2>2. \A k \in Old : owner[k] \notin Serving
    BY <1>k DEF IInv, RowsAreTheirOwners, Old
  <2>3. Promise!Forget(Old)
    BY <1>9, <2>1, <2>2 DEF Cleanup, Promise!Forget
  <2>4. Old \in SUBSET Key
    BY DEF Old
  <2>5. \E K \in SUBSET Key : Promise!Forget(K)
    BY <2>3, <2>4 DEF Promise!Forget
  <2> QED BY <2>5 DEF Promise!Next
<1>10. CASE Tick \/ UNCHANGED vars
  <2>1. Told' = Told /\ Serving' = Serving
    BY <1>10 DEF Tick, vars
  <2> QED BY <1>10, <2>1, Stutter DEF Tick, vars
<1> QED
  BY <1>1, <1>2, <1>3, <1>4, <1>5, <1>6, <1>7, <1>8, <1>9, <1>10 DEF Next, Serve

\* The middleware with its statements, failures, stopped servers and purges
\* does nothing OncePerKey does not allow.
THEOREM Refinement == Spec => KeepsPromise
<1>1. Init => Promise!Init
  BY ConstantsAssumption DEF Init, Promise!Init, Settled, Serving, Told, Claimed, Running
<1>2. TypeOK /\ KeyedSteps /\ IInv /\ [Next]_vars => [Promise!Next]_(Promise!vars)
  BY StepRefines
<1>3. Spec => Promise!Spec
  BY <1>1, <1>2, Typing, Inductive, PTL DEF Spec, Promise!Spec
<1> QED
  BY <1>3 DEF KeepsPromise
=============================================================================
