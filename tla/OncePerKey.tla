----------------------------- MODULE OncePerKey -----------------------------
(***************************************************************************)
(* What the Idempotency-Key middleware promises its callers, without       *)
(* statements, expiry times or failures: a key belongs to one call at a    *)
(* time, the others of that key are told what that call was told or        *)
(* nothing, and a key is given up only when nobody works on it.            *)
(***************************************************************************)
CONSTANTS Request, Key, Payload, NoKey, Nobody

VARIABLES
    key,        \* the key a call carries
    payload,    \* the payload a call carries
    holder,     \* holder[k]: the call that holds k
    settled,    \* the keys whose holder left its response
    serving,    \* the calls being served under their key
    told        \* told[r]: the call whose response the caller of r got

vars == <<key, payload, holder, settled, serving, told>>

Init ==
    /\ key = [r \in Request |-> NoKey]
    /\ payload \in [Request -> Payload]
    /\ holder = [k \in Key |-> Nobody]
    /\ settled = {}
    /\ serving = {}
    /\ told = [r \in Request |-> Nobody]

\* A caller picks its key.
Call(r, k) ==
    /\ key[r] = NoKey
    /\ key' = [key EXCEPT ![r] = k]
    /\ UNCHANGED <<payload, holder, settled, serving, told>>

\* A call takes a free key.
Begin(r) ==
    /\ told[r] = Nobody
    /\ key[r] \in Key
    /\ holder[key[r]] = Nobody
    /\ holder' = [holder EXCEPT ![key[r]] = r]
    /\ serving' = serving \union {r}
    /\ UNCHANGED <<key, payload, settled, told>>

\* The holder's handler answers it, once.
Execute(r) ==
    /\ r \in serving
    /\ told[r] = Nobody
    /\ told' = [told EXCEPT ![r] = r]
    /\ UNCHANGED <<key, payload, holder, settled, serving>>

\* The call ends and leaves its response if it has one, or leaves nothing.
Finish(r) ==
    /\ r \in serving
    /\ serving' = serving \ {r}
    /\ \/ told[r] = r /\ settled' = settled \union {key[r]}
       \/ UNCHANGED settled
    /\ UNCHANGED <<key, payload, holder, told>>

\* Another call of the same key and payload is told what the holder was told.
Replay(r) ==
    /\ told[r] = Nobody
    /\ r \notin serving
    /\ key[r] \in settled
    /\ payload[holder[key[r]]] = payload[r]
    /\ told' = [told EXCEPT ![r] = holder[key[r]]]
    /\ UNCHANGED <<key, payload, holder, settled, serving>>

\* Keys are given up, none of them one that is being worked on.
Forget(K) ==
    /\ \A k \in K : holder[k] \notin serving
    /\ holder' = [k \in Key |-> IF k \in K THEN Nobody ELSE holder[k]]
    /\ settled' = settled \ K
    /\ UNCHANGED <<key, payload, serving, told>>

Next ==
    \/ \E r \in Request :
         \/ \E k \in Key : Call(r, k)
         \/ Begin(r) \/ Execute(r) \/ Finish(r) \/ Replay(r)
    \/ \E K \in SUBSET Key : Forget(K)

Spec == Init /\ [][Next]_vars
=============================================================================
