----------------------------- MODULE ReleaseLog -----------------------------
(***************************************************************************)
(* What the release history of the control plane amounts to, seen from     *)
(* outside: one log of images per deployment that only grows at its end,   *)
(* and rollbacks that put an earlier entry at the end again.               *)
(***************************************************************************)
EXTENDS Naturals

CONSTANTS Deployment, Client, Image, NoImage, MaxRevision

VARIABLES
    entry,      \* entry[d][n]: the n-th entry of the log of d
    length,     \* length[d]: how many entries the log of d has
    told        \* told[c]: what c was last told of a rollback

logs == <<entry, length>>
vars == <<entry, length, told>>

Untold == [of |-> 0, to |-> 0, as |-> 0]

Init ==
    /\ entry = [d \in Deployment |-> [n \in 1 .. MaxRevision |-> NoImage]]
    /\ length = [d \in Deployment |-> 0]
    /\ told = [c \in Client |-> Untold]

Write(d, i) ==
    /\ length[d] < MaxRevision
    /\ entry' = [entry EXCEPT ![d][length[d] + 1] = i]
    /\ length' = [length EXCEPT ![d] = @ + 1]

\* A new image is released.
Release(d) ==
    /\ \E i \in Image : Write(d, i)
    /\ UNCHANGED told

\* The entry to, neither the last one nor one still to come, is released again.
Rollback(c, d, to) ==
    /\ to < length[d]
    /\ Write(d, entry[d][to])
    /\ told' = [told EXCEPT ![c] = [of |-> d, to |-> to, as |-> length[d] + 1]]

\* A client has something else to do.
Forget(c) ==
    /\ told' = [told EXCEPT ![c] = Untold]
    /\ UNCHANGED logs

Next ==
    \/ \E d \in Deployment : Release(d)
    \/ \E c \in Client, d \in Deployment, n \in 1 .. MaxRevision : Rollback(c, d, n)
    \/ \E c \in Client : Forget(c)

Spec == Init /\ [][Next]_vars
=============================================================================
