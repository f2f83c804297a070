--------------------------- MODULE GitHubBinding ---------------------------
(***************************************************************************)
(* The OAuth binding of an account to GitHub                               *)
(* (control-plane/internal/auth/github.go, github_handlers.go).  GitHub    *)
(* itself is external: an exchange succeeds or fails.  What seals the      *)
(* token is kms.go; only the user a sealed token is stored for matters.    *)
(***************************************************************************)

CONSTANTS
    Owner,      \* users
    State,      \* OAuth states ever drawn (a bound on their number)
    Worker,     \* callbacks a server works on at a time
    None        \* no user or no state

VARIABLES
    issued,     \* issued[s]: the user of the row of s in oauth_states, or None
    started,    \* started[s]: the user s was drawn for, kept for ever
    github,     \* github[u]: the state whose exchange gave u's sealed token
    swap        \* swap[w]: the state whose code w swaps, or None

vars == <<issued, started, github, swap>>

TypeOK ==
    /\ issued \in [State -> Owner \union {None}]
    /\ started \in [State -> Owner \union {None}]
    /\ github \in [Owner -> State \union {None}]
    /\ swap \in [Worker -> State \union {None}]

Init ==
    /\ issued = [s \in State |-> None]
    /\ started = [s \in State |-> None]
    /\ github = [u \in Owner |-> None]
    /\ swap = [w \in Worker |-> None]

Begin(u, s) ==
    /\ started[s] = None
    /\ issued' = [issued EXCEPT ![s] = u]
    /\ started' = [started EXCEPT ![s] = u]
    /\ UNCHANGED <<github, swap>>

ExchangeKeepsRow(w, s) ==
    /\ swap[w] = None
    /\ issued[s] # None
    /\ swap' = [swap EXCEPT ![w] = s]
    /\ UNCHANGED <<issued, started, github>>

\* The row is deleted before GitHub is asked.  The bearer of the callback was
\* checked and is not compared with the user of the row.
Exchange(w, s) ==
    /\ swap[w] = None
    /\ issued[s] # None
    /\ issued' = [issued EXCEPT ![s] = None]
    /\ swap' = [swap EXCEPT ![w] = s]
    /\ UNCHANGED <<started, github>>

StoreBinding(w) ==
    /\ swap[w] # None
    /\ github' = [github EXCEPT ![started[swap[w]]] = swap[w]]
    /\ swap' = [swap EXCEPT ![w] = None]
    /\ UNCHANGED <<issued, started>>

\* GitHub refuses, answers without a token, or the server stops: the state is
\* used up and the binding is what it was.
Fail(w) ==
    /\ swap[w] # None
    /\ swap' = [swap EXCEPT ![w] = None]
    /\ UNCHANGED <<issued, started, github>>

\* DELETE /v1/github/binding; a callback under way may bind again.
ClearBinding(u) ==
    /\ github' = [github EXCEPT ![u] = None]
    /\ UNCHANGED <<issued, started, swap>>

\* Ten minutes pass.
StateExpires(s) ==
    /\ issued' = [issued EXCEPT ![s] = None]
    /\ UNCHANGED <<started, github, swap>>

Next ==
    \/ \E u \in Owner, s \in State : Begin(u, s)
    \/ \E w \in Worker, s \in State : Exchange(w, s)
    \/ \E w \in Worker : StoreBinding(w) \/ Fail(w)
    \/ \E u \in Owner : ClearBinding(u)
    \/ \E s \in State : StateExpires(s)

Spec == Init /\ [][Next]_vars

-----------------------------------------------------------------------------

\* A state opens one binding at most, of the user it was drawn for: while its
\* code is swapped no second callback can take it, and once its binding is
\* stored (and perhaps cleared) no callback stores it again.
StateBindsOnce ==
    /\ \A u \in Owner : github[u] # None =>
           started[github[u]] = u /\ issued[github[u]] = None
    /\ \A w \in Worker : swap[w] # None =>
           /\ issued[swap[w]] = None
           /\ \A x \in Worker : swap[x] = swap[w] => x = w
           /\ \A u \in Owner : github[u] # swap[w]
=============================================================================
