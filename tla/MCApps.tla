------------------------------- MODULE MCApps -------------------------------
(***************************************************************************)
(* The instance of Apps that shows two creations under one ceiling, and    *)
(* what a creation is told that met nobody: made[c] says that an           *)
(* application was created by another call while c was under way.          *)
(***************************************************************************)
EXTENDS Apps, TLC

VARIABLE made

Making ==
    LET creators == {c \in Task : todo[c] = "insert" /\ answer'[c] = "created"}
    IN  made' = [c \in Task |-> todo'[c] # "idle" /\ (made[c] \/ creators \ {c} # {})]

MakingSpec == /\ AppsInit /\ made = [c \in Task |-> FALSE]
              /\ [][AppsNext /\ Making]_<<appsVars, made>>

\* An insert without a row is told of a race when "a concurrent creation won the
\* race" (classifyCreateRejection, store.go:134-136).
RaceIsDue ==
    [][\A c \in Task :
           todo[c] = "classifyCount" /\ answer'[c] = "race" => made[c]]_<<appsVars, made>>

Symmetry == Permutations(App) \union Permutations(Name) \union Permutations(Task)
=============================================================================
