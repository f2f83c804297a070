------------------------------- MODULE Cells -------------------------------
(***************************************************************************)
(* The table of cells that routes organizations to data planes             *)
(* (control-plane/internal/cells/cells.go).  A read lock covers a whole    *)
(* look-up and a write lock a whole change.                                *)
(***************************************************************************)
EXTENDS Naturals, Sequences

CONSTANTS
    Cell,       \* names of cells whose Spec is accepted by Register
    Fallback,   \* the ones registered with Default
    Tenant,     \* organizations
    NoCell      \* ErrNoCell

VARIABLES
    names,      \* the registered cells, in the order of registration
    pinned      \* pinned[c]: organizations assigned to cell c

cellsVars == <<names, pinned>>

Registered == {names[i] : i \in DOMAIN names}

CellsTypeOK == names \in Seq(Cell) /\ pinned \in [Cell -> SUBSET Tenant]

CellsInit ==
    /\ names = <<>>
    /\ pinned = [c \in Cell |-> {}]

RegisterCell(c) ==
    /\ c \notin Registered
    /\ names' = Append(names, c)
    /\ UNCHANGED pinned

\* An earlier assignment of the organization to another cell stays.
Assign(t, c) ==
    /\ c \in Registered
    /\ pinned' = [pinned EXCEPT ![c] = @ \union {t}]
    /\ UNCHANGED names

First(suits) ==
    LET at == {i \in DOMAIN names : names[i] \in suits}
    IN  IF at = {} THEN NoCell ELSE names[CHOOSE i \in at : \A j \in at : i <= j]

\* The newest default cell taken.
RouteToNewest(t) ==
    LET at == {i \in DOMAIN names : names[i] \in Fallback}
    IN  IF First({c \in Cell : t \in pinned[c]}) # NoCell
        THEN First({c \in Cell : t \in pinned[c]})
        ELSE IF at = {} THEN NoCell ELSE names[CHOOSE i \in at : \A j \in at : i >= j]

RouteForOrg(t) ==
    IF First({c \in Cell : t \in pinned[c]}) # NoCell
    THEN First({c \in Cell : t \in pinned[c]})
    ELSE First(Fallback)

CellsNext ==
    \/ \E c \in Cell : RegisterCell(c)
    \/ \E t \in Tenant, c \in Cell : Assign(t, c)

CellsSpec == CellsInit /\ [][CellsNext]_cellsVars

-----------------------------------------------------------------------------

\* A step that moves an organization is its own assignment.
RouteIsKept ==
    \A t \in Tenant : RouteForOrg(t) # NoCell /\ RouteForOrg(t)' # RouteForOrg(t) =>
       \E c \in Cell : t \in pinned'[c] \ pinned[c] /\ RouteForOrg(t)' = c

\* An organization that has a cell keeps it, whatever cells are registered
\* later, as default or not; only its own assignment moves it, and then to the
\* cell it is assigned to (RouteForOrg).  An assignment need not move it: Assign
\* "pins one organization onto a cell explicitly" (cells.go), and keeps the pin on
\* an earlier cell, which RouteForOrg finds first.
RoutesAreStable == [][RouteIsKept]_cellsVars
=============================================================================
