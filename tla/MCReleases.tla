----------------------------- MODULE MCReleases -----------------------------
(* The instance of Releases that TLC checks; the configurations give the    *)
(* ids, the clients and the images.                                         *)
EXTENDS Releases, TLC

CONSTANTS c1, c2, i1, i2

\* Clients are alike, and so are images: the run that uses this checks safety only.
ClientsAndImages == Permutations({c1, c2}) \union Permutations({i1, i2})
=============================================================================
