--------------------------- MODULE MCIdempotency ---------------------------
(* The instance of Idempotency that TLC checks: MCIdempotency.cfg gives the *)
(* constants, and the assumption MaxRun < TTL is evaluated with them.       *)
EXTENDS Idempotency
=============================================================================
