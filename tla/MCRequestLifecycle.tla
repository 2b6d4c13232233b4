------------------------- MODULE MCRequestLifecycle -------------------------
(* The instance of RequestLifecycle for TLC. *)
EXTENDS RequestLifecycle

\* Any of the beta versions enabled.
MCVersionFlags == SUBSET {"beta-1", "beta-2"}

\* Successes that the handlers tell apart, a status below 400 that is no success
\* (304), refusals, a failure.
MCBackendStatuses == {200, 201, 204, 304, 400, 404, 409, 500}
=============================================================================
