--------------------------- MODULE MCRateLimiter ---------------------------
(* Small instances of RateLimiter for TLC. *)
EXTENDS RateLimiter, TLC

CONSTANTS c1, c2, c3, c4

\* Checks on the default limit, as the middleware makes them, beside ones
\* with a limit of their own.
MCOverrides == {0, 2}

CheckSymmetry == Permutations(Checks)
=============================================================================
