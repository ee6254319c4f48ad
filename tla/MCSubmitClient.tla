--------------------------- MODULE MCSubmitClient ---------------------------
(* SubmitClient for TLC: requests that take no time or one unit, tokens     *)
(* without expiry, of one request's length, and of a few.                   *)
EXTENDS SubmitClient

MCLifetimes == {Never, 1, 4}
MCLatencies == {0, 1}
=============================================================================
