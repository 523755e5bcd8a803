------------------------------- MODULE Backoff ------------------------------
(***************************************************************************)
(* exponential_backoff_seconds of app/logic/utils.py with its defaults,    *)
(* which both of its callers use: base 1.0 s, factor 5.0.                  *)
(***************************************************************************)
EXTENDS Integers

Backoff(retry_count) == IF retry_count <= 0 THEN 1 ELSE 5 ^ (retry_count - 1)
=============================================================================
