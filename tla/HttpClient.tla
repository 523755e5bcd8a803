----------------------------- MODULE HttpClient -----------------------------
(***************************************************************************)
(* HttpClient.post of app/infra/http.py: what the caller of a webhook POST *)
(* observes.  A result is an HTTP status code, or one of two codes below   *)
(* 100 for a request that got no response.                                 *)
(***************************************************************************)
EXTENDS Naturals

NetworkError == 0     \* httpx.RequestError: refused, reset, timed out
InvalidUrl   == 1     \* httpx.InvalidURL, which is not a RequestError

RETRYABLE_STATUSES == {408, 425, 429}

RaiseForStatus(code) ==
  CASE code \in 200..299                            -> "none"
    [] code \in RETRYABLE_STATUSES \/ code >= 500   -> "HttpRetryableError"
    [] OTHER                                        -> "HttpPermanentError"

Post(code) ==
  CASE code = NetworkError -> "HttpRetryableError"
    [] code = InvalidUrl   -> "InvalidURL"
    [] OTHER               -> RaiseForStatus(code)

(* Did the receiver get the body?  A timed-out request may have arrived.   *)
MayHaveArrived(code) ==
  CASE code = NetworkError -> {TRUE, FALSE}
    [] code = InvalidUrl   -> {FALSE}
    [] OTHER               -> {TRUE}
=============================================================================
